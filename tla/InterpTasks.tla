----------------------------- MODULE InterpTasks -----------------------------
(***************************************************************************)
(* spawn, await and nursery of the tree-walking interpreter                *)
(* (runtime/concurrent.c, NODE_SPAWN, NODE_AWAIT and NODE_NURSERY of       *)
(* runtime/interp.c).                                                      *)
(*                                                                         *)
(* All threads evaluate with ONE Interp.  Its current scope (i->env), its  *)
(* control-flow signal (i->cf) and its nursery queue are therefore shared: *)
(* a task saves them when it starts and puts them back when it ends, and   *)
(* nothing saves them when a thread gives up the GIL in between.           *)
(*                                                                         *)
(* Thread 0 is the main program, task t runs on thread t.                  *)
(***************************************************************************)
EXTENDS Naturals, Sequences, FiniteSets, SequencesExt

CONSTANTS
  MaxTasks,      \* bound on the tasks ever spawned
  MaxNurseries,  \* bound on the nursery blocks ever entered
  MaxBoth,       \* bound on both together, where a task counts for two blocks
  None           \* no signal, no thread

ASSUME InterpTasksAssumption ==
  /\ MaxTasks \in Nat
  /\ MaxNurseries \in Nat
  /\ MaxBoth \in Nat
  /\ None \notin Nat \cup {"throw", "Cancelled"}

Main == 0
Tasks == 1..MaxTasks
Threads == 0..MaxTasks
Queues == 1..MaxNurseries
Signals == {"throw", "Cancelled"}

VARIABLES
  gil,        \* holder of the GIL
  pc,         \* where each thread is
  env,        \* i->env: the thread whose scope is current
  cf,         \* i->cf: the pending throw
  queue,      \* i->nursery_queue: the nursery whose array it is, 0 for NULL
  items,      \* the futures in each of these arrays
  freed,      \* the arrays that were released
  spawned,    \* g_next_task_id - 1
  nurseries,  \* g_next_nursery_id - 1
  done,       \* t->done
  error,      \* t->error
  cancelled,  \* t->cancelled
  nid,        \* t->nursery_id
  tls,        \* tls_nursery_id of each thread
  saved,      \* per task: the scope and signal it found when it started
  open,       \* per thread: its open NODE_NURSERY activations
  real,       \* per thread: real_err of the activation that joins
  next,       \* per thread: j, the loop counter of that activation
  target,     \* the task a thread waits for in xs_await_task_ex
  got,        \* the error xs_await_task_ex handed over
  threw,      \* history: the thread's own throw is under way
  block,      \* history: the tasks each open nursery block spawned
  failed,     \* history: tasks that ended with an error
  suspended   \* history: a task gave up the GIL before its end

interp == <<env, cf, queue, items, freed>>
record == <<done, error, cancelled, nid>>
local == <<tls, saved, open, real, next, target, got>>
history == <<threw, block, failed, suspended>>
vars == <<gil, pc, interp, spawned, nurseries, record, local, history>>

PCs == {"none", "new", "run", "sleep", "join", "wait", "took", "retire", "gone",
        "drain", "drain_wait", "exit"}

Init ==
  /\ gil = Main
  /\ pc = [p \in Threads |-> IF p = Main THEN "run" ELSE "none"]
  /\ env = Main /\ cf = None /\ queue = 0
  /\ items = [q \in Queues |-> <<>>]
  /\ freed = {}
  /\ spawned = 0 /\ nurseries = 0
  /\ done = [t \in Tasks |-> FALSE]
  /\ error = [t \in Tasks |-> None]
  /\ cancelled = [t \in Tasks |-> FALSE]
  /\ nid = [t \in Tasks |-> 0]
  /\ tls = [p \in Threads |-> 0]
  /\ saved = [t \in Tasks |-> [env |-> Main, cf |-> None]]
  /\ open = [p \in Threads |-> <<>>]
  /\ real = [p \in Threads |-> None]
  /\ next = [p \in Threads |-> 1]
  /\ target = [p \in Threads |-> None]
  /\ got = [p \in Threads |-> None]
  /\ threw = [p \in Threads |-> FALSE]
  /\ block = [p \in Threads |-> <<>>]
  /\ failed = {}
  /\ suspended = FALSE

(* The thread evaluates; with a signal pending it only unwinds. *)
Evaluating(p) == gil = p /\ pc[p] = "run"
Running(p) == Evaluating(p) /\ cf = None
Unwinding(p) == Evaluating(p) /\ cf # None

Goto(p, where) == pc' = [pc EXCEPT ![p] = where]
TakeGil(p) == gil = None /\ gil' = p

(* xs_gil_release in the middle of a body. *)
DropGil(p) == gil' = None /\ suspended' = (suspended \/ p # Main)

(* s with e in the place of its last element. *)
SetLast(s, e) == [s EXCEPT ![Len(s)] = e]

-----------------------------------------------------------------------------
(* The id the next task gets. *)
NewTask == spawned + 1

(* NODE_SPAWN and xs_spawn_thread.  The future goes to whatever queue is   *)
(* current; a queue that was released must not be written to.              *)
Spawn(p) ==
  /\ Running(p)
  /\ spawned < MaxTasks /\ 2 * NewTask + nurseries <= MaxBoth
  /\ queue \notin freed
  /\ spawned' = NewTask
  /\ nid' = [nid EXCEPT ![NewTask] = tls[p]]
  /\ items' = IF queue = 0 THEN items
              ELSE [items EXCEPT ![queue] = Append(@, NewTask)]
  /\ Goto(NewTask, "new")
  /\ block' = IF block[p] = <<>> THEN block
              ELSE [block EXCEPT ![p] = SetLast(@, Last(@) \cup {NewTask})]
  /\ UNCHANGED <<gil, env, cf, queue, freed, nurseries, done, error, cancelled, local, threw,
                 failed, suspended>>

(* thread_entry and call_value: save, clear, switch to the task's scope. *)
Enter(t) ==
  /\ saved' = [saved EXCEPT ![t] = [env |-> env, cf |-> cf]]
  /\ env' = t
  /\ cf' = None

StartTask(t) ==
  /\ pc[t] = "new"
  /\ TakeGil(t)
  /\ Enter(t)
  /\ tls' = [tls EXCEPT ![t] = nid[t]]
  /\ Goto(t, "run")
  /\ UNCHANGED <<queue, items, freed, spawned, nurseries, record, open, real, next, target, got,
                 history>>

(* Mutant: the scope of the caller is not restored. *)
LeaveScope(t) ==
  /\ cf' = saved[t].cf
  /\ UNCHANGED env

(* What a task found is put back, whatever has happened meanwhile. *)
Leave(t) ==
  /\ env' = saved[t].env
  /\ cf' = saved[t].cf

(* The body ended, by itself or with a throw nobody caught: the signal is  *)
(* captured, the record is published.                                      *)
EndTask(t) ==
  /\ Evaluating(t)
  /\ open[t] = <<>>
  /\ Leave(t)
  /\ done' = [done EXCEPT ![t] = TRUE]
  /\ error' = [error EXCEPT ![t] = cf]
  /\ failed' = IF cf = None THEN failed ELSE failed \cup {t}
  /\ threw' = [threw EXCEPT ![t] = FALSE]
  /\ Goto(t, "retire")
  /\ UNCHANGED <<gil, queue, items, freed, spawned, nurseries, cancelled, nid, local, block,
                 suspended>>

(* mark_siblings_cancelled_locked. *)
Siblings(t) == {u \in 1..spawned : u # t /\ nid[u] = nid[t] /\ nid[t] # 0 /\ ~done[u]}

Retire(t) ==
  /\ pc[t] = "retire"
  /\ cancelled' = IF t \notin failed THEN cancelled
                  ELSE [u \in Tasks |-> cancelled[u] \/ u \in Siblings(t)]
  /\ gil' = None
  /\ Goto(t, "gone")
  /\ UNCHANGED <<interp, spawned, nurseries, done, error, nid, local, history>>

-----------------------------------------------------------------------------
(* xs_await_task_ex; NODE_AWAIT passes no err_out, NODE_NURSERY does. *)

(* Mutant: the GIL is kept during the wait. *)
WaitWithGil(p, t) ==
  /\ UNCHANGED <<gil, suspended>>
  /\ target' = [target EXCEPT ![p] = t]
  /\ Goto(p, "wait")

WaitFor(p, t) ==
  /\ DropGil(p)
  /\ target' = [target EXCEPT ![p] = t]
  /\ Goto(p, "wait")

Await(p) ==
  /\ Running(p)
  /\ \E t \in 1..spawned : WaitFor(p, t)
  /\ UNCHANGED <<interp, spawned, nurseries, record, tls, saved, open, real, next, got, threw,
                 block, failed>>

Joining(p) == open[p] # <<>> /\ Last(open[p]).joining

JoinTakes(p) ==
  error' = IF Joining(p) THEN [error EXCEPT ![target[p]] = None] ELSE error

TakeResult(p) ==
  /\ pc[p] = "wait"
  /\ done[target[p]]
  /\ got' = [got EXCEPT ![p] = IF Joining(p) THEN error[target[p]] ELSE None]
  /\ JoinTakes(p)
  /\ Goto(p, "took")
  /\ UNCHANGED <<gil, interp, spawned, nurseries, done, cancelled, nid, tls, saved, open, real,
                 next, target, history>>

(* The first error that is not Cancelled is kept. *)
FirstError(p) == IF real[p] = None /\ got[p] = "throw" THEN "throw" ELSE real[p]

Resume(p) ==
  /\ pc[p] = "took"
  /\ TakeGil(p)
  /\ IF Joining(p)
     THEN /\ real' = [real EXCEPT ![p] = FirstError(p)]
          /\ next' = [next EXCEPT ![p] = @ + 1]
          /\ Goto(p, "join")
     ELSE Goto(p, "run") /\ UNCHANGED <<real, next>>
  /\ got' = [got EXCEPT ![p] = None]
  /\ target' = [target EXCEPT ![p] = None]
  /\ UNCHANGED <<interp, spawned, nurseries, record, tls, saved, open, history>>

-----------------------------------------------------------------------------
(* NODE_NURSERY. *)

(* What NODE_NURSERY keeps in its C locals when it begins. *)
Activation(p) == [q |-> nurseries + 1, queue |-> queue, tls |-> tls[p], joining |-> FALSE]

NurseryBegin(p) ==
  /\ Running(p)
  /\ nurseries < MaxNurseries /\ 2 * spawned + nurseries < MaxBoth
  /\ nurseries' = nurseries + 1
  /\ open' = [open EXCEPT ![p] = Append(@, Activation(p))]
  /\ tls' = [tls EXCEPT ![p] = nurseries + 1]
  /\ queue' = nurseries + 1
  /\ block' = [block EXCEPT ![p] = Append(@, {})]
  /\ UNCHANGED <<gil, pc, env, cf, items, freed, spawned, record, saved, real, next, target, got,
                 threw, failed, suspended>>

(* The activation a after its body. *)
InJoin(a) == [a EXCEPT !.joining = TRUE]

RestoreQueue(p) == queue' = Last(open[p]).queue

(* The body is over, also when it threw: the queue the block found is put  *)
(* back before the tasks are joined.                                       *)
NurseryBody(p) ==
  /\ Evaluating(p)
  /\ open[p] # <<>>
  /\ RestoreQueue(p)
  /\ tls' = [tls EXCEPT ![p] = Last(open[p]).tls]
  /\ open' = [open EXCEPT ![p] = SetLast(@, InJoin(Last(@)))]
  /\ real' = [real EXCEPT ![p] = None]
  /\ next' = [next EXCEPT ![p] = 1]
  /\ Goto(p, "join")
  /\ UNCHANGED <<gil, env, cf, items, freed, spawned, nurseries, record, saved, target, got,
                 history>>

Tasks_of(p) == items[Last(open[p]).q]

(* Mutant: the last future is not awaited. *)
JoinOverEarly(p) == next[p] >= Len(Tasks_of(p))

JoinOver(p) == next[p] > Len(Tasks_of(p))

JoinNext(p) ==
  /\ pc[p] = "join"
  /\ ~JoinOver(p)
  /\ WaitFor(p, Tasks_of(p)[next[p]])
  /\ UNCHANGED <<interp, spawned, nurseries, record, tls, saved, open, real, next, got, threw,
                 block, failed>>

(* The array is released, and the error of a task becomes the signal. *)
NurseryLeave(p) ==
  /\ pc[p] = "join"
  /\ JoinOver(p)
  /\ freed' = freed \cup {Last(open[p]).q}
  /\ cf' = IF real[p] # None THEN real[p] ELSE cf
  /\ threw' = [threw EXCEPT ![p] = @ \/ real[p] # None]
  /\ real' = [real EXCEPT ![p] = None]
  /\ next' = [next EXCEPT ![p] = 1]
  /\ open' = [open EXCEPT ![p] = Front(@)]
  /\ block' = [block EXCEPT ![p] = Front(@)]
  /\ Goto(p, "run")
  /\ UNCHANGED <<gil, env, queue, items, spawned, nurseries, record, tls, saved, target, got,
                 failed, suspended>>

-----------------------------------------------------------------------------
(* What the code of a thread does otherwise. *)

Throw(p) ==
  /\ Running(p)
  /\ cf' = "throw"
  /\ threw' = [threw EXCEPT ![p] = TRUE]
  /\ UNCHANGED <<gil, pc, env, queue, items, freed, spawned, nurseries, record, local, block,
                 failed, suspended>>

(* NODE_TRY: whatever the signal is, it is taken and cleared. *)
Catch(p) ==
  /\ Unwinding(p)
  /\ cf' = None
  /\ threw' = [threw EXCEPT ![p] = FALSE]
  /\ UNCHANGED <<gil, pc, env, queue, items, freed, spawned, nurseries, record, local, block,
                 failed, suspended>>

(* time.sleep: on return a cancelled task throws Cancelled. *)
Sleep(p) ==
  /\ Running(p)
  /\ DropGil(p)
  /\ Goto(p, "sleep")
  /\ UNCHANGED <<interp, spawned, nurseries, record, local, threw, block, failed>>

SleepEnd(p) ==
  /\ pc[p] = "sleep"
  /\ TakeGil(p)
  /\ \/ p \in Tasks /\ cancelled[p] /\ cf' = "Cancelled" /\ threw' = [threw EXCEPT ![p] = TRUE]
     \/ ~(p \in Tasks /\ cancelled[p]) /\ UNCHANGED <<cf, threw>>
  /\ Goto(p, "run")
  /\ UNCHANGED <<env, queue, items, freed, spawned, nurseries, record, local, block, failed,
                 suspended>>

-----------------------------------------------------------------------------
(* The main script ends, and xs_drain_interp_tasks waits for the tasks.    *)

EndMain ==
  /\ Evaluating(Main)
  /\ open[Main] = <<>>
  /\ cf' = None
  /\ threw' = [threw EXCEPT ![Main] = FALSE]
  /\ Goto(Main, "drain")
  /\ UNCHANGED <<gil, env, queue, items, freed, spawned, nurseries, record, local, block, failed,
                 suspended>>

Undone == {t \in 1..spawned : ~done[t]}

(* Mutant: only the newest task is looked at. *)
NewestUndone(t) == t = spawned /\ ~done[t]

(* The scan starts at the head of the list, the newest task. *)
FirstUndone(t) == t \in Undone /\ \A u \in Undone : u <= t

Drain ==
  /\ pc[Main] = "drain" /\ gil = Main
  /\ \E t \in 1..spawned : FirstUndone(t) /\ target' = [target EXCEPT ![Main] = t]
  /\ gil' = None
  /\ Goto(Main, "drain_wait")
  /\ UNCHANGED <<interp, spawned, nurseries, record, tls, saved, open, real, next, got, history>>

DrainWake ==
  /\ pc[Main] = "drain_wait"
  /\ done[target[Main]]
  /\ TakeGil(Main)
  /\ target' = [target EXCEPT ![Main] = None]
  /\ Goto(Main, "drain")
  /\ UNCHANGED <<interp, spawned, nurseries, record, tls, saved, open, real, next, got, history>>

DrainEnd ==
  /\ pc[Main] = "drain" /\ gil = Main
  /\ \A t \in 1..spawned : ~FirstUndone(t)
  /\ Goto(Main, "exit")
  /\ UNCHANGED <<gil, interp, spawned, nurseries, record, local, history>>

Exited == pc[Main] = "exit" /\ UNCHANGED vars

-----------------------------------------------------------------------------
Next ==
  \/ \E p \in Threads :
       \/ Spawn(p) \/ Await(p) \/ TakeResult(p) \/ Resume(p)
       \/ NurseryBegin(p) \/ NurseryBody(p) \/ JoinNext(p) \/ NurseryLeave(p)
       \/ Throw(p) \/ Catch(p) \/ Sleep(p) \/ SleepEnd(p)
  \/ \E t \in Tasks : StartTask(t) \/ EndTask(t) \/ Retire(t)
  \/ EndMain \/ Drain \/ DrainWake \/ DrainEnd \/ Exited

Spec == Init /\ [][Next]_vars

-----------------------------------------------------------------------------
(* Properties. *)

TypeOK ==
  /\ gil \in Threads \cup {None}
  /\ pc \in [Threads -> PCs]
  /\ env \in Threads /\ cf \in Signals \cup {None} /\ queue \in 0..MaxNurseries
  /\ items \in [Queues -> Seq(Tasks)] /\ freed \subseteq Queues
  /\ done \in [Tasks -> BOOLEAN] /\ cancelled \in [Tasks -> BOOLEAN]
  /\ error \in [Tasks -> Signals \cup {None}]
  /\ nid \in [Tasks -> 0..MaxNurseries] /\ tls \in [Threads -> 0..MaxNurseries]
  /\ saved \in [Tasks -> [env : Threads, cf : Signals \cup {None}]]
  /\ open \in [Threads -> Seq([q : Queues, queue : 0..MaxNurseries, tls : 0..MaxNurseries,
                               joining : BOOLEAN])]
  /\ real \in [Threads -> {"throw", None}]
  /\ got \in [Threads -> Signals \cup {None}]
  /\ target \in [Threads -> Tasks \cup {None}]

(* What of the shared Interp belongs to whom, as long as no task has given *)
(* up the GIL before its end.  A thread resolves names in its own scope.   *)
ScopeIsMine == \A p \in Threads : Evaluating(p) => env = p

(* It unwinds when it has thrown, and only then.                           *)
SignalIsMine == \A p \in Threads : Evaluating(p) => (cf # None <=> threw[p])

(* Spawns never reach a nursery queue that was released.                   *)
QueueAlive == queue \notin freed

(* The Interp, "shared with main; protected by GIL" (ThreadArg), is the    *)
(* running thread's own in all three respects, through tasks that start,   *)
(* throw, spawn and end in the middle of others ("the spawned task must    *)
(* not poison" them, thread_entry).  Once two tasks have slept or awaited, *)
(* they come back in each other's scope: without the premise each of the   *)
(* three is violated.                                                      *)
InterpIsMine ==
  /\ TypeOK
  /\ ~suspended => ScopeIsMine /\ SignalIsMine /\ QueueAlive

(* Going past the end of a nursery block means that every task the block   *)
(* spawned has finished ("when the body completes we await each task",     *)
(* NODE_NURSERY), while no task was suspended with the queue it found.     *)
NurseryJoinsOwn ==
  [][~suspended =>
       \A p \in Threads : pc[p] = "join" /\ pc'[p] = "run" =>
         \A t \in Last(block[p]) : done[t]]_vars

(* A task is cancelled only because a task of the same nursery failed. *)
CancelledBySibling ==
  \A t \in Tasks : cancelled[t] =>
    \E u \in failed \ {t} : nid[u] = nid[t] /\ nid[t] # 0

(* At exit no worker is left that could use the interpreter about to be    *)
(* freed ("they share its Interp* and would deref freed state", main.c).   *)
DrainLeavesNobody ==
  pc[Main] = "exit" =>
    \A t \in Tasks : pc[t] \in {"none", "gone"} /\ (t <= spawned => done[t])

(* Threads that wait for each other. *)
Circle ==
  \E S \in SUBSET Threads : S # {} /\ \A p \in S : pc[p] = "wait" /\ target[p] \in S

(* Only a program that awaits, or joins, in a circle comes to a standstill: the    *)
(* GIL is let go of in every wait, and the end of a task is always seen.           *)
OnlyCirclesStop == Circle \/ ENABLED Next
=============================================================================
