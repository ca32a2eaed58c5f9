------------------------------- MODULE VMTasks -------------------------------
(***************************************************************************)
(* spawn, await and nursery of the bytecode VM (vm/vm_thread.c and the     *)
(* OP_SPAWN, OP_AWAIT and OP_NURSERY_* cases of vm/vm.c).                  *)
(*                                                                         *)
(* Thread 0 is the main program; task t runs on thread t.  A thread runs   *)
(* XS code only while it holds the GIL.  The record of a task is guarded   *)
(* by a mutex of its own that is never held across a wait, so each of its  *)
(* critical sections is one step.  What a program does, and in which       *)
(* order, is arbitrary: it may also await in a circle, and then hangs.     *)
(***************************************************************************)
EXTENDS Naturals, Sequences, FiniteSets, SequencesExt

CONSTANTS
  MaxTasks,      \* bound on the tasks ever spawned
  MaxNurseries,  \* bound on the nursery blocks ever entered
  Ops,           \* what the programs may do besides spawn, await and return
  None           \* no exception, no thread

AllOps == {"sleep", "recv", "throw", "effect", "nursery", "escape"}

ASSUME VMTasksAssumption ==
  /\ MaxTasks \in Nat
  /\ MaxNurseries \in Nat
  /\ Ops \subseteq AllOps
  /\ None \notin Nat \cup {"throw", "effect", "Cancelled"}

Main == 0
Tasks == 1..MaxTasks
Threads == 0..MaxTasks
Errors == {"throw", "effect", "Cancelled"}

VARIABLES
  gil,        \* holder of the GIL
  pc,         \* where each thread is
  spawned,    \* g_vm_next_task_id - 1: the tasks 1..spawned exist
  nurseries,  \* g_next_nursery_id - 1
  done,       \* t->done
  error,      \* t->error (t->errored says that there is one)
  cancelled,  \* t->cancelled
  nid,        \* t->nursery_id, 0 for none
  tls,        \* tls_nursery_id of each thread
  stack,      \* vm->nursery_stack, nursery_ids and nursery_prev_ids
  join,       \* what OP_NURSERY_END has still to await
  target,     \* the task a thread waits for in vm_await_task
  got,        \* the error the last vm_await_task handed over
  pending,    \* g_xs_pending_throw of each thread
  uncaught,   \* worker->uncaught_thread_exc
  block,      \* history: the tasks spawned by each open nursery block
  outcome,    \* history: how each body ended
  surfaced    \* history: how often a task's error was handed to somebody

vars == <<gil, pc, spawned, nurseries, done, error, cancelled, nid, tls, stack, join,
          target, got, pending, uncaught, block, outcome, surfaced>>

PCs == {"none", "new", "run", "sleep", "recv", "join", "wait", "took",
        "publish", "retire", "gone", "drain", "drain_wait", "exit"}

Init ==
  /\ gil = Main
  /\ pc = [p \in Threads |-> IF p = Main THEN "run" ELSE "none"]
  /\ spawned = 0
  /\ nurseries = 0
  /\ done = [t \in Tasks |-> FALSE]
  /\ error = [t \in Tasks |-> None]
  /\ cancelled = [t \in Tasks |-> FALSE]
  /\ nid = [t \in Tasks |-> 0]
  /\ tls = [p \in Threads |-> 0]
  /\ stack = [p \in Threads |-> <<>>]
  /\ join = [p \in Threads |-> <<>>]
  /\ target = [p \in Threads |-> None]
  /\ got = [p \in Threads |-> None]
  /\ pending = [p \in Threads |-> None]
  /\ uncaught = [t \in Tasks |-> None]
  /\ block = [p \in Threads |-> <<>>]
  /\ outcome = [t \in Tasks |-> "open"]
  /\ surfaced = [t \in Tasks |-> 0]

Record == <<done, error, cancelled, nid>>
Nursery == <<nurseries, tls, stack, block>>
History == <<outcome, surfaced>>

(* The thread executes an opcode: it has the GIL, no exception is pending. *)
Running(p) == gil = p /\ pc[p] = "run" /\ pending[p] = None

Goto(p, where) == pc' = [pc EXCEPT ![p] = where]

(* xs_gil_acquire as the last step of something that dropped the GIL. *)
TakeGil(p) == gil = None /\ gil' = p

-----------------------------------------------------------------------------
(* vm_spawn_real and the registration in OP_SPAWN: the new task inherits   *)
(* the thread's nursery id, but only the block's own spawns are joined.    *)

(* The id the next task gets. *)
NewTask == spawned + 1

SetLast(s, e) == [s EXCEPT ![Len(s)] = e]

(* Mutant: the task goes to the outermost nursery. *)
RegisterOutermost(p, t) ==
  IF stack[p] = <<>> THEN UNCHANGED stack
  ELSE stack' = [stack EXCEPT ![p][1].kids = Append(@, t)]

(* A frame of the stack with one more task to join. *)
Enrolled(f, t) == [id |-> f.id, prev |-> f.prev, kids |-> Append(f.kids, t)]

Register(p, t) ==
  IF stack[p] = <<>> THEN UNCHANGED stack
  ELSE stack' = [stack EXCEPT ![p] = SetLast(@, Enrolled(Last(@), t))]

Spawn(p) ==
  /\ Running(p)
  /\ spawned < MaxTasks
  /\ spawned' = NewTask
  /\ nid' = [nid EXCEPT ![NewTask] = tls[p]]
  /\ Goto(NewTask, "new")
  /\ Register(p, NewTask)
  /\ block' = IF block[p] = <<>> THEN block
              ELSE [block EXCEPT ![p] = SetLast(@, Last(@) \cup {NewTask})]
  /\ UNCHANGED <<gil, nurseries, done, error, cancelled, tls, join, target, got, pending,
                 uncaught, outcome, surfaced>>

(* vm_thread_entry up to the body. *)
StartTask(t) ==
  /\ pc[t] = "new"
  /\ TakeGil(t)
  /\ Goto(t, "run")
  /\ tls' = [tls EXCEPT ![t] = nid[t]]
  /\ UNCHANGED <<spawned, nurseries, Record, stack, join, target, got, pending, uncaught,
                 block, History>>

-----------------------------------------------------------------------------
(* vm_await_task: OP_AWAIT, and each turn of the loop of OP_NURSERY_END. *)

(* Mutant: the GIL is kept during the wait. *)
WaitWithGil(p, t) ==
  /\ gil = p
  /\ UNCHANGED gil
  /\ target' = [target EXCEPT ![p] = t]
  /\ Goto(p, "wait")

WaitFor(p, t) ==
  /\ gil = p
  /\ gil' = None
  /\ target' = [target EXCEPT ![p] = t]
  /\ Goto(p, "wait")

Await(p) ==
  /\ Running(p)
  /\ \E t \in 1..spawned : WaitFor(p, t)
  /\ UNCHANGED <<spawned, Record, Nursery, join, got, pending, uncaught, History>>

(* Mutant: the error stays on the task after it was handed over. *)
KeepError(t) == UNCHANGED error

ClearError(t) == error' = [error EXCEPT ![t] = None]

(* The wait is over: result and error are read, the error is cleared. *)
TakeResult(p) ==
  /\ pc[p] = "wait"
  /\ done[target[p]]
  /\ got' = [got EXCEPT ![p] = error[target[p]]]
  /\ ClearError(target[p])
  /\ surfaced' = IF error[target[p]] = None THEN surfaced
                 ELSE [surfaced EXCEPT ![target[p]] = @ + 1]
  /\ Goto(p, "took")
  /\ UNCHANGED <<gil, spawned, done, cancelled, nid, Nursery, join, target, pending,
                 uncaught, outcome>>

(* OP_NURSERY_END keeps the first real error; Cancelled is only noise. *)
Combine(cur, e) ==
  IF e \in {None, "Cancelled"} THEN cur
  ELSE IF cur \in {None, "Cancelled"} THEN e ELSE cur

(* Back in the interpreter: OP_AWAIT rethrows, the join goes on. *)
Resume(p) ==
  /\ pc[p] = "took"
  /\ TakeGil(p)
  /\ IF join[p] # <<>>
     THEN /\ pending' = [pending EXCEPT ![p] = Combine(@, got[p])]
          /\ join' = [join EXCEPT ![p] = Tail(@)]
          /\ Goto(p, "join")
     ELSE /\ pending' = [pending EXCEPT ![p] = got[p]]
          /\ Goto(p, "run")
          /\ UNCHANGED join
  /\ got' = [got EXCEPT ![p] = None]
  /\ target' = [target EXCEPT ![p] = None]
  /\ UNCHANGED <<spawned, Record, Nursery, uncaught, History>>

-----------------------------------------------------------------------------
(* OP_NURSERY_BEGIN and OP_NURSERY_END. *)

NurseryBegin(p) ==
  /\ Running(p)
  /\ "nursery" \in Ops /\ nurseries < MaxNurseries
  /\ nurseries' = nurseries + 1
  /\ stack' = [stack EXCEPT ![p] =
                 Append(@, [id |-> nurseries + 1, prev |-> tls[p], kids |-> <<>>])]
  /\ tls' = [tls EXCEPT ![p] = nurseries + 1]
  /\ block' = [block EXCEPT ![p] = Append(@, {})]
  /\ UNCHANGED <<gil, pc, spawned, Record, join, target, got, pending, uncaught, History>>

(* The end of the block; the VM has only its own stack to go by. *)
NurseryEnd(p) ==
  /\ Running(p)
  /\ block[p] # <<>>
  /\ join' = [join EXCEPT ![p] = Last(stack[p]).kids]
  /\ Goto(p, "join")
  /\ UNCHANGED <<gil, spawned, Record, Nursery, target, got, pending, uncaught, History>>

JoinNext(p) ==
  /\ pc[p] = "join"
  /\ join[p] # <<>>
  /\ WaitFor(p, Head(join[p]))
  /\ UNCHANGED <<spawned, Record, Nursery, join, got, pending, uncaught, History>>

NurseryLeave(p) ==
  /\ pc[p] = "join"
  /\ join[p] = <<>>
  /\ tls' = [tls EXCEPT ![p] = Last(stack[p]).prev]
  /\ stack' = [stack EXCEPT ![p] = Front(@)]
  /\ block' = [block EXCEPT ![p] = Front(@)]
  /\ Goto(p, "run")
  /\ UNCHANGED <<gil, spawned, nurseries, Record, join, target, got, pending, uncaught, History>>

(* return, break or continue out of nursery blocks: the compiler emits     *)
(* nothing for the blocks that are left.                                   *)
Escape(p) ==
  /\ Running(p)
  /\ "escape" \in Ops
  /\ \E n \in 0..Len(block[p]) - 1 : block' = [block EXCEPT ![p] = SubSeq(@, 1, n)]
  /\ UNCHANGED <<gil, pc, spawned, nurseries, Record, tls, stack, join, target, got, pending,
                 uncaught, History>>

-----------------------------------------------------------------------------
(* Blocking calls. *)

(* time.sleep, which looks at the cancel flag when it is back. *)
Sleep(p) ==
  /\ Running(p)
  /\ "sleep" \in Ops
  /\ gil' = None
  /\ Goto(p, "sleep")
  /\ UNCHANGED <<spawned, Record, Nursery, join, target, got, pending, uncaught, History>>

(* xs_task_is_cancelled, through the flag pointer of the worker. *)
IsCancelled(p) == p \in Tasks /\ cancelled[p]

SleepEnd(p) ==
  /\ pc[p] = "sleep"
  /\ TakeGil(p)
  /\ Goto(p, "run")
  /\ pending' = IF IsCancelled(p) THEN [pending EXCEPT ![p] = "Cancelled"] ELSE pending
  /\ UNCHANGED <<spawned, Record, Nursery, join, target, got, uncaught, History>>

(* recv on a channel of module Channel: it is over when somebody sends or  *)
(* closes.  The flag it polls is that of tls_current_task, which the       *)
(* worker threads of the VM never set.                                     *)
Recv(p) ==
  /\ Running(p)
  /\ "recv" \in Ops
  /\ gil' = None
  /\ Goto(p, "recv")
  /\ UNCHANGED <<spawned, Record, Nursery, join, target, got, pending, uncaught, History>>

RecvEnd(p) ==
  /\ pc[p] = "recv"
  /\ TakeGil(p)
  /\ Goto(p, "run")
  /\ UNCHANGED <<spawned, Record, Nursery, join, target, got, pending, uncaught, History>>

-----------------------------------------------------------------------------
(* Exceptions. *)

(* throw, or an operation that fails. *)
Throw(p) ==
  /\ Running(p)
  /\ "throw" \in Ops
  /\ pending' = [pending EXCEPT ![p] = "throw"]
  /\ UNCHANGED <<gil, pc, spawned, Record, Nursery, join, target, got, uncaught, History>>

(* A try around it catches the exception; nursery blocks between the two   *)
(* are left without OP_NURSERY_END.                                        *)
Catch(p) ==
  /\ gil = p /\ pc[p] = "run" /\ pending[p] # None
  /\ pending' = [pending EXCEPT ![p] = None]
  /\ \E n \in 0..Len(block[p]) : block' = [block EXCEPT ![p] = SubSeq(@, 1, n)]
  /\ UNCHANGED <<gil, pc, spawned, nurseries, Record, tls, stack, join, target, got, uncaught,
                 History>>

(* No try: in a worker the unwinding stops at the sentinel frame that      *)
(* vm_invoke_public pushed, which leaves the exception in the thread-local *)
(* g_xs_pending_throw and the body with a null; the main program ends.     *)
Uncaught(p) ==
  /\ gil = p /\ pc[p] = "run" /\ pending[p] # None
  /\ \/ p # Main /\ Goto(p, "publish") /\ outcome' = [outcome EXCEPT ![p] = "throw"]
                 /\ UNCHANGED pending
     \/ p = Main /\ Goto(p, "drain") /\ UNCHANGED outcome
                 /\ pending' = [pending EXCEPT ![p] = None]
  /\ UNCHANGED <<gil, spawned, Record, Nursery, join, target, got, uncaught, surfaced>>

(* An effect without a handler: parked for the future in a worker, the end *)
(* of the main program.                                                    *)
Effect(p) ==
  /\ Running(p)
  /\ "effect" \in Ops
  /\ \/ p # Main /\ Goto(p, "publish") /\ outcome' = [outcome EXCEPT ![p] = "effect"]
                 /\ uncaught' = [uncaught EXCEPT ![p] = "effect"]
     \/ p = Main /\ Goto(p, "drain") /\ UNCHANGED <<outcome, uncaught>>
  /\ UNCHANGED <<gil, spawned, Record, Nursery, join, target, got, pending, surfaced>>

(* The body, or the main script, comes to its end. *)
Return(p) ==
  /\ Running(p)
  /\ block[p] = <<>>
  /\ \/ p # Main /\ Goto(p, "publish") /\ outcome' = [outcome EXCEPT ![p] = "ok"]
     \/ p = Main /\ Goto(p, "drain") /\ UNCHANGED outcome
  /\ UNCHANGED <<gil, spawned, Record, Nursery, join, target, got, pending, uncaught, surfaced>>

-----------------------------------------------------------------------------
(* The rest of vm_thread_entry. *)

(* Result and error are stored and the waiters woken, still with the GIL. *)
Publish(t) ==
  /\ pc[t] = "publish"
  /\ done' = [done EXCEPT ![t] = TRUE]
  /\ error' = [error EXCEPT ![t] = uncaught[t]]
  /\ Goto(t, "retire")
  /\ UNCHANGED <<gil, spawned, cancelled, nid, Nursery, join, target, got, pending, uncaught,
                 History>>

(* Mutant: tasks outside any nursery count as siblings of each other. *)
SiblingsAny(t) == {u \in 1..spawned : u # t /\ nid[u] = nid[t] /\ ~done[u]}

(* mark_vm_siblings_cancelled_locked. *)
Siblings(t) == {u \in 1..spawned : u # t /\ nid[u] = nid[t] /\ nid[t] # 0 /\ ~done[u]}

Retire(t) ==
  /\ pc[t] = "retire"
  /\ cancelled' = IF uncaught[t] = None THEN cancelled
                  ELSE [u \in Tasks |-> cancelled[u] \/ u \in Siblings(t)]
  /\ gil' = None
  /\ Goto(t, "gone")
  /\ UNCHANGED <<spawned, done, error, nid, Nursery, join, target, got, pending, uncaught,
                 History>>

-----------------------------------------------------------------------------
(* vm_drain_tasks, with which the process ends. *)

Undone == {t \in 1..spawned : ~done[t]}

(* Mutant: only the newest task is looked at. *)
NewestUndone(t) == t = spawned /\ ~done[t]

(* The scan starts at the head of the list, the newest task. *)
FirstUndone(t) == t \in Undone /\ \A u \in Undone : u <= t

Drain ==
  /\ pc[Main] = "drain" /\ gil = Main
  /\ \E t \in 1..spawned : FirstUndone(t) /\ target' = [target EXCEPT ![Main] = t]
  /\ gil' = None
  /\ Goto(Main, "drain_wait")
  /\ UNCHANGED <<spawned, Record, Nursery, join, got, pending, uncaught, History>>

DrainWake ==
  /\ pc[Main] = "drain_wait"
  /\ done[target[Main]]
  /\ TakeGil(Main)
  /\ target' = [target EXCEPT ![Main] = None]
  /\ Goto(Main, "drain")
  /\ UNCHANGED <<spawned, Record, Nursery, join, got, pending, uncaught, History>>

(* Every task is done: report the errors nobody took, and exit. *)
DrainReport ==
  /\ pc[Main] = "drain" /\ gil = Main
  /\ \A t \in 1..spawned : ~FirstUndone(t)
  /\ surfaced' = [t \in Tasks |-> surfaced[t] + IF error[t] = None THEN 0 ELSE 1]
  /\ error' = [t \in Tasks |-> None]
  /\ Goto(Main, "exit")
  /\ UNCHANGED <<gil, spawned, done, cancelled, nid, Nursery, join, target, got, pending,
                 uncaught, outcome>>

(* The process is gone, and its threads with it. *)
Exited == pc[Main] = "exit" /\ UNCHANGED vars

-----------------------------------------------------------------------------
Body(p) ==
  \/ Spawn(p) \/ Await(p) \/ NurseryBegin(p) \/ NurseryEnd(p) \/ Escape(p)
  \/ Sleep(p) \/ Recv(p) \/ Throw(p) \/ Effect(p) \/ Return(p)

Next ==
  \/ \E p \in Threads :
       \/ Body(p)
       \/ TakeResult(p) \/ Resume(p) \/ JoinNext(p) \/ NurseryLeave(p)
       \/ SleepEnd(p) \/ RecvEnd(p) \/ Catch(p) \/ Uncaught(p)
  \/ \E t \in Tasks : StartTask(t) \/ Publish(t) \/ Retire(t)
  \/ Drain \/ DrainWake \/ DrainReport \/ Exited

Spec == Init /\ [][Next]_vars

(* The steps with which a thread gets the GIL back; it is at one of them   *)
(* at a time.  RecvEnd is left out: nobody need ever send.                 *)
GetGil(p) ==
  \/ Resume(p) \/ SleepEnd(p)
  \/ p \in Tasks /\ StartTask(p)
  \/ p = Main /\ DrainWake

(* What follows without waiting for anybody. *)
GoOn(p) ==
  \/ TakeResult(p) \/ JoinNext(p) \/ NurseryLeave(p) \/ Catch(p) \/ Uncaught(p)
  \/ p \in Tasks /\ (Publish(p) \/ Retire(p))
  \/ p = Main /\ (Drain \/ DrainReport)

(* The GIL reaches every thread that keeps asking for it, a thread that    *)
(* can go on does, and the program's blocks and bodies come to their ends. *)
Fairness ==
  \A p \in Threads :
    /\ SF_vars(GetGil(p))
    /\ WF_vars(GoOn(p))
    /\ SF_vars(Return(p) \/ NurseryEnd(p))

FairSpec == Spec /\ Fairness

-----------------------------------------------------------------------------
(* Properties. *)

TypeOK ==
  /\ gil \in Threads \cup {None}
  /\ pc \in [Threads -> PCs]
  /\ spawned \in 0..MaxTasks /\ nurseries \in 0..MaxNurseries
  /\ done \in [Tasks -> BOOLEAN]
  /\ error \in [Tasks -> Errors \cup {None}]
  /\ cancelled \in [Tasks -> BOOLEAN]
  /\ nid \in [Tasks -> 0..MaxNurseries]
  /\ tls \in [Threads -> 0..MaxNurseries]
  /\ stack \in [Threads -> Seq([id : 1..MaxNurseries, prev : 0..MaxNurseries,
                                kids : Seq(Tasks)])]
  /\ join \in [Threads -> Seq(Tasks)]
  /\ target \in [Threads -> Tasks \cup {None}]
  /\ got \in [Threads -> Errors \cup {None}]
  /\ pending \in [Threads -> Errors \cup {None}]
  /\ uncaught \in [Tasks -> {"effect", None}]
  /\ block \in [Threads -> Seq(SUBSET Tasks)]
  /\ outcome \in [Tasks -> {"open", "ok", "throw", "effect"}]
  /\ surfaced \in [Tasks -> Nat]

(* An error that a task captured is neither lost nor repeated: it is on    *)
(* the task's record until one await, one join or the drain takes it, and  *)
(* when the process exits somebody has ("so the at-exit drain doesn't      *)
(* double-report it", vm_await_task).  The records are well typed.         *)
ErrorTakenOnce ==
  /\ TypeOK
  /\ \A t \in Tasks :
       surfaced[t] + (IF error[t] = None THEN 0 ELSE 1)
         = IF done[t] /\ outcome[t] = "effect" THEN 1 ELSE 0
  /\ pc[Main] = "exit" => \A t \in Tasks : error[t] = None

(* The drain leaves nobody behind, not even tasks spawned by tasks while   *)
(* it was waiting for others ("a background spawn that finishes after the  *)
(* main script returns is still observed"): at exit no thread is left that *)
(* could touch the globals about to be freed.                              *)
DrainLeavesNobody ==
  pc[Main] = "exit" =>
    \A t \in Tasks : pc[t] \in {"none", "gone"} /\ (t <= spawned => done[t])

(* A task is cancelled only because a sibling of the same nursery failed;  *)
(* tasks outside any nursery never are.                                    *)
CancelledBySibling ==
  \A t \in Tasks : cancelled[t] =>
    \E u \in Tasks \ {t} : nid[u] = nid[t] /\ nid[t] # 0 /\ outcome[u] = "effect"

(* The step with which p goes past the end of a nursery block. *)
PastEnd(p) == pc[p] = "join" /\ pc'[p] = "run"

(* As long as every block was left by its end, the stack of the VM and the *)
(* blocks of the program agree, and whoever goes past the end of a nursery *)
(* block has seen every task the block spawned finish.                     *)
NurseryJoinsChildren ==
  [][\A p \in Threads : PastEnd(p) /\ Len(stack[p]) = Len(block[p]) =>
       \A t \in Last(block[p]) : done[t]]_vars

(* The header of vm_thread.c: "Errors that escape a spawn body are         *)
(* captured on the task struct": nothing that a body threw is forgotten.   *)
ThrowIsCaptured ==
  \A t \in Tasks : done[t] /\ outcome[t] = "throw" => error[t] # None \/ surfaced[t] > 0

(* Threads that wait for each other. *)
Circle ==
  \E S \in SUBSET Threads : S # {} /\ \A p \in S : pc[p] = "wait" /\ target[p] \in S

(* The main program comes to its end: no await, no join and no drain waits *)
(* for ever when bodies end by themselves, unless they await in a circle.  *)
MainExits == <>(pc[Main] = "exit" \/ Circle)
=============================================================================
