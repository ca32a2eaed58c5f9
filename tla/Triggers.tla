------------------------------ MODULE Triggers ------------------------------
(***************************************************************************)
(* The trigger table of runtime/triggers.c and the life of a program of    *)
(* the interpreter around it (the end of interp_run): the script registers *)
(* decorated functions, the @on_start handlers run, main runs, the event   *)
(* loop serves signals, watched files and timers as long as a trigger      *)
(* needs it, and the @on_panic and @on_exit handlers run at the end.       *)
(*                                                                         *)
(* Signals and file changes come at any time.  A handler takes time, may   *)
(* register triggers, throw, or call os.exit; main may also be in          *)
(* http.serve, which pumps the same table.  Time counts ticks from 1; a    *)
(* deadline of 0 means none was computed, -1 marks a changed file.         *)
(***************************************************************************)
EXTENDS Integers, Sequences, FiniteSets, FiniteSetsExt

CONSTANTS
  Decorators,  \* what a program registers: [name, arg, once]
  Signals,     \* the signals in the order trigger_pump_signals looks at them
  InitialCap,  \* entries the table has room for at first (8 in the code)
  MaxEntries,  \* bound: entries registered
  MaxTime,     \* bound: ticks
  MaxEvents,   \* bound: signals and file changes
  MaxCount,    \* bound: calls of a handler are counted up to this
  MaxDepth     \* nested os.exit calls of handlers until the stack overflows

Names == {"on_start", "on_exit", "on_panic", "on_signal", "watch", "every", "cron", "delayed"}
Timed == {"every", "cron", "delayed"}
Repeating == {"every", "cron", "on_signal", "watch"}

(* The parser takes @once only beside a repeating trigger; the bounds are bounds. *)
ASSUME TriggersAssumption ==
  /\ \A d \in Decorators :
       /\ d.name \in Names /\ d.once \in BOOLEAN
       /\ d.once => d.name \in Repeating
       /\ d.name \in Timed => d.arg \in Nat \ {0}
       /\ d.name = "on_signal" => \E q \in 1..Len(Signals) : d.arg = Signals[q]
  /\ {InitialCap, MaxEntries, MaxTime, MaxEvents, MaxCount, MaxDepth} \subseteq Nat
  /\ InitialCap > 0 /\ MaxTime > 0 /\ MaxCount > 1
  /\ Signals \in Seq(STRING)

VARIABLES
  table,    \* g_items: [dec, fired, next, gap, init]
  cap,      \* g_cap
  now,      \* now_mono_ns()
  flags,    \* the signals whose g_sig_ flag is set
  changed,  \* entries whose file has events in the inotify queue
  phase,    \* which part of the program, or which scan of the table, runs
  back,     \* who called for the pass: "loop", or "main" in http.serve
  sig,      \* the signal that is fired, as an index into Signals
  k,        \* where the scan of the table goes on; 0: before the next signal
  running,  \* the entry whose handler runs, 0 for none
  moved,    \* the table has moved since that handler was called
  at,       \* the now_ns argument of fire_due
  aborted,  \* g_trigger_loop_aborted
  exc,      \* i->unhandled_exception_value is set
  pending,  \* what i->cf.signal was left at: "none", "throw", or "other" (an error, a panic)
  counted,  \* g_xs_runtime_error_count > g_seen_runtime_errors
  depth,    \* os.exit calls of handlers that have not come back
  \* History
  events,   \* signals and file changes so far
  log,      \* per entry: [calls, lost, since, late, slow, owed]
  failed    \* the scans in which a handler failed

entries == <<table, cap, log>>
outside == <<flags, changed, events>>
place == <<phase, back, sig, k, running, moved, at>>
outcome == <<aborted, exc, pending, counted, depth, failed>>
vars == <<entries, now, outside, place, outcome>>

Init ==
  /\ table = <<>> /\ cap = InitialCap /\ log = <<>>
  /\ now = 1
  /\ flags = {} /\ changed = {} /\ events = 0
  /\ phase = "script" /\ back = "main"
  /\ sig = 0 /\ k = 0 /\ running = 0 /\ moved = FALSE /\ at = 0
  /\ aborted = FALSE /\ exc = FALSE /\ pending = "none" /\ counted = FALSE
  /\ failed = {} /\ depth = 0

Indices == 1..Len(table)
Name(j) == table[j].dec.name
Arg(j) == table[j].dec.arg
Spent(j) == table[j].dec.once /\ table[j].fired
OneMore(n) == IF n < MaxCount THEN n + 1 ELSE n

-----------------------------------------------------------------------------
(* What happens to the process at any time. *)

(* XS code runs: the script, main, or a handler. *)
Busy == phase = "script" \/ (pending = "none" /\ (phase = "main" \/ running # 0))

Tick ==
  /\ now < MaxTime
  /\ running # 0 \/ phase = "loop"
  /\ now' = now + 1
  /\ UNCHANGED <<entries, outside, place, outcome>>

(* The handler of a signal that some entry has installed sets its flag. *)
Signal(s) ==
  /\ events < MaxEvents /\ phase # "gone"
  /\ \E j \in Indices : Name(j) = "on_signal" /\ Arg(j) = s
  /\ flags' = flags \cup {s}
  /\ events' = events + 1
  /\ log' = [j \in Indices |->
              IF Name(j) = "on_signal" /\ Arg(j) = s THEN [log[j] EXCEPT !.owed = TRUE]
              ELSE log[j]]
  /\ UNCHANGED <<table, cap, now, changed, place, outcome>>

FileChange(j) ==
  /\ events < MaxEvents /\ phase # "gone"
  /\ Name(j) = "watch" /\ table[j].init
  /\ changed' = changed \cup {j}
  /\ events' = events + 1
  /\ log' = [log EXCEPT ![j].owed = TRUE]
  /\ UNCHANGED <<table, cap, now, flags, place, outcome>>

Grown == IF Len(table) = cap THEN 2 * cap ELSE cap

(* trigger_registry_register; growing the table may move it. *)
Register(d) ==
  /\ Busy /\ Len(table) < MaxEntries
  /\ table' = Append(table, [dec |-> d, fired |-> FALSE, next |-> 0, gap |-> 0, init |-> FALSE])
  /\ log' = Append(log, [calls |-> 0, lost |-> 0, since |-> 0, late |-> running # 0,
                         slow |-> FALSE, owed |-> FALSE])
  /\ cap' = Grown
  /\ moved' = (moved \/ (running # 0 /\ Len(table) = cap))
  /\ UNCHANGED <<now, outside, phase, back, sig, k, running, at, outcome>>

(* xs_runtime_error outside of try: the error is counted, whether it then ends the
   code that runs or is dropped on the way (by a hook, a task, an HTTP handler).  A
   handler that cannot run counts one when it declares the type of its result. *)
CountError ==
  /\ ~counted
  /\ Busy \/ running # 0
  /\ counted' = TRUE
  /\ UNCHANGED <<entries, now, outside, place, aborted, exc, pending, depth, failed>>

-----------------------------------------------------------------------------
(* Passes over the table: fire_named, fire_signal, check_watches, fire_due. *)

(* The entries the present scan calls. *)
Wanted(j) ==
  /\ ~Spent(j)
  /\ \/ phase \in {"on_start", "on_panic", "on_exit"} /\ Name(j) = phase
     \/ phase = "signals" /\ Name(j) = "on_signal" /\ Arg(j) = Signals[sig]
     \/ phase = "watches" /\ Name(j) = "watch" /\ table[j].init /\ table[j].next = -1
     \/ /\ phase = "due" /\ Name(j) \in Timed
        /\ ~(Name(j) = "delayed" /\ table[j].fired)
        /\ table[j].next <= at

Ahead == {j \in Indices : j >= k /\ Wanted(j)}

(* check_watches sets up the entries it comes by, and does not fire them. *)
SetUp(from, to) ==
  [j \in Indices |-> IF /\ phase = "watches" /\ j \in from..to
                        /\ Name(j) = "watch" /\ ~Spent(j)
                     THEN [table[j] EXCEPT !.init = TRUE]
                     ELSE table[j]]

Scanning == k > 0 /\ running = 0

(* The next handler begins; a signal left over from earlier code ends it at once. *)
Call ==
  /\ Scanning /\ Ahead # {}
  /\ LET j == Min(Ahead)
     IN  /\ table' = SetUp(k, j - 1)
         /\ running' = j
         /\ log' = [log EXCEPT ![j].owed = FALSE,
                               ![j].calls = IF pending = "none" THEN OneMore(@) ELSE @]
  /\ moved' = FALSE
  /\ UNCHANGED <<cap, now, outside, phase, back, sig, k, at, outcome>>

(* Mutant: the present moment counts. *)
CronAtOrAfter(j, t) == ((t + Arg(j) - 1) \div Arg(j)) * Arg(j)

(* The first moment of a schedule strictly after t (cron_next_after). *)
CronAfter(j, t) == (t \div Arg(j) + 1) * Arg(j)

(* A schedule that was never compiled has no next moment within a year. *)
Far == MaxTime

(* Mutant: only repeating triggers are marked. *)
MarkedRepeating(j) == Name(j) \in Repeating \/ table[j].fired

Marked(j) == TRUE

(* What is written to the entry when its handler has returned. *)
Booked(j) ==
  LET e == table[j]
      next == CASE Name(j) = "watch" -> 0
                [] Name(j) = "every" -> IF e.next + e.gap > at THEN e.next + e.gap ELSE at + e.gap
                [] Name(j) = "cron" /\ e.gap # 0 -> at + CronAfter(j, now) - now
                [] Name(j) = "cron" /\ e.gap = 0 -> at + Far
                [] OTHER -> e.next
  IN  [e EXCEPT !.fired = Marked(j), !.next = next]

(* Through a pointer into a table that has moved, the update may be lost. *)
Return ==
  /\ running # 0 /\ pending = "none" /\ ~counted
  /\ \/ /\ table' = [table EXCEPT ![running] = Booked(running)]
        /\ log' = [log EXCEPT ![running].slow = @ \/ (phase = "due" /\ now # at)]
     \/ /\ moved
        /\ log' = [log EXCEPT ![running].lost = OneMore(@)]
        /\ UNCHANGED table
  /\ k' = running + 1 /\ running' = 0
  /\ UNCHANGED <<cap, now, outside, phase, back, sig, moved, at, outcome>>

(* trigger_callback_failed: the scan is over, the entry keeps its state.  An error
   that was counted, by this handler or before it, is looked at first, and then a
   signal stays where it is; otherwise it is cleared, and a throw is kept for
   @on_panic. *)
Fail ==
  /\ running # 0
  /\ \E s \in {"none", "throw", "other"} :
       /\ pending # "none" => s = pending \/ (counted /\ s = "other")
       /\ IF counted THEN pending' = s /\ UNCHANGED exc
          ELSE s # "none" /\ pending' = "none" /\ exc' = (exc \/ s = "throw")
  /\ aborted' = TRUE /\ counted' = FALSE
  /\ failed' = failed \cup {phase}
  /\ log' = [log EXCEPT ![running].lost = IF pending = "none" THEN OneMore(@) ELSE @]
  /\ k' = Len(table) + 1 /\ running' = 0
  /\ UNCHANGED <<table, cap, now, outside, phase, back, sig, moved, at, depth>>

(* Mutant: the process is left at once. *)
ExitAtOnce ==
  /\ Busy
  /\ phase' = "gone" /\ k' = 0 /\ running' = 0
  /\ UNCHANGED <<entries, now, outside, back, sig, moved, at, outcome>>

(* os.exit and process.exit: the @on_exit handlers are called, and exit() follows.
   A handler that exits at every call is stopped by the interpreter's stack. *)
Exit ==
  /\ Busy
  /\ phase = "on_exit" => depth < MaxDepth
  /\ depth' = IF phase = "on_exit" THEN depth + 1 ELSE depth
  /\ phase' = "on_exit" /\ k' = 1 /\ running' = 0
  /\ UNCHANGED <<entries, now, outside, back, sig, moved, at, aborted, exc, pending, counted,
                 failed>>

-----------------------------------------------------------------------------
(* The phases. *)

Go(to) == phase' = to /\ k' = 1

(* The script ends, or an uncaught throw ends it, or an error or a panic, which
   stays in the interpreter. *)
EndScript ==
  /\ phase = "script"
  /\ Go("on_start")
  /\ \/ exc' \in BOOLEAN /\ UNCHANGED pending
     \/ pending' = "other" /\ UNCHANGED exc
  /\ UNCHANGED <<entries, now, outside, back, sig, running, moved, at, aborted, counted, depth,
                 failed>>

(* has_persistent_triggers *)
HasPersistent ==
  \E j \in Indices : /\ ~Spent(j)
                     /\ Name(j) \in Repeating \/ (Name(j) = "delayed" /\ ~table[j].fired)

(* main is called with a signal left over, and ends at once. *)
MainSkipped ==
  phase = "on_start" /\ Scanning /\ Ahead = {} /\ pending # "none"

(* main ends; what nobody caught stays in the interpreter.  The loop, if there is
   one, forgets an earlier failure. *)
EndMain ==
  /\ phase = "main" \/ MainSkipped
  /\ phase' = "loop" /\ back' = "loop" /\ k' = 0
  /\ aborted' = (aborted /\ ~HasPersistent)
  /\ \/ UNCHANGED pending
     \/ pending = "none" /\ pending' \in {"throw", "other"}
  /\ UNCHANGED <<entries, now, outside, sig, running, moved, at, exc, counted, depth, failed>>

(* compute_initial_fire, for the entries that wait for a time. *)
Scheduled(j) ==
  LET e == table[j]
  IN  IF e.next # 0 \/ Name(j) \notin Timed \/ Spent(j) THEN e
      ELSE CASE Name(j) = "every" -> [e EXCEPT !.gap = Arg(j), !.next = now + Arg(j)]
             [] Name(j) = "cron" -> [e EXCEPT !.gap = Arg(j), !.next = CronAfter(j, now)]
             [] OTHER -> [e EXCEPT !.next = now + Arg(j)]

(* A pass begins: deadlines first, then the signals. *)
Schedule ==
  /\ table' = [j \in Indices |-> Scheduled(j)]
  /\ log' = [j \in Indices |-> IF table[j].next = 0 /\ Scheduled(j).next # 0
                               THEN [log[j] EXCEPT !.since = now] ELSE log[j]]
  /\ phase' = "signals" /\ sig' = 0 /\ k' = 0
  /\ UNCHANGED <<cap, now, outside, back, running, moved, at, outcome>>

(* Mutant: no pass while no timer is due. *)
LoopTopTimers ==
  /\ phase = "loop" /\ HasPersistent /\ ~aborted
  /\ \E j \in Indices : Name(j) \in Timed /\ table[j].next <= now
  /\ Schedule

(* One turn of trigger_run_event_loop; its sleep may end early or late. *)
LoopTop == phase = "loop" /\ HasPersistent /\ ~aborted /\ Schedule

LoopEnds ==
  /\ phase = "loop" /\ ~(HasPersistent /\ ~aborted)
  /\ Go(IF exc THEN "on_panic" ELSE "on_exit")
  /\ UNCHANGED <<entries, now, outside, back, sig, running, moved, at, outcome>>

(* trigger_pump_due, from http.serve in main. *)
PumpDue == phase = "main" /\ HasPersistent /\ Schedule

(* Mutant: all flags are cleared, and one signal is fired. *)
NextSignalOnly(q) ==
  /\ q > sig /\ Signals[q] \in flags
  /\ \A r \in 1..Len(Signals) : r > sig /\ Signals[r] \in flags => q <= r
  /\ sig' = q /\ flags' = {} /\ k' = 1

(* trigger_pump_signals clears a flag and fires the handlers of its signal. *)
NextSignal(q) ==
  /\ q > sig /\ Signals[q] \in flags
  /\ \A r \in 1..Len(Signals) : r > sig /\ Signals[r] \in flags => q <= r
  /\ sig' = q /\ flags' = flags \ {Signals[q]} /\ k' = 1

PumpSignal ==
  /\ phase = "signals" /\ k = 0
  /\ \E q \in 1..Len(Signals) : NextSignal(q)
  /\ UNCHANGED <<entries, now, changed, events, phase, back, running, moved, at, outcome>>

(* Back to whoever wanted the pass. *)
PassEnds == phase' = back /\ k' = 0 /\ at' = 0 /\ UNCHANGED <<table, changed>>

(* check_watches takes the events out of the queue first. *)
DrainEvents ==
  /\ table' = [j \in Indices |-> IF j \in changed THEN [table[j] EXCEPT !.next = -1]
                                 ELSE table[j]]
  /\ changed' = {}
  /\ Go("watches") /\ UNCHANGED at

(* Mutant: a failure is not looked at between signals and files. *)
AfterSignalsAlways == DrainEvents

AfterSignals == IF aborted THEN PassEnds ELSE DrainEvents

SignalsEnd ==
  /\ phase = "signals" /\ k = 0
  /\ \A q \in 1..Len(Signals) : ~(q > sig /\ Signals[q] \in flags)
  /\ AfterSignals
  /\ sig' = 0
  /\ UNCHANGED <<cap, log, now, flags, events, back, running, moved, outcome>>

(* A scan has come to the end of the table. *)
ScanEnds ==
  /\ Scanning /\ Ahead = {} /\ ~MainSkipped
  /\ table' = SetUp(k, Len(table))
  /\ CASE phase = "on_start" -> phase' = "main" /\ k' = 0 /\ UNCHANGED at
       [] phase = "signals" -> k' = 0 /\ UNCHANGED <<phase, at>>
       [] phase = "watches" /\ aborted -> phase' = back /\ k' = 0 /\ UNCHANGED at
       [] phase = "watches" /\ ~aborted -> Go("due") /\ at' = now
       [] phase = "due" -> phase' = back /\ k' = 0 /\ at' = 0
       [] phase = "on_panic" -> Go("on_exit") /\ UNCHANGED at
       [] phase = "on_exit" -> phase' = "gone" /\ k' = 0 /\ UNCHANGED at
  /\ UNCHANGED <<cap, log, now, outside, back, sig, running, moved, outcome>>

Step ==
  \/ Call \/ Return \/ Fail \/ EndScript \/ EndMain
  \/ LoopTop \/ LoopEnds \/ PumpSignal \/ SignalsEnd \/ ScanEnds

Next ==
  \/ Tick \/ CountError \/ Exit \/ PumpDue \/ Step
  \/ \E q \in 1..Len(Signals) : Signal(Signals[q])
  \/ \E j \in Indices : FileChange(j)
  \/ \E d \in Decorators : Register(d)

Spec == Init /\ [][Next]_vars

(* The thread goes on: the script, main and every handler come to an end, unless
   main serves for ever, and the loop wakes up from its sleep of 100 ms. *)
FairSpec == Spec /\ WF_vars(Step)

-----------------------------------------------------------------------------
(* Properties. *)

Entry == [dec : Decorators, fired : BOOLEAN, next : Int, gap : Nat, init : BOOLEAN]

Record == [calls : 0..MaxCount, lost : 0..MaxCount, since : 0..MaxTime,
           late : BOOLEAN, slow : BOOLEAN, owed : BOOLEAN]

(* Every variable has its type; the table fits its allocation. *)
TypeOK ==
  /\ table \in Seq(Entry) /\ log \in Seq(Record)
  /\ Len(table) <= cap /\ Len(table) <= MaxEntries /\ Len(log) = Len(table)
  /\ cap \in Nat \ {0} /\ events \in 0..MaxEvents
  /\ now \in 1..MaxTime /\ at \in 0..MaxTime
  /\ \A s \in flags : \E q \in 1..Len(Signals) : s = Signals[q]
  /\ changed \subseteq Indices
  /\ phase \in {"script", "main", "loop", "gone", "on_start", "on_panic", "on_exit", "signals",
                "watches", "due"}
  /\ back \in {"loop", "main"}
  /\ sig \in 0..Len(Signals) /\ k \in 0..(MaxEntries + 1) /\ running \in 0..Len(table)
  /\ depth \in 0..MaxDepth
  /\ {aborted, exc, counted, moved} \subseteq BOOLEAN /\ pending \in {"none", "throw", "other"}

(* @once and @delayed mean once: a handler is called again only after a call whose
   end was not entered in the table, because the handler failed or because the
   table had moved under it.  The table is well typed and fits its allocation. *)
OnceIsOnce ==
  /\ TypeOK
  /\ \A j \in Indices : table[j].dec.once \/ Name(j) = "delayed" =>
       log[j].calls <= 1 + log[j].lost

(* How often a timer may have fired by now, from when its deadline was set. *)
Turns(j) ==
  CASE Name(j) = "every" -> (now - log[j].since) \div Arg(j)
    [] Name(j) = "cron" -> now \div Arg(j) - log[j].since \div Arg(j)
    [] OTHER -> IF now >= log[j].since + Arg(j) THEN 1 ELSE 0

(* No timer runs ahead of its schedule or in bursts, however late the loop comes
   to it - if it was registered before its pass began, if the table did not move
   under its handler, and, for a @cron, if its handlers took no time. *)
NeverAhead ==
  \A j \in Indices :
    /\ Name(j) \in Timed
    /\ ~log[j].late /\ log[j].lost = 0
    /\ Name(j) = "cron" => ~log[j].slow
    => log[j].calls <= Turns(j)

(* A signal or a change of a file that came after the last call of a handler
   leads to another call: it is in a flag, in the queue, or the scan under way
   still has the handler ahead of it - until a handler fails. *)
NothingLost ==
  \A j \in Indices :
    log[j].owed /\ ~Spent(j) /\ failed = {} /\ phase \notin {"on_panic", "on_exit", "gone"} =>
      \/ Name(j) = "watch" /\ (j \in changed \/ table[j].next = -1)
      \/ Name(j) = "on_signal" /\ Arg(j) \in flags
      \/ /\ Name(j) = "on_signal" /\ phase = "signals"
         /\ sig > 0 /\ Arg(j) = Signals[sig]
         /\ j >= k /\ j # running

(* After a failure no handler of a timer or of a file is called ("stop firing
   further callbacks"); what still runs are handlers of other signals that were
   pending, and the handlers of the end. *)
FailureStops ==
  [][aborted /\ running = 0 /\ running' # 0 => phase \in {"signals", "on_panic", "on_exit"}]_vars

(* When the process ends every @on_exit handler has run, also one registered by
   another of them, and once unless a handler called os.exit itself - or one of
   them has failed. *)
ExitHandlersRan ==
  phase = "gone" /\ "on_exit" \notin failed =>
    \A j \in Indices : Name(j) = "on_exit" =>
      log[j].calls >= 1 /\ (depth = 0 => log[j].calls = 1)

(* In the loop a signal is taken up, or the loop ends. *)
SignalsServed ==
  \A q \in 1..Len(Signals) :
    phase = "loop" /\ Signals[q] \in flags
      ~> Signals[q] \notin flags \/ phase \in {"on_panic", "on_exit", "gone"}
=============================================================================
