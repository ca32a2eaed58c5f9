----------------------------- MODULE Generator ------------------------------
(***************************************************************************)
(* Lazy generators of the interpreter: every generator object has a worker *)
(* thread that runs its body, a channel for the permits of .next() and one *)
(* for the values (runtime/concurrent.c, .next() and NODE_YIELD in         *)
(* runtime/interp.c).  The workers and their consumers share one Interp,   *)
(* its current scope and its control-flow signal, under the GIL.           *)
(*                                                                         *)
(* A channel is the atomic FIFO queue that Channel is shown to implement.  *)
(* A body is any sequence of yields, calls of .next() on generators it     *)
(* knows, exceptions caught and thrown, and an end.                        *)
(***************************************************************************)
EXTENDS Integers, Sequences, FiniteSets

CONSTANTS
  Gens,       \* generator objects
  main,       \* the main program
  Calls,      \* pairs <<a, g>>: the code of a calls g.next()
  MaxChans,   \* MAX_CHANS, the size of the channel table
  InUse,      \* channels the program has allocated before its generators
  MaxYields,  \* bound: values a body yields
  None        \* nobody

Actors == Gens \cup {main}

ASSUME GeneratorAssumption ==
  /\ main \notin Gens /\ None \notin Actors
  /\ Calls \subseteq Actors \X Gens
  /\ \A g \in Gens : <<g, g>> \notin Calls
  /\ MaxChans \in Nat /\ MaxYields \in Nat
  /\ InUse \subseteq 0..MaxChans

VARIABLES
  gil,        \* who holds the GIL
  pc,         \* where each actor is
  env,        \* i->env, as the actor whose scopes it points into
  saved,      \* the scope an actor restores when its channel call returns
  outer,      \* the scope a worker found when its body began
  signal,     \* i->cf.signal: None, or the generator whose exception it is
  permits,    \* messages in the resume channel of each generator
  values,     \* messages in its yield channel
  target,     \* whose .next() an actor is in
  inbox,      \* the message an actor has taken and not yet looked at
  done,       \* the _done field of the generator object
  chans,      \* channels the program has allocated; none is ever given back
  hasResume, hasYield,  \* whether xs_chan_alloc had a slot for them
  \* History
  asked,      \* calls of .next() on each generator
  yielded,    \* yields of its body
  got         \* values its consumers were given

thread == <<gil, pc, env, saved, outer, signal>>
queues == <<permits, values, target, inbox, done>>
alloc == <<chans, hasResume, hasYield>>
history == <<asked, yielded, got>>
vars == <<thread, queues, alloc, history>>

Eos == -1   \* the {_gen_eos: true} message

Init ==
  /\ gil = main
  /\ pc = [a \in Actors |-> IF a = main THEN "run" ELSE "unborn"]
  /\ env = main
  /\ saved = [a \in Actors |-> a]
  /\ outer = [g \in Gens |-> main]
  /\ signal = None
  /\ permits = [g \in Gens |-> 0]
  /\ values = [g \in Gens |-> <<>>]
  /\ target = [a \in Actors |-> None]
  /\ inbox = [a \in Actors |-> 0]
  /\ done = [g \in Gens |-> FALSE]
  /\ chans \in InUse
  /\ hasResume = [g \in Gens |-> FALSE]
  /\ hasYield = [g \in Gens |-> FALSE]
  /\ asked = [g \in Gens |-> 0]
  /\ yielded = [g \in Gens |-> 0]
  /\ got = [g \in Gens |-> 0]

(* a executes its own code; a pending exception is looked at first. *)
Executes(a) == gil = a /\ pc[a] = "run"
Runs(a) == Executes(a) /\ signal = None

Goto(a, where) == pc' = [pc EXCEPT ![a] = where]

-----------------------------------------------------------------------------
(* Creation and start of a worker. *)

(* xs_chan_alloc, twice. *)
TwoMore == IF chans + 2 <= MaxChans THEN chans + 2 ELSE MaxChans

(* A call of the generator function: two channels, if the table has room, and
   a detached thread. *)
Create(a, g) ==
  /\ Runs(a) /\ pc[g] = "unborn"
  /\ hasYield' = [hasYield EXCEPT ![g] = chans < MaxChans]
  /\ hasResume' = [hasResume EXCEPT ![g] = chans + 1 < MaxChans]
  /\ chans' = TwoMore
  /\ Goto(g, "new")
  /\ UNCHANGED <<gil, env, saved, outer, signal, queues, history>>

(* The call of the body: the worker keeps the scope it finds. *)
EnterBody(g) ==
  /\ gil = None
  /\ gil' = g
  /\ outer' = [outer EXCEPT ![g] = env]
  /\ env' = g
  /\ Goto(g, "run")

(* Mutant: the body begins without a permit. *)
StartEager(g) ==
  /\ pc[g] = "new"
  /\ EnterBody(g)
  /\ UNCHANGED <<saved, signal, queues, alloc, history>>

(* gen_worker_entry up to its wait for the first permit; without a resume
   channel xs_chan_recv returns at once, and the body begins. *)
Start(g) ==
  /\ pc[g] = "new" /\ gil = None
  /\ \/ /\ hasResume[g]
        /\ Goto(g, "asleep")
        /\ UNCHANGED <<gil, env, outer>>
     \/ /\ ~hasResume[g]
        /\ EnterBody(g)
  /\ UNCHANGED <<saved, signal, queues, alloc, history>>

(* xs_chan_recv on the resume channel takes a permit, then waits for the GIL. *)
TakePermit(g) ==
  /\ pc[g] \in {"asleep", "paused"}
  /\ permits[g] > 0
  /\ permits' = [permits EXCEPT ![g] = @ - 1]
  /\ Goto(g, IF pc[g] = "asleep" THEN "begin" ELSE "resume")
  /\ UNCHANGED <<gil, env, saved, outer, signal, values, target, inbox, done, alloc, history>>

Begin(g) ==
  /\ pc[g] = "begin"
  /\ EnterBody(g)
  /\ UNCHANGED <<saved, signal, queues, alloc, history>>

-----------------------------------------------------------------------------
(* .next() on a generator. *)

(* Both ends of the handover keep the current scope over their wait. *)
KeepScope(a) == saved' = [saved EXCEPT ![a] = env]

(* Mutant: it goes on in the scope the other side has left. *)
RestoreScopeNot(a) == UNCHANGED env

RestoreScope(a) == env' = saved[a]

(* eval_method up to the wait in xs_chan_recv, or, without a yield channel, to
   its end: the value is then null, and done is false.  (On a generator that is
   _done the method returns without touching anything.) *)
CallNext(a, g) ==
  /\ <<a, g>> \in Calls
  /\ Runs(a) /\ pc[g] # "unborn" /\ ~done[g]
  /\ asked[g] <= MaxYields
  /\ asked' = [asked EXCEPT ![g] = @ + 1]
  /\ permits' = [permits EXCEPT ![g] = IF hasResume[g] THEN @ + 1 ELSE @]
  /\ IF hasYield[g]
     THEN /\ KeepScope(a)
          /\ target' = [target EXCEPT ![a] = g]
          /\ gil' = None
          /\ Goto(a, "wait")
     ELSE UNCHANGED <<gil, pc, saved, target>>
  /\ UNCHANGED <<env, outer, signal, values, inbox, done, alloc, yielded, got>>

(* Mutant: the message is read and left in the channel. *)
TakeValueKeeping(a) ==
  /\ pc[a] = "wait" /\ values[target[a]] # <<>>
  /\ inbox' = [inbox EXCEPT ![a] = Head(values[target[a]])]
  /\ Goto(a, "back")
  /\ UNCHANGED <<gil, env, saved, outer, signal, permits, values, target, done, alloc, history>>

(* xs_chan_recv on the yield channel takes a message, then waits for the GIL. *)
TakeValue(a) ==
  /\ pc[a] = "wait" /\ values[target[a]] # <<>>
  /\ inbox' = [inbox EXCEPT ![a] = Head(values[target[a]])]
  /\ values' = [values EXCEPT ![target[a]] = Tail(@)]
  /\ Goto(a, "back")
  /\ UNCHANGED <<gil, env, saved, outer, signal, permits, target, done, alloc, history>>

(* The rest of eval_method, with the GIL again. *)
NextReturns(a) ==
  /\ pc[a] = "back" /\ gil = None
  /\ gil' = a
  /\ RestoreScope(a)
  /\ Goto(a, "run")
  /\ LET g == target[a]
     IN  IF inbox[a] = Eos
         THEN done' = [done EXCEPT ![g] = TRUE] /\ UNCHANGED got
         ELSE got' = [got EXCEPT ![g] = @ + 1] /\ UNCHANGED done
  /\ inbox' = [inbox EXCEPT ![a] = 0]
  /\ UNCHANGED <<saved, outer, signal, permits, values, target, alloc, asked, yielded>>

-----------------------------------------------------------------------------
(* The body of a generator. *)

Send(g, msg) == values' = [values EXCEPT ![g] = IF hasYield[g] THEN Append(@, msg) ELSE @]

(* xs_chan_recv on the resume channel gives up the GIL, if there is one. *)
AwaitPermit(g) ==
  IF hasResume[g] THEN gil' = None /\ Goto(g, "paused")
  ELSE UNCHANGED <<gil, pc>>

(* NODE_YIELD in a worker. *)
Yield(g) ==
  /\ Runs(g) /\ yielded[g] < MaxYields
  /\ yielded' = [yielded EXCEPT ![g] = @ + 1]
  /\ Send(g, yielded[g] + 1)
  /\ KeepScope(g)
  /\ AwaitPermit(g)
  /\ UNCHANGED <<env, outer, signal, permits, target, inbox, done, alloc, asked, got>>

YieldReturns(g) ==
  /\ pc[g] = "resume" /\ gil = None
  /\ gil' = g
  /\ RestoreScope(g)
  /\ Goto(g, "run")
  /\ UNCHANGED <<saved, outer, signal, queues, alloc, history>>

(* Mutant: no end-of-stream message after an exception. *)
FinishQuietly(g, sig) ==
  /\ signal' = sig
  /\ env' = outer[g]
  /\ IF sig = None THEN Send(g, Eos) ELSE UNCHANGED values
  /\ gil' = None
  /\ Goto(g, "dead")
  /\ UNCHANGED <<saved, outer, permits, target, inbox, done, alloc, history>>

(* The end of gen_worker_entry: an exception stays in the Interp as its signal,
   the scope becomes the one that was there when the body began. *)
Finish(g, sig) ==
  /\ signal' = sig
  /\ env' = outer[g]
  /\ Send(g, Eos)
  /\ gil' = None
  /\ Goto(g, "dead")
  /\ UNCHANGED <<saved, outer, permits, target, inbox, done, alloc, history>>

Return(g) == Runs(g) /\ Finish(g, None)

(* An exception of its own, or one of a generator it has called .next() on. *)
Throw(g) == Executes(g) /\ Finish(g, g)

Catch(a) ==
  /\ Executes(a) /\ signal # None
  /\ signal' = None
  /\ UNCHANGED <<gil, pc, env, saved, outer, queues, alloc, history>>

-----------------------------------------------------------------------------
(* The program ends, whatever its workers are waiting for. *)
Exit ==
  /\ Executes(main)
  /\ gil' = None
  /\ Goto(main, "dead")
  /\ UNCHANGED <<env, saved, outer, signal, queues, alloc, history>>

(* Both channels of every generator so far found a slot in the table. *)
AllWhole == \A g \in Gens : pc[g] # "unborn" => hasResume[g] /\ hasYield[g]

Worker(g) ==
  \/ Start(g) \/ TakePermit(g) \/ Begin(g)
  \/ Yield(g) \/ YieldReturns(g) \/ Return(g) \/ Throw(g)

Consumer(a) ==
  \/ \E g \in Gens : Create(a, g) \/ CallNext(a, g)
  \/ TakeValue(a) \/ NextReturns(a) \/ Catch(a)

(* The process ends with its main program; a program whose generators found no
   channels may also wait for ever. *)
Next ==
  /\ pc[main] # "dead"
  /\ Exit \/ (\E g \in Gens : Worker(g)) \/ (\E a \in Actors : Consumer(a))

Spec == Init /\ [][Next]_vars

(* Every thread gets the GIL and the processor again and again, and a body that
   runs gets to its next yield or its end. *)
Fairness ==
  /\ \A g \in Gens : WF_vars(pc[main] # "dead" /\ Worker(g))
  /\ \A a \in Actors : WF_vars(pc[main] # "dead" /\ (TakeValue(a) \/ NextReturns(a)))

FairSpec == Spec /\ Fairness

-----------------------------------------------------------------------------
(* Properties. *)

(* Every variable has its type; no slot beyond the channel table is used. *)
TypeOK ==
  /\ gil \in Actors \cup {None}
  /\ pc \in [Actors -> {"unborn", "new", "asleep", "begin", "run", "paused",
                        "resume", "wait", "back", "dead"}]
  /\ env \in Actors /\ saved \in [Actors -> Actors] /\ outer \in [Gens -> Actors]
  /\ signal \in Gens \cup {None}
  /\ permits \in [Gens -> Nat]
  /\ \A g \in Gens : \A i \in 1..Len(values[g]) : values[g][i] \in {Eos} \cup 1..MaxYields
  /\ target \in [Actors -> Gens \cup {None}]
  /\ done \in [Gens -> BOOLEAN]
  /\ chans \in 0..MaxChans

(* Whoever executes finds its own scope in the shared Interp, although every
   handover runs other code in between: the consumer's and the worker's saved
   scopes, and the one the worker puts back when its body ends. *)
ScopeIsMine == \A a \in Actors : Executes(a) => env = a

(* Consumers get every value once and in the order it was yielded, whoever of
   them asks: what is under way continues what has been given out.  The body is
   as far as its consumers have asked, and not one yield further. *)
InOrder ==
  /\ TypeOK
  /\ \A g \in Gens :
       LET held == {a \in Actors : pc[a] = "back" /\ target[a] = g /\ inbox[a] # Eos}
           sent == {i \in 1..Len(values[g]) : values[g][i] # Eos}
       IN  AllWhole =>
             /\ Cardinality(held) <= 1
             /\ \A a \in held : inbox[a] = got[g] + 1
             /\ \A i \in sent : values[g][i] = got[g] + Cardinality(held) + i
             /\ got[g] + Cardinality(held) + Cardinality(sent) = yielded[g]
             /\ yielded[g] <= asked[g]

(* An exception that ends a body surfaces in the code that called .next() on
   that generator, and in no other. *)
ThrowReachesCaller ==
  AllWhole => \A a \in Actors : Executes(a) /\ signal # None => target[a] = signal

(* Every .next() returns, with a value, the end of the stream or an exception,
   along chains of generators that consume generators. *)
NextAlwaysReturns ==
  \A a \in Actors : pc[a] = "wait" ~> pc[a] # "wait" \/ pc[main] = "dead" \/ ~AllWhole
=============================================================================
