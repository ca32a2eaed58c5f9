--------------------------- MODULE GeneratorProofs ---------------------------
(***************************************************************************)
(* Proofs about Generator, for any generators, any program that consumes   *)
(* them, any channel table and any number of yields.                       *)
(***************************************************************************)
EXTENDS Generator, SequenceTheorems, FiniteSetTheorems, TLAPS

(* Messages that were yielded. *)
Messages == {Eos} \cup 1..MaxYields

(* The types of the variables, by the groups the module makes of them. *)
ThreadOK ==
  /\ gil \in Actors \cup {None}
  /\ pc \in [Actors -> {"unborn", "new", "asleep", "begin", "run", "paused",
                        "resume", "wait", "back", "dead"}]
  /\ env \in Actors /\ saved \in [Actors -> Actors] /\ outer \in [Gens -> Actors]
  /\ signal \in Gens \cup {None}

QueueOK ==
  /\ permits \in [Gens -> Nat]
  /\ values \in [Gens -> Seq(Messages)]
  /\ target \in [Actors -> Gens \cup {None}]
  /\ inbox \in [Actors -> {Eos} \cup 0..MaxYields]
  /\ done \in [Gens -> BOOLEAN]

CountOK ==
  /\ chans \in 0..MaxChans
  /\ hasResume \in [Gens -> BOOLEAN] /\ hasYield \in [Gens -> BOOLEAN]
  /\ asked \in [Gens -> Nat] /\ yielded \in [Gens -> 0..MaxYields] /\ got \in [Gens -> Nat]

TypeInv == ThreadOK /\ QueueOK /\ CountOK

RunInv == \A a \in Actors : gil = a <=> pc[a] = "run"
WaitInv == \A a \in Actors : pc[a] \in {"wait", "back"} => target[a] \in Gens
ScopeInv == ScopeIsMine /\ \A a \in Actors : saved[a] = a

(* The right to go on is one token: the GIL, a thread about to take it, a  *)
(* permit nobody has taken yet, or a value nobody has taken yet.           *)
Turn(a) == pc[a] \in {"begin", "resume", "back"}
Permit(g) == permits[g] > 0
Value(g) == values[g] # <<>>

OneToken ==
  /\ \A g \in Gens : permits[g] <= 1 /\ Len(values[g]) <= 1
  /\ gil # None => \A a \in Actors : ~Turn(a)
  /\ gil # None => \A g \in Gens : ~Permit(g) /\ ~Value(g)
  /\ \A a, b \in Actors : Turn(a) /\ Turn(b) => a = b
  /\ \A a \in Actors, g \in Gens : Turn(a) => ~Permit(g) /\ ~Value(g)
  /\ \A g, h \in Gens : Permit(g) => ~Value(h) /\ (Permit(h) => g = h)
  /\ \A g, h \in Gens : Value(g) /\ Value(h) => g = h

(* A yielded number is in the yield channel, or with a consumer that has   *)
(* not been given it yet.                                                  *)
Sent(g) == Value(g) /\ Head(values[g]) # Eos
Held(a, g) == pc[a] = "back" /\ target[a] = g /\ inbox[a] # Eos
InFlight(g) == Sent(g) \/ \E a \in Actors : Held(a, g)

Counted(g) ==
  /\ yielded[g] = got[g] + IF InFlight(g) THEN 1 ELSE 0
  /\ Sent(g) => Head(values[g]) = yielded[g]
  /\ \A a \in Actors : Held(a, g) => inbox[a] = yielded[g]

CountInv == \A g \in Gens : Counted(g)

(* Every yield but the first spent a permit, and a body that is at work    *)
(* has one to spend.                                                       *)
AskInv ==
  \A g \in Gens :
    IF pc[g] \in {"unborn", "new", "asleep", "paused"}
    THEN yielded[g] + permits[g] <= asked[g]
    ELSE yielded[g] + permits[g] < asked[g]

(* An exception is on its way to the consumer of the body that threw it. *)
SignalInv ==
  signal # None =>
    /\ \A a \in Actors : gil = a \/ pc[a] = "back" => target[a] = signal
    /\ \A g \in Gens : /\ permits[g] = 0 /\ pc[g] \notin {"begin", "resume"}
                       /\ Value(g) => g = signal
Handover == AllWhole => OneToken /\ CountInv /\ AskInv /\ SignalInv

-----------------------------------------------------------------------------
(* The type invariant. *)

LEMMA ActorFacts ==
  /\ main \in Actors /\ main \notin Gens /\ None \notin Actors /\ None \notin Gens
  /\ \A g \in Gens : g \in Actors
  /\ \A a \in Actors : a = main \/ a \in Gens
  BY GeneratorAssumption DEF Actors

LEMMA TypeInit == Init => TypeInv /\ RunInv /\ WaitInv /\ ScopeInv
<1> SUFFICES ASSUME Init PROVE TypeInv /\ RunInv /\ WaitInv /\ ScopeInv
  OBVIOUS
<1>1. TypeInv
  <2>1. chans \in 0..MaxChans
    BY GeneratorAssumption DEF Init
  <2>2. values \in [Gens -> Seq(Messages)]
    BY EmptySeq DEF Init
  <2> QED
    BY <2>1, <2>2, ActorFacts, GeneratorAssumption
       DEF Init, TypeInv, ThreadOK, QueueOK, CountOK
<1>2. RunInv /\ WaitInv /\ ScopeInv
  BY ActorFacts DEF Init, RunInv, WaitInv, ScopeInv, ScopeIsMine, Executes
<1> QED
  BY <1>1, <1>2

LEMMA ThreadOKStep == TypeInv /\ WaitInv /\ [Next]_vars => ThreadOK'
<1> SUFFICES ASSUME TypeInv, WaitInv, [Next]_vars PROVE ThreadOK'
  OBVIOUS
<1> USE ActorFacts DEF TypeInv, ThreadOK
<1>1. ASSUME NEW a \in Actors, NEW g \in Gens, Create(a, g) PROVE ThreadOK'
  BY <1>1 DEF Create, Runs, Executes, TwoMore, Goto, queues, history
<1>2. ASSUME NEW a \in Actors, NEW g \in Gens, CallNext(a, g) PROVE ThreadOK'
  BY <1>2 DEF CallNext, Runs, Executes, KeepScope, Goto, alloc
<1>3. ASSUME NEW g \in Gens, Start(g) PROVE ThreadOK'
  BY <1>3 DEF Start, EnterBody, Goto, queues, alloc, history
<1>4. ASSUME NEW g \in Gens, TakePermit(g) PROVE ThreadOK'
  BY <1>4 DEF TakePermit, Goto, alloc, history
<1>5. ASSUME NEW g \in Gens, Begin(g) PROVE ThreadOK'
  BY <1>5 DEF Begin, EnterBody, Goto, queues, alloc, history
<1>6. ASSUME NEW g \in Gens, Yield(g) PROVE ThreadOK'
  BY <1>6 DEF Yield, Runs, Executes, Send, KeepScope, AwaitPermit, Goto, alloc
<1>7. ASSUME NEW g \in Gens, YieldReturns(g) PROVE ThreadOK'
  BY <1>7 DEF YieldReturns, RestoreScope, Goto, queues, alloc, history
<1>8. ASSUME NEW g \in Gens, Return(g) PROVE ThreadOK'
  BY <1>8 DEF Return, Runs, Executes, Finish, Send, Goto, alloc, history
<1>9. ASSUME NEW g \in Gens, Throw(g) PROVE ThreadOK'
  BY <1>9 DEF Throw, Executes, Finish, Send, Goto, alloc, history
<1>10. ASSUME NEW a \in Actors, TakeValue(a) PROVE ThreadOK'
  BY <1>10 DEF TakeValue, Goto, alloc, history
<1>11. ASSUME NEW a \in Actors, NextReturns(a) PROVE ThreadOK'
  BY <1>11 DEF NextReturns, RestoreScope, Goto, alloc
<1>12. ASSUME NEW a \in Actors, Catch(a) PROVE ThreadOK'
  BY <1>12 DEF Catch, Executes, queues, alloc, history
<1>13. ASSUME Exit PROVE ThreadOK'
  BY <1>13 DEF Exit, Executes, Goto, queues, alloc, history
<1>14. CASE UNCHANGED vars
  BY <1>14 DEF vars, thread, queues, alloc, history
<1> QED
  BY <1>1, <1>2, <1>3, <1>4, <1>5, <1>6, <1>7, <1>8, <1>9, <1>10, <1>11, <1>12, <1>13, <1>14
     DEF Next, Worker, Consumer

LEMMA QueueOKStep == TypeInv /\ WaitInv /\ [Next]_vars => QueueOK'
<1> SUFFICES ASSUME TypeInv, WaitInv, [Next]_vars PROVE QueueOK'
  OBVIOUS
<1> USE ActorFacts DEF TypeInv, QueueOK
<1>1. ASSUME NEW a \in Actors, NEW g \in Gens, Create(a, g) PROVE QueueOK'
  BY <1>1 DEF Create, Runs, Executes, TwoMore, Goto, queues, history
<1>2. ASSUME NEW a \in Actors, NEW g \in Gens, CallNext(a, g) PROVE QueueOK'
  <2>1. /\ permits' = [permits EXCEPT ![g] = @ + 1] \/ UNCHANGED permits
        /\ target' = [target EXCEPT ![a] = g] \/ UNCHANGED target
        /\ UNCHANGED <<values, inbox, done>>
    <3>1. permits' = [permits EXCEPT ![g] = @ + 1] \/ UNCHANGED permits
      BY <1>2 DEF CallNext
    <3> QED
      BY <1>2, <3>1 DEF CallNext
  <2>2. permits' \in [Gens -> Nat]
    <3>1. permits[g] + 1 \in Nat /\ permits \in [Gens -> Nat]
      OBVIOUS
    <3>2. [permits EXCEPT ![g] = @ + 1] \in [Gens -> Nat]
      BY <3>1, Zenon
    <3> QED
      BY <2>1, <3>1, <3>2
  <2> QED
    BY <2>1, <2>2
<1>3. ASSUME NEW g \in Gens, Start(g) PROVE QueueOK'
  BY <1>3 DEF Start, EnterBody, Goto, queues, alloc, history
<1>4. ASSUME NEW g \in Gens, TakePermit(g) PROVE QueueOK'
  <2>1. permits[g] - 1 \in Nat
    BY <1>4 DEF TakePermit
  <2> QED
    BY <1>4, <2>1 DEF TakePermit
<1>5. ASSUME NEW g \in Gens, Begin(g) PROVE QueueOK'
  BY <1>5 DEF Begin, EnterBody, Goto, queues, alloc, history
<1>6. ASSUME NEW g \in Gens, Yield(g) PROVE QueueOK'
  <2>1. yielded[g] + 1 \in 1..MaxYields
    BY <1>6, GeneratorAssumption DEF Yield, CountOK
  <2>2. Append(values[g], yielded[g] + 1) \in Seq(Messages)
    BY <2>1, AppendProperties DEF Messages
  <2> QED
    BY <1>6, <2>2 DEF Yield, Send, alloc
<1>7. ASSUME NEW g \in Gens, YieldReturns(g) PROVE QueueOK'
  BY <1>7 DEF YieldReturns, RestoreScope, Goto, queues, alloc, history
<1>8. ASSUME NEW g \in Gens, Return(g) PROVE QueueOK'
  <2>1. Append(values[g], Eos) \in Seq(Messages)
    BY AppendProperties DEF Messages
  <2> QED
    BY <1>8, <2>1 DEF Return, Finish, Send, alloc, history
<1>9. ASSUME NEW g \in Gens, Throw(g) PROVE QueueOK'
  <2>1. Append(values[g], Eos) \in Seq(Messages)
    BY AppendProperties DEF Messages
  <2> QED
    BY <1>9, <2>1 DEF Throw, Finish, Send, alloc, history
<1>10. ASSUME NEW a \in Actors, TakeValue(a) PROVE QueueOK'
  <2>1. target[a] \in Gens /\ values[target[a]] \in Seq(Messages) /\ values[target[a]] # <<>>
    BY <1>10 DEF TakeValue, WaitInv
  <2>2. Head(values[target[a]]) \in Messages /\ Tail(values[target[a]]) \in Seq(Messages)
    BY <2>1, HeadTailProperties
  <2>3. Head(values[target[a]]) \in {Eos} \cup 0..MaxYields
    BY <2>2 DEF Messages
  <2> QED
    BY <1>10, <2>2, <2>3 DEF TakeValue, alloc, history
<1>11. ASSUME NEW a \in Actors, NextReturns(a) PROVE QueueOK'
  <2>1. target[a] \in Gens /\ 0 \in {Eos} \cup 0..MaxYields
    BY <1>11, GeneratorAssumption DEF NextReturns, WaitInv
  <2> QED
    BY <1>11, <2>1 DEF NextReturns
<1>12. ASSUME NEW a \in Actors, Catch(a) PROVE QueueOK'
  BY <1>12 DEF Catch, Executes, queues, alloc, history
<1>13. ASSUME Exit PROVE QueueOK'
  BY <1>13 DEF Exit, Executes, Goto, queues, alloc, history
<1>14. CASE UNCHANGED vars
  BY <1>14 DEF vars, thread, queues, alloc, history
<1> QED
  BY <1>1, <1>2, <1>3, <1>4, <1>5, <1>6, <1>7, <1>8, <1>9, <1>10, <1>11, <1>12, <1>13, <1>14
     DEF Next, Worker, Consumer

LEMMA CountOKStep == TypeInv /\ WaitInv /\ [Next]_vars => CountOK'
<1> SUFFICES ASSUME TypeInv, WaitInv, [Next]_vars PROVE CountOK'
  OBVIOUS
<1> USE ActorFacts, GeneratorAssumption DEF TypeInv, CountOK
<1>1. ASSUME NEW a \in Actors, NEW g \in Gens, Create(a, g) PROVE CountOK'
  BY <1>1 DEF Create, Runs, Executes, TwoMore, Goto, queues, history
<1>2. ASSUME NEW a \in Actors, NEW g \in Gens, CallNext(a, g) PROVE CountOK'
  BY <1>2 DEF CallNext, Runs, Executes, KeepScope, Goto, alloc
<1>3. ASSUME NEW g \in Gens, Start(g) PROVE CountOK'
  BY <1>3 DEF Start, EnterBody, Goto, queues, alloc, history
<1>4. ASSUME NEW g \in Gens, TakePermit(g) PROVE CountOK'
  BY <1>4 DEF TakePermit, Goto, alloc, history
<1>5. ASSUME NEW g \in Gens, Begin(g) PROVE CountOK'
  BY <1>5 DEF Begin, EnterBody, Goto, queues, alloc, history
<1>6. ASSUME NEW g \in Gens, Yield(g) PROVE CountOK'
  BY <1>6 DEF Yield, Runs, Executes, Send, KeepScope, AwaitPermit, Goto, alloc
<1>7. ASSUME NEW g \in Gens, YieldReturns(g) PROVE CountOK'
  BY <1>7 DEF YieldReturns, RestoreScope, Goto, queues, alloc, history
<1>8. ASSUME NEW g \in Gens, Return(g) PROVE CountOK'
  BY <1>8 DEF Return, Runs, Executes, Finish, Send, Goto, alloc, history
<1>9. ASSUME NEW g \in Gens, Throw(g) PROVE CountOK'
  BY <1>9 DEF Throw, Executes, Finish, Send, Goto, alloc, history
<1>10. ASSUME NEW a \in Actors, TakeValue(a) PROVE CountOK'
  BY <1>10 DEF TakeValue, Goto, alloc, history
<1>11. ASSUME NEW a \in Actors, NextReturns(a) PROVE CountOK'
  <2>1. target[a] \in Gens
    BY <1>11 DEF NextReturns, WaitInv
  <2> QED
    BY <1>11, <2>1 DEF NextReturns, alloc
<1>12. ASSUME NEW a \in Actors, Catch(a) PROVE CountOK'
  BY <1>12 DEF Catch, Executes, queues, alloc, history
<1>13. ASSUME Exit PROVE CountOK'
  BY <1>13 DEF Exit, Executes, Goto, queues, alloc, history
<1>14. CASE UNCHANGED vars
  BY <1>14 DEF vars, thread, queues, alloc, history
<1> QED
  BY <1>1, <1>2, <1>3, <1>4, <1>5, <1>6, <1>7, <1>8, <1>9, <1>10, <1>11, <1>12, <1>13, <1>14
     DEF Next, Worker, Consumer

LEMMA RunStep == TypeInv /\ RunInv /\ WaitInv /\ [Next]_vars => RunInv' /\ WaitInv'
<1> SUFFICES ASSUME TypeInv, RunInv, WaitInv, [Next]_vars PROVE RunInv' /\ WaitInv'
  OBVIOUS
<1> USE ActorFacts DEF TypeInv, ThreadOK, RunInv, WaitInv
<1>1. ASSUME NEW a \in Actors, NEW g \in Gens, Create(a, g) PROVE RunInv' /\ WaitInv'
  BY <1>1 DEF Create, Runs, Executes, TwoMore, Goto, queues, history
<1>2. ASSUME NEW a \in Actors, NEW g \in Gens, CallNext(a, g) PROVE RunInv' /\ WaitInv'
  <2>1. gil = a /\ pc[a] = "run"
    BY <1>2 DEF CallNext, Runs, Executes
  <2>2. CASE hasYield[g]
    <3>1. gil' = None /\ pc' = [pc EXCEPT ![a] = "wait"] /\ target' = [target EXCEPT ![a] = g]
      BY <1>2, <2>2 DEF CallNext, Goto
    <3> QED
      BY <2>1, <3>1 DEF QueueOK
  <2>3. CASE ~hasYield[g]
    <3>1. UNCHANGED <<gil, pc, target>>
      BY <1>2, <2>3 DEF CallNext
    <3> QED
      BY <3>1
  <2> QED
    BY <2>2, <2>3
<1>3. ASSUME NEW g \in Gens, Start(g) PROVE RunInv' /\ WaitInv'
  BY <1>3 DEF Start, EnterBody, Goto, queues, alloc, history
<1>4. ASSUME NEW g \in Gens, TakePermit(g) PROVE RunInv' /\ WaitInv'
  BY <1>4 DEF TakePermit, Goto, alloc, history
<1>5. ASSUME NEW g \in Gens, Begin(g) PROVE RunInv' /\ WaitInv'
  BY <1>5 DEF Begin, EnterBody, Goto, queues, alloc, history
<1>6. ASSUME NEW g \in Gens, Yield(g) PROVE RunInv' /\ WaitInv'
  BY <1>6 DEF Yield, Runs, Executes, Send, KeepScope, AwaitPermit, Goto, alloc
<1>7. ASSUME NEW g \in Gens, YieldReturns(g) PROVE RunInv' /\ WaitInv'
  BY <1>7 DEF YieldReturns, RestoreScope, Goto, queues, alloc, history
<1>8. ASSUME NEW g \in Gens, Return(g) PROVE RunInv' /\ WaitInv'
  BY <1>8 DEF Return, Runs, Executes, Finish, Send, Goto, alloc, history
<1>9. ASSUME NEW g \in Gens, Throw(g) PROVE RunInv' /\ WaitInv'
  BY <1>9 DEF Throw, Executes, Finish, Send, Goto, alloc, history
<1>10. ASSUME NEW a \in Actors, TakeValue(a) PROVE RunInv' /\ WaitInv'
  BY <1>10 DEF TakeValue, Goto, alloc, history
<1>11. ASSUME NEW a \in Actors, NextReturns(a) PROVE RunInv' /\ WaitInv'
  BY <1>11 DEF NextReturns, RestoreScope, Goto, alloc
<1>12. ASSUME NEW a \in Actors, Catch(a) PROVE RunInv' /\ WaitInv'
  BY <1>12 DEF Catch, Executes, queues, alloc, history
<1>13. ASSUME Exit PROVE RunInv' /\ WaitInv'
  BY <1>13 DEF Exit, Executes, Goto, queues, alloc, history
<1>14. CASE UNCHANGED vars
  BY <1>14 DEF vars, thread, queues, alloc, history
<1> QED
  BY <1>1, <1>2, <1>3, <1>4, <1>5, <1>6, <1>7, <1>8, <1>9, <1>10, <1>11, <1>12, <1>13, <1>14
     DEF Next, Worker, Consumer

LEMMA ScopeStep == TypeInv /\ RunInv /\ ScopeInv /\ [Next]_vars => ScopeInv'
<1> SUFFICES ASSUME TypeInv, RunInv, ScopeInv, [Next]_vars PROVE ScopeInv'
  OBVIOUS
<1> USE ActorFacts DEF TypeInv, ThreadOK, RunInv, ScopeInv, ScopeIsMine, Executes
<1>1. ASSUME NEW a \in Actors, NEW g \in Gens, Create(a, g) PROVE ScopeInv'
  BY <1>1 DEF Create, Runs, Executes, TwoMore, Goto, queues, history
<1>2. ASSUME NEW a \in Actors, NEW g \in Gens, CallNext(a, g) PROVE ScopeInv'
  BY <1>2 DEF CallNext, Runs, Executes, KeepScope, Goto, alloc
<1>3. ASSUME NEW g \in Gens, Start(g) PROVE ScopeInv'
  BY <1>3 DEF Start, EnterBody, Goto, queues, alloc, history
<1>4. ASSUME NEW g \in Gens, TakePermit(g) PROVE ScopeInv'
  BY <1>4 DEF TakePermit, Goto, alloc, history
<1>5. ASSUME NEW g \in Gens, Begin(g) PROVE ScopeInv'
  BY <1>5 DEF Begin, EnterBody, Goto, queues, alloc, history
<1>6. ASSUME NEW g \in Gens, Yield(g) PROVE ScopeInv'
  BY <1>6 DEF Yield, Runs, Executes, Send, KeepScope, AwaitPermit, Goto, alloc
<1>7. ASSUME NEW g \in Gens, YieldReturns(g) PROVE ScopeInv'
  BY <1>7 DEF YieldReturns, RestoreScope, Goto, queues, alloc, history
<1>8. ASSUME NEW g \in Gens, Return(g) PROVE ScopeInv'
  BY <1>8 DEF Return, Runs, Executes, Finish, Send, Goto, alloc, history
<1>9. ASSUME NEW g \in Gens, Throw(g) PROVE ScopeInv'
  BY <1>9 DEF Throw, Executes, Finish, Send, Goto, alloc, history
<1>10. ASSUME NEW a \in Actors, TakeValue(a) PROVE ScopeInv'
  BY <1>10 DEF TakeValue, Goto, alloc, history
<1>11. ASSUME NEW a \in Actors, NextReturns(a) PROVE ScopeInv'
  BY <1>11 DEF NextReturns, RestoreScope, Goto, alloc
<1>12. ASSUME NEW a \in Actors, Catch(a) PROVE ScopeInv'
  BY <1>12 DEF Catch, Executes, queues, alloc, history
<1>13. ASSUME Exit PROVE ScopeInv'
  BY <1>13 DEF Exit, Executes, Goto, queues, alloc, history
<1>14. CASE UNCHANGED vars
  BY <1>14 DEF vars, thread, queues, alloc, history
<1> QED
  BY <1>1, <1>2, <1>3, <1>4, <1>5, <1>6, <1>7, <1>8, <1>9, <1>10, <1>11, <1>12, <1>13, <1>14
     DEF Next, Worker, Consumer

-----------------------------------------------------------------------------
(* The handover. *)

LEMMA MessageProperties ==
  /\ \A g \in Gens : QueueOK => values[g] \in Seq(Messages) /\ Len(values[g]) \in Nat
  /\ \A s \in Seq(Messages), m \in Messages :
       /\ Len(Append(s, m)) = Len(s) + 1
       /\ Append(s, m) # <<>>
       /\ s = <<>> => Head(Append(s, m)) = m
  /\ \A s \in Seq(Messages) : s # <<>> => Len(Tail(s)) = Len(s) - 1
  /\ \A s \in Seq(Messages) : s = <<>> <=> Len(s) = 0
<1>1. \A g \in Gens : QueueOK => values[g] \in Seq(Messages) /\ Len(values[g]) \in Nat
  BY LenProperties DEF QueueOK
<1>2. ASSUME NEW s \in Seq(Messages), NEW m \in Messages
      PROVE  /\ Len(Append(s, m)) = Len(s) + 1
             /\ Append(s, m) # <<>>
             /\ s = <<>> => Head(Append(s, m)) = m
  <2>1. Len(Append(s, m)) = Len(s) + 1 /\ Append(s, m) # <<>> /\ Append(s, m)[Len(s) + 1] = m
    BY AppendProperties
  <2>2. Head(Append(s, m)) = Append(s, m)[1]
    BY <2>1, HeadTailProperties, AppendProperties
  <2> QED
    BY <2>1, <2>2
<1>3. \A s \in Seq(Messages) : s # <<>> => Len(Tail(s)) = Len(s) - 1
  BY HeadTailProperties
<1>4. \A s \in Seq(Messages) : s = <<>> <=> Len(s) = 0
  BY EmptySeq
<1> QED
  BY <1>1, <1>2, <1>3, <1>4

(* A generator that found no channels never gets any. *)
LEMMA WholeStep == TypeInv /\ [Next]_vars /\ AllWhole' => AllWhole
<1> SUFFICES ASSUME TypeInv, [Next]_vars, AllWhole', NEW h \in Gens, pc[h] # "unborn"
             PROVE  hasResume[h] /\ hasYield[h]
  BY DEF AllWhole
<1> USE ActorFacts DEF TypeInv, ThreadOK, CountOK, AllWhole
<1>1. ASSUME NEW a \in Actors, NEW g \in Gens, Create(a, g) PROVE hasResume[h] /\ hasYield[h]
  BY <1>1 DEF Create, Goto
<1>2. ASSUME NEW a \in Actors, NEW g \in Gens, CallNext(a, g) PROVE hasResume[h] /\ hasYield[h]
  BY <1>2 DEF CallNext, Goto, alloc
<1>3. ASSUME NEW g \in Gens, Start(g) PROVE hasResume[h] /\ hasYield[h]
  BY <1>3 DEF Start, EnterBody, Goto, alloc
<1>4. ASSUME NEW g \in Gens, TakePermit(g) PROVE hasResume[h] /\ hasYield[h]
  BY <1>4 DEF TakePermit, Goto, alloc
<1>5. ASSUME NEW g \in Gens, Begin(g) PROVE hasResume[h] /\ hasYield[h]
  BY <1>5 DEF Begin, EnterBody, Goto, alloc
<1>6. ASSUME NEW g \in Gens, Yield(g) PROVE hasResume[h] /\ hasYield[h]
  BY <1>6 DEF Yield, AwaitPermit, Goto, alloc
<1>7. ASSUME NEW g \in Gens, YieldReturns(g) PROVE hasResume[h] /\ hasYield[h]
  BY <1>7 DEF YieldReturns, Goto, alloc
<1>8. ASSUME NEW g \in Gens, Return(g) PROVE hasResume[h] /\ hasYield[h]
  BY <1>8 DEF Return, Finish, Goto, alloc
<1>9. ASSUME NEW g \in Gens, Throw(g) PROVE hasResume[h] /\ hasYield[h]
  BY <1>9 DEF Throw, Finish, Goto, alloc
<1>10. ASSUME NEW a \in Actors, TakeValue(a) PROVE hasResume[h] /\ hasYield[h]
  BY <1>10 DEF TakeValue, Goto, alloc
<1>11. ASSUME NEW a \in Actors, NextReturns(a) PROVE hasResume[h] /\ hasYield[h]
  BY <1>11 DEF NextReturns, Goto, alloc
<1>12. ASSUME NEW a \in Actors, Catch(a) PROVE hasResume[h] /\ hasYield[h]
  BY <1>12 DEF Catch, alloc
<1>13. ASSUME Exit PROVE hasResume[h] /\ hasYield[h]
  BY <1>13 DEF Exit, Goto, alloc
<1>14. CASE UNCHANGED vars
  BY <1>14 DEF vars, thread, queues, alloc, history
<1> QED
  BY <1>1, <1>2, <1>3, <1>4, <1>5, <1>6, <1>7, <1>8, <1>9, <1>10, <1>11, <1>12, <1>13, <1>14
     DEF Next, Worker, Consumer

(* The end of a body passes the token on with the end-of-stream message. *)
LEMMA FinishToken ==
  ASSUME TypeInv, RunInv, AllWhole, OneToken, NEW g \in Gens, gil = g, NEW sig, Finish(g, sig)
  PROVE  /\ OneToken'
         /\ gil' = None /\ values' = [values EXCEPT ![g] = <<Eos>>]
         /\ pc' = [pc EXCEPT ![g] = "dead"]
<1> USE ActorFacts DEF TypeInv, ThreadOK, RunInv, OneToken, Turn, Permit, Value
<1>1. hasYield[g] /\ values[g] = <<>>
  BY DEF AllWhole
<1>2. Append(values[g], Eos) = <<Eos>>
  BY <1>1
<1>3. /\ values' = [values EXCEPT ![g] = <<Eos>>] /\ gil' = None
      /\ pc' = [pc EXCEPT ![g] = "dead"] /\ UNCHANGED permits
  BY <1>1, <1>2 DEF Finish, Send, Goto, QueueOK
<1>4. Len(<<Eos>>) = 1 /\ <<Eos>> # <<>>
  OBVIOUS
<1> QED
  BY <1>1, <1>3, <1>4 DEF QueueOK

LEMMA TokenStep ==
  TypeInv /\ RunInv /\ WaitInv /\ AllWhole /\ OneToken /\ [Next]_vars => OneToken'
<1> SUFFICES ASSUME TypeInv, RunInv, WaitInv, AllWhole, OneToken, [Next]_vars PROVE OneToken'
  OBVIOUS
<1> USE ActorFacts DEF TypeInv, ThreadOK, RunInv, OneToken, Turn, Permit, Value
<1>1. ASSUME NEW a \in Actors, NEW g \in Gens, Create(a, g) PROVE OneToken'
  BY <1>1 DEF Create, Runs, Executes, TwoMore, Goto, queues, history
<1>2. ASSUME NEW a \in Actors, NEW g \in Gens, CallNext(a, g) PROVE OneToken'
  <2>1. gil = a /\ hasResume[g] /\ hasYield[g]
    BY <1>2 DEF CallNext, Runs, Executes, AllWhole
  <2>2. /\ permits' = [permits EXCEPT ![g] = @ + 1] /\ gil' = None
        /\ pc' = [pc EXCEPT ![a] = "wait"] /\ UNCHANGED values
    BY <1>2, <2>1 DEF CallNext, Goto, QueueOK
  <2>3. permits[g] = 0
    BY <2>1 DEF QueueOK
  <2> QED
    BY <2>1, <2>2, <2>3 DEF QueueOK
<1>3. ASSUME NEW g \in Gens, Start(g) PROVE OneToken'
  <2>1. pc' = [pc EXCEPT ![g] = "asleep"] /\ UNCHANGED <<gil, permits, values>>
    BY <1>3 DEF Start, Goto, AllWhole, queues
  <2> QED
    BY <2>1
<1>4. ASSUME NEW g \in Gens, TakePermit(g) PROVE OneToken'
  <2>1. /\ Permit(g) /\ permits[g] = 1 /\ permits' = [permits EXCEPT ![g] = 0]
        /\ pc' = [pc EXCEPT ![g] = "begin"] \/ pc' = [pc EXCEPT ![g] = "resume"]
        /\ UNCHANGED <<gil, values>>
    <3>1. permits[g] > 0 /\ permits[g] <= 1 /\ permits[g] \in Nat
      BY <1>4 DEF TakePermit, QueueOK
    <3>2. permits[g] = 1 /\ permits[g] - 1 = 0
      BY <3>1
    <3>3. permits' = [permits EXCEPT ![g] = permits[g] - 1] /\ UNCHANGED <<gil, values>>
      BY <1>4 DEF TakePermit
    <3>4. pc' = [pc EXCEPT ![g] = "begin"] \/ pc' = [pc EXCEPT ![g] = "resume"]
      BY <1>4 DEF TakePermit, Goto
    <3> QED
      BY <3>1, <3>2, <3>3, <3>4
  <2>2. gil = None
    BY <2>1
  <2> QED
    BY <2>1, <2>2 DEF QueueOK
<1>5. ASSUME NEW g \in Gens, Begin(g) PROVE OneToken'
  BY <1>5 DEF Begin, EnterBody, Goto, queues, alloc, history
<1>6. ASSUME NEW g \in Gens, Yield(g) PROVE OneToken'
  <2>1. gil = g /\ hasResume[g] /\ hasYield[g] /\ values[g] = <<>>
    BY <1>6 DEF Yield, Runs, Executes, AllWhole
  <2>2. /\ values' = [values EXCEPT ![g] = Append(@, yielded[g] + 1)] /\ gil' = None
        /\ pc' = [pc EXCEPT ![g] = "paused"] /\ UNCHANGED permits
    BY <1>6, <2>1 DEF Yield, Send, AwaitPermit, Goto, QueueOK
  <2>3. Len(values'[g]) <= 1
    <3>1. yielded[g] + 1 \in Messages
      BY <1>6, GeneratorAssumption DEF Yield, CountOK, Messages
    <3> QED
      BY <2>1, <2>2, <3>1, MessageProperties DEF QueueOK
  <2> QED
    BY <2>1, <2>2, <2>3 DEF QueueOK
<1>7. ASSUME NEW g \in Gens, YieldReturns(g) PROVE OneToken'
  BY <1>7 DEF YieldReturns, RestoreScope, Goto, queues, alloc, history
<1>8. ASSUME NEW g \in Gens, Return(g) PROVE OneToken'
  <2>0. gil = g /\ Finish(g, None)
    BY <1>8 DEF Return, Runs, Executes
  <2> QED
    BY <2>0, FinishToken
<1>9. ASSUME NEW g \in Gens, Throw(g) PROVE OneToken'
  <2>0. gil = g /\ Finish(g, g)
    BY <1>9 DEF Throw, Executes
  <2> QED
    BY <2>0, FinishToken
<1>10. ASSUME NEW a \in Actors, TakeValue(a) PROVE OneToken'
  <2> DEFINE v == target[a]
  <2>1. v \in Gens /\ Value(v) /\ Len(values[v]) = 1
    <3>1. v \in Gens /\ values[v] # <<>>
      BY <1>10 DEF TakeValue, WaitInv
    <3>2. values[v] \in Seq(Messages) /\ Len(values[v]) \in Nat /\ Len(values[v]) # 0
      BY <3>1, MessageProperties
    <3>3. Len(values[v]) <= 1
      BY <3>1
    <3>4. Len(values[v]) = 1
      <4> DEFINE n == Len(values[v])
      <4>1. n \in Nat /\ n # 0 /\ n <= 1
        BY <3>2, <3>3
      <4> HIDE DEF n
      <4>2. n = 1
        BY <4>1
      <4> QED
        BY <4>2 DEF n
    <3> QED
      BY <3>1, <3>4
  <2>2. Len(Tail(values[v])) = 0 /\ Tail(values[v]) = <<>>
    <3>1. Len(Tail(values[v])) = 0
      BY <2>1, MessageProperties
    <3>2. Tail(values[v]) \in Seq(Messages)
      BY <2>1, MessageProperties, HeadTailProperties
    <3> QED
      BY <3>1, <3>2, MessageProperties
  <2>3. /\ values' = [values EXCEPT ![v] = <<>>] /\ pc' = [pc EXCEPT ![a] = "back"]
        /\ UNCHANGED <<gil, permits>>
    BY <1>10, <2>2 DEF TakeValue, Goto
  <2> HIDE DEF v
  <2> QED
    BY <2>1, <2>3 DEF QueueOK
<1>11. ASSUME NEW a \in Actors, NextReturns(a) PROVE OneToken'
  BY <1>11 DEF NextReturns, RestoreScope, Goto, alloc
<1>12. ASSUME NEW a \in Actors, Catch(a) PROVE OneToken'
  BY <1>12 DEF Catch, Executes, queues, alloc, history
<1>13. ASSUME Exit PROVE OneToken'
  BY <1>13 DEF Exit, Executes, Goto, queues, alloc, history
<1>14. CASE UNCHANGED vars
  BY <1>14 DEF vars, thread, queues, alloc, history
<1> QED
  BY <1>1, <1>2, <1>3, <1>4, <1>5, <1>6, <1>7, <1>8, <1>9, <1>10, <1>11, <1>12, <1>13, <1>14
     DEF Next, Worker, Consumer

LEMMA CountKept ==
  ASSUME NEW h \in Gens, Counted(h), UNCHANGED <<values[h], yielded[h], got[h]>>,
         \A a \in Actors : Held(a, h)' <=> Held(a, h),
         \A a \in Actors : Held(a, h) => inbox'[a] = inbox[a]
  PROVE  Counted(h)'
<1>1. Sent(h)' <=> Sent(h)
  BY DEF Sent, Value
<1>2. InFlight(h)' <=> InFlight(h)
  BY <1>1 DEF InFlight
<1> QED
  BY <1>1, <1>2 DEF Counted

LEMMA CountStep ==
  TypeInv /\ RunInv /\ WaitInv /\ AllWhole /\ OneToken /\ CountInv /\ [Next]_vars => CountInv'
<1> SUFFICES ASSUME TypeInv, RunInv, WaitInv, AllWhole, OneToken, CountInv, [Next]_vars,
                    NEW h \in Gens
             PROVE  Counted(h)'
  BY DEF CountInv
<1>0. Counted(h)
  BY DEF CountInv
<1> USE ActorFacts DEF TypeInv, ThreadOK, RunInv
<1>lone. gil # None =>
           /\ \A a \in Actors : pc[a] # "back"
           /\ \A g \in Gens : ~Value(g)
  BY DEF OneToken, Turn
<1>1. ASSUME NEW a \in Actors, NEW g \in Gens, Create(a, g) PROVE Counted(h)'
  <2>1. /\ UNCHANGED <<values, yielded, got, inbox>>
        /\ \A b \in Actors : pc'[b] = "back" <=> pc[b] = "back"
        /\ \A b \in Actors : pc[b] = "back" => target'[b] = target[b]
    BY <1>1 DEF Create, Runs, Executes, TwoMore, Goto, queues, history
  <2>2. \A b \in Actors : Held(b, h)' <=> Held(b, h)
    BY <2>1 DEF Held
  <2> QED
    BY <1>0, <2>1, <2>2, CountKept
<1>2. ASSUME NEW a \in Actors, NEW g \in Gens, CallNext(a, g) PROVE Counted(h)'
  <2>0. gil = a /\ pc[a] = "run" /\ hasYield[g]
    BY <1>2 DEF CallNext, Runs, Executes, AllWhole
  <2>1. /\ UNCHANGED <<values, yielded, got, inbox>> /\ pc' = [pc EXCEPT ![a] = "wait"]
        /\ target' = [target EXCEPT ![a] = g]
    BY <1>2, <2>0 DEF CallNext, Goto
  <2>2. \A b \in Actors : Held(b, h)' <=> Held(b, h)
    BY <2>0, <2>1 DEF Held, QueueOK
  <2> QED
    BY <1>0, <2>1, <2>2, CountKept
<1>3. ASSUME NEW g \in Gens, Start(g) PROVE Counted(h)'
  <2>1. /\ UNCHANGED <<values, yielded, got, inbox>>
        /\ \A b \in Actors : pc'[b] = "back" <=> pc[b] = "back"
        /\ \A b \in Actors : pc[b] = "back" => target'[b] = target[b]
    BY <1>3 DEF Start, EnterBody, Goto, queues, alloc, history
  <2>2. \A b \in Actors : Held(b, h)' <=> Held(b, h)
    BY <2>1 DEF Held
  <2> QED
    BY <1>0, <2>1, <2>2, CountKept
<1>4. ASSUME NEW g \in Gens, TakePermit(g) PROVE Counted(h)'
  <2>1. /\ UNCHANGED <<values, yielded, got, inbox>>
        /\ \A b \in Actors : pc'[b] = "back" <=> pc[b] = "back"
        /\ \A b \in Actors : pc[b] = "back" => target'[b] = target[b]
    BY <1>4 DEF TakePermit, Goto, alloc, history
  <2>2. \A b \in Actors : Held(b, h)' <=> Held(b, h)
    BY <2>1 DEF Held
  <2> QED
    BY <1>0, <2>1, <2>2, CountKept
<1>5. ASSUME NEW g \in Gens, Begin(g) PROVE Counted(h)'
  <2>1. /\ UNCHANGED <<values, yielded, got, inbox>>
        /\ \A b \in Actors : pc'[b] = "back" <=> pc[b] = "back"
        /\ \A b \in Actors : pc[b] = "back" => target'[b] = target[b]
    BY <1>5 DEF Begin, EnterBody, Goto, queues, alloc, history
  <2>2. \A b \in Actors : Held(b, h)' <=> Held(b, h)
    BY <2>1 DEF Held
  <2> QED
    BY <1>0, <2>1, <2>2, CountKept
<1>6. ASSUME NEW g \in Gens, Yield(g) PROVE Counted(h)'
  <2>1. /\ gil = g /\ hasResume[g] /\ hasYield[g] /\ values[g] = <<>>
        /\ \A b \in Actors : pc[b] # "back"
    BY <1>6, <1>lone DEF Yield, Runs, Executes, AllWhole, Value
  <2>2. /\ values' = [values EXCEPT ![g] = Append(@, yielded[g] + 1)]
        /\ yielded' = [yielded EXCEPT ![g] = @ + 1] /\ UNCHANGED got
        /\ pc' = [pc EXCEPT ![g] = "paused"]
    BY <1>6, <2>1 DEF Yield, Send, AwaitPermit, Goto, QueueOK
  <2>3. \A b \in Actors : ~Held(b, h)' /\ ~Held(b, h)
    BY <2>1, <2>2 DEF Held
  <2>4. CASE h # g
    <3>1. UNCHANGED <<values[h], yielded[h], got[h]>>
      BY <2>2, <2>4 DEF QueueOK, CountOK
    <3> QED
      BY <1>0, <2>3, <3>1, CountKept
  <2>5. CASE h = g
    <3>1. yielded[g] + 1 \in Messages /\ yielded[g] + 1 # Eos /\ yielded[g] \in Nat
      BY <1>6, GeneratorAssumption DEF Yield, CountOK, Messages, Eos
    <3>2. values'[h] # <<>> /\ Head(values'[h]) = yielded[h] + 1 /\ yielded'[h] = yielded[h] + 1
      BY <2>1, <2>2, <2>5, <3>1, MessageProperties DEF QueueOK, CountOK
    <3>3. Sent(h)' /\ InFlight(h)'
      BY <2>5, <3>1, <3>2 DEF Sent, Value, InFlight
    <3>4. ~Sent(h) /\ ~InFlight(h)
      BY <2>1, <2>3, <2>5 DEF Sent, Value, InFlight
    <3>5. yielded[h] = got[h]
      BY <1>0, <3>4 DEF Counted, CountOK
    <3>6. yielded'[h] = got'[h] + 1
      BY <2>2, <3>2, <3>5
    <3> QED
      BY <2>3, <3>2, <3>3, <3>6 DEF Counted
  <2> QED
    BY <2>4, <2>5
<1>7. ASSUME NEW g \in Gens, YieldReturns(g) PROVE Counted(h)'
  <2>1. /\ UNCHANGED <<values, yielded, got, inbox>>
        /\ \A b \in Actors : pc'[b] = "back" <=> pc[b] = "back"
        /\ \A b \in Actors : pc[b] = "back" => target'[b] = target[b]
    BY <1>7 DEF YieldReturns, RestoreScope, Goto, queues, alloc, history
  <2>2. \A b \in Actors : Held(b, h)' <=> Held(b, h)
    BY <2>1 DEF Held
  <2> QED
    BY <1>0, <2>1, <2>2, CountKept
<1>8. ASSUME NEW g \in Gens, Return(g) PROVE Counted(h)'
  <2>0. gil = g /\ Finish(g, None)
    BY <1>8 DEF Return, Runs, Executes
  <2>1. /\ values' = [values EXCEPT ![g] = <<Eos>>] /\ pc' = [pc EXCEPT ![g] = "dead"]
        /\ UNCHANGED <<yielded, got, inbox, target>>
    BY <2>0, FinishToken DEF Finish, history
  <2>2. \A b \in Actors : ~Held(b, h)' /\ ~Held(b, h)
    BY <1>lone, <2>0, <2>1 DEF Held
  <2>3. ~Sent(h)' /\ ~Sent(h)
    BY <1>lone, <2>0, <2>1 DEF Sent, Value, QueueOK
  <2>4. ~InFlight(h)' /\ ~InFlight(h)
    BY <2>2, <2>3 DEF InFlight
  <2> QED
    BY <1>0, <2>1, <2>2, <2>3, <2>4 DEF Counted
<1>9. ASSUME NEW g \in Gens, Throw(g) PROVE Counted(h)'
  <2>0. gil = g /\ Finish(g, g)
    BY <1>9 DEF Throw, Executes
  <2>1. /\ values' = [values EXCEPT ![g] = <<Eos>>] /\ pc' = [pc EXCEPT ![g] = "dead"]
        /\ UNCHANGED <<yielded, got, inbox, target>>
    BY <2>0, FinishToken DEF Finish, history
  <2>2. \A b \in Actors : ~Held(b, h)' /\ ~Held(b, h)
    BY <1>lone, <2>0, <2>1 DEF Held
  <2>3. ~Sent(h)' /\ ~Sent(h)
    BY <1>lone, <2>0, <2>1 DEF Sent, Value, QueueOK
  <2>4. ~InFlight(h)' /\ ~InFlight(h)
    BY <2>2, <2>3 DEF InFlight
  <2> QED
    BY <1>0, <2>1, <2>2, <2>3, <2>4 DEF Counted
<1>10. ASSUME NEW a \in Actors, TakeValue(a) PROVE Counted(h)'
  <2> DEFINE v == target[a]
  <2>1. v \in Gens /\ Value(v) /\ pc[a] = "wait"
    BY <1>10 DEF TakeValue, WaitInv, Value
  <2>2. \A b \in Actors, g \in Gens : ~Held(b, g)
    BY <2>1 DEF OneToken, Turn, Held
  <2>3. \A g \in Gens : Value(g) => g = v
    BY <2>1 DEF OneToken
  <2>4. /\ inbox' = [inbox EXCEPT ![a] = Head(values[v])]
        /\ pc' = [pc EXCEPT ![a] = "back"]
        /\ UNCHANGED <<yielded, got, target>>
    BY <1>10 DEF TakeValue, Goto, history
  <2>5. \A g \in Gens : ~Value(g)'
    <3>1. OneToken'
      BY TokenStep
    <3>2. Turn(a)'
      BY <2>4 DEF Turn
    <3> QED
      BY <2>1, <3>1, <3>2 DEF OneToken
  <2>6. \A b \in Actors : Held(b, h)' <=> b = a /\ h = v /\ Sent(v)
    BY <2>1, <2>2, <2>4 DEF Held, Sent, QueueOK
  <2>7. CASE h # v
    <3>1. ~Sent(h) /\ ~Sent(h)' /\ ~InFlight(h) /\ ~InFlight(h)'
      BY <2>2, <2>3, <2>5, <2>6, <2>7 DEF Sent, InFlight
    <3> QED
      BY <1>0, <2>4, <2>6, <2>7, <3>1 DEF Counted
  <2>8. CASE h = v
    <3>1. ~Sent(h)' /\ (InFlight(h) <=> Sent(h)) /\ (InFlight(h)' <=> Sent(h))
      BY <2>2, <2>5, <2>6, <2>8 DEF Sent, InFlight
    <3>2. \A b \in Actors : Held(b, h)' => inbox'[b] = yielded[h]
      BY <1>0, <2>4, <2>6, <2>8 DEF Counted, QueueOK
    <3> QED
      BY <1>0, <2>4, <3>1, <3>2 DEF Counted
  <2> QED
    BY <2>7, <2>8
<1>11. ASSUME NEW a \in Actors, NextReturns(a) PROVE Counted(h)'
  <2> DEFINE v == target[a]
  <2>1. v \in Gens /\ pc[a] = "back"
    BY <1>11 DEF NextReturns, WaitInv
  <2>2. \A b \in Actors : pc[b] = "back" => b = a
    BY <2>1 DEF OneToken, Turn
  <2>3. \A g \in Gens : ~Value(g)
    BY <2>1 DEF OneToken, Turn
  <2>4. pc' = [pc EXCEPT ![a] = "run"] /\ UNCHANGED <<values, yielded, target>>
    BY <1>11 DEF NextReturns, Goto
  <2>5. got' = IF inbox[a] = Eos THEN got ELSE [got EXCEPT ![v] = @ + 1]
    BY <1>11 DEF NextReturns
  <2>6. \A b \in Actors : ~Held(b, h)'
    BY <2>2, <2>4 DEF Held
  <2>7. ~Sent(h) /\ ~Sent(h)' /\ ~InFlight(h)'
    BY <2>3, <2>4, <2>6 DEF Sent, Value, InFlight
  <2>8. InFlight(h) <=> h = v /\ inbox[a] # Eos
    BY <2>1, <2>2, <2>7 DEF InFlight, Held
  <2>9. yielded[h] = got'[h]
    BY <1>0, <2>1, <2>5, <2>8 DEF Counted, CountOK
  <2> QED
    BY <2>4, <2>6, <2>7, <2>9 DEF Counted, CountOK
<1>12. ASSUME NEW a \in Actors, Catch(a) PROVE Counted(h)'
  <2>1. /\ UNCHANGED <<values, yielded, got, inbox>>
        /\ \A b \in Actors : pc'[b] = "back" <=> pc[b] = "back"
        /\ \A b \in Actors : pc[b] = "back" => target'[b] = target[b]
    BY <1>12 DEF Catch, Executes, queues, alloc, history
  <2>2. \A b \in Actors : Held(b, h)' <=> Held(b, h)
    BY <2>1 DEF Held
  <2> QED
    BY <1>0, <2>1, <2>2, CountKept
<1>13. ASSUME Exit PROVE Counted(h)'
  <2>1. /\ UNCHANGED <<values, yielded, got, inbox>>
        /\ \A b \in Actors : pc'[b] = "back" <=> pc[b] = "back"
        /\ \A b \in Actors : pc[b] = "back" => target'[b] = target[b]
    BY <1>13 DEF Exit, Executes, Goto, queues, alloc, history
  <2>2. \A b \in Actors : Held(b, h)' <=> Held(b, h)
    BY <2>1 DEF Held
  <2> QED
    BY <1>0, <2>1, <2>2, CountKept
<1>14. CASE UNCHANGED vars
  BY <1>0, <1>14, CountKept DEF vars, thread, queues, alloc, history, Held
<1> QED
  BY <1>1, <1>2, <1>3, <1>4, <1>5, <1>6, <1>7, <1>8, <1>9, <1>10, <1>11, <1>12, <1>13, <1>14
     DEF Next, Worker, Consumer

LEMMA AskStep ==
  TypeInv /\ RunInv /\ WaitInv /\ AllWhole /\ AskInv /\ [Next]_vars => AskInv'
<1> SUFFICES ASSUME TypeInv, RunInv, WaitInv, AllWhole, AskInv, [Next]_vars PROVE AskInv'
  OBVIOUS
<1> USE ActorFacts DEF TypeInv, ThreadOK, CountOK, RunInv, AskInv
<1>1. ASSUME NEW a \in Actors, NEW g \in Gens, Create(a, g) PROVE AskInv'
  BY <1>1 DEF Create, Runs, Executes, TwoMore, Goto, queues, history
<1>2. ASSUME NEW a \in Actors, NEW g \in Gens, CallNext(a, g) PROVE AskInv'
  <2>0. gil = a /\ pc[a] = "run" /\ hasYield[g] /\ hasResume[g]
    BY <1>2 DEF CallNext, Runs, Executes, AllWhole
  <2>1. /\ permits' = [permits EXCEPT ![g] = @ + 1] /\ asked' = [asked EXCEPT ![g] = @ + 1]
        /\ pc' = [pc EXCEPT ![a] = "wait"] /\ UNCHANGED yielded
    BY <1>2, <2>0 DEF CallNext, Goto, QueueOK
  <2>2. ASSUME NEW h \in Gens
        PROVE  IF pc'[h] \in {"unborn", "new", "asleep", "paused"}
               THEN yielded'[h] + permits'[h] <= asked'[h]
               ELSE yielded'[h] + permits'[h] < asked'[h]
    <3>1. permits[h] \in Nat /\ asked[h] \in Nat /\ yielded[h] \in Nat
      BY DEF QueueOK
    <3>2. CASE h = g
      <4>1. permits'[h] = permits[h] + 1 /\ asked'[h] = asked[h] + 1 /\ yielded'[h] = yielded[h]
        BY <2>1, <3>2 DEF QueueOK
      <4> QED
        BY <2>0, <2>1, <3>1, <4>1
    <3>3. CASE h # g
      <4>1. permits'[h] = permits[h] /\ asked'[h] = asked[h] /\ yielded'[h] = yielded[h]
        BY <2>1, <3>3 DEF QueueOK
      <4> QED
        BY <2>0, <2>1, <3>1, <4>1
    <3> QED
      BY <3>2, <3>3
  <2> QED
    BY <2>2
<1>3. ASSUME NEW g \in Gens, Start(g) PROVE AskInv'
  <2>1. pc' = [pc EXCEPT ![g] = "asleep"] /\ UNCHANGED <<permits, asked, yielded>>
    BY <1>3 DEF Start, Goto, AllWhole, queues, history
  <2> QED
    BY <1>3, <2>1 DEF Start
<1>4. ASSUME NEW g \in Gens, TakePermit(g) PROVE AskInv'
  <2>1. permits' = [permits EXCEPT ![g] = @ - 1] /\ permits[g] > 0 /\ UNCHANGED <<asked, yielded>>
    BY <1>4 DEF TakePermit, history
  <2>2. /\ pc[g] \in {"asleep", "paused"}
        /\ pc' = [pc EXCEPT ![g] = "begin"] \/ pc' = [pc EXCEPT ![g] = "resume"]
    BY <1>4 DEF TakePermit, Goto
  <2> QED
    BY <2>1, <2>2 DEF QueueOK
<1>5. ASSUME NEW g \in Gens, Begin(g) PROVE AskInv'
  BY <1>5 DEF Begin, EnterBody, Goto, queues, alloc, history
<1>6. ASSUME NEW g \in Gens, Yield(g) PROVE AskInv'
  <2>1. pc[g] = "run" /\ hasResume[g]
    BY <1>6 DEF Yield, Runs, Executes, AllWhole
  <2>2. /\ yielded' = [yielded EXCEPT ![g] = @ + 1] /\ UNCHANGED <<permits, asked>>
        /\ pc' = [pc EXCEPT ![g] = "paused"]
    BY <1>6, <2>1 DEF Yield, AwaitPermit, Goto
  <2> QED
    BY <2>1, <2>2 DEF QueueOK
<1>7. ASSUME NEW g \in Gens, YieldReturns(g) PROVE AskInv'
  BY <1>7 DEF YieldReturns, RestoreScope, Goto, queues, alloc, history
<1>8. ASSUME NEW g \in Gens, Return(g) PROVE AskInv'
  BY <1>8 DEF Return, Runs, Executes, Finish, Send, Goto, alloc, history
<1>9. ASSUME NEW g \in Gens, Throw(g) PROVE AskInv'
  BY <1>9 DEF Throw, Executes, Finish, Send, Goto, alloc, history
<1>10. ASSUME NEW a \in Actors, TakeValue(a) PROVE AskInv'
  BY <1>10 DEF TakeValue, Goto, alloc, history
<1>11. ASSUME NEW a \in Actors, NextReturns(a) PROVE AskInv'
  BY <1>11 DEF NextReturns, RestoreScope, Goto, alloc
<1>12. ASSUME NEW a \in Actors, Catch(a) PROVE AskInv'
  BY <1>12 DEF Catch, Executes, queues, alloc, history
<1>13. ASSUME Exit PROVE AskInv'
  BY <1>13 DEF Exit, Executes, Goto, queues, alloc, history
<1>14. CASE UNCHANGED vars
  BY <1>14 DEF vars, thread, queues, alloc, history
<1> QED
  BY <1>1, <1>2, <1>3, <1>4, <1>5, <1>6, <1>7, <1>8, <1>9, <1>10, <1>11, <1>12, <1>13, <1>14
     DEF Next, Worker, Consumer

LEMMA SignalStep ==
  TypeInv /\ RunInv /\ WaitInv /\ AllWhole /\ OneToken /\ SignalInv /\ [Next]_vars => SignalInv'
<1> SUFFICES ASSUME TypeInv, RunInv, WaitInv, AllWhole, OneToken, SignalInv, [Next]_vars
             PROVE  SignalInv'
  OBVIOUS
<1> USE ActorFacts DEF TypeInv, ThreadOK, RunInv, SignalInv, Value
<1>1. ASSUME NEW a \in Actors, NEW g \in Gens, Create(a, g) PROVE SignalInv'
  BY <1>1 DEF Create, Runs, Executes, TwoMore, Goto, queues, history
<1>2. ASSUME NEW a \in Actors, NEW g \in Gens, CallNext(a, g) PROVE SignalInv'
  <2>1. signal = None /\ UNCHANGED signal
    BY <1>2 DEF CallNext, Runs
  <2> QED
    BY <2>1
<1>3. ASSUME NEW g \in Gens, Start(g) PROVE SignalInv'
  <2>1. pc' = [pc EXCEPT ![g] = "asleep"] /\ UNCHANGED <<gil, signal, target, permits, values>>
    BY <1>3 DEF Start, Goto, AllWhole, queues
  <2> QED
    BY <2>1
<1>4. ASSUME NEW g \in Gens, TakePermit(g) PROVE SignalInv'
  BY <1>4 DEF TakePermit, Goto, alloc, history
<1>5. ASSUME NEW g \in Gens, Begin(g) PROVE SignalInv'
  BY <1>5 DEF Begin, EnterBody, Goto, queues, alloc, history
<1>6. ASSUME NEW g \in Gens, Yield(g) PROVE SignalInv'
  <2>1. signal = None /\ UNCHANGED signal
    BY <1>6 DEF Yield, Runs
  <2> QED
    BY <2>1
<1>7. ASSUME NEW g \in Gens, YieldReturns(g) PROVE SignalInv'
  BY <1>7 DEF YieldReturns, RestoreScope, Goto, queues, alloc, history
<1>8. ASSUME NEW g \in Gens, Return(g) PROVE SignalInv'
  <2>1. signal' = None
    BY <1>8 DEF Return, Finish
  <2> QED
    BY <2>1
<1>9. ASSUME NEW g \in Gens, Throw(g) PROVE SignalInv'
  <2>0. gil = g /\ Finish(g, g)
    BY <1>9 DEF Throw, Executes
  <2>1. /\ signal' = g /\ gil' = None /\ values' = [values EXCEPT ![g] = <<Eos>>]
        /\ pc' = [pc EXCEPT ![g] = "dead"] /\ UNCHANGED permits
    BY <2>0, FinishToken DEF Finish
  <2>2. /\ \A a \in Actors : pc[a] \notin {"begin", "resume", "back"}
        /\ \A h \in Gens : ~(permits[h] > 0) /\ values[h] = <<>>
    BY <2>0 DEF OneToken, Turn, Permit
  <2> QED
    BY <2>1, <2>2 DEF QueueOK
<1>10. ASSUME NEW a \in Actors, TakeValue(a) PROVE SignalInv'
  <2> DEFINE v == target[a]
  <2>1. v \in Gens /\ values[v] # <<>> /\ pc[a] = "wait"
    BY <1>10 DEF TakeValue, WaitInv
  <2>2. signal # None => v = signal
    BY <2>1
  <2>3. /\ pc' = [pc EXCEPT ![a] = "back"] /\ UNCHANGED <<gil, signal, permits, target>>
        /\ values' = [values EXCEPT ![v] = Tail(@)]
    BY <1>10 DEF TakeValue, Goto
  <2>4. \A h \in Gens : values'[h] # <<>> => values[h] # <<>>
    BY <2>1, <2>3 DEF QueueOK
  <2> HIDE DEF v
  <2> QED
    BY <2>2, <2>3, <2>4 DEF v
<1>11. ASSUME NEW a \in Actors, NextReturns(a) PROVE SignalInv'
  BY <1>11 DEF NextReturns, RestoreScope, Goto, alloc
<1>12. ASSUME NEW a \in Actors, Catch(a) PROVE SignalInv'
  BY <1>12 DEF Catch, Executes, queues, alloc, history
<1>13. ASSUME Exit PROVE SignalInv'
  BY <1>13 DEF Exit, Executes, Goto, queues, alloc, history
<1>14. CASE UNCHANGED vars
  BY <1>14 DEF vars, thread, queues, alloc, history
<1> QED
  BY <1>1, <1>2, <1>3, <1>4, <1>5, <1>6, <1>7, <1>8, <1>9, <1>10, <1>11, <1>12, <1>13, <1>14
     DEF Next, Worker, Consumer

-----------------------------------------------------------------------------
(* The inductive invariant, and what follows from it. *)

Inv == TypeInv /\ RunInv /\ WaitInv /\ ScopeInv /\ Handover

LEMMA InvInit == Init => Inv
<1> SUFFICES ASSUME Init PROVE Handover
  BY TypeInit DEF Inv
<1>1. OneToken /\ SignalInv
  BY ActorFacts DEF Init, OneToken, SignalInv, Turn, Permit, Value
<1>2. AskInv
  BY ActorFacts DEF Init, AskInv
<1>3. CountInv
  BY ActorFacts DEF Init, CountInv, Counted, InFlight, Sent, Held, Value
<1> QED
  BY <1>1, <1>2, <1>3 DEF Handover

LEMMA InvStep == Inv /\ [Next]_vars => Inv'
<1> SUFFICES ASSUME Inv, [Next]_vars PROVE Inv'
  OBVIOUS
<1>1. TypeInv'
  BY ThreadOKStep, QueueOKStep, CountOKStep DEF Inv, TypeInv
<1>2. RunInv' /\ WaitInv' /\ ScopeInv'
  BY RunStep, ScopeStep DEF Inv
<1>3. ASSUME AllWhole' PROVE (OneToken /\ CountInv /\ AskInv /\ SignalInv)'
  <2>1. AllWhole
    BY <1>3, WholeStep DEF Inv
  <2> QED
    BY <2>1, TokenStep, CountStep, AskStep, SignalStep DEF Inv, Handover
<1> QED
  BY <1>1, <1>2, <1>3 DEF Inv, Handover

LEMMA GeneratorInvariant == Spec => []Inv
  BY InvInit, InvStep, PTL DEF Spec

(* Whoever executes finds its own scope in the shared Interp, however the  *)
(* handovers nest and whether or not there were channels left.             *)
THEOREM GeneratorScopeIsMine == Spec => []ScopeIsMine
<1>1. Inv => ScopeIsMine
  BY DEF Inv, ScopeInv
<1> QED
  BY <1>1, GeneratorInvariant, PTL

(* An exception that ends a body surfaces in the caller of its .next().    *)
THEOREM GeneratorThrowReachesCaller == Spec => []ThrowReachesCaller
<1>1. Inv => ThrowReachesCaller
  BY DEF Inv, Handover, SignalInv, ThrowReachesCaller, Executes
<1> QED
  BY <1>1, GeneratorInvariant, PTL

(* Consumers get every value once and in order, and the body is never      *)
(* ahead of its consumers.                                                 *)
THEOREM GeneratorInOrder == Spec => []InOrder
<1>1. ASSUME Inv PROVE InOrder
  <2>1. TypeOK
    <3>1. \A g \in Gens : \A i \in 1..Len(values[g]) : values[g][i] \in {Eos} \cup 1..MaxYields
      BY <1>1, ElementOfSeq DEF Inv, TypeInv, QueueOK, Messages
    <3> QED
      BY <1>1, <3>1 DEF Inv, TypeInv, ThreadOK, QueueOK, CountOK, TypeOK
  <2>2. ASSUME AllWhole, NEW g \in Gens
        PROVE  LET held == {a \in Actors : pc[a] = "back" /\ target[a] = g /\ inbox[a] # Eos}
                   sent == {i \in 1..Len(values[g]) : values[g][i] # Eos}
               IN  /\ Cardinality(held) <= 1
                   /\ \A a \in held : inbox[a] = got[g] + 1
                   /\ \A i \in sent : values[g][i] = got[g] + Cardinality(held) + i
                   /\ got[g] + Cardinality(held) + Cardinality(sent) = yielded[g]
                   /\ yielded[g] <= asked[g]
    <3> DEFINE held == {a \in Actors : pc[a] = "back" /\ target[a] = g /\ inbox[a] # Eos}
               sent == {i \in 1..Len(values[g]) : values[g][i] # Eos}
    <3>0. /\ OneToken /\ Counted(g) /\ AskInv
          /\ got[g] \in Nat /\ yielded[g] \in Nat /\ asked[g] \in Nat /\ permits[g] \in Nat
          /\ values[g] \in Seq(Messages) /\ Len(values[g]) \in Nat
      BY <1>1, <2>2, LenProperties
         DEF Inv, Handover, CountInv, TypeInv, QueueOK, CountOK
    <3>1. yielded[g] <= asked[g]
      BY <3>0 DEF AskInv
    <3>2. held = {a \in Actors : Held(a, g)}
      BY DEF Held
    <3>3. sent = IF Sent(g) THEN {1} ELSE {}
      <4>1. CASE values[g] = <<>>
        BY <4>1 DEF Sent, Value
      <4>2. CASE values[g] # <<>>
        <5>1. Len(values[g]) # 0
          BY <3>0, <4>2, EmptySeq
        <5>2. Len(values[g]) <= 1
          BY <3>0 DEF OneToken
        <5>3. 1..Len(values[g]) = {1}
          BY <3>0, <5>1, <5>2
        <5>4. Head(values[g]) = values[g][1]
          BY <3>0, <4>2, HeadTailProperties
        <5> QED
          BY <4>2, <5>3, <5>4 DEF Sent, Value
      <4> QED
        BY <4>1, <4>2
    <3>4. Sent(g) => values[g][1] = yielded[g]
      <4>1. Sent(g) => Head(values[g]) = values[g][1]
        BY <3>0, HeadTailProperties DEF Sent, Value
      <4> QED
        BY <3>0, <4>1 DEF Counted
    <3>5. CASE \E a \in Actors : Held(a, g)
      <4>1. PICK a \in Actors : Held(a, g)
        BY <3>5
      <4>2. held = {a}
        BY <3>0, <3>2, <4>1 DEF OneToken, Turn, Held
      <4>3. ~Sent(g)
        BY <3>0, <4>1 DEF OneToken, Turn, Held, Sent
      <4>4. Cardinality(held) = 1 /\ Cardinality(sent) = 0
        BY <3>3, <4>2, <4>3, FS_EmptySet, FS_Singleton
      <4>5. yielded[g] = got[g] + 1 /\ inbox[a] = yielded[g]
        BY <3>0, <4>1 DEF Counted, InFlight
      <4> HIDE DEF held, sent
      <4>6. /\ Cardinality(held) <= 1
            /\ \A b \in held : inbox[b] = got[g] + 1
            /\ \A i \in sent : values[g][i] = got[g] + Cardinality(held) + i
            /\ got[g] + Cardinality(held) + Cardinality(sent) = yielded[g]
        BY <3>0, <3>3, <4>2, <4>3, <4>4, <4>5
      <4> QED
        BY <3>1, <4>6 DEF held, sent
    <3>6. CASE ~ \E a \in Actors : Held(a, g)
      <4>1. held = {} /\ Cardinality(held) = 0
        BY <3>2, <3>6, FS_EmptySet
      <4>2. yielded[g] = got[g] + IF Sent(g) THEN 1 ELSE 0
        BY <3>0, <3>6 DEF Counted, InFlight
      <4>3. Cardinality(sent) = IF Sent(g) THEN 1 ELSE 0
        BY <3>3, FS_EmptySet, FS_Singleton
      <4> HIDE DEF held, sent
      <4>4. /\ Cardinality(held) <= 1
            /\ \A b \in held : inbox[b] = got[g] + 1
            /\ \A i \in sent : values[g][i] = got[g] + Cardinality(held) + i
            /\ got[g] + Cardinality(held) + Cardinality(sent) = yielded[g]
        BY <3>0, <3>3, <3>4, <4>1, <4>2, <4>3
      <4> QED
        BY <3>1, <4>4 DEF held, sent
    <3> QED
      BY <3>5, <3>6
  <2> QED
    BY <2>1, <2>2 DEF InOrder
<1> QED
  BY <1>1, GeneratorInvariant, PTL

=============================================================================
