--------------------------- MODULE InterpTasksProofs -------------------------
(***************************************************************************)
(* Proofs about InterpTasks, for any number of tasks and nursery blocks.   *)
(***************************************************************************)
EXTENDS InterpTasks, SequenceTheorems, FiniteSetTheorems, TLAPS

-----------------------------------------------------------------------------
(* Sequences. *)

LEMMA SetLastProperties ==
  ASSUME NEW S, NEW s \in Seq(S), s # <<>>, NEW e \in S
  PROVE  /\ SetLast(s, e) \in Seq(S)
         /\ Len(SetLast(s, e)) = Len(s)
         /\ SetLast(s, e) # <<>>
         /\ Last(SetLast(s, e)) = e
         /\ \A i \in 1..Len(s) : SetLast(s, e)[i] = IF i = Len(s) THEN e ELSE s[i]
<1>1. Len(s) \in 1..Len(s)
  BY EmptySeq, LenProperties
<1>2. /\ SetLast(s, e) \in Seq(S)
      /\ Len(SetLast(s, e)) = Len(s)
      /\ \A i \in 1..Len(s) : SetLast(s, e)[i] = IF i = Len(s) THEN e ELSE s[i]
  BY <1>1, ExceptSeq DEF SetLast
<1> QED
  BY <1>1, <1>2, EmptySeq DEF Last

LEMMA PrefixProperties ==
  ASSUME NEW S, NEW s \in Seq(S), NEW n \in 0..Len(s)
  PROVE  /\ SubSeq(s, 1, n) \in Seq(S)
         /\ Len(SubSeq(s, 1, n)) = n
         /\ \A i \in 1..n : SubSeq(s, 1, n)[i] = s[i]
<1>1. Len(s) \in Nat
  BY LenProperties
<1>2. \A i \in 1..n : s[i] \in S
  BY <1>1, ElementOfSeq
<1>3. /\ SubSeq(s, 1, n) \in Seq(S)
      /\ Len(SubSeq(s, 1, n)) = IF 1 <= n THEN n - 1 + 1 ELSE 0
      /\ \A i \in 1..n - 1 + 1 : SubSeq(s, 1, n)[i] = s[1 + i - 1]
  BY <1>1, <1>2, SubSeqProperties
<1> QED
  BY <1>1, <1>3

LEMMA LastFrontProperties ==
  ASSUME NEW S, NEW s \in Seq(S), s # <<>>
  PROVE  /\ Len(s) \in Nat \ {0}
         /\ Last(s) \in S
         /\ Last(s) = s[Len(s)]
         /\ Front(s) \in Seq(S)
         /\ Len(Front(s)) = Len(s) - 1
         /\ \A i \in 1..Len(s) - 1 : Front(s)[i] = s[i]
<1>1. Len(s) \in Nat \ {0}
  BY EmptySeq
<1>2. Last(s) \in S /\ Last(s) = s[Len(s)]
  BY <1>1, ElementOfSeq DEF Last
<1>3. Len(s) - 1 \in 0..Len(s)
  BY <1>1
<1> QED
  BY <1>1, <1>2, <1>3, PrefixProperties DEF Front

LEMMA AppendLast ==
  ASSUME NEW S, NEW s \in Seq(S), NEW e \in S
  PROVE  /\ Append(s, e) \in Seq(S)
         /\ Len(s) \in Nat /\ Len(Append(s, e)) = Len(s) + 1
         /\ Append(s, e) # <<>>
         /\ Last(Append(s, e)) = e
         /\ \A i \in 1..Len(s) : Append(s, e)[i] = s[i]
         /\ Append(s, e)[Len(s) + 1] = e
<1>1. /\ Append(s, e) \in Seq(S) /\ Len(s) \in Nat /\ Len(Append(s, e)) = Len(s) + 1
      /\ \A i \in 1..Len(s) : Append(s, e)[i] = s[i]
      /\ Append(s, e)[Len(s) + 1] = e
  BY AppendProperties, LenProperties
<1>2. Append(s, e) # <<>>
  BY <1>1, EmptySeq
<1> QED
  BY <1>1, <1>2 DEF Last

-----------------------------------------------------------------------------
(* Types, and where a thread can be. *)

Activations ==
  [q : Queues, queue : 0..MaxNurseries, tls : 0..MaxNurseries, joining : BOOLEAN]

FlatOK ==
  /\ gil \in Threads \cup {None}
  /\ pc \in [Threads -> PCs]
  /\ env \in Threads /\ cf \in Signals \cup {None} /\ queue \in 0..MaxNurseries
  /\ freed \subseteq Queues
  /\ spawned \in 0..MaxTasks /\ nurseries \in 0..MaxNurseries
  /\ done \in [Tasks -> BOOLEAN] /\ cancelled \in [Tasks -> BOOLEAN]
  /\ error \in [Tasks -> Signals \cup {None}]
  /\ nid \in [Tasks -> 0..MaxNurseries] /\ tls \in [Threads -> 0..MaxNurseries]
  /\ saved \in [Tasks -> [env : Threads, cf : Signals \cup {None}]]
  /\ real \in [Threads -> {"throw", None}]
  /\ next \in [Threads -> Nat \ {0}]
  /\ got \in [Threads -> Signals \cup {None}]
  /\ target \in [Threads -> Tasks \cup {None}]
  /\ threw \in [Threads -> BOOLEAN]
  /\ failed \subseteq Tasks
  /\ suspended \in BOOLEAN

SeqsOK ==
  /\ items \in [Queues -> Seq(Tasks)]
  /\ open \in [Threads -> Seq(Activations)]
  /\ block \in [Threads -> Seq(SUBSET Tasks)]

(* The threads that are not inside a body have no nursery open, and main and the
   tasks have steps of their own. *)
Outside == {"none", "new", "retire", "gone", "drain", "drain_wait", "exit"}

(* A thread joins the innermost of its nurseries, and no other. *)
PlaceInv ==
  \A p \in Threads :
    /\ pc[p] \in Outside => open[p] = <<>>
    /\ pc[p] = "join" => Joining(p)
    /\ Joining(p) => pc[p] \in {"join", "wait", "took"}
    /\ \A i \in 1..Len(open[p]) - 1 : ~open[p][i].joining
    /\ Len(block[p]) = Len(open[p])
    /\ p \in Tasks => pc[p] \notin {"drain", "drain_wait", "exit"}
    /\ p = Main => pc[p] \notin {"none", "new", "retire", "gone"}

(* Whoever waits, or has just waited, knows for which task. *)
WaitInv ==
  /\ \A p \in Threads : pc[p] \in {"wait", "took"} => target[p] \in Tasks
  /\ pc[Main] = "drain_wait" => target[Main] \in Tasks

(* A thread that was not created yet is nowhere. *)
NotYet == \A t \in Tasks : t > spawned <=> pc[t] = "none"

TypeInv == FlatOK /\ SeqsOK /\ PlaceInv /\ WaitInv /\ NotYet

LEMMA ThreadFacts ==
  /\ Main \in Threads /\ Main \notin Tasks
  /\ \A p \in Threads : p = Main \/ p \in Tasks
  /\ \A t \in Tasks : t \in Threads
  /\ None \notin Threads /\ None \notin Tasks /\ None \notin Signals
  /\ 0 \in 0..MaxNurseries /\ 0 \in 0..MaxTasks
  /\ \A n \in 0..MaxTasks : n < MaxTasks => n + 1 \in Tasks /\ n + 1 \in 0..MaxTasks
  /\ \A n \in 0..MaxNurseries : n < MaxNurseries => n + 1 \in 0..MaxNurseries /\ n + 1 \in Queues
  /\ \A q \in Queues : q \in 0..MaxNurseries
  BY InterpTasksAssumption DEF Main, Threads, Tasks, Signals, Queues

(* The innermost nursery of a thread. *)
LEMMA Innermost ==
  ASSUME SeqsOK, NEW p \in Threads, open[p] # <<>>
  PROVE  /\ open[p] \in Seq(Activations) /\ Len(open[p]) \in Nat \ {0}
         /\ Last(open[p]) \in Activations /\ Last(open[p]) = open[p][Len(open[p])]
         /\ Last(open[p]).q \in Queues /\ Last(open[p]).queue \in 0..MaxNurseries
         /\ Last(open[p]).tls \in 0..MaxNurseries /\ Last(open[p]).joining \in BOOLEAN
<1>1. open[p] \in Seq(Activations)
  BY DEF SeqsOK
<1>2. /\ Len(open[p]) \in Nat \ {0} /\ Last(open[p]) \in Activations
      /\ Last(open[p]) = open[p][Len(open[p])]
  BY <1>1, LastFrontProperties
<1> QED
  BY <1>1, <1>2 DEF Activations

(* Every spawned task is a task. *)
LEMMA SpawnedAreTasks == \A n \in 0..MaxTasks : \A t \in 1..n : t \in Tasks
  BY InterpTasksAssumption DEF Tasks

LEMMA FlatStep == TypeInv /\ [Next]_vars => FlatOK'
<1> SUFFICES ASSUME TypeInv, [Next]_vars PROVE FlatOK'
  OBVIOUS
<1>0. FlatOK /\ SeqsOK /\ PlaceInv /\ WaitInv
  BY DEF TypeInv
<1> USE <1>0, ThreadFacts DEF FlatOK, PCs, Signals
<1>1. ASSUME NEW p \in Threads, Spawn(p) PROVE FlatOK'
  BY <1>1 DEF Spawn, Running, Evaluating, Goto, NewTask, local
<1>2. ASSUME NEW p \in Threads, Await(p) PROVE FlatOK'
  BY <1>2, SpawnedAreTasks DEF Await, Running, Evaluating, WaitFor, DropGil, Goto, interp, record
<1>3. ASSUME NEW p \in Threads, TakeResult(p) PROVE FlatOK'
  BY <1>3 DEF TakeResult, JoinTakes, Goto, interp, history, WaitInv
<1>4. ASSUME NEW p \in Threads, Resume(p) PROVE FlatOK'
  <2>1. /\ pc' \in [Threads -> PCs] /\ gil' \in Threads \cup {None}
        /\ got' \in [Threads -> Signals \cup {None}] /\ target' \in [Threads -> Tasks \cup {None}]
    BY <1>4 DEF Resume, TakeGil, Goto
  <2>2. real' \in [Threads -> {"throw", None}]
    BY <1>4 DEF Resume, FirstError
  <2>3. next' \in [Threads -> Nat \ {0}]
    BY <1>4 DEF Resume
  <2>4. UNCHANGED <<interp, spawned, nurseries, record, tls, saved, history>>
    BY <1>4 DEF Resume
  <2> QED
    BY <2>1, <2>2, <2>3, <2>4 DEF interp, record, history
<1>5. ASSUME NEW p \in Threads, NurseryBegin(p) PROVE FlatOK'
  BY <1>5 DEF NurseryBegin, Running, Evaluating, record
<1>6. ASSUME NEW p \in Threads, NurseryBody(p) PROVE FlatOK'
  <2>1. Last(open[p]).queue \in 0..MaxNurseries /\ Last(open[p]).tls \in 0..MaxNurseries
    BY <1>6, Innermost DEF NurseryBody
  <2>2. /\ queue' = Last(open[p]).queue /\ tls' = [tls EXCEPT ![p] = Last(open[p]).tls]
        /\ real' = [real EXCEPT ![p] = None] /\ next' = [next EXCEPT ![p] = 1]
        /\ pc' = [pc EXCEPT ![p] = "join"]
        /\ UNCHANGED <<gil, env, cf, freed, spawned, nurseries, record, saved, target, got,
                       history>>
    BY <1>6 DEF NurseryBody, RestoreQueue, Goto
  <2> HIDE DEF FlatOK
  <2>3. queue' \in 0..MaxNurseries /\ tls' \in [Threads -> 0..MaxNurseries]
    BY <2>1, <2>2 DEF FlatOK
  <2> QED
    BY <2>2, <2>3 DEF FlatOK, record, history
<1>7. ASSUME NEW p \in Threads, JoinNext(p) PROVE FlatOK'
  <2>1. pc[p] = "join" /\ open[p] # <<>> /\ ~JoinOver(p)
    BY <1>7 DEF JoinNext, PlaceInv, Joining
  <2>2. Tasks_of(p) \in Seq(Tasks)
    BY <2>1, Innermost DEF Tasks_of, SeqsOK
  <2>3. next[p] \in 1..Len(Tasks_of(p))
    BY <2>1, <2>2, LenProperties DEF JoinOver
  <2>4. Tasks_of(p)[next[p]] \in Tasks
    BY <2>2, <2>3, ElementOfSeq
  <2> QED
    BY <1>7, <2>4 DEF JoinNext, WaitFor, DropGil, Goto, interp, record
<1>8. ASSUME NEW p \in Threads, NurseryLeave(p) PROVE FlatOK'
  <2>1. Last(open[p]).q \in Queues
    BY <1>8, Innermost DEF NurseryLeave, PlaceInv, Joining
  <2> QED
    BY <1>8, <2>1 DEF NurseryLeave, Goto, record
<1>9. ASSUME NEW p \in Threads, Throw(p) PROVE FlatOK'
  BY <1>9 DEF Throw, Running, Evaluating, record, local
<1>10. ASSUME NEW p \in Threads, Catch(p) PROVE FlatOK'
  BY <1>10 DEF Catch, Unwinding, Evaluating, record, local
<1>11. ASSUME NEW p \in Threads, Sleep(p) PROVE FlatOK'
  BY <1>11 DEF Sleep, Running, Evaluating, DropGil, Goto, interp, record, local
<1>12. ASSUME NEW p \in Threads, SleepEnd(p) PROVE FlatOK'
  BY <1>12 DEF SleepEnd, TakeGil, Goto, record, local
<1>13. ASSUME NEW t \in Tasks, StartTask(t) PROVE FlatOK'
  BY <1>13 DEF StartTask, TakeGil, Enter, Goto, record, history
<1>14. ASSUME NEW t \in Tasks, EndTask(t) PROVE FlatOK'
  BY <1>14 DEF EndTask, Evaluating, Leave, Goto, local
<1>15. ASSUME NEW t \in Tasks, Retire(t) PROVE FlatOK'
  BY <1>15 DEF Retire, Goto, interp, local, history
<1>16. ASSUME EndMain PROVE FlatOK'
  BY <1>16 DEF EndMain, Evaluating, Goto, record, local
<1>17. ASSUME Drain PROVE FlatOK'
  <2>1. 1..spawned \subseteq Tasks
    BY InterpTasksAssumption DEF Tasks
  <2> QED
    BY <1>17, <2>1 DEF Drain, Goto, interp, record, history
<1>18. ASSUME DrainWake PROVE FlatOK'
  BY <1>18 DEF DrainWake, TakeGil, Goto, interp, record, history
<1>19. ASSUME DrainEnd PROVE FlatOK'
  BY <1>19 DEF DrainEnd, Goto, interp, record, local, history
<1>20. ASSUME Exited PROVE FlatOK'
  BY <1>20 DEF Exited, vars, interp, record, local, history
<1>21. CASE UNCHANGED vars
  BY <1>21 DEF vars, interp, record, local, history
<1> QED
  BY <1>1, <1>2, <1>3, <1>4, <1>5, <1>6, <1>7, <1>8, <1>9, <1>10, <1>11, <1>12, <1>13, <1>14,
     <1>15, <1>16, <1>17, <1>18, <1>19, <1>20, <1>21 DEF Next

(* The steps that leave the queues and the nursery blocks alone. *)
QuietStep ==
  \/ \E p \in Threads :
       \/ Await(p) \/ TakeResult(p) \/ Resume(p) \/ JoinNext(p)
       \/ Throw(p) \/ Catch(p) \/ Sleep(p) \/ SleepEnd(p)
  \/ \E t \in Tasks : StartTask(t) \/ EndTask(t) \/ Retire(t)
  \/ EndMain \/ Drain \/ DrainWake \/ DrainEnd \/ Exited

LEMMA QuietKeepsBlocks ==
  QuietStep \/ UNCHANGED vars => UNCHANGED <<queue, items, freed, open, block, nurseries, spawned>>
  BY DEF QuietStep, Await, TakeResult, Resume, JoinNext, Throw, Catch, Sleep, SleepEnd,
     StartTask,
     EndTask, Retire, EndMain, Drain, DrainWake, DrainEnd, Exited, interp, local, history, vars

LEMMA StepCases ==
  ASSUME [Next]_vars
  PROVE  \/ \E p \in Threads : Spawn(p) \/ NurseryBegin(p) \/ NurseryBody(p) \/ NurseryLeave(p)
         \/ QuietStep \/ UNCHANGED vars
  BY Zenon DEF Next, QuietStep

LEMMA ActivationTypes ==
  /\ FlatOK => \A p \in Threads : nurseries < MaxNurseries => Activation(p) \in Activations
  /\ \A a \in Activations :
       /\ InJoin(a) \in Activations /\ InJoin(a).joining = TRUE
       /\ InJoin(a).q = a.q /\ InJoin(a).queue = a.queue
  BY ThreadFacts DEF FlatOK, Activation, Activations, InJoin

LEMMA SpawnTypes ==
  ASSUME TypeInv, NEW p \in Threads, Spawn(p)
  PROVE  /\ NewTask \in Tasks /\ pc[NewTask] = "none" /\ NewTask # p
         /\ NewTask = spawned + 1 /\ spawned \in Nat
<1>1. NewTask \in Tasks /\ NewTask > spawned /\ NewTask = spawned + 1 /\ spawned \in Nat
  BY ThreadFacts DEF TypeInv, FlatOK, Spawn, NewTask
<1>2. pc[NewTask] = "none"
  BY <1>1 DEF TypeInv, NotYet
<1> QED
  BY <1>1, <1>2 DEF Spawn, Running, Evaluating

LEMMA SeqsStep == TypeInv /\ [Next]_vars => SeqsOK'
<1> SUFFICES ASSUME TypeInv, [Next]_vars PROVE SeqsOK'
  OBVIOUS
<1>0. FlatOK /\ SeqsOK /\ PlaceInv
  BY DEF TypeInv
<1>1. ASSUME NEW p \in Threads, Spawn(p) PROVE SeqsOK'
  <2>1. NewTask \in Tasks
    BY <1>1, SpawnTypes
  <2>2. items' \in [Queues -> Seq(Tasks)]
    <3>1. CASE queue = 0
      BY <1>0, <1>1, <3>1 DEF Spawn, SeqsOK
    <3>2. CASE queue # 0
      <4>1. queue \in Queues
        BY <1>0, <3>2 DEF FlatOK, Queues
      <4>2. Append(items[queue], NewTask) \in Seq(Tasks)
        BY <1>0, <2>1, <4>1, AppendProperties DEF SeqsOK
      <4> QED
        BY <1>0, <1>1, <3>2, <4>2 DEF Spawn, SeqsOK
    <3> QED
      BY <3>1, <3>2
  <2>3. block' \in [Threads -> Seq(SUBSET Tasks)]
    <3>1. CASE block[p] = <<>>
      BY <1>0, <1>1, <3>1 DEF Spawn, SeqsOK
    <3>2. CASE block[p] # <<>>
      <4>1. Last(block[p]) \cup {NewTask} \in SUBSET Tasks
        BY <1>0, <2>1, <3>2, LastFrontProperties DEF SeqsOK
      <4>2. SetLast(block[p], Last(block[p]) \cup {NewTask}) \in Seq(SUBSET Tasks)
        BY <1>0, <3>2, <4>1, SetLastProperties DEF SeqsOK
      <4> QED
        BY <1>0, <1>1, <3>2, <4>2 DEF Spawn, SeqsOK
    <3> QED
      BY <3>1, <3>2
  <2> QED
    BY <1>0, <1>1, <2>2, <2>3 DEF Spawn, SeqsOK, local
<1>2. ASSUME NEW p \in Threads, NurseryBegin(p) PROVE SeqsOK'
  <2>1. Activation(p) \in Activations
    BY <1>0, <1>2, ActivationTypes DEF NurseryBegin
  <2>2. Append(open[p], Activation(p)) \in Seq(Activations)
    BY <1>0, <2>1, AppendProperties DEF SeqsOK
  <2>3. Append(block[p], {}) \in Seq(SUBSET Tasks)
    BY <1>0, AppendProperties DEF SeqsOK
  <2> QED
    BY <1>0, <1>2, <2>2, <2>3 DEF NurseryBegin, SeqsOK
<1>3. ASSUME NEW p \in Threads, NurseryBody(p) PROVE SeqsOK'
  <2>1. open[p] # <<>> /\ open[p] \in Seq(Activations) /\ Last(open[p]) \in Activations
    BY <1>0, <1>3, Innermost DEF NurseryBody
  <2>2. SetLast(open[p], InJoin(Last(open[p]))) \in Seq(Activations)
    BY <2>1, ActivationTypes, SetLastProperties
  <2> QED
    BY <1>0, <1>3, <2>2 DEF NurseryBody, SeqsOK, history
<1>4. ASSUME NEW p \in Threads, NurseryLeave(p) PROVE SeqsOK'
  <2>1. open[p] # <<>> /\ block[p] # <<>>
    BY <1>0, <1>4, EmptySeq, LenProperties DEF NurseryLeave, SeqsOK, PlaceInv, Joining
  <2>2. Front(open[p]) \in Seq(Activations) /\ Front(block[p]) \in Seq(SUBSET Tasks)
    BY <1>0, <2>1, LastFrontProperties DEF SeqsOK
  <2> QED
    BY <1>0, <1>4, <2>2 DEF NurseryLeave, SeqsOK
<1>5. CASE QuietStep \/ UNCHANGED vars
  BY <1>0, <1>5, QuietKeepsBlocks DEF SeqsOK
<1> QED
  BY <1>1, <1>2, <1>3, <1>4, <1>5, StepCases

LEMMA NotYetStep == TypeInv /\ [Next]_vars => NotYet'
<1> SUFFICES ASSUME TypeInv, [Next]_vars, NEW u \in Tasks PROVE u > spawned' <=> pc'[u] = "none"
  BY DEF NotYet
<1>0. FlatOK /\ NotYet
  BY DEF TypeInv
<1>a. spawned \in Nat /\ u \in Nat /\ (u > spawned <=> pc[u] = "none")
  BY <1>0 DEF FlatOK, Tasks, NotYet
<1> USE <1>0, <1>a, ThreadFacts DEF FlatOK
<1>1. ASSUME NEW p \in Threads, Spawn(p) PROVE u > spawned' <=> pc'[u] = "none"
  <2>1. spawned' = spawned + 1 /\ NewTask = spawned + 1 /\ pc' = [pc EXCEPT ![NewTask] = "new"]
    BY <1>1, SpawnTypes DEF Spawn, Goto
  <2>2. CASE u = NewTask
    BY <2>1, <2>2
  <2>3. CASE u # NewTask
    BY <2>1, <2>3
  <2> QED
    BY <2>2, <2>3
<1>2. ASSUME NEW p \in Threads, Await(p) PROVE u > spawned' <=> pc'[u] = "none"
  BY <1>2 DEF Await, Running, Evaluating, WaitFor, DropGil, Goto
<1>3. ASSUME NEW p \in Threads, TakeResult(p) PROVE u > spawned' <=> pc'[u] = "none"
  BY <1>3 DEF TakeResult, JoinTakes, Goto
<1>4. ASSUME NEW p \in Threads, Resume(p) PROVE u > spawned' <=> pc'[u] = "none"
  BY <1>4 DEF Resume, TakeGil, FirstError, Goto
<1>5. ASSUME NEW p \in Threads, NurseryBegin(p) PROVE u > spawned' <=> pc'[u] = "none"
  BY <1>5 DEF NurseryBegin, Running, Evaluating
<1>6. ASSUME NEW p \in Threads, NurseryBody(p) PROVE u > spawned' <=> pc'[u] = "none"
  BY <1>6 DEF NurseryBody, Evaluating, RestoreQueue, Goto
<1>7. ASSUME NEW p \in Threads, JoinNext(p) PROVE u > spawned' <=> pc'[u] = "none"
  BY <1>7 DEF JoinNext, WaitFor, DropGil, Goto
<1>8. ASSUME NEW p \in Threads, NurseryLeave(p) PROVE u > spawned' <=> pc'[u] = "none"
  BY <1>8 DEF NurseryLeave, Goto
<1>9. ASSUME NEW p \in Threads, Throw(p) PROVE u > spawned' <=> pc'[u] = "none"
  BY <1>9 DEF Throw, Running, Evaluating
<1>10. ASSUME NEW p \in Threads, Catch(p) PROVE u > spawned' <=> pc'[u] = "none"
  BY <1>10 DEF Catch, Unwinding, Evaluating
<1>11. ASSUME NEW p \in Threads, Sleep(p) PROVE u > spawned' <=> pc'[u] = "none"
  BY <1>11 DEF Sleep, Running, Evaluating, DropGil, Goto
<1>12. ASSUME NEW p \in Threads, SleepEnd(p) PROVE u > spawned' <=> pc'[u] = "none"
  BY <1>12 DEF SleepEnd, TakeGil, Goto
<1>13. ASSUME NEW t \in Tasks, StartTask(t) PROVE u > spawned' <=> pc'[u] = "none"
  BY <1>13 DEF StartTask, TakeGil, Enter, Goto
<1>14. ASSUME NEW t \in Tasks, EndTask(t) PROVE u > spawned' <=> pc'[u] = "none"
  BY <1>14 DEF EndTask, Evaluating, Leave, Goto
<1>15. ASSUME NEW t \in Tasks, Retire(t) PROVE u > spawned' <=> pc'[u] = "none"
  BY <1>15 DEF Retire, Goto
<1>16. ASSUME EndMain PROVE u > spawned' <=> pc'[u] = "none"
  BY <1>16 DEF EndMain, Evaluating, Goto
<1>17. ASSUME Drain PROVE u > spawned' <=> pc'[u] = "none"
  BY <1>17 DEF Drain, Goto
<1>18. ASSUME DrainWake PROVE u > spawned' <=> pc'[u] = "none"
  BY <1>18 DEF DrainWake, TakeGil, Goto
<1>19. ASSUME DrainEnd PROVE u > spawned' <=> pc'[u] = "none"
  BY <1>19 DEF DrainEnd, Goto
<1>20. ASSUME Exited PROVE u > spawned' <=> pc'[u] = "none"
  BY <1>20 DEF Exited, vars
<1>21. CASE UNCHANGED vars
  BY <1>21 DEF vars, interp, record, local, history
<1> QED
  BY <1>1, <1>2, <1>3, <1>4, <1>5, <1>6, <1>7, <1>8, <1>9, <1>10, <1>11, <1>12, <1>13, <1>14,
     <1>15, <1>16, <1>17, <1>18, <1>19, <1>20, <1>21 DEF Next

LEMMA WaitStep == TypeInv /\ [Next]_vars => WaitInv'
<1> SUFFICES ASSUME TypeInv, [Next]_vars PROVE WaitInv'
  OBVIOUS
<1>0. FlatOK /\ SeqsOK /\ WaitInv /\ PlaceInv
  BY DEF TypeInv
<1> USE <1>0, ThreadFacts DEF FlatOK, WaitInv
<1>1. ASSUME NEW p \in Threads, Spawn(p) PROVE WaitInv'
  BY <1>1, SpawnTypes DEF Spawn, Goto, local
<1>2. ASSUME NEW p \in Threads, Await(p) PROVE WaitInv'
  BY <1>2, SpawnedAreTasks DEF Await, Running, Evaluating, WaitFor, DropGil, Goto
<1>3. ASSUME NEW p \in Threads, TakeResult(p) PROVE WaitInv'
  BY <1>3 DEF TakeResult, JoinTakes, Goto
<1>4. ASSUME NEW p \in Threads, Resume(p) PROVE WaitInv'
  BY <1>4 DEF Resume, TakeGil, FirstError, Goto
<1>5. ASSUME NEW p \in Threads, NurseryBegin(p) PROVE WaitInv'
  BY <1>5 DEF NurseryBegin, Running, Evaluating
<1>6. ASSUME NEW p \in Threads, NurseryBody(p) PROVE WaitInv'
  BY <1>6 DEF NurseryBody, Evaluating, RestoreQueue, Goto
<1>7. ASSUME NEW p \in Threads, JoinNext(p) PROVE WaitInv'
  <2>1. pc[p] = "join" /\ open[p] # <<>> /\ ~JoinOver(p)
    BY <1>7 DEF JoinNext, PlaceInv, Joining
  <2>2. Tasks_of(p) \in Seq(Tasks)
    BY <2>1, Innermost DEF Tasks_of, SeqsOK
  <2>3. next[p] \in 1..Len(Tasks_of(p))
    BY <2>1, <2>2, LenProperties DEF JoinOver
  <2>4. Tasks_of(p)[next[p]] \in Tasks
    BY <2>2, <2>3, ElementOfSeq
  <2> QED
    BY <1>7, <2>4 DEF JoinNext, WaitFor, Goto
<1>8. ASSUME NEW p \in Threads, NurseryLeave(p) PROVE WaitInv'
  BY <1>8 DEF NurseryLeave, Goto
<1>9. ASSUME NEW p \in Threads, Throw(p) PROVE WaitInv'
  BY <1>9 DEF Throw, Running, Evaluating, local
<1>10. ASSUME NEW p \in Threads, Catch(p) PROVE WaitInv'
  BY <1>10 DEF Catch, Unwinding, Evaluating, local
<1>11. ASSUME NEW p \in Threads, Sleep(p) PROVE WaitInv'
  BY <1>11 DEF Sleep, Running, Evaluating, DropGil, Goto, local
<1>12. ASSUME NEW p \in Threads, SleepEnd(p) PROVE WaitInv'
  BY <1>12 DEF SleepEnd, TakeGil, Goto, local
<1>13. ASSUME NEW t \in Tasks, StartTask(t) PROVE WaitInv'
  BY <1>13 DEF StartTask, TakeGil, Enter, Goto
<1>14. ASSUME NEW t \in Tasks, EndTask(t) PROVE WaitInv'
  BY <1>14 DEF EndTask, Evaluating, Leave, Goto, local
<1>15. ASSUME NEW t \in Tasks, Retire(t) PROVE WaitInv'
  BY <1>15 DEF Retire, Goto, local
<1>16. ASSUME EndMain PROVE WaitInv'
  BY <1>16 DEF EndMain, Evaluating, Goto, local
<1>17. ASSUME Drain PROVE WaitInv'
  <2>1. 1..spawned \subseteq Tasks
    BY InterpTasksAssumption DEF Tasks
  <2> QED
    BY <1>17, <2>1 DEF Drain, Goto
<1>18. ASSUME DrainWake PROVE WaitInv'
  BY <1>18 DEF DrainWake, TakeGil, Goto
<1>19. ASSUME DrainEnd PROVE WaitInv'
  BY <1>19 DEF DrainEnd, Goto, local
<1>20. ASSUME Exited PROVE WaitInv'
  BY <1>20 DEF Exited, vars, local
<1>21. CASE UNCHANGED vars
  BY <1>21 DEF vars, interp, record, local, history
<1> QED
  BY <1>1, <1>2, <1>3, <1>4, <1>5, <1>6, <1>7, <1>8, <1>9, <1>10, <1>11, <1>12, <1>13, <1>14,
     <1>15, <1>16, <1>17, <1>18, <1>19, <1>20, <1>21 DEF Next

(* What PlaceInv says of one thread. *)
PlaceOf(r) ==
  /\ pc[r] \in Outside => open[r] = <<>>
  /\ pc[r] = "join" => Joining(r)
  /\ Joining(r) => pc[r] \in {"join", "wait", "took"}
  /\ \A i \in 1..Len(open[r]) - 1 : ~open[r][i].joining
  /\ Len(block[r]) = Len(open[r])
  /\ r \in Tasks => pc[r] \notin {"drain", "drain_wait", "exit"}
  /\ r = Main => pc[r] \notin {"none", "new", "retire", "gone"}

(* A quiet step takes a thread from place to place as its blocks allow. *)
LEMMA QuietPlaces ==
  ASSUME TypeInv, QuietStep, NEW r \in Threads
  PROVE  /\ pc'[r] \in Outside => open[r] = <<>>
         /\ pc'[r] = "join" => Joining(r)
         /\ Joining(r) => pc'[r] \in {"join", "wait", "took"}
         /\ r \in Tasks => pc'[r] \notin {"drain", "drain_wait", "exit"}
         /\ r = Main => pc'[r] \notin {"none", "new", "retire", "gone"}
<1> DEFINE G == /\ pc'[r] \in Outside => open[r] = <<>>
                /\ pc'[r] = "join" => Joining(r)
                /\ Joining(r) => pc'[r] \in {"join", "wait", "took"}
                /\ r \in Tasks => pc'[r] \notin {"drain", "drain_wait", "exit"}
                /\ r = Main => pc'[r] \notin {"none", "new", "retire", "gone"}
<1>a. /\ pc \in [Threads -> PCs]
      /\ pc[r] \in Outside => open[r] = <<>>
      /\ pc[r] = "join" => Joining(r)
      /\ Joining(r) => pc[r] \in {"join", "wait", "took"}
      /\ r \in Tasks => pc[r] \notin {"drain", "drain_wait", "exit"}
      /\ r = Main => pc[r] \notin {"none", "new", "retire", "gone"}
  BY DEF TypeInv, FlatOK, PlaceInv
<1> USE <1>a, ThreadFacts DEF Outside
<1>1. ASSUME NEW p \in Threads, Await(p) PROVE G
  BY <1>1 DEF Await, Running, Evaluating, WaitFor, Goto
<1>2. ASSUME NEW p \in Threads, TakeResult(p) PROVE G
  BY <1>2 DEF TakeResult, Goto
<1>3. ASSUME NEW p \in Threads, Resume(p) PROVE G
  BY <1>3 DEF Resume, Goto
<1>4. ASSUME NEW p \in Threads, JoinNext(p) PROVE G
  BY <1>4 DEF JoinNext, WaitFor, Goto
<1>5. ASSUME NEW p \in Threads, Throw(p) PROVE G
  BY <1>5 DEF Throw, Running, Evaluating
<1>6. ASSUME NEW p \in Threads, Catch(p) PROVE G
  BY <1>6 DEF Catch, Unwinding, Evaluating
<1>7. ASSUME NEW p \in Threads, Sleep(p) PROVE G
  BY <1>7 DEF Sleep, Running, Evaluating, Goto
<1>8. ASSUME NEW p \in Threads, SleepEnd(p) PROVE G
  BY <1>8 DEF SleepEnd, Goto
<1>9. ASSUME NEW t \in Tasks, StartTask(t) PROVE G
  BY <1>9 DEF StartTask, Goto
<1>10. ASSUME NEW t \in Tasks, EndTask(t) PROVE G
  BY <1>10 DEF EndTask, Evaluating, Goto
<1>11. ASSUME NEW t \in Tasks, Retire(t) PROVE G
  BY <1>11 DEF Retire, Goto
<1>12. ASSUME EndMain PROVE G
  BY <1>12 DEF EndMain, Evaluating, Goto
<1>13. ASSUME Drain PROVE G
  BY <1>13 DEF Drain, Goto
<1>14. ASSUME DrainWake PROVE G
  BY <1>14 DEF DrainWake, Goto
<1>15. ASSUME DrainEnd PROVE G
  BY <1>15 DEF DrainEnd, Goto
<1>16. ASSUME Exited PROVE G
  BY <1>16 DEF Exited, vars
<1> QED
  BY <1>1, <1>2, <1>3, <1>4, <1>5, <1>6, <1>7, <1>8, <1>9, <1>10, <1>11, <1>12, <1>13, <1>14,
     <1>15, <1>16 DEF QuietStep

LEMMA SpawnFacts ==
  ASSUME TypeInv, NEW p \in Threads, Spawn(p)
  PROVE  /\ \A r \in Threads : r # p => block'[r] = block[r]
         /\ \A r \in Threads : Len(block'[r]) = Len(block[r])
         /\ \A i \in 1..Len(block[p]) :
              block'[p][i] = IF i = Len(block[p]) THEN block[p][i] \cup {NewTask} ELSE block[p][i]
<1>0. SeqsOK
  BY DEF TypeInv
<1>1. CASE block[p] = <<>>
  <2>1. block' = block /\ Len(block[p]) = 0
    BY <1>1 DEF Spawn
  <2> QED
    BY <2>1
<1>2. CASE block[p] # <<>>
  <2>1. block' = [block EXCEPT ![p] = SetLast(block[p], Last(block[p]) \cup {NewTask})]
    BY <1>2 DEF Spawn
  <2> DEFINE S == SUBSET Tasks
             b == block[p]
             e == Last(block[p]) \cup {NewTask}
  <2>2. b \in Seq(S) /\ b # <<>>
    BY <1>0, <1>2 DEF SeqsOK
  <2>3. Last(b) \in S /\ Last(b) = b[Len(b)]
    <3> HIDE DEF S, b
    <3> QED
      BY <2>2, LastFrontProperties
  <2>4. e \in S
    BY <2>3, SpawnTypes
  <2>5. block'[p] = SetLast(b, e) /\ \A r \in Threads : r # p => block'[r] = block[r]
    BY <1>0, <2>1 DEF SeqsOK
  <2> HIDE DEF S, b, e
  <2>6. /\ Len(SetLast(b, e)) = Len(b)
        /\ \A i \in 1..Len(b) : SetLast(b, e)[i] = IF i = Len(b) THEN e ELSE b[i]
    BY <2>2, <2>4, SetLastProperties
  <2> QED
    BY <2>3, <2>5, <2>6 DEF b, e
<1> QED
  BY <1>1, <1>2

(* What happens to the nurseries of a thread when a block begins, when its body is
   over, and when it is left. *)
LEMMA BeginFacts ==
  ASSUME TypeInv, NEW p \in Threads, NurseryBegin(p)
  PROVE  /\ \A r \in Threads : r # p => open'[r] = open[r] /\ block'[r] = block[r]
         /\ Len(open[p]) \in Nat /\ Len(open'[p]) = Len(open[p]) + 1
         /\ open'[p] # <<>> /\ Last(open'[p]) = Activation(p)
         /\ open'[p][Len(open[p]) + 1] = Activation(p)
         /\ \A i \in 1..Len(open[p]) : open'[p][i] = open[p][i]
         /\ Len(block'[p]) = Len(block[p]) + 1
         /\ block'[p][Len(block[p]) + 1] = {}
         /\ \A i \in 1..Len(block[p]) : block'[p][i] = block[p][i]
<1>0. SeqsOK /\ FlatOK
  BY DEF TypeInv
<1>1. /\ open' = [open EXCEPT ![p] = Append(open[p], Activation(p))]
      /\ block' = [block EXCEPT ![p] = Append(block[p], {})]
  BY DEF NurseryBegin
<1>2. /\ open'[p] = Append(open[p], Activation(p)) /\ block'[p] = Append(block[p], {})
      /\ \A r \in Threads : r # p => open'[r] = open[r] /\ block'[r] = block[r]
  BY <1>0, <1>1 DEF SeqsOK
<1> DEFINE s == open[p]
           e == Activation(p)
           S == SUBSET Tasks
           b == block[p]
<1>3. s \in Seq(Activations) /\ e \in Activations /\ b \in Seq(S) /\ {} \in S
  BY <1>0, ActivationTypes DEF SeqsOK, NurseryBegin
<1> HIDE DEF s, e, b, S
<1>4. /\ Len(s) \in Nat /\ Len(Append(s, e)) = Len(s) + 1
      /\ Append(s, e) # <<>> /\ Last(Append(s, e)) = e
      /\ Append(s, e)[Len(s) + 1] = e
      /\ \A i \in 1..Len(s) : Append(s, e)[i] = s[i]
  BY <1>3, AppendLast
<1>5. /\ Len(Append(b, {})) = Len(b) + 1
      /\ Append(b, {})[Len(b) + 1] = {}
      /\ \A i \in 1..Len(b) : Append(b, {})[i] = b[i]
  BY <1>3, AppendProperties
<1> QED
  BY <1>2, <1>4, <1>5 DEF s, e, b

LEMMA BodyFacts ==
  ASSUME TypeInv, NEW p \in Threads, NurseryBody(p)
  PROVE  /\ block' = block
         /\ \A r \in Threads : r # p => open'[r] = open[r]
         /\ open[p] # <<>> /\ open'[p] # <<>>
         /\ Len(open[p]) \in Nat \ {0} /\ Len(open'[p]) = Len(open[p])
         /\ Last(open[p]) = open[p][Len(open[p])] /\ Last(open[p]) \in Activations
         /\ Last(open'[p]) = InJoin(Last(open[p]))
         /\ open'[p][Len(open[p])] = InJoin(Last(open[p]))
         /\ \A i \in 1..Len(open[p]) - 1 : open'[p][i] = open[p][i]
<1>0. SeqsOK
  BY DEF TypeInv
<1>1. /\ open' = [open EXCEPT ![p] = SetLast(open[p], InJoin(Last(open[p])))]
      /\ open[p] # <<>> /\ block' = block
  BY DEF NurseryBody, history
<1>2. /\ open'[p] = SetLast(open[p], InJoin(Last(open[p])))
      /\ \A r \in Threads : r # p => open'[r] = open[r]
  BY <1>0, <1>1 DEF SeqsOK
<1> DEFINE s == open[p]
           e == InJoin(Last(open[p]))
<1>3. /\ s \in Seq(Activations) /\ s # <<>> /\ Len(s) \in Nat \ {0} /\ e \in Activations
      /\ Last(s) = s[Len(s)] /\ Last(s) \in Activations
  BY <1>0, <1>1, Innermost, ActivationTypes
<1> HIDE DEF s, e
<1>4. /\ SetLast(s, e) # <<>> /\ Len(SetLast(s, e)) = Len(s) /\ Last(SetLast(s, e)) = e
      /\ \A i \in 1..Len(s) : SetLast(s, e)[i] = IF i = Len(s) THEN e ELSE s[i]
  BY <1>3, SetLastProperties
<1>5. /\ SetLast(s, e)[Len(s)] = e
      /\ \A i \in 1..Len(s) - 1 : SetLast(s, e)[i] = s[i]
  BY <1>3, <1>4
<1> QED
  BY <1>1, <1>2, <1>3, <1>4, <1>5 DEF s, e

LEMMA LeaveFacts ==
  ASSUME TypeInv, NEW p \in Threads, NurseryLeave(p)
  PROVE  /\ \A r \in Threads : r # p => open'[r] = open[r] /\ block'[r] = block[r]
         /\ open[p] # <<>> /\ Last(open[p]).joining
         /\ Len(open[p]) \in Nat \ {0} /\ Len(open'[p]) = Len(open[p]) - 1
         /\ Last(open[p]) = open[p][Len(open[p])] /\ Last(open[p]) \in Activations
         /\ \A i \in 1..Len(open[p]) - 1 : open'[p][i] = open[p][i]
         /\ open'[p] # <<>> => /\ Last(open'[p]) = open[p][Len(open[p]) - 1]
                               /\ Len(open[p]) - 1 \in 1..Len(open[p]) - 1
         /\ open'[p] = <<>> => Len(open[p]) = 1
         /\ Len(block[p]) = Len(open[p])
         /\ Len(block'[p]) = Len(block[p]) - 1 /\ Last(block[p]) = block[p][Len(block[p])]
         /\ \A i \in 1..Len(block[p]) - 1 : block'[p][i] = block[p][i]
<1>0. SeqsOK
  BY DEF TypeInv
<1>1. /\ open' = [open EXCEPT ![p] = Front(open[p])]
      /\ block' = [block EXCEPT ![p] = Front(block[p])] /\ pc[p] = "join"
  BY DEF NurseryLeave
<1>2. /\ open'[p] = Front(open[p]) /\ block'[p] = Front(block[p])
      /\ \A r \in Threads : r # p => open'[r] = open[r] /\ block'[r] = block[r]
  BY <1>0, <1>1 DEF SeqsOK
<1> DEFINE s == open[p]
           b == block[p]
           S == SUBSET Tasks
<1>3. s \in Seq(Activations) /\ s # <<>> /\ Last(s).joining /\ b \in Seq(S) /\ Len(b) = Len(s)
  BY <1>0, <1>1 DEF TypeInv, PlaceInv, Joining, SeqsOK
<1> HIDE DEF s, b, S
<1>4. b # <<>>
  BY <1>3, EmptySeq
<1>5. /\ Len(s) \in Nat \ {0} /\ Front(s) \in Seq(Activations) /\ Len(Front(s)) = Len(s) - 1
      /\ Last(s) = s[Len(s)] /\ Last(s) \in Activations
      /\ \A i \in 1..Len(s) - 1 : Front(s)[i] = s[i]
  BY <1>3, LastFrontProperties
<1>6. /\ Len(Front(b)) = Len(b) - 1 /\ Last(b) = b[Len(b)]
      /\ \A i \in 1..Len(b) - 1 : Front(b)[i] = b[i]
  BY <1>3, <1>4, LastFrontProperties
<1>7. ASSUME Front(s) # <<>>
      PROVE  Last(Front(s)) = s[Len(s) - 1] /\ Len(s) - 1 \in 1..Len(s) - 1
  <2>1. Last(Front(s)) = Front(s)[Len(Front(s))] /\ Len(Front(s)) \in Nat \ {0}
    BY <1>5, <1>7, LastFrontProperties
  <2> QED
    BY <1>5, <2>1
<1>8. Front(s) = <<>> => Len(s) = 1
  BY <1>5
<1> QED
  BY <1>2, <1>3, <1>5, <1>6, <1>7, <1>8 DEF s, b

LEMMA PlaceStep == TypeInv /\ [Next]_vars => PlaceInv'
<1> SUFFICES ASSUME TypeInv, [Next]_vars, NEW r \in Threads PROVE PlaceOf(r)'
  BY DEF PlaceInv, PlaceOf
<1>0. FlatOK /\ SeqsOK /\ PlaceInv
  BY DEF TypeInv
<1>a. PlaceOf(r)
  BY <1>0 DEF PlaceInv, PlaceOf
<1>b. pc \in [Threads -> PCs]
  BY <1>0 DEF FlatOK
<1>1. CASE QuietStep
  <2>1. UNCHANGED <<open, block>>
    BY <1>1, QuietKeepsBlocks
  <2>2. Joining(r)' <=> Joining(r)
    BY <2>1 DEF Joining
  <2> QED
    BY <1>1, <1>a, <2>1, <2>2, QuietPlaces DEF PlaceOf
<1>2. CASE UNCHANGED vars
  BY <1>2, <1>a DEF vars, interp, local, history, PlaceOf, Joining
<1>3. ASSUME NEW p \in Threads, Spawn(p) PROVE PlaceOf(r)'
  <2>1. /\ open' = open /\ pc' = [pc EXCEPT ![NewTask] = "new"] /\ NewTask \in Tasks
        /\ pc[NewTask] = "none" /\ Len(block'[r]) = Len(block[r])
    BY <1>3, SpawnTypes, SpawnFacts DEF Spawn, Goto, local
  <2>2. Joining(r)' <=> Joining(r)
    BY <2>1 DEF Joining
  <2>3. CASE r = NewTask
    BY <1>a, <1>b, <2>1, <2>2, <2>3, ThreadFacts DEF PlaceOf, Outside
  <2>4. CASE r # NewTask
    BY <1>a, <1>b, <2>1, <2>2, <2>4 DEF PlaceOf
  <2> QED
    BY <2>3, <2>4
<1>4. ASSUME NEW p \in Threads, NurseryBegin(p) PROVE PlaceOf(r)'
  <2>1. pc' = pc /\ pc[p] = "run"
    BY <1>4 DEF NurseryBegin, Running, Evaluating
  <2>2. CASE r # p
    BY <1>4, <1>a, <2>1, <2>2, BeginFacts DEF PlaceOf, Joining
  <2>3. CASE r = p
    <3>1. ~Joining(r) /\ ~Joining(r)'
      <4>1. ~Joining(r)
        BY <1>a, <2>1, <2>3 DEF PlaceOf
      <4>2. Last(open'[r]) = Activation(p)
        BY <1>4, <2>3, BeginFacts
      <4>3. ~Last(open'[r]).joining
        BY <4>2 DEF Activation
      <4> QED
        BY <4>1, <4>3 DEF Joining
    <3>2. \A i \in 1..Len(open[r]) : ~open[r][i].joining
      <4>1. CASE open[r] = <<>>
        BY <4>1, EmptySeq
      <4>2. CASE open[r] # <<>>
        <5>1. ~open[r][Len(open[r])].joining /\ Len(open[r]) \in Nat
          BY <1>0, <3>1, <4>2, Innermost DEF Joining
        <5>2. \A i \in 1..Len(open[r]) : i = Len(open[r]) \/ i \in 1..Len(open[r]) - 1
          BY <5>1
        <5> QED
          BY <1>a, <5>1, <5>2 DEF PlaceOf
      <4> QED
        BY <4>1, <4>2
    <3>3. /\ Len(open'[r]) = Len(open[r]) + 1 /\ Len(open[r]) \in Nat
          /\ Len(block'[r]) = Len(block[r]) + 1
          /\ \A i \in 1..Len(open[r]) : open'[r][i] = open[r][i]
      BY <1>4, <2>3, BeginFacts
    <3>4. \A i \in 1..Len(open'[r]) - 1 : ~open'[r][i].joining
      BY <3>2, <3>3
    <3> QED
      BY <1>a, <2>1, <2>3, <3>1, <3>3, <3>4 DEF PlaceOf, Outside
  <2> QED
    BY <2>2, <2>3
<1>5. ASSUME NEW p \in Threads, NurseryBody(p) PROVE PlaceOf(r)'
  <2>1. pc' = [pc EXCEPT ![p] = "join"] /\ pc[p] = "run"
    BY <1>5 DEF NurseryBody, Evaluating, Goto
  <2>2. CASE r # p
    <3>1. open'[r] = open[r] /\ block'[r] = block[r] /\ pc'[r] = pc[r]
      BY <1>5, <1>b, <2>1, <2>2, BodyFacts
    <3> QED
      BY <1>a, <3>1 DEF PlaceOf, Joining
  <2>3. CASE r = p
    <3>1. Joining(r)' /\ pc'[r] = "join"
      BY <1>5, <1>b, <2>1, <2>3, BodyFacts, ActivationTypes DEF Joining
    <3>2. /\ Len(open'[r]) = Len(open[r]) /\ block' = block
          /\ \A i \in 1..Len(open'[r]) - 1 : ~open'[r][i].joining
      BY <1>5, <1>a, <2>3, BodyFacts DEF PlaceOf
    <3> QED
      BY <1>a, <2>1, <2>3, <3>1, <3>2 DEF PlaceOf, Outside
  <2> QED
    BY <2>2, <2>3
<1>6. ASSUME NEW p \in Threads, NurseryLeave(p) PROVE PlaceOf(r)'
  <2>1. pc' = [pc EXCEPT ![p] = "run"] /\ pc[p] = "join"
    BY <1>6 DEF NurseryLeave, Goto
  <2>2. CASE r # p
    <3>1. open'[r] = open[r] /\ block'[r] = block[r] /\ pc'[r] = pc[r]
      BY <1>6, <1>b, <2>1, <2>2, LeaveFacts
    <3> QED
      BY <1>a, <3>1 DEF PlaceOf, Joining
  <2>3. CASE r = p
    <3>1. /\ Len(open[r]) \in Nat \ {0} /\ Len(open'[r]) = Len(open[r]) - 1
          /\ \A i \in 1..Len(open[r]) - 1 : open'[r][i] = open[r][i]
          /\ Len(block'[r]) = Len(block[r]) - 1 /\ Len(block[r]) = Len(open[r])
      BY <1>6, <2>3, LeaveFacts
    <3>2. ~Joining(r)'
      <4>1. CASE open'[r] = <<>>
        BY <4>1 DEF Joining
      <4>2. CASE open'[r] # <<>>
        <5>1. Last(open'[r]) = open[r][Len(open[r]) - 1] /\ Len(open[r]) - 1 \in 1..Len(open[r]) - 1
          BY <1>6, <2>3, <4>2, LeaveFacts
        <5>2. ~Last(open'[r]).joining
          BY <1>a, <5>1 DEF PlaceOf
        <5> QED
          BY <5>2 DEF Joining
      <4> QED
        BY <4>1, <4>2
    <3>3. \A i \in 1..Len(open'[r]) - 1 : ~open'[r][i].joining
      BY <1>a, <3>1 DEF PlaceOf
    <3>4. pc'[r] = "run"
      BY <1>b, <2>1, <2>3
    <3> QED
      BY <1>a, <2>1, <2>3, <3>1, <3>2, <3>3, <3>4 DEF PlaceOf, Outside
  <2> QED
    BY <2>2, <2>3
<1> QED
  BY <1>1, <1>2, <1>3, <1>4, <1>5, <1>6, StepCases

LEMMA TypeStep == TypeInv /\ [Next]_vars => TypeInv'
  BY FlatStep, SeqsStep, PlaceStep, WaitStep, NotYetStep DEF TypeInv

-----------------------------------------------------------------------------
(* The GIL, and the life of a task. *)

Holding == {"run", "join", "retire", "drain", "exit"}

(* The GIL is held exactly where the code believes so. *)
GilInv == \A p \in Threads : gil = p <=> pc[p] \in Holding

LEMMA GilStep == TypeInv /\ GilInv /\ [Next]_vars => GilInv'
<1> SUFFICES ASSUME TypeInv, GilInv, [Next]_vars, NEW r \in Threads
             PROVE  gil' = r <=> pc'[r] \in Holding
  BY DEF GilInv
<1>a. /\ pc \in [Threads -> PCs] /\ gil \in Threads \cup {None}
      /\ \A p \in Threads : gil = p <=> pc[p] \in Holding
  BY DEF TypeInv, FlatOK, GilInv
<1> USE <1>a, ThreadFacts DEF Holding
<1>1. ASSUME NEW p \in Threads, Spawn(p) PROVE gil' = r <=> pc'[r] \in Holding
  BY <1>1, SpawnTypes DEF Spawn, Goto
<1>2. ASSUME NEW p \in Threads, Await(p) PROVE gil' = r <=> pc'[r] \in Holding
  BY <1>2 DEF Await, Running, Evaluating, WaitFor, DropGil, Goto
<1>3. ASSUME NEW p \in Threads, TakeResult(p) PROVE gil' = r <=> pc'[r] \in Holding
  BY <1>3 DEF TakeResult, Goto
<1>4. ASSUME NEW p \in Threads, Resume(p) PROVE gil' = r <=> pc'[r] \in Holding
  BY <1>4 DEF Resume, TakeGil, Goto
<1>5. ASSUME NEW p \in Threads, NurseryBegin(p) PROVE gil' = r <=> pc'[r] \in Holding
  BY <1>5 DEF NurseryBegin, Running, Evaluating
<1>6. ASSUME NEW p \in Threads, NurseryBody(p) PROVE gil' = r <=> pc'[r] \in Holding
  BY <1>6 DEF NurseryBody, Evaluating, Goto
<1>7. ASSUME NEW p \in Threads, JoinNext(p) PROVE gil' = r <=> pc'[r] \in Holding
  BY <1>7 DEF JoinNext, WaitFor, DropGil, Goto
<1>8. ASSUME NEW p \in Threads, NurseryLeave(p) PROVE gil' = r <=> pc'[r] \in Holding
  BY <1>8 DEF NurseryLeave, Goto
<1>9. ASSUME NEW p \in Threads, Throw(p) PROVE gil' = r <=> pc'[r] \in Holding
  BY <1>9 DEF Throw, Running, Evaluating
<1>10. ASSUME NEW p \in Threads, Catch(p) PROVE gil' = r <=> pc'[r] \in Holding
  BY <1>10 DEF Catch, Unwinding, Evaluating
<1>11. ASSUME NEW p \in Threads, Sleep(p) PROVE gil' = r <=> pc'[r] \in Holding
  BY <1>11 DEF Sleep, Running, Evaluating, DropGil, Goto
<1>12. ASSUME NEW p \in Threads, SleepEnd(p) PROVE gil' = r <=> pc'[r] \in Holding
  BY <1>12 DEF SleepEnd, TakeGil, Goto
<1>13. ASSUME NEW t \in Tasks, StartTask(t) PROVE gil' = r <=> pc'[r] \in Holding
  BY <1>13 DEF StartTask, TakeGil, Goto
<1>14. ASSUME NEW t \in Tasks, EndTask(t) PROVE gil' = r <=> pc'[r] \in Holding
  BY <1>14 DEF EndTask, Evaluating, Goto
<1>15. ASSUME NEW t \in Tasks, Retire(t) PROVE gil' = r <=> pc'[r] \in Holding
  BY <1>15 DEF Retire, Goto
<1>16. ASSUME EndMain PROVE gil' = r <=> pc'[r] \in Holding
  BY <1>16 DEF EndMain, Evaluating, Goto
<1>17. ASSUME Drain PROVE gil' = r <=> pc'[r] \in Holding
  BY <1>17 DEF Drain, Goto
<1>18. ASSUME DrainWake PROVE gil' = r <=> pc'[r] \in Holding
  BY <1>18 DEF DrainWake, TakeGil, Goto
<1>19. ASSUME DrainEnd PROVE gil' = r <=> pc'[r] \in Holding
  BY <1>19 DEF DrainEnd, Goto
<1>20. ASSUME Exited PROVE gil' = r <=> pc'[r] \in Holding
  BY <1>20 DEF Exited, vars
<1>21. CASE UNCHANGED vars
  BY <1>21 DEF vars, interp, record, local, history
<1> QED
  BY <1>1, <1>2, <1>3, <1>4, <1>5, <1>6, <1>7, <1>8, <1>9, <1>10, <1>11, <1>12, <1>13, <1>14,
     <1>15, <1>16, <1>17, <1>18, <1>19, <1>20, <1>21 DEF Next

(* A task that is done has published its record and only retires; an error and a
   cancellation belong to a task that exists. *)
LifeInv ==
  \A t \in Tasks :
    /\ done[t] <=> pc[t] \in {"retire", "gone"}
    /\ t \in failed => done[t]
    /\ cancelled[t] => t <= spawned

LEMMA LifeStep == TypeInv /\ LifeInv /\ [Next]_vars => LifeInv'
<1> SUFFICES ASSUME TypeInv, LifeInv, [Next]_vars, NEW u \in Tasks
             PROVE  /\ done'[u] <=> pc'[u] \in {"retire", "gone"}
                    /\ u \in failed' => done'[u]
                    /\ cancelled'[u] => u <= spawned'
  BY DEF LifeInv
<1> DEFINE G == /\ done'[u] <=> pc'[u] \in {"retire", "gone"}
                /\ u \in failed' => done'[u]
                /\ cancelled'[u] => u <= spawned'
<1>a. /\ pc \in [Threads -> PCs] /\ u \in Threads /\ done \in [Tasks -> BOOLEAN]
      /\ cancelled \in [Tasks -> BOOLEAN] /\ spawned \in Nat /\ u \in Nat
      /\ done[u] <=> pc[u] \in {"retire", "gone"}
      /\ u \in failed => done[u]
      /\ cancelled[u] => u <= spawned
      /\ u > spawned <=> pc[u] = "none"
  BY ThreadFacts DEF TypeInv, FlatOK, LifeInv, NotYet, Tasks
<1> USE <1>a
<1>1. ASSUME NEW p \in Threads, Spawn(p) PROVE G
  <2>1. /\ UNCHANGED <<done, cancelled, failed>> /\ spawned' = spawned + 1
        /\ pc' = [pc EXCEPT ![NewTask] = "new"] /\ pc[NewTask] = "none"
    BY <1>1, SpawnTypes DEF Spawn, Goto
  <2>2. CASE u = NewTask
    BY <2>1, <2>2
  <2>3. CASE u # NewTask
    BY <2>1, <2>3
  <2> QED
    BY <2>2, <2>3
<1>2. ASSUME NEW p \in Threads, Await(p) PROVE G
  BY <1>2 DEF Await, Running, Evaluating, WaitFor, Goto, record
<1>3. ASSUME NEW p \in Threads, TakeResult(p) PROVE G
  BY <1>3 DEF TakeResult, Goto, history
<1>4. ASSUME NEW p \in Threads, Resume(p) PROVE G
  BY <1>4 DEF Resume, Goto, record, history
<1>5. ASSUME NEW p \in Threads, NurseryBegin(p) PROVE G
  BY <1>5 DEF NurseryBegin, Running, Evaluating, record
<1>6. ASSUME NEW p \in Threads, NurseryBody(p) PROVE G
  BY <1>6 DEF NurseryBody, Evaluating, Goto, record, history
<1>7. ASSUME NEW p \in Threads, JoinNext(p) PROVE G
  BY <1>7 DEF JoinNext, WaitFor, Goto, record
<1>8. ASSUME NEW p \in Threads, NurseryLeave(p) PROVE G
  BY <1>8 DEF NurseryLeave, Goto, record
<1>9. ASSUME NEW p \in Threads, Throw(p) PROVE G
  BY <1>9 DEF Throw, Running, Evaluating, record, local
<1>10. ASSUME NEW p \in Threads, Catch(p) PROVE G
  BY <1>10 DEF Catch, Unwinding, Evaluating, record, local
<1>11. ASSUME NEW p \in Threads, Sleep(p) PROVE G
  BY <1>11 DEF Sleep, Running, Evaluating, Goto, record, local
<1>12. ASSUME NEW p \in Threads, SleepEnd(p) PROVE G
  BY <1>12 DEF SleepEnd, Goto, record, local
<1>13. ASSUME NEW t \in Tasks, StartTask(t) PROVE G
  BY <1>13 DEF StartTask, Goto, record, history
<1>14. ASSUME NEW t \in Tasks, EndTask(t) PROVE G
  BY <1>14 DEF EndTask, Evaluating, Goto, local
<1>15. ASSUME NEW t \in Tasks, Retire(t) PROVE G
  <2>1. /\ UNCHANGED <<done, failed, spawned>> /\ pc[t] = "retire"
        /\ pc' = [pc EXCEPT ![t] = "gone"]
    BY <1>15 DEF Retire, Goto, history
  <2>2. cancelled'[u] => cancelled[u] \/ u \in 1..spawned
    BY <1>15 DEF Retire, Siblings
  <2> QED
    BY <2>1, <2>2, ThreadFacts
<1>16. ASSUME EndMain PROVE G
  BY <1>16, ThreadFacts DEF EndMain, Evaluating, Goto, record
<1>17. ASSUME Drain PROVE G
  BY <1>17, ThreadFacts DEF Drain, Goto, record, history
<1>18. ASSUME DrainWake PROVE G
  BY <1>18, ThreadFacts DEF DrainWake, Goto, record, history
<1>19. ASSUME DrainEnd PROVE G
  BY <1>19, ThreadFacts DEF DrainEnd, Goto, record, history
<1>20. ASSUME Exited PROVE G
  BY <1>20 DEF Exited, vars, record, local, history
<1>21. CASE UNCHANGED vars
  BY <1>21 DEF vars, interp, record, local, history
<1> QED
  BY <1>1, <1>2, <1>3, <1>4, <1>5, <1>6, <1>7, <1>8, <1>9, <1>10, <1>11, <1>12, <1>13, <1>14,
     <1>15, <1>16, <1>17, <1>18, <1>19, <1>20, <1>21 DEF Next

LEMMA CancelStep == TypeInv /\ LifeInv /\ CancelledBySibling /\ [Next]_vars => CancelledBySibling'
<1> SUFFICES ASSUME TypeInv, LifeInv, CancelledBySibling, [Next]_vars, NEW u \in Tasks,
                    cancelled'[u]
             PROVE  \E v \in failed' \ {u} : nid'[v] = nid'[u] /\ nid'[u] # 0
  BY DEF CancelledBySibling
<1> DEFINE G == \E v \in failed' \ {u} : nid'[v] = nid'[u] /\ nid'[u] # 0
<1>a. /\ cancelled[u] => \E v \in failed \ {u} : nid[v] = nid[u] /\ nid[u] # 0
      /\ failed \subseteq Tasks /\ nid \in [Tasks -> 0..MaxNurseries]
  BY DEF CancelledBySibling, TypeInv, FlatOK
<1>1. ASSUME NEW p \in Threads, Spawn(p) PROVE G
  <2>1. /\ UNCHANGED <<cancelled, failed>> /\ nid' = [nid EXCEPT ![NewTask] = tls[p]]
        /\ NewTask \in Tasks /\ pc[NewTask] = "none" /\ NewTask = spawned + 1 /\ spawned \in Nat
    BY <1>1, SpawnTypes DEF Spawn
  <2>2. \A v \in failed \cup {u} : v # NewTask
    BY <1>a, <2>1 DEF LifeInv
  <2> QED
    BY <1>a, <2>1, <2>2
<1>2. ASSUME NEW t \in Tasks, Retire(t) PROVE G
  <2>1. UNCHANGED <<failed, nid>>
    BY <1>2 DEF Retire, history
  <2>2. CASE cancelled[u]
    BY <1>a, <2>1, <2>2
  <2>3. CASE ~cancelled[u]
    <3>1. t \in failed /\ u \in Siblings(t)
      BY <1>2, <2>3 DEF Retire
    <3> QED
      BY <2>1, <3>1 DEF Siblings
  <2> QED
    BY <2>2, <2>3
<1>3. ASSUME NEW t \in Tasks, EndTask(t) PROVE G
  <2>1. UNCHANGED <<cancelled, nid>> /\ failed \subseteq failed'
    BY <1>3 DEF EndTask
  <2> QED
    BY <1>a, <2>1
<1>4. ASSUME UNCHANGED <<cancelled, nid, failed>> PROVE G
  BY <1>4, <1>a
<1>5. \/ UNCHANGED <<cancelled, nid, failed>>
      \/ \E p \in Threads : Spawn(p)
      \/ \E t \in Tasks : Retire(t) \/ EndTask(t)
  BY DEF Next, vars, record, history, Await, TakeResult, Resume, NurseryBegin, NurseryBody,
     JoinNext,
     NurseryLeave, Throw, Catch, Sleep, SleepEnd, StartTask, EndMain, Drain, DrainWake, DrainEnd,
     Exited
<1> QED
  BY <1>1, <1>2, <1>3, <1>4, <1>5

-----------------------------------------------------------------------------
(* The drain. *)

(* A set of numbers that has an element has a largest one: of the sets     *)
(* t..n with t in S, take a smallest.                                      *)
LEMMA LargestElement ==
  ASSUME NEW n \in Nat, NEW S \in SUBSET (1..n), S # {}
  PROVE  \E t \in S : \A u \in S : u <= t
<1> DEFINE W == 1..n
           R == StrictSubsetOrdering(W)
           F == {t..n : t \in S}
<1>1. IsFiniteSet(W)
  BY FS_Interval
<1>2. IsWellFoundedOn(R, FiniteSubsetsOf(W))
  BY <1>1, FS_StrictSubsetOrderingWellFounded
<1>3. F \subseteq FiniteSubsetsOf(W) /\ F # {}
  <2>1. ASSUME NEW t \in S PROVE t..n \in FiniteSubsetsOf(W)
    <3>1. t..n \subseteq W
      OBVIOUS
    <3> QED
      BY <1>1, <3>1, FS_Subset DEF FiniteSubsetsOf
  <2> QED
    BY <2>1
<1>4. PICK x \in F : \A y \in F : ~(<<y, x>> \in R)
  BY <1>2, <1>3, WFMin
<1>5. PICK t \in S : x = t..n
  OBVIOUS
<1>6. ASSUME NEW u \in S, u > t PROVE FALSE
  <2>1. u..n \in F
    BY <1>6
  <2>2. u..n \subseteq x /\ u..n # x
    <3>1. t \in x /\ t \notin u..n
      BY <1>5, <1>6
    <3>2. u..n \subseteq x
      BY <1>5, <1>6
    <3> QED
      BY <3>1, <3>2
  <2>3. x \in SUBSET W /\ u..n \in SUBSET W
    BY <1>5
  <2>4. <<u..n, x>> \in R
    BY <2>2, <2>3, Zenon DEF StrictSubsetOrdering
  <2> QED
    BY <1>4, <2>1, <2>4
<1>7. \A u \in S : u <= t
  BY <1>6
<1> QED
  BY <1>7

(* When the scan of the drain finds nothing, there is nothing to find. *)
LEMMA ScanIsThorough ==
  ASSUME TypeInv, \A t \in 1..spawned : ~FirstUndone(t)
  PROVE  \A t \in 1..spawned : done[t]
<1>1. spawned \in Nat
  BY DEF TypeInv, FlatOK
<1>2. Undone \in SUBSET (1..spawned)
  BY DEF Undone
<1>3. CASE Undone # {}
  <2>1. PICK t \in Undone : \A u \in Undone : u <= t
    BY <1>1, <1>2, <1>3, LargestElement
  <2>2. t \in 1..spawned /\ FirstUndone(t)
    BY <1>2, <2>1 DEF FirstUndone
  <2> QED
    BY <2>2
<1>4. CASE Undone = {}
  BY <1>4 DEF Undone
<1> QED
  BY <1>3, <1>4

ExitInv == pc[Main] = "exit" => \A t \in Tasks : pc[t] \in {"none", "gone"}

LEMMA ExitStep == TypeInv /\ GilInv /\ LifeInv /\ ExitInv /\ [Next]_vars => ExitInv'
<1> SUFFICES ASSUME TypeInv, GilInv, LifeInv, ExitInv, [Next]_vars PROVE ExitInv'
  OBVIOUS
<1>a. pc \in [Threads -> PCs] /\ \A p \in Threads : gil = p <=> pc[p] \in Holding
  BY DEF TypeInv, FlatOK, GilInv
<1>1. CASE pc[Main] = "exit"
  <2>1. \A p \in Threads : pc[p] \in {"exit", "none", "gone"}
    BY <1>1, ThreadFacts DEF ExitInv
  <2>2. gil = Main /\ gil # None
    BY <1>1, <1>a, ThreadFacts DEF Holding
  <2>3. Exited \/ UNCHANGED vars
    BY <2>1, <2>2, ThreadFacts
       DEF Next, Spawn, Await, TakeResult, Resume, NurseryBegin, NurseryBody, JoinNext, NurseryLeave,
           Throw, Catch, Sleep, SleepEnd, StartTask, EndTask, Retire, EndMain, Drain, DrainWake,
           DrainEnd, Running, Unwinding, Evaluating
  <2> QED
    BY <2>3 DEF Exited, vars, ExitInv
<1>2. CASE pc[Main] # "exit"
  <2>1. CASE DrainEnd
    <3>1. /\ pc' = [pc EXCEPT ![Main] = "exit"] /\ gil = Main
          /\ \A t \in 1..spawned : ~FirstUndone(t)
      BY <2>1 DEF DrainEnd, Goto
    <3>2. ASSUME NEW t \in Tasks PROVE pc[t] \in {"none", "gone"}
      <4>1. CASE t > spawned
        BY <4>1 DEF TypeInv, NotYet
      <4>2. CASE ~(t > spawned)
        <5>1. t \in 1..spawned
          BY <4>2 DEF TypeInv, FlatOK, Tasks
        <5>2. pc[t] \in {"retire", "gone"}
          BY <3>1, <5>1, ScanIsThorough DEF LifeInv
        <5>3. gil # t
          BY <3>1, ThreadFacts
        <5> QED
          BY <1>a, <5>2, <5>3, ThreadFacts DEF Holding
      <4> QED
        BY <4>1, <4>2
    <3> QED
      BY <1>a, <3>1, <3>2, ThreadFacts DEF ExitInv
  <2>2. CASE ~DrainEnd
    <3> DEFINE G == pc'[Main] # "exit"
    <3> USE <1>2, <1>a, <2>2, ThreadFacts
    <3>1. ASSUME NEW p \in Threads, Spawn(p) PROVE G
      BY <3>1, SpawnTypes DEF Spawn, Goto
    <3>2. ASSUME NEW p \in Threads, Await(p) PROVE G
      BY <3>2 DEF Await, Running, Evaluating, WaitFor, Goto
    <3>3. ASSUME NEW p \in Threads, TakeResult(p) PROVE G
      BY <3>3 DEF TakeResult, Goto
    <3>4. ASSUME NEW p \in Threads, Resume(p) PROVE G
      BY <3>4 DEF Resume, Goto
    <3>5. ASSUME NEW p \in Threads, NurseryBegin(p) PROVE G
      BY <3>5 DEF NurseryBegin, Running, Evaluating
    <3>6. ASSUME NEW p \in Threads, NurseryBody(p) PROVE G
      BY <3>6 DEF NurseryBody, Evaluating, Goto
    <3>7. ASSUME NEW p \in Threads, JoinNext(p) PROVE G
      BY <3>7 DEF JoinNext, WaitFor, Goto
    <3>8. ASSUME NEW p \in Threads, NurseryLeave(p) PROVE G
      BY <3>8 DEF NurseryLeave, Goto
    <3>9. ASSUME NEW p \in Threads, Throw(p) PROVE G
      BY <3>9 DEF Throw, Running, Evaluating
    <3>10. ASSUME NEW p \in Threads, Catch(p) PROVE G
      BY <3>10 DEF Catch, Unwinding, Evaluating
    <3>11. ASSUME NEW p \in Threads, Sleep(p) PROVE G
      BY <3>11 DEF Sleep, Running, Evaluating, Goto
    <3>12. ASSUME NEW p \in Threads, SleepEnd(p) PROVE G
      BY <3>12 DEF SleepEnd, Goto
    <3>13. ASSUME NEW t \in Tasks, StartTask(t) PROVE G
      BY <3>13 DEF StartTask, Goto
    <3>14. ASSUME NEW t \in Tasks, EndTask(t) PROVE G
      BY <3>14 DEF EndTask, Evaluating, Goto
    <3>15. ASSUME NEW t \in Tasks, Retire(t) PROVE G
      BY <3>15 DEF Retire, Goto
    <3>16. ASSUME EndMain PROVE G
      BY <3>16 DEF EndMain, Evaluating, Goto
    <3>17. ASSUME Drain PROVE G
      BY <3>17 DEF Drain, Goto
    <3>18. ASSUME DrainWake PROVE G
      BY <3>18 DEF DrainWake, Goto
    <3>19. ASSUME DrainEnd PROVE G
      BY <3>19
    <3>20. ASSUME Exited PROVE G
      BY <3>20 DEF Exited, vars
    <3>21. CASE UNCHANGED vars
      BY <3>21 DEF vars, ExitInv
    <3> QED
      BY <3>1, <3>2, <3>3, <3>4, <3>5, <3>6, <3>7, <3>8, <3>9, <3>10, <3>11, <3>12, <3>13,
         <3>14,
         <3>15, <3>16, <3>17, <3>18, <3>19, <3>20, <3>21
         DEF Next, ExitInv
  <2> QED
    BY <2>1, <2>2
<1> QED
  BY <1>1, <1>2

-----------------------------------------------------------------------------
(* The shared Interp, as long as no task gives up the GIL before its end.  *)

InBody(t) == pc[t] \in {"run", "join"}

(* Tasks then run one at a time, each from its beginning to its end, while *)
(* main stands still: what the task saved is main's, and what is current   *)
(* is the task's.                                                          *)
Alone ==
  /\ \A t \in Tasks : pc[t] \in {"none", "new", "run", "join", "retire", "gone"}
  /\ \A t \in Tasks : InBody(t) => /\ env = t /\ saved[t].env = Main
                                   /\ cf # None <=> threw[t]
                                   /\ saved[t].cf # None <=> threw[Main]
  /\ (\A t \in Tasks : ~InBody(t)) => env = Main /\ (cf # None <=> threw[Main])
  /\ \A t \in Tasks : ~InBody(t) => ~threw[t]

SharedInv == ~suspended => Alone

LEMMA SuspendedForGood == TypeInv /\ [Next]_vars /\ ~suspended' => ~suspended
  BY DEF Next, vars, history, Spawn, Await, TakeResult, Resume, NurseryBegin, NurseryBody,
     JoinNext,
     NurseryLeave, Throw, Catch, Sleep, SleepEnd, StartTask, EndTask, Retire, EndMain, Drain,
     DrainWake, DrainEnd, Exited, WaitFor, DropGil

LEMMA SharedStep == TypeInv /\ GilInv /\ SharedInv /\ [Next]_vars => SharedInv'
<1> SUFFICES ASSUME TypeInv, GilInv, SharedInv, [Next]_vars, ~suspended' PROVE Alone'
  BY DEF SharedInv
<1>a. ~suspended /\ Alone
  BY SuspendedForGood DEF SharedInv
<1>b. /\ pc \in [Threads -> PCs] /\ env \in Threads /\ cf \in Signals \cup {None}
      /\ saved \in [Tasks -> [env : Threads, cf : Signals \cup {None}]]
      /\ threw \in [Threads -> BOOLEAN] /\ real \in [Threads -> {"throw", None}]
      /\ \A p \in Threads : gil = p <=> pc[p] \in Holding
  BY DEF TypeInv, FlatOK, GilInv
<1> USE <1>a, <1>b, ThreadFacts DEF Alone, InBody, Holding
<1>1. ASSUME NEW p \in Threads, Spawn(p) PROVE Alone'
  <2>1. /\ UNCHANGED <<env, cf, saved, threw>> /\ pc' = [pc EXCEPT ![NewTask] = "new"]
        /\ NewTask \in Tasks /\ pc[NewTask] = "none"
    BY <1>1, SpawnTypes DEF Spawn, Goto, local
  <2> QED
    BY <2>1
<1>2. ASSUME NEW p \in Threads, Await(p) PROVE Alone'
  <2>1. /\ UNCHANGED <<env, cf, saved, threw>> /\ pc' = [pc EXCEPT ![p] = "wait"]
        /\ p = Main
    BY <1>2 DEF Await, WaitFor, DropGil, Goto, interp
  <2> QED
    BY <2>1
<1>3. ASSUME NEW p \in Threads, TakeResult(p) PROVE Alone'
  BY <1>3 DEF TakeResult, Goto, interp, history
<1>4. ASSUME NEW p \in Threads, Resume(p) PROVE Alone'
  BY <1>4 DEF Resume, TakeGil, Goto, interp, record, history
<1>5. ASSUME NEW p \in Threads, NurseryBegin(p) PROVE Alone'
  BY <1>5 DEF NurseryBegin, Running, Evaluating, record
<1>6. ASSUME NEW p \in Threads, NurseryBody(p) PROVE Alone'
  BY <1>6 DEF NurseryBody, Evaluating, Goto, record, history
<1>7. ASSUME NEW p \in Threads, JoinNext(p) PROVE Alone'
  BY <1>7 DEF JoinNext, WaitFor, DropGil, Goto, interp, record
<1>8. ASSUME NEW p \in Threads, NurseryLeave(p) PROVE Alone'
  <2>1. /\ UNCHANGED <<env, saved>> /\ pc' = [pc EXCEPT ![p] = "run"] /\ pc[p] = "join"
        /\ cf' = IF real[p] # None THEN real[p] ELSE cf
        /\ threw' = [threw EXCEPT ![p] = threw[p] \/ real[p] # None]
    BY <1>8 DEF NurseryLeave, Goto
  <2>2. \A t \in Tasks : InBody(t)' <=> InBody(t)
    BY <2>1
  <2>3. CASE real[p] = None
    <3>1. cf' = cf /\ threw' = threw
      BY <2>1, <2>3
    <3> QED
      BY <2>1, <2>2, <3>1
  <2>4. CASE real[p] # None
    <3>1. cf' # None /\ threw' = [threw EXCEPT ![p] = TRUE]
      BY <2>1, <2>4
    <3>2. CASE p = Main
      <4>1. \A t \in Tasks : ~InBody(t)
        BY <2>1, <3>2
      <4> QED
        BY <2>1, <2>2, <3>1, <3>2, <4>1
    <3>3. CASE p \in Tasks
      BY <2>1, <2>2, <3>1, <3>3
    <3> QED
      BY <3>2, <3>3
  <2> QED
    BY <2>3, <2>4
<1>9. ASSUME NEW p \in Threads, Throw(p) PROVE Alone'
  BY <1>9 DEF Throw, Running, Evaluating, record, local, Signals
<1>10. ASSUME NEW p \in Threads, Catch(p) PROVE Alone'
  BY <1>10 DEF Catch, Unwinding, Evaluating, record, local
<1>11. ASSUME NEW p \in Threads, Sleep(p) PROVE Alone'
  BY <1>11 DEF Sleep, Running, Evaluating, DropGil, Goto, interp, record, local
<1>12. ASSUME NEW p \in Threads, SleepEnd(p) PROVE Alone'
  BY <1>12 DEF SleepEnd, TakeGil, Goto, record, local
<1>13. ASSUME NEW t \in Tasks, StartTask(t) PROVE Alone'
  BY <1>13 DEF StartTask, TakeGil, Enter, Goto, record, history
<1>14. ASSUME NEW t \in Tasks, EndTask(t) PROVE Alone'
  BY <1>14 DEF EndTask, Evaluating, Leave, Goto, local
<1>15. ASSUME NEW t \in Tasks, Retire(t) PROVE Alone'
  BY <1>15 DEF Retire, Goto, interp, local, history
<1>16. ASSUME EndMain PROVE Alone'
  BY <1>16 DEF EndMain, Evaluating, Goto, record, local
<1>17. ASSUME Drain PROVE Alone'
  BY <1>17 DEF Drain, Goto, interp, record, history
<1>18. ASSUME DrainWake PROVE Alone'
  BY <1>18 DEF DrainWake, TakeGil, Goto, interp, record, history
<1>19. ASSUME DrainEnd PROVE Alone'
  BY <1>19 DEF DrainEnd, Goto, interp, record, local, history
<1>20. ASSUME Exited PROVE Alone'
  BY <1>20 DEF Exited, vars, interp, record, local, history
<1>21. CASE UNCHANGED vars
  BY <1>21 DEF vars, interp, record, local, history
<1> QED
  BY <1>1, <1>2, <1>3, <1>4, <1>5, <1>6, <1>7, <1>8, <1>9, <1>10, <1>11, <1>12, <1>13, <1>14,
     <1>15, <1>16, <1>17, <1>18, <1>19, <1>20, <1>21 DEF Next

-----------------------------------------------------------------------------
(* The nursery queues. *)

LEMMA EntryTypes ==
  ASSUME SeqsOK, NEW r \in Threads
  PROVE  /\ open[r] \in Seq(Activations) /\ Len(open[r]) \in Nat
         /\ \A i \in 1..Len(open[r]) : open[r][i] \in Activations
         /\ \A i \in 1..Len(open[r]) :
              /\ open[r][i].q \in Nat /\ open[r][i].q \in Queues
              /\ open[r][i].queue \in Nat /\ open[r][i].joining \in BOOLEAN
         /\ open[r] = <<>> <=> Len(open[r]) = 0
<1>1. open[r] \in Seq(Activations) /\ Len(open[r]) \in Nat
  BY LenProperties DEF SeqsOK
<1>2. \A i \in 1..Len(open[r]) : open[r][i] \in Activations
  BY <1>1, ElementOfSeq
<1>3. \A a \in Activations :
        a.q \in Nat /\ a.q \in Queues /\ a.queue \in Nat /\ a.joining \in BOOLEAN
  BY InterpTasksAssumption DEF Activations, Queues
<1> QED
  BY <1>1, <1>2, <1>3, EmptySeq

(* The end of a body changes only that the activation joins; leaving a     *)
(* block drops its activation.                                             *)
LEMMA BodyEntries ==
  ASSUME TypeInv, NEW p \in Threads, NurseryBody(p), NEW r \in Threads
  PROVE  /\ Len(open'[r]) = Len(open[r])
         /\ \A i \in 1..Len(open[r]) :
              open'[r][i].q = open[r][i].q /\ open'[r][i].queue = open[r][i].queue
<1>1. CASE r # p
  BY <1>1, BodyFacts
<1>2. CASE r = p
  <2>1. /\ InJoin(Last(open[p])).q = Last(open[p]).q
        /\ InJoin(Last(open[p])).queue = Last(open[p]).queue
    BY BodyFacts, ActivationTypes
  <2>2. /\ Len(open[p]) \in Nat \ {0} /\ Len(open'[p]) = Len(open[p])
        /\ Last(open[p]) = open[p][Len(open[p])]
        /\ open'[p][Len(open[p])] = InJoin(Last(open[p]))
        /\ \A i \in 1..Len(open[p]) - 1 : open'[p][i] = open[p][i]
    BY BodyFacts
  <2>3. \A i \in 1..Len(open[p]) : i = Len(open[p]) \/ i \in 1..Len(open[p]) - 1
    BY <2>2
  <2> QED
    BY <1>2, <2>1, <2>2, <2>3
<1> QED
  BY <1>1, <1>2

LEMMA LeaveEntries ==
  ASSUME TypeInv, NEW p \in Threads, NurseryLeave(p), NEW r \in Threads
  PROVE  /\ Len(open'[r]) \in 0..Len(open[r])
         /\ \A i \in 1..Len(open'[r]) : i \in 1..Len(open[r]) /\ open'[r][i] = open[r][i]
<1>1. CASE r # p
  BY <1>1, LeaveFacts, EntryTypes DEF TypeInv
<1>2. CASE r = p
  <2>1. /\ Len(open[p]) \in Nat \ {0} /\ Len(open'[p]) = Len(open[p]) - 1
        /\ \A i \in 1..Len(open[p]) - 1 : open'[p][i] = open[p][i]
    BY LeaveFacts
  <2> QED
    BY <1>2, <2>1
<1> QED
  BY <1>1, <1>2

OrderOf(r) ==
  \A i \in 1..Len(open[r]) :
    /\ open[r][i].q <= nurseries /\ open[r][i].queue < open[r][i].q
    /\ \A j \in 1..Len(open[r]) : i < j => open[r][i].q < open[r][j].q

(* The queues are numbered as the blocks are entered: an inner block has a *)
(* newer queue than the one it found.                                      *)
OrderInv ==
  /\ queue <= nurseries
  /\ freed \subseteq 1..nurseries
  /\ \A r \in Threads : OrderOf(r)

LEMMA OrderStep == TypeInv /\ OrderInv /\ [Next]_vars => OrderInv'
<1> SUFFICES ASSUME TypeInv, OrderInv, [Next]_vars PROVE OrderInv'
  OBVIOUS
<1>0. SeqsOK /\ FlatOK
  BY DEF TypeInv
<1>a. /\ nurseries \in Nat /\ queue \in Nat /\ queue <= nurseries /\ freed \subseteq 1..nurseries
      /\ \A r \in Threads : OrderOf(r)
  BY <1>0, InterpTasksAssumption DEF FlatOK, OrderInv
<1>1. ASSUME NEW p \in Threads, Spawn(p) PROVE OrderInv'
  BY <1>1, <1>a DEF Spawn, local, OrderInv, OrderOf
<1>2. ASSUME NEW p \in Threads, NurseryBegin(p) PROVE OrderInv'
  <2>1. /\ queue' = nurseries + 1 /\ nurseries' = nurseries + 1 /\ freed' = freed
        /\ Activation(p).q = nurseries + 1 /\ Activation(p).queue = queue
    BY <1>2 DEF NurseryBegin, Activation
  <2>2. ASSUME NEW r \in Threads PROVE OrderOf(r)'
    <3>1. /\ OrderOf(r) /\ Len(open[r]) \in Nat
          /\ \A i \in 1..Len(open[r]) : open[r][i].q \in Nat /\ open[r][i].queue \in Nat
      BY <1>0, <1>a, EntryTypes
    <3>2. CASE r # p
      <4>1. open'[r] = open[r]
        BY <1>2, <3>2, BeginFacts
      <4>2. \A i \in 1..Len(open[r]) : open[r][i].q <= nurseries' /\ open[r][i].queue < open[r][i].q
        <5>1. nurseries \in Nat /\ nurseries' = nurseries + 1
          BY <1>a, <2>1
        <5>2. ASSUME NEW i \in 1..Len(open[r])
              PROVE  open[r][i].q <= nurseries + 1 /\ open[r][i].queue < open[r][i].q
          <6>1. /\ open[r][i].q <= nurseries /\ open[r][i].queue < open[r][i].q
                /\ open[r][i].q \in Nat
            BY <3>1 DEF OrderOf
          <6> QED
            BY <5>1, <6>1
        <5> QED
          BY <5>1, <5>2
      <4>3. \A i, j \in 1..Len(open[r]) : i < j => open[r][i].q < open[r][j].q
        BY <3>1 DEF OrderOf
      <4> QED
        BY <4>1, <4>2, <4>3 DEF OrderOf
    <3>3. CASE r = p
      <4>1. /\ Len(open'[r]) = Len(open[r]) + 1 /\ open'[r][Len(open[r]) + 1] = Activation(p)
            /\ \A i \in 1..Len(open[r]) : open'[r][i] = open[r][i]
        BY <1>2, <3>3, BeginFacts
      <4>2. \A i \in 1..Len(open'[r]) : i = Len(open[r]) + 1 \/ i \in 1..Len(open[r])
        BY <3>1, <4>1
      <4>3. \A i \in 1..Len(open'[r]) :
              open'[r][i].q <= nurseries' /\ open'[r][i].queue < open'[r][i].q
        <5>1. ASSUME NEW i \in 1..Len(open[r])
              PROVE  open'[r][i].q <= nurseries' /\ open'[r][i].queue < open'[r][i].q
          <6>1. open[r][i].q <= nurseries /\ open[r][i].queue < open[r][i].q
            BY <3>1 DEF OrderOf
          <6>2. open[r][i].q \in Nat /\ open'[r][i] = open[r][i]
            BY <3>1, <4>1
          <6> QED
            BY <1>a, <2>1, <6>1, <6>2
        <5>2. /\ open'[r][Len(open[r]) + 1].q <= nurseries'
              /\ open'[r][Len(open[r]) + 1].queue < open'[r][Len(open[r]) + 1].q
          BY <1>a, <2>1, <4>1
        <5> QED
          BY <4>2, <5>1, <5>2
      <4>4. ASSUME NEW i \in 1..Len(open'[r]), NEW j \in 1..Len(open'[r]), i < j
            PROVE  open'[r][i].q < open'[r][j].q
        <5>1. i \in 1..Len(open[r]) /\ open'[r][i].q = open[r][i].q
          BY <3>1, <4>1, <4>4
        <5>2. open[r][i].q <= nurseries /\ open[r][i].q \in Nat
          BY <3>1, <5>1 DEF OrderOf
        <5>3. CASE j = Len(open[r]) + 1
          BY <1>a, <2>1, <4>1, <5>1, <5>2, <5>3
        <5>4. CASE j \in 1..Len(open[r])
          BY <3>1, <4>1, <4>4, <5>1, <5>4 DEF OrderOf
        <5> QED
          BY <4>2, <5>3, <5>4
      <4> QED
        BY <4>3, <4>4 DEF OrderOf
    <3> QED
      BY <3>2, <3>3
  <2> QED
    BY <1>a, <2>1, <2>2 DEF OrderInv
<1>3. ASSUME NEW p \in Threads, NurseryBody(p) PROVE OrderInv'
  <2>1. queue' = Last(open[p]).queue /\ nurseries' = nurseries /\ freed' = freed /\ open[p] # <<>>
    BY <1>3 DEF NurseryBody, RestoreQueue
  <2>2. ASSUME NEW r \in Threads PROVE OrderOf(r)'
    <3>1. /\ Len(open'[r]) = Len(open[r])
          /\ \A i \in 1..Len(open[r]) :
               open'[r][i].q = open[r][i].q /\ open'[r][i].queue = open[r][i].queue
      BY <1>3, BodyEntries
    <3>2. OrderOf(r)
      BY <1>a
    <3> QED
      BY <2>1, <3>1, <3>2 DEF OrderOf
  <2>3. Last(open[p]) = open[p][Len(open[p])] /\ Len(open[p]) \in 1..Len(open[p])
    BY <1>3, BodyFacts
  <2>4. queue' <= nurseries
    <3>1. /\ open[p][Len(open[p])].queue < open[p][Len(open[p])].q
          /\ open[p][Len(open[p])].q <= nurseries
      BY <1>a, <2>3 DEF OrderOf
    <3>2. open[p][Len(open[p])].queue \in Nat /\ open[p][Len(open[p])].q \in Nat
      BY <1>0, <2>3, EntryTypes
    <3> QED
      BY <1>a, <2>1, <2>3, <3>1, <3>2
  <2> QED
    BY <1>a, <2>1, <2>2, <2>4 DEF OrderInv
<1>4. ASSUME NEW p \in Threads, NurseryLeave(p) PROVE OrderInv'
  <2>1. /\ queue' = queue /\ nurseries' = nurseries /\ freed' = freed \cup {Last(open[p]).q}
    BY <1>4 DEF NurseryLeave
  <2>2. ASSUME NEW r \in Threads PROVE OrderOf(r)'
    <3>1. \A i \in 1..Len(open'[r]) : i \in 1..Len(open[r]) /\ open'[r][i] = open[r][i]
      BY <1>4, LeaveEntries
    <3> QED
      BY <1>a, <2>1, <3>1 DEF OrderOf
  <2>3. Last(open[p]) = open[p][Len(open[p])] /\ Len(open[p]) \in 1..Len(open[p])
    BY <1>4, LeaveFacts
  <2>4. Last(open[p]).q \in 1..nurseries
    <3>1. open[p][Len(open[p])].q <= nurseries /\ open[p][Len(open[p])].q \in Queues
      BY <1>0, <1>a, <2>3, EntryTypes DEF OrderOf
    <3> QED
      BY <1>a, <2>3, <3>1 DEF Queues
  <2> QED
    BY <1>a, <2>1, <2>2, <2>4 DEF OrderInv
<1>5. CASE QuietStep \/ UNCHANGED vars
  BY <1>5, <1>a, QuietKeepsBlocks DEF OrderInv, OrderOf
<1> QED
  BY <1>1, <1>2, <1>3, <1>4, <1>5, StepCases

(* While no task was suspended, only the thread that holds the GIL and main can have
   blocks open. *)
LEMMA OthersClosed ==
  ASSUME TypeInv, GilInv, SharedInv, ~suspended, NEW p \in Threads, gil = p
  PROVE  \A t \in Tasks : t # p => open[t] = <<>>
<1> SUFFICES ASSUME NEW t \in Tasks, t # p PROVE open[t] = <<>>
  OBVIOUS
<1>1. pc[t] \notin Holding
  BY ThreadFacts DEF GilInv
<1>2. pc[t] \in {"none", "new", "run", "join", "retire", "gone"}
  BY DEF SharedInv, Alone
<1> QED
  BY <1>1, <1>2, ThreadFacts DEF TypeInv, PlaceInv, Holding, Outside

(* A queue is retired from the moment its block stops collecting futures. *)
Retired(q) == q \in freed \/ \E r \in Threads : Joining(r) /\ q = Last(open[r]).q

LEMMA BeginRetires ==
  ASSUME TypeInv, NEW p \in Threads, NurseryBegin(p), NEW q
  PROVE  Retired(q)' <=> Retired(q)
<1>1. freed' = freed /\ pc[p] = "run"
  BY DEF NurseryBegin, Running, Evaluating
<1>2. ~Joining(p)
  BY <1>1 DEF TypeInv, PlaceInv
<1>3. ~Last(open'[p]).joining
  <2>1. Last(open'[p]) = Activation(p)
    BY BeginFacts
  <2> QED
    BY <2>1 DEF Activation
<1>4. \A r \in Threads : r # p => open'[r] = open[r]
  BY BeginFacts
<1>5. ~Joining(p)'
  BY <1>3 DEF Joining
<1>6. \A r \in Threads : r # p => (Joining(r)' <=> Joining(r))
  BY <1>4 DEF Joining
<1> QED
  BY <1>1, <1>2, <1>4, <1>5, <1>6 DEF Retired

LEMMA BodyRetires ==
  ASSUME TypeInv, NEW p \in Threads, NurseryBody(p), NEW q
  PROVE  Retired(q)' <=> Retired(q) \/ q = Last(open[p]).q
<1>1. freed' = freed /\ pc[p] = "run"
  BY DEF NurseryBody, Evaluating
<1>2. ~Joining(p)
  BY <1>1 DEF TypeInv, PlaceInv
<1>3. Last(open'[p]).joining /\ Last(open'[p]).q = Last(open[p]).q /\ open'[p] # <<>>
  BY BodyFacts, ActivationTypes
<1>4. \A r \in Threads : r # p => open'[r] = open[r]
  BY BodyFacts
<1>5. Joining(p)'
  BY <1>3 DEF Joining
<1>6. \A r \in Threads : r # p => (Joining(r)' <=> Joining(r))
  BY <1>4 DEF Joining
<1> QED
  BY <1>1, <1>2, <1>3, <1>4, <1>5, <1>6 DEF Retired

LEMMA LeaveRetires ==
  ASSUME TypeInv, NEW p \in Threads, NurseryLeave(p), NEW q
  PROVE  Retired(q)' <=> Retired(q)
<1>1. freed' = freed \cup {Last(open[p]).q}
  BY DEF NurseryLeave
<1>2. Joining(p)
  BY LeaveFacts DEF Joining
<1>3. ~Joining(p)'
  <2>1. open'[p] # <<>> => ~Last(open'[p]).joining
    BY LeaveFacts DEF TypeInv, PlaceInv
  <2> QED
    BY <2>1 DEF Joining
<1>4. \A r \in Threads : r # p => open'[r] = open[r]
  BY LeaveFacts
<1>5. \A r \in Threads : r # p => (Joining(r)' <=> Joining(r))
  BY <1>4 DEF Joining
<1> QED
  BY <1>1, <1>2, <1>3, <1>4, <1>5 DEF Retired

QueuesOf(r) == \A i \in 1..Len(open[r]) : ~Retired(open[r][i].queue)
MainFirst(t) == \A i \in 1..Len(open[Main]), j \in 1..Len(open[t]) : open[Main][i].q < open[t][j].q

(* Neither the current queue nor one that will be put back is retired: a   *)
(* block restores an older queue than its own, and a task's blocks are all *)
(* newer than main's.                                                      *)
QueueInv ==
  ~suspended =>
    /\ ~Retired(queue)
    /\ \A r \in Threads : QueuesOf(r)
    /\ \A t \in Tasks : MainFirst(t)

LEMMA QueueStep ==
  TypeInv /\ GilInv /\ SharedInv /\ OrderInv /\ QueueInv /\ [Next]_vars => QueueInv'
<1> SUFFICES ASSUME TypeInv, GilInv, SharedInv, OrderInv, QueueInv, [Next]_vars, ~suspended'
             PROVE  /\ ~Retired(queue)'
                    /\ \A r \in Threads : QueuesOf(r)'
                    /\ \A t \in Tasks : MainFirst(t)'
  BY DEF QueueInv
<1> DEFINE G == /\ ~Retired(queue)'
                /\ \A r \in Threads : QueuesOf(r)'
                /\ \A t \in Tasks : MainFirst(t)'
<1>0. SeqsOK /\ FlatOK /\ ~suspended
  BY SuspendedForGood DEF TypeInv
<1>a. /\ ~Retired(queue)
      /\ \A r \in Threads : QueuesOf(r)
      /\ \A t \in Tasks : MainFirst(t)
  BY <1>0 DEF QueueInv
<1>b. /\ nurseries \in Nat /\ queue \in Nat /\ queue <= nurseries /\ freed \subseteq 1..nurseries
      /\ \A r \in Threads : OrderOf(r)
  BY <1>0, InterpTasksAssumption DEF FlatOK, OrderInv
<1>1. ASSUME NEW p \in Threads, Spawn(p) PROVE G
  <2>1. queue' = queue /\ open' = open /\ freed' = freed
    BY <1>1 DEF Spawn, local
  <2> QED
    BY <1>a, <2>1 DEF Retired, Joining, QueuesOf, MainFirst
<1>2. ASSUME NEW p \in Threads, NurseryBegin(p) PROVE G
  <2>1. /\ queue' = nurseries + 1 /\ gil = p
        /\ Activation(p).q = nurseries + 1 /\ Activation(p).queue = queue
    BY <1>2 DEF NurseryBegin, Activation, Running, Evaluating
  <2>2. ~Retired(nurseries + 1)
    <3>1. nurseries + 1 \notin freed
      BY <1>b
    <3>2. ASSUME NEW r \in Threads, Joining(r) PROVE Last(open[r]).q # nurseries + 1
      <4>1. Last(open[r]) = open[r][Len(open[r])] /\ Len(open[r]) \in 1..Len(open[r])
        BY <1>0, <3>2, Innermost DEF Joining
      <4>2. open[r][Len(open[r])].q <= nurseries /\ open[r][Len(open[r])].q \in Nat
        BY <1>0, <1>b, <4>1, EntryTypes DEF OrderOf
      <4> QED
        BY <1>b, <4>1, <4>2
    <3> QED
      BY <3>1, <3>2 DEF Retired
  <2>3. ~Retired(queue)'
    BY <1>2, <2>1, <2>2, BeginRetires DEF Retired
  <2>4. \A q : Retired(q)' <=> Retired(q)
    BY <1>2, BeginRetires
  <2>5. ASSUME NEW r \in Threads PROVE QueuesOf(r)'
    <3>1. CASE r # p
      <4>1. open'[r] = open[r]
        BY <1>2, <3>1, BeginFacts
      <4>2. \A i \in 1..Len(open'[r]) : ~Retired(open'[r][i].queue)
        BY <1>a, <4>1 DEF QueuesOf
      <4> QED
        BY <2>4, <4>2 DEF QueuesOf, Retired
    <3>2. CASE r = p
      <4>1. /\ Len(open'[r]) = Len(open[r]) + 1 /\ open'[r][Len(open[r]) + 1] = Activation(p)
            /\ Len(open[r]) \in Nat
            /\ \A i \in 1..Len(open[r]) : open'[r][i] = open[r][i]
        BY <1>2, <3>2, BeginFacts
      <4>2. \A i \in 1..Len(open'[r]) : i = Len(open[r]) + 1 \/ i \in 1..Len(open[r])
        BY <4>1
      <4>3. \A i \in 1..Len(open'[r]) : ~Retired(open'[r][i].queue)
        BY <1>a, <2>1, <4>1, <4>2 DEF QueuesOf
      <4> QED
        BY <2>4, <4>3 DEF QueuesOf, Retired
    <3> QED
      BY <3>1, <3>2
  <2>6. ASSUME NEW t \in Tasks PROVE MainFirst(t)'
    <3>1. CASE t # p
      <4>1. open'[t] = <<>>
        BY <1>0, <1>2, <2>1, <3>1, OthersClosed, BeginFacts, ThreadFacts
      <4> QED
        BY <4>1 DEF MainFirst
    <3>2. CASE t = p
      <4>1. open'[Main] = open[Main]
        BY <1>2, <3>2, BeginFacts, ThreadFacts
      <4>2. /\ Len(open'[t]) = Len(open[t]) + 1 /\ open'[t][Len(open[t]) + 1] = Activation(p)
            /\ Len(open[t]) \in Nat
            /\ \A i \in 1..Len(open[t]) : open'[t][i] = open[t][i]
        BY <1>2, <3>2, BeginFacts
      <4>3. \A i \in 1..Len(open[Main]) : open[Main][i].q <= nurseries /\ open[Main][i].q \in Nat
        BY <1>0, <1>b, ThreadFacts, EntryTypes DEF OrderOf
      <4>4. \A i \in 1..Len(open'[t]) : i = Len(open[t]) + 1 \/ i \in 1..Len(open[t])
        BY <4>2
      <4>5. \A i \in 1..Len(open[Main]) : open[Main][i].q < Activation(p).q
        BY <1>b, <2>1, <4>3
      <4> QED
        BY <1>a, <4>1, <4>2, <4>4, <4>5 DEF MainFirst
    <3> QED
      BY <3>1, <3>2
  <2> QED
    BY <2>3, <2>5, <2>6
<1>3. ASSUME NEW p \in Threads, NurseryBody(p) PROVE G
  <2>1. queue' = Last(open[p]).queue /\ gil = p
    BY <1>3 DEF NurseryBody, RestoreQueue, Evaluating
  <2> DEFINE n == Len(open[p])
  <2>2. Last(open[p]) = open[p][n] /\ n \in 1..n
    BY <1>3, BodyFacts
  <2> HIDE DEF n
  <2>3. \A q : Retired(q)' <=> Retired(q) \/ q = open[p][n].q
    BY <1>3, <2>2, BodyRetires
  <2>4. ASSUME NEW r \in Threads, NEW i \in 1..Len(open[r]) PROVE open[r][i].queue # open[p][n].q
    <3>1. open[r][i].queue < open[r][i].q /\ open[r][i].queue \in Nat /\ open[r][i].q \in Nat
      BY <1>0, <1>b, EntryTypes DEF OrderOf
    <3>2. open[p][n].q \in Nat
      BY <1>0, <2>2, EntryTypes DEF n
    <3>3. CASE r = p
      <4>1. i < n => open[r][i].q < open[p][n].q
        BY <1>b, <2>2, <3>3 DEF OrderOf, n
      <4>2. i = n \/ i < n
        BY <2>2, <3>3 DEF n
      <4> QED
        BY <3>1, <3>2, <3>3, <4>1, <4>2
    <3>4. CASE r # p /\ r \in Tasks
      <4>1. open[r] = <<>>
        BY <1>0, <2>1, <3>4, OthersClosed
      <4> QED
        BY <4>1
    <3>5. CASE r # p /\ r = Main
      <4>1. p \in Tasks
        BY <3>5, ThreadFacts
      <4>2. open[r][i].q < open[p][n].q
        BY <1>a, <2>2, <3>5, <4>1 DEF MainFirst, n
      <4> QED
        BY <3>1, <3>2, <4>2
    <3> QED
      BY <3>3, <3>4, <3>5, ThreadFacts
  <2>5. ~Retired(queue)'
    <3>1. ~Retired(open[p][n].queue) /\ open[p][n].queue # open[p][n].q
      BY <1>a, <2>2, <2>4 DEF QueuesOf, n
    <3> QED
      BY <2>1, <2>2, <2>3, <3>1 DEF Retired
  <2>6. ASSUME NEW r \in Threads PROVE QueuesOf(r)'
    <3>1. \A i \in 1..Len(open'[r]) :
            ~Retired(open'[r][i].queue) /\ open'[r][i].queue # open[p][n].q
      BY <1>3, <1>a, <2>4, BodyEntries DEF QueuesOf
    <3> QED
      BY <2>3, <3>1 DEF QueuesOf, Retired
  <2>7. ASSUME NEW t \in Tasks PROVE MainFirst(t)'
    BY <1>3, <1>a, BodyEntries, ThreadFacts DEF MainFirst
  <2> QED
    BY <2>5, <2>6, <2>7
<1>4. ASSUME NEW p \in Threads, NurseryLeave(p) PROVE G
  <2>1. queue' = queue
    BY <1>4 DEF NurseryLeave
  <2>2. \A q : Retired(q)' <=> Retired(q)
    BY <1>4, LeaveRetires
  <2>3. \A r \in Threads : \A i \in 1..Len(open'[r]) :
          i \in 1..Len(open[r]) /\ open'[r][i] = open[r][i]
    BY <1>4, LeaveEntries
  <2>4. ASSUME NEW r \in Threads PROVE QueuesOf(r)'
    <3>1. \A i \in 1..Len(open'[r]) : ~Retired(open'[r][i].queue)
      BY <1>a, <2>3 DEF QueuesOf
    <3> QED
      BY <2>2, <3>1 DEF QueuesOf, Retired
  <2>5. ASSUME NEW t \in Tasks PROVE MainFirst(t)'
    BY <1>a, <2>3, ThreadFacts DEF MainFirst
  <2>6. ~Retired(queue)'
    BY <1>a, <2>1, <2>2 DEF Retired
  <2> QED
    BY <2>4, <2>5, <2>6
<1>5. CASE QuietStep \/ UNCHANGED vars
  <2>1. queue' = queue /\ open' = open /\ freed' = freed
    BY <1>5, QuietKeepsBlocks
  <2> QED
    BY <1>a, <2>1 DEF Retired, Joining, QueuesOf, MainFirst
<1> QED
  BY <1>1, <1>2, <1>3, <1>4, <1>5, StepCases

(* The array of futures of a nursery only grows, and the future of a task is in the
   current one once it is spawned. *)
LEMMA SpawnItems ==
  ASSUME TypeInv, NEW p \in Threads, Spawn(p)
  PROVE  /\ \A q \in Queues :
              /\ items[q] \in Seq(Tasks) /\ items'[q] \in Seq(Tasks)
              /\ Len(items[q]) \in Nat /\ Len(items'[q]) \in Nat
              /\ Len(items[q]) <= Len(items'[q])
              /\ \A i \in 1..Len(items[q]) : items'[q][i] = items[q][i]
              /\ ToSet(items[q]) \subseteq ToSet(items'[q])
         /\ queue \in Queues => NewTask \in ToSet(items'[queue])
<1>0. items \in [Queues -> Seq(Tasks)] /\ NewTask \in Tasks
  BY SpawnTypes DEF TypeInv, SeqsOK
<1>1. ASSUME NEW q \in Queues, q # queue PROVE items'[q] = items[q]
  BY <1>0, <1>1 DEF Spawn
<1>2. ASSUME queue \in Queues PROVE items'[queue] = Append(items[queue], NewTask)
  <2>1. queue # 0
    BY <1>2 DEF Queues
  <2> QED
    BY <1>0, <1>2, <2>1 DEF Spawn
<1>3. ASSUME NEW s \in Seq(Tasks)
      PROVE  /\ Append(s, NewTask) \in Seq(Tasks) /\ Len(s) \in Nat
             /\ Len(Append(s, NewTask)) \in Nat /\ Len(s) <= Len(Append(s, NewTask))
             /\ \A i \in 1..Len(s) : Append(s, NewTask)[i] = s[i]
             /\ ToSet(s) \subseteq ToSet(Append(s, NewTask))
             /\ NewTask \in ToSet(Append(s, NewTask))
  <2>1. /\ Append(s, NewTask) \in Seq(Tasks) /\ Len(s) \in Nat
        /\ Len(Append(s, NewTask)) = Len(s) + 1
        /\ \A i \in 1..Len(s) : Append(s, NewTask)[i] = s[i]
        /\ Append(s, NewTask)[Len(s) + 1] = NewTask
    BY <1>0, AppendLast
  <2>2. DOMAIN s = 1..Len(s) /\ DOMAIN Append(s, NewTask) = 1..Len(s) + 1
    BY <2>1, LenProperties
  <2>3. ToSet(s) \subseteq ToSet(Append(s, NewTask))
    BY <2>1, <2>2 DEF ToSet
  <2>4. NewTask \in ToSet(Append(s, NewTask))
    BY <2>1, <2>2 DEF ToSet
  <2> QED
    BY <2>1, <2>3, <2>4
<1>4. ASSUME NEW q \in Queues
      PROVE  /\ items[q] \in Seq(Tasks) /\ items'[q] \in Seq(Tasks)
             /\ Len(items[q]) \in Nat /\ Len(items'[q]) \in Nat
             /\ Len(items[q]) <= Len(items'[q])
             /\ \A i \in 1..Len(items[q]) : items'[q][i] = items[q][i]
             /\ ToSet(items[q]) \subseteq ToSet(items'[q])
  <2>1. items[q] \in Seq(Tasks) /\ Len(items[q]) \in Nat
    BY <1>0, LenProperties
  <2>2. CASE q # queue
    BY <1>1, <2>1, <2>2
  <2>3. CASE q = queue
    BY <1>2, <1>3, <2>1, <2>3
  <2> QED
    BY <2>2, <2>3
<1>5. queue \in Queues => NewTask \in ToSet(items'[queue])
  BY <1>0, <1>2, <1>3
<1> QED
  BY <1>4, <1>5

(* The queue a thread's own blocks leave it with, when s are its activations and there
   are some; and the queue it has without any. *)
TopOf(s) == IF Last(s).joining THEN Last(s).queue ELSE Last(s).q
Base(p, op) == IF p = Main \/ op[Main] = <<>> THEN 0 ELSE TopOf(op[Main])

Own(p, qu, op) ==
  /\ op[p] = <<>> => qu = Base(p, op)
  /\ op[p] # <<>> => qu = TopOf(op[p]) /\ op[p][1].queue = Base(p, op)

(* The current queue is the running thread's innermost one that collects:  *)
(* a task's blocks are stacked on those of main.                           *)
Levels(qu, op) ==
  /\ op[Main] # <<>> => op[Main][1].queue = 0
  /\ \A t \in Tasks : op[t] # <<>> => qu = TopOf(op[t]) /\ op[t][1].queue = Base(t, op)
  /\ (\A t \in Tasks : op[t] = <<>>) =>
       qu = IF op[Main] = <<>> THEN 0 ELSE TopOf(op[Main])

LEMMA OwnQueue ==
  ASSUME NEW qu, NEW op, NEW p \in Threads, \A t \in Tasks : t # p => op[t] = <<>>
  PROVE  /\ Levels(qu, op) => Own(p, qu, op)
         /\ Own(p, qu, op) /\ (p # Main /\ op[Main] # <<>> => op[Main][1].queue = 0) =>
              Levels(qu, op)
  BY ThreadFacts DEF Levels, Own, Base

ChainOf(r) == \A i \in 1..Len(open[r]) - 1 : open[r][i + 1].queue = open[r][i].q
BlocksOf(r) == \A i \in 1..Len(open[r]) : block[r][i] \subseteq ToSet(items[open[r][i].q])

(* The blocks of a thread are chained by the queues they found, and the    *)
(* futures of the tasks a block spawned are in its own array.              *)
ChainInv ==
  ~suspended =>
    /\ \A r \in Threads : ChainOf(r) /\ BlocksOf(r)
    /\ Levels(queue, open)

LEMMA ChainStep ==
  TypeInv /\ GilInv /\ SharedInv /\ ChainInv /\ [Next]_vars => ChainInv'
<1> SUFFICES ASSUME TypeInv, GilInv, SharedInv, ChainInv, [Next]_vars, ~suspended'
             PROVE  /\ \A r \in Threads : ChainOf(r)' /\ BlocksOf(r)'
                    /\ Levels(queue', open')
  BY DEF ChainInv, Levels, TopOf, Base
<1> DEFINE G == /\ \A r \in Threads : ChainOf(r)' /\ BlocksOf(r)'
                /\ Levels(queue', open')
<1>0. SeqsOK /\ FlatOK /\ ~suspended
  BY SuspendedForGood DEF TypeInv
<1>a. /\ \A r \in Threads : ChainOf(r) /\ BlocksOf(r)
      /\ Levels(queue, open)
  BY <1>0 DEF ChainInv
<1>b. ASSUME NEW p \in Threads, gil = p
      PROVE  /\ \A t \in Tasks : t # p => open[t] = <<>>
             /\ Own(p, queue, open)
  <2>1. \A t \in Tasks : t # p => open[t] = <<>>
    BY <1>0, <1>b, OthersClosed
  <2> QED
    BY <1>a, <2>1, OwnQueue
<1>c. ASSUME NEW p \in Threads, gil = p, Own(p, queue', open'),
             \A r \in Threads : r # p => open'[r] = open[r]
      PROVE  Levels(queue', open')
  <2>1. \A t \in Tasks : t # p => open'[t] = <<>>
    BY <1>b, <1>c, ThreadFacts
  <2>2. p # Main /\ open'[Main] # <<>> => open'[Main][1].queue = 0
    BY <1>a, <1>c, ThreadFacts DEF Levels
  <2> QED
    BY <1>c, <2>1, <2>2, OwnQueue
<1>d. ASSUME NEW p \in Threads, \A r \in Threads : r # p => open'[r] = open[r]
      PROVE  p # Main => open'[Main] = open[Main]
  BY <1>d, ThreadFacts
<1>1. ASSUME NEW p \in Threads, Spawn(p) PROVE G
  <2>1. queue' = queue /\ open' = open /\ gil = p /\ pc[p] = "run"
    BY <1>1 DEF Spawn, local, Running, Evaluating
  <2>2. ASSUME NEW r \in Threads PROVE BlocksOf(r)'
    <3> SUFFICES ASSUME NEW i \in 1..Len(open[r])
                 PROVE  block'[r][i] \subseteq ToSet(items'[open[r][i].q])
      BY <2>1 DEF BlocksOf
    <3>1. open[r][i].q \in Queues
      BY <1>0, EntryTypes
    <3>2. ToSet(items[open[r][i].q]) \subseteq ToSet(items'[open[r][i].q])
      BY <1>1, <3>1, SpawnItems
    <3>3. block[r][i] \subseteq ToSet(items[open[r][i].q])
      BY <1>a DEF BlocksOf
    <3>4. Len(block[r]) = Len(open[r])
      BY DEF TypeInv, PlaceInv
    <3>5. CASE r # p \/ i # Len(block[p])
      <4>1. block'[r][i] = block[r][i]
        BY <1>1, <3>4, <3>5, SpawnFacts
      <4> QED
        BY <3>2, <3>3, <4>1
    <3>6. CASE r = p /\ i = Len(block[p])
      <4>1. block'[r][i] = block[r][i] \cup {NewTask}
        BY <1>1, <3>4, <3>6, SpawnFacts
      <4>2. open[p] # <<>> /\ Last(open[p]) = open[p][i]
        BY <1>0, <3>4, <3>6, EntryTypes DEF Last
      <4>3. ~Last(open[p]).joining
        BY <2>1, <4>2 DEF TypeInv, PlaceInv, Joining
      <4>4. queue = open[p][i].q
        BY <1>b, <2>1, <4>2, <4>3 DEF Own, TopOf
      <4>5. NewTask \in ToSet(items'[open[r][i].q])
        BY <1>1, <3>1, <3>6, <4>4, SpawnItems
      <4> QED
        BY <3>2, <3>3, <4>1, <4>5
    <3> QED
      BY <3>5, <3>6
  <2>3. \A r \in Threads : ChainOf(r)'
    BY <1>a, <2>1 DEF ChainOf
  <2> QED
    BY <1>a, <2>1, <2>2, <2>3
<1>2. ASSUME NEW p \in Threads, NurseryBegin(p) PROVE G
  <2>1. /\ queue' = nurseries + 1 /\ gil = p /\ pc[p] = "run" /\ items' = items
        /\ Activation(p).q = nurseries + 1 /\ Activation(p).queue = queue
        /\ ~Activation(p).joining
    BY <1>2 DEF NurseryBegin, Activation, Running, Evaluating
  <2> DEFINE n == Len(open[p])
  <2>2. /\ n \in Nat /\ Len(open'[p]) = n + 1 /\ open'[p] # <<>>
        /\ Last(open'[p]) = Activation(p) /\ open'[p][n + 1] = Activation(p)
        /\ \A i \in 1..n : open'[p][i] = open[p][i]
        /\ \A r \in Threads : r # p => open'[r] = open[r] /\ block'[r] = block[r]
    BY <1>2, BeginFacts
  <2>3. Len(block[p]) = n
    BY DEF TypeInv, PlaceInv
  <2>4. block'[p][n + 1] = {} /\ \A i \in 1..n : block'[p][i] = block[p][i]
    BY <1>2, <2>3, BeginFacts
  <2>5. Own(p, queue, open)
    BY <1>b, <2>1
  <2>6. Base(p, open') = Base(p, open)
    BY <1>d, <2>2 DEF Base
  <2>7. n = 0 <=> open[p] = <<>>
    BY <1>0, EntryTypes
  <2>8. open[p] # <<>> => queue = open[p][n].q
    <3>1. open[p] # <<>> => Last(open[p]) = open[p][n] /\ ~Last(open[p]).joining
      BY <1>0, <2>1, Innermost DEF TypeInv, PlaceInv, Joining
    <3> QED
      BY <2>5, <3>1 DEF Own, TopOf
  <2> HIDE DEF n
  <2>9. Own(p, queue', open')
    <3>1. queue' = TopOf(open'[p])
      BY <2>1, <2>2 DEF TopOf
    <3>2. open'[p][1].queue = Base(p, open)
      <4>1. CASE n = 0
        BY <2>1, <2>2, <2>5, <2>7, <4>1 DEF Own
      <4>2. CASE n # 0
        BY <2>2, <2>5, <2>7, <4>2 DEF Own
      <4> QED
        BY <4>1, <4>2
    <3> QED
      BY <2>2, <2>6, <3>1, <3>2 DEF Own
  <2>10. ASSUME NEW r \in Threads PROVE ChainOf(r)' /\ BlocksOf(r)'
    <3>1. CASE r # p
      <4>1. open'[r] = open[r] /\ block'[r] = block[r]
        BY <2>2, <3>1
      <4> QED
        BY <1>a, <2>1, <4>1 DEF ChainOf, BlocksOf
    <3>2. CASE r = p
      <4>1. ASSUME NEW i \in 1..n PROVE open'[p][i + 1].queue = open'[p][i].q
        <5>1. CASE i = n
          <6>1. open[p] # <<>>
            BY <2>2, <2>7, <5>1
          <6> QED
            BY <2>1, <2>2, <2>8, <5>1, <6>1
        <5>2. CASE i # n
          <6>1. i \in 1..n - 1 /\ i + 1 \in 1..n
            BY <2>2, <5>2
          <6>2. open[p][i + 1].queue = open[p][i].q
            BY <1>a, <6>1 DEF ChainOf, n
          <6> QED
            BY <2>2, <6>1, <6>2
        <5> QED
          BY <5>1, <5>2
      <4>2. ASSUME NEW i \in 1..n + 1 PROVE block'[p][i] \subseteq ToSet(items[open'[p][i].q])
        <5>1. CASE i = n + 1
          BY <2>4, <5>1
        <5>2. CASE i \in 1..n
          BY <1>a, <2>2, <2>4, <5>2 DEF BlocksOf, n
        <5> QED
          BY <2>2, <5>1, <5>2
      <4>3. 1..Len(open'[p]) - 1 = 1..n /\ 1..Len(open'[p]) = 1..n + 1
        BY <2>2
      <4> QED
        BY <2>1, <3>2, <4>1, <4>2, <4>3 DEF ChainOf, BlocksOf
    <3> QED
      BY <3>1, <3>2
  <2> QED
    BY <1>c, <2>1, <2>2, <2>9, <2>10
<1>3. ASSUME NEW p \in Threads, NurseryBody(p) PROVE G
  <2>1. queue' = Last(open[p]).queue /\ gil = p /\ items' = items
    BY <1>3 DEF NurseryBody, RestoreQueue, Evaluating
  <2>2. /\ \A r \in Threads : r # p => open'[r] = open[r]
        /\ open[p] # <<>> /\ open'[p] # <<>> /\ 1 \in 1..Len(open[p])
        /\ Last(open[p]) \in Activations /\ Last(open'[p]) = InJoin(Last(open[p]))
        /\ block' = block
    BY <1>3, BodyFacts
  <2>3. Own(p, queue, open)
    BY <1>b, <2>1
  <2>4. Base(p, open') = Base(p, open)
    BY <1>d, <2>2 DEF Base
  <2>5. Own(p, queue', open')
    <3>1. InJoin(Last(open[p])).joining /\ InJoin(Last(open[p])).queue = Last(open[p]).queue
      BY <2>2, ActivationTypes
    <3>2. queue' = TopOf(open'[p])
      BY <2>1, <2>2, <3>1 DEF TopOf
    <3>3. open'[p][1].queue = open[p][1].queue
      BY <1>3, <2>2, BodyEntries
    <3> QED
      BY <2>2, <2>3, <2>4, <3>2, <3>3 DEF Own
  <2>6. ASSUME NEW r \in Threads PROVE ChainOf(r)' /\ BlocksOf(r)'
    <3>1. /\ Len(open'[r]) = Len(open[r]) /\ Len(open[r]) \in Nat
          /\ \A i \in 1..Len(open[r]) :
               open'[r][i].q = open[r][i].q /\ open'[r][i].queue = open[r][i].queue
      BY <1>0, <1>3, BodyEntries, EntryTypes
    <3>2. \A i \in 1..Len(open[r]) - 1 : i \in 1..Len(open[r]) /\ i + 1 \in 1..Len(open[r])
      BY <3>1
    <3> QED
      BY <1>a, <2>1, <2>2, <3>1, <3>2 DEF ChainOf, BlocksOf
  <2> QED
    BY <1>c, <2>1, <2>2, <2>5, <2>6
<1>4. ASSUME NEW p \in Threads, NurseryLeave(p) PROVE G
  <2> DEFINE n == Len(open[p])
  <2>1. queue' = queue /\ pc[p] = "join" /\ items' = items
    BY <1>4 DEF NurseryLeave
  <2>2. gil = p
    BY <2>1 DEF GilInv, Holding
  <2>3. /\ \A r \in Threads : r # p => open'[r] = open[r] /\ block'[r] = block[r]
        /\ open[p] # <<>> /\ Last(open[p]).joining /\ Last(open[p]) = open[p][n]
        /\ n \in Nat \ {0} /\ Len(open'[p]) = n - 1
        /\ open'[p] # <<>> => /\ Last(open'[p]) = open[p][n - 1]
                              /\ n - 1 \in 1..n - 1
        /\ open'[p] = <<>> => n = 1
        /\ Len(block[p]) = n
        /\ \A i \in 1..n - 1 : open'[p][i] = open[p][i]
        /\ \A i \in 1..n - 1 : block'[p][i] = block[p][i]
    <3>1. Len(block[p]) = n /\ \A i \in 1..Len(block[p]) - 1 : block'[p][i] = block[p][i]
      BY <1>4, LeaveFacts
    <3>2. \A i \in 1..n - 1 : block'[p][i] = block[p][i]
      BY <3>1
    <3> QED
      BY <1>4, <3>1, <3>2, LeaveFacts
  <2>4. Own(p, queue, open)
    BY <1>b, <2>2
  <2>5. Base(p, open') = Base(p, open)
    BY <1>d, <2>3 DEF Base
  <2>6. queue = open[p][n].queue /\ open[p][1].queue = Base(p, open)
    BY <2>3, <2>4 DEF Own, TopOf
  <2>7. \A i \in 1..n - 1 : ~open[p][i].joining /\ open[p][i + 1].queue = open[p][i].q
    BY <1>a DEF TypeInv, PlaceInv, ChainOf
  <2>8. \A i \in 1..n : block[p][i] \subseteq ToSet(items[open[p][i].q])
    BY <1>a DEF BlocksOf
  <2> HIDE DEF n
  <2>9. Own(p, queue', open')
    <3>1. CASE open'[p] = <<>>
      BY <2>1, <2>3, <2>5, <2>6, <3>1 DEF Own
    <3>2. CASE open'[p] # <<>>
      <4>1. /\ Last(open'[p]) = open[p][n - 1] /\ n - 1 \in 1..n - 1 /\ 1 \in 1..n - 1
            /\ (n - 1) + 1 = n
        BY <2>3, <3>2
      <4>2. ~open[p][n - 1].joining /\ open[p][n].queue = open[p][n - 1].q
        BY <2>7, <4>1
      <4>3. queue = TopOf(open'[p])
        BY <2>6, <4>1, <4>2 DEF TopOf
      <4>4. open'[p][1].queue = Base(p, open)
        BY <2>3, <2>6, <4>1
      <4> QED
        BY <2>1, <2>5, <3>2, <4>3, <4>4 DEF Own
    <3> QED
      BY <3>1, <3>2
  <2>10. ASSUME NEW r \in Threads PROVE ChainOf(r)' /\ BlocksOf(r)'
    <3>1. CASE r # p
      <4>1. open'[r] = open[r] /\ block'[r] = block[r]
        BY <2>3, <3>1
      <4> QED
        BY <1>a, <2>1, <4>1 DEF ChainOf, BlocksOf
    <3>2. CASE r = p
      <4>1. \A i \in 1..(n - 1) - 1 : i \in 1..n - 1 /\ i + 1 \in 1..n - 1
        BY <2>3
      <4>2. \A i \in 1..n - 1 : i \in 1..n
        BY <2>3
      <4>3. \A i \in 1..(n - 1) - 1 : open'[p][i + 1].queue = open'[p][i].q
        BY <2>3, <2>7, <4>1
      <4>4. \A i \in 1..n - 1 : block'[p][i] \subseteq ToSet(items[open'[p][i].q])
        BY <2>3, <2>8, <4>2
      <4> QED
        BY <2>1, <2>3, <3>2, <4>3, <4>4 DEF ChainOf, BlocksOf
    <3> QED
      BY <3>1, <3>2
  <2> QED
    BY <1>c, <2>2, <2>3, <2>9, <2>10
<1>5. CASE QuietStep \/ UNCHANGED vars
  <2>1. queue' = queue /\ open' = open /\ items' = items /\ block' = block
    BY <1>5, QuietKeepsBlocks
  <2> QED
    BY <1>a, <2>1 DEF ChainOf, BlocksOf
<1> QED
  BY <1>1, <1>2, <1>3, <1>4, <1>5, StepCases

-----------------------------------------------------------------------------
(* The join. *)

(* The loop has awaited the futures before the counter, and waits for the  *)
(* one at the counter.                                                     *)
JoinOf(r) ==
  /\ pc[r] = "took" => done[target[r]]
  /\ Joining(r) =>
       /\ \A i \in 1..next[r] - 1 : i <= Len(Tasks_of(r)) /\ done[Tasks_of(r)[i]]
       /\ pc[r] \in {"wait", "took"} =>
            next[r] <= Len(Tasks_of(r)) /\ target[r] = Tasks_of(r)[next[r]]

JoinInv == \A r \in Threads : JoinOf(r)

(* What a thread has awaited stays awaited. *)
LEMMA AwaitedForGood ==
  ASSUME TypeInv, [Next]_vars
  PROVE  /\ \A t \in Tasks : done[t] => done'[t]
         /\ \A q \in Queues :
              /\ items[q] \in Seq(Tasks) /\ Len(items[q]) \in Nat /\ Len(items'[q]) \in Nat
              /\ Len(items[q]) <= Len(items'[q])
              /\ \A i \in 1..Len(items[q]) : items'[q][i] = items[q][i]
<1>1. \A t \in Tasks : done[t] => done'[t]
  <2>1. \/ done' = done
        \/ \E t \in Tasks : done' = [done EXCEPT ![t] = TRUE]
    BY DEF Next, vars, record, Spawn, Await, TakeResult, Resume, NurseryBegin, NurseryBody,
       JoinNext,
       NurseryLeave, Throw, Catch, Sleep, SleepEnd, StartTask, EndTask, Retire, EndMain, Drain,
       DrainWake, DrainEnd, Exited
  <2> QED
    BY <2>1 DEF TypeInv, FlatOK
<1>2. \A q \in Queues : items[q] \in Seq(Tasks) /\ Len(items[q]) \in Nat
  BY LenProperties DEF TypeInv, SeqsOK
<1>3. items' = items \/ \E p \in Threads : Spawn(p)
  BY StepCases, QuietKeepsBlocks DEF NurseryBegin, NurseryBody, NurseryLeave
<1>4. CASE items' = items
  BY <1>1, <1>2, <1>4
<1>5. CASE \E p \in Threads : Spawn(p)
  BY <1>1, <1>2, <1>5, SpawnItems
<1> QED
  BY <1>3, <1>4, <1>5

(* A thread that does not move and whose blocks do not change keeps what it awaited. *)
LEMMA JoinKept ==
  ASSUME TypeInv, JoinInv, [Next]_vars, NEW r \in Threads,
         pc'[r] = pc[r], open'[r] = open[r], next'[r] = next[r], target'[r] = target[r]
  PROVE  JoinOf(r)'
<1>1. JoinOf(r) /\ next[r] \in Nat \ {0}
  BY DEF JoinInv, TypeInv, FlatOK
<1>2. pc'[r] = "took" => done'[target'[r]]
  BY <1>1, AwaitedForGood DEF JoinOf, TypeInv, WaitInv
<1>3. ASSUME Joining(r)'
      PROVE  /\ \A i \in 1..next[r] - 1 : i <= Len(Tasks_of(r)') /\ done'[Tasks_of(r)'[i]]
             /\ pc[r] \in {"wait", "took"} =>
                  next[r] <= Len(Tasks_of(r)') /\ target[r] = Tasks_of(r)'[next[r]]
  <2>1. Joining(r) /\ open[r] # <<>>
    BY <1>3 DEF Joining
  <2> DEFINE q == Last(open[r]).q
             s == items[Last(open[r]).q]
             z == items'[Last(open[r]).q]
  <2>2. q \in Queues
    BY <2>1, Innermost DEF TypeInv
  <2>3. Tasks_of(r) = s /\ Tasks_of(r)' = z
    BY DEF Tasks_of
  <2>4. /\ s \in Seq(Tasks) /\ Len(s) \in Nat /\ Len(z) \in Nat /\ Len(s) <= Len(z)
        /\ \A i \in 1..Len(s) : z[i] = s[i]
    BY <2>2, AwaitedForGood
  <2>5. /\ \A i \in 1..next[r] - 1 : i <= Len(s) /\ done[s[i]]
        /\ pc[r] \in {"wait", "took"} => next[r] <= Len(s) /\ target[r] = s[next[r]]
    BY <1>1, <2>1, <2>3 DEF JoinOf
  <2> HIDE DEF s, z
  <2>6. ASSUME NEW i \in 1..next[r] - 1 PROVE i <= Len(z) /\ done'[z[i]]
    <3>0. i \in Nat /\ i >= 1 /\ i <= Len(s) /\ done[s[i]]
      BY <1>1, <2>5
    <3>1. i \in 1..Len(s) /\ done[s[i]] /\ z[i] = s[i]
      BY <2>4, <3>0
    <3>2. s[i] \in Tasks
      BY <2>4, <3>1, ElementOfSeq
    <3> QED
      BY <2>4, <3>1, <3>2, AwaitedForGood
  <2>7. ASSUME pc[r] \in {"wait", "took"} PROVE next[r] <= Len(z) /\ target[r] = z[next[r]]
    BY <1>1, <2>4, <2>5, <2>7
  <2> QED
    BY <2>3, <2>6, <2>7
<1> QED
  BY <1>2, <1>3 DEF JoinOf

LEMMA JoinStep == TypeInv /\ JoinInv /\ [Next]_vars => JoinInv'
<1> SUFFICES ASSUME TypeInv, JoinInv, [Next]_vars, NEW r \in Threads PROVE JoinOf(r)'
  BY DEF JoinInv
<1>a. /\ pc \in [Threads -> PCs] /\ next \in [Threads -> Nat \ {0}]
      /\ target \in [Threads -> Tasks \cup {None}] /\ JoinOf(r) /\ SeqsOK
      /\ pc[r] = "join" => Joining(r)
      /\ Joining(r) => pc[r] \in {"join", "wait", "took"}
  BY DEF TypeInv, FlatOK, JoinInv, PlaceInv
<1>b. ASSUME pc'[r] = pc[r], open'[r] = open[r], next'[r] = next[r], target'[r] = target[r]
      PROVE  JoinOf(r)'
  BY <1>b, JoinKept
<1>c. ASSUME ~Joining(r)', pc'[r] # "took" PROVE JoinOf(r)'
  BY <1>c DEF JoinOf
<1>1. ASSUME NEW p \in Threads, Spawn(p) PROVE JoinOf(r)'
  <2>1. /\ pc' = [pc EXCEPT ![NewTask] = "new"] /\ pc[NewTask] = "none" /\ NewTask \in Tasks
        /\ UNCHANGED <<open, next, target>>
    BY <1>1, SpawnTypes DEF Spawn, Goto, local
  <2>2. CASE r = NewTask
    BY <1>a, <1>c, <2>1, <2>2 DEF Joining
  <2>3. CASE r # NewTask
    BY <1>a, <1>b, <2>1, <2>3
  <2> QED
    BY <2>2, <2>3
<1>2. ASSUME NEW p \in Threads, Await(p) PROVE JoinOf(r)'
  <2>1. CASE r # p
    BY <1>2, <1>a, <1>b, <2>1 DEF Await, WaitFor, Goto
  <2>2. CASE r = p
    BY <1>2, <1>a, <1>c, <2>2 DEF Await, WaitFor, Goto, Running, Evaluating, Joining
  <2> QED
    BY <2>1, <2>2
<1>3. ASSUME NEW p \in Threads, TakeResult(p) PROVE JoinOf(r)'
  <2>1. CASE r # p
    BY <1>3, <1>a, <1>b, <2>1 DEF TakeResult, Goto
  <2>2. CASE r = p
    <3>1. /\ pc[r] = "wait" /\ pc'[r] = "took" /\ done[target[r]] /\ target' = target
          /\ done' = done /\ open' = open /\ next' = next /\ items' = items
      BY <1>3, <1>a, <2>2 DEF TakeResult, Goto, interp
    <3>2. (Joining(r)' <=> Joining(r)) /\ Tasks_of(r)' = Tasks_of(r)
      BY <3>1 DEF Joining, Tasks_of
    <3> QED
      BY <1>a, <3>1, <3>2 DEF JoinOf
  <2> QED
    BY <2>1, <2>2
<1>4. ASSUME NEW p \in Threads, Resume(p) PROVE JoinOf(r)'
  <2>1. CASE r # p
    BY <1>4, <1>a, <1>b, <2>1 DEF Resume, Goto
  <2>2. CASE r = p
    <3>1. /\ pc[r] = "took" /\ open' = open /\ items' = items /\ done' = done
          /\ pc'[r] = IF Joining(r) THEN "join" ELSE "run"
          /\ Joining(r) => next'[r] = next[r] + 1
      BY <1>4, <1>a, <2>2 DEF Resume, Goto, interp, record
    <3>2. (Joining(r)' <=> Joining(r)) /\ Tasks_of(r)' = Tasks_of(r)
      BY <3>1 DEF Joining, Tasks_of
    <3>3. ASSUME Joining(r), NEW i \in 1..next'[r] - 1
          PROVE  i <= Len(Tasks_of(r)) /\ done[Tasks_of(r)[i]]
      <4>1. i = next[r] \/ i \in 1..next[r] - 1
        BY <1>a, <3>1, <3>3
      <4> QED
        BY <1>a, <3>1, <3>3, <4>1 DEF JoinOf
    <3> QED
      BY <3>1, <3>2, <3>3 DEF JoinOf
  <2> QED
    BY <2>1, <2>2
<1>5. ASSUME NEW p \in Threads, NurseryBegin(p) PROVE JoinOf(r)'
  <2>1. CASE r # p
    BY <1>5, <1>b, <2>1, BeginFacts DEF NurseryBegin
  <2>2. CASE r = p
    <3>1. Last(open'[r]) = Activation(p) /\ ~Activation(p).joining
      BY <1>5, <2>2, BeginFacts DEF Activation
    <3>2. ~Joining(r)'
      BY <3>1 DEF Joining
    <3> QED
      BY <1>5, <1>c, <2>2, <3>2 DEF NurseryBegin, Running, Evaluating
  <2> QED
    BY <2>1, <2>2
<1>6. ASSUME NEW p \in Threads, NurseryBody(p) PROVE JoinOf(r)'
  <2>1. CASE r # p
    BY <1>6, <1>a, <1>b, <2>1, BodyFacts DEF NurseryBody, Goto
  <2>2. CASE r = p
    <3>1. pc'[r] = "join" /\ next'[r] = 1
      BY <1>6, <1>a, <2>2 DEF NurseryBody, Goto
    <3> QED
      BY <3>1 DEF JoinOf
  <2> QED
    BY <2>1, <2>2
<1>7. ASSUME NEW p \in Threads, JoinNext(p) PROVE JoinOf(r)'
  <2>1. CASE r # p
    BY <1>7, <1>a, <1>b, <2>1 DEF JoinNext, WaitFor, Goto
  <2>2. CASE r = p
    <3>1. /\ pc[r] = "join" /\ pc'[r] = "wait" /\ target'[r] = Tasks_of(r)[next[r]]
          /\ ~JoinOver(r) /\ done' = done /\ open' = open /\ next' = next /\ items' = items
      BY <1>7, <1>a, <2>2 DEF JoinNext, WaitFor, Goto, interp, record
    <3>2. (Joining(r)' <=> Joining(r)) /\ Tasks_of(r)' = Tasks_of(r) /\ Joining(r)
      BY <1>a, <3>1 DEF Joining, Tasks_of
    <3>3. Len(Tasks_of(r)) \in Nat
      BY <1>a, <3>2, Innermost, LenProperties DEF Joining, Tasks_of, SeqsOK
    <3>4. next[r] <= Len(Tasks_of(r))
      BY <1>a, <3>1, <3>3 DEF JoinOver
    <3> QED
      BY <1>a, <3>1, <3>2, <3>4 DEF JoinOf
  <2> QED
    BY <2>1, <2>2
<1>8. ASSUME NEW p \in Threads, NurseryLeave(p) PROVE JoinOf(r)'
  <2>1. CASE r # p
    BY <1>8, <1>a, <1>b, <2>1, LeaveFacts DEF NurseryLeave, Goto
  <2>2. CASE r = p
    <3>1. pc'[r] = "run"
      BY <1>8, <1>a, <2>2 DEF NurseryLeave, Goto
    <3>2. ~Joining(r)'
      BY <3>1, PlaceStep DEF PlaceInv
    <3> QED
      BY <1>c, <3>1, <3>2
  <2> QED
    BY <2>1, <2>2
<1>9. ASSUME NEW p \in Threads, Throw(p) PROVE JoinOf(r)'
  BY <1>9, <1>b DEF Throw, local
<1>10. ASSUME NEW p \in Threads, Catch(p) PROVE JoinOf(r)'
  BY <1>10, <1>b DEF Catch, local
<1>11. ASSUME NEW p \in Threads, Sleep(p) PROVE JoinOf(r)'
  <2>1. CASE r # p
    BY <1>11, <1>a, <1>b, <2>1 DEF Sleep, Goto, local, Running, Evaluating
  <2>2. CASE r = p
    BY <1>11, <1>a, <1>c, <2>2 DEF Sleep, Goto, local, Running, Evaluating, Joining
  <2> QED
    BY <2>1, <2>2
<1>12. ASSUME NEW p \in Threads, SleepEnd(p) PROVE JoinOf(r)'
  <2>1. CASE r # p
    BY <1>12, <1>a, <1>b, <2>1 DEF SleepEnd, Goto, local
  <2>2. CASE r = p
    BY <1>12, <1>a, <1>c, <2>2 DEF SleepEnd, Goto, local, Joining
  <2> QED
    BY <2>1, <2>2
<1>13. ASSUME NEW t \in Tasks, StartTask(t) PROVE JoinOf(r)'
  <2>1. CASE r # t
    BY <1>13, <1>a, <1>b, <2>1 DEF StartTask, Goto
  <2>2. CASE r = t
    BY <1>13, <1>a, <1>c, <2>2 DEF StartTask, Goto, Joining
  <2> QED
    BY <2>1, <2>2
<1>14. ASSUME NEW t \in Tasks, EndTask(t) PROVE JoinOf(r)'
  <2>1. CASE r # t
    BY <1>14, <1>a, <1>b, <2>1 DEF EndTask, Evaluating, Goto, local
  <2>2. CASE r = t
    BY <1>14, <1>a, <1>c, <2>2 DEF EndTask, Evaluating, Goto, local, Joining
  <2> QED
    BY <2>1, <2>2
<1>15. ASSUME NEW t \in Tasks, Retire(t) PROVE JoinOf(r)'
  <2>1. CASE r # t
    BY <1>15, <1>a, <1>b, <2>1 DEF Retire, Goto, local
  <2>2. CASE r = t
    BY <1>15, <1>a, <1>c, <2>2 DEF Retire, Goto, local, Joining
  <2> QED
    BY <2>1, <2>2
<1>16. ASSUME EndMain PROVE JoinOf(r)'
  <2>1. CASE r # Main
    BY <1>16, <1>a, <1>b, <2>1 DEF EndMain, Evaluating, Goto, local
  <2>2. CASE r = Main
    BY <1>16, <1>a, <1>c, <2>2 DEF EndMain, Evaluating, Goto, local, Joining
  <2> QED
    BY <2>1, <2>2
<1>17. ASSUME Drain PROVE JoinOf(r)'
  <2>1. CASE r # Main
    BY <1>17, <1>a, <1>b, <2>1 DEF Drain, Goto
  <2>2. CASE r = Main
    BY <1>17, <1>a, <1>c, <2>2 DEF Drain, Goto, Joining
  <2> QED
    BY <2>1, <2>2
<1>18. ASSUME DrainWake PROVE JoinOf(r)'
  <2>1. CASE r # Main
    BY <1>18, <1>a, <1>b, <2>1 DEF DrainWake, Goto
  <2>2. CASE r = Main
    BY <1>18, <1>a, <1>c, <2>2 DEF DrainWake, Goto, Joining
  <2> QED
    BY <2>1, <2>2
<1>19. ASSUME DrainEnd PROVE JoinOf(r)'
  <2>1. CASE r # Main
    BY <1>19, <1>a, <1>b, <2>1 DEF DrainEnd, Goto, local
  <2>2. CASE r = Main
    BY <1>19, <1>a, <1>c, <2>2 DEF DrainEnd, Goto, local, Joining
  <2> QED
    BY <2>1, <2>2
<1>20. ASSUME Exited PROVE JoinOf(r)'
  BY <1>20, <1>b DEF Exited, vars, local
<1>21. CASE UNCHANGED vars
  BY <1>21, <1>b DEF vars, local
<1> QED
  BY <1>1, <1>2, <1>3, <1>4, <1>5, <1>6, <1>7, <1>8, <1>9, <1>10, <1>11, <1>12, <1>13, <1>14,
     <1>15, <1>16, <1>17, <1>18, <1>19, <1>20, <1>21 DEF Next

-----------------------------------------------------------------------------
(* The theorems. *)

Inv ==
  /\ TypeInv /\ GilInv /\ LifeInv /\ CancelledBySibling /\ ExitInv
  /\ SharedInv /\ OrderInv /\ QueueInv /\ ChainInv /\ JoinInv

LEMMA InitInv == Init => Inv
<1> SUFFICES ASSUME Init PROVE Inv
  OBVIOUS
<1>a. /\ \A p \in Threads : open[p] = <<>> /\ block[p] = <<>> /\ pc[p] \in {"run", "none"}
      /\ \A p \in Threads : Len(open[p]) = 0 /\ Len(block[p]) = 0 /\ next[p] = 1 /\ ~Joining(p)
      /\ \A t \in Tasks : pc[t] = "none"
      /\ pc[Main] = "run" /\ gil = Main
  BY ThreadFacts DEF Init, Joining
<1>1. FlatOK
  <2>1. /\ gil \in Threads \cup {None} /\ env \in Threads /\ cf \in Signals \cup {None}
        /\ queue \in 0..MaxNurseries /\ freed \subseteq Queues /\ failed \subseteq Tasks
        /\ spawned \in 0..MaxTasks /\ nurseries \in 0..MaxNurseries /\ suspended \in BOOLEAN
    BY ThreadFacts DEF Init
  <2>2. pc \in [Threads -> PCs] /\ tls \in [Threads -> 0..MaxNurseries]
    BY ThreadFacts DEF Init, PCs
  <2>3. /\ done \in [Tasks -> BOOLEAN] /\ cancelled \in [Tasks -> BOOLEAN]
        /\ error \in [Tasks -> Signals \cup {None}] /\ nid \in [Tasks -> 0..MaxNurseries]
    BY ThreadFacts DEF Init
  <2>4. saved \in [Tasks -> [env : Threads, cf : Signals \cup {None}]]
    BY ThreadFacts DEF Init
  <2>5. /\ real \in [Threads -> {"throw", None}] /\ next \in [Threads -> Nat \ {0}]
        /\ got \in [Threads -> Signals \cup {None}] /\ target \in [Threads -> Tasks \cup {None}]
        /\ threw \in [Threads -> BOOLEAN]
    BY DEF Init
  <2> QED
    BY <2>1, <2>2, <2>3, <2>4, <2>5 DEF FlatOK
<1>2. SeqsOK
  BY EmptySeq DEF Init, SeqsOK
<1>3. PlaceInv /\ WaitInv
  BY <1>a, ThreadFacts DEF PlaceInv, WaitInv, Outside
<1>4. NotYet
  BY <1>a DEF Init, NotYet, Tasks
<1>5. GilInv
  BY <1>a, ThreadFacts DEF GilInv, Holding
<1>6. LifeInv /\ CancelledBySibling /\ ExitInv
  BY <1>a DEF Init, LifeInv, CancelledBySibling, ExitInv
<1>7. SharedInv
  BY <1>a, ThreadFacts DEF Init, SharedInv, Alone, InBody
<1>8. OrderInv
  BY <1>a DEF Init, OrderInv, OrderOf
<1>9. QueueInv
  BY <1>a, ThreadFacts DEF Init, QueueInv, Retired, QueuesOf, MainFirst
<1>10. ChainInv
  BY <1>a, ThreadFacts DEF Init, ChainInv, ChainOf, BlocksOf, Levels
<1>11. JoinInv
  BY <1>a DEF JoinInv, JoinOf
<1> QED
  BY <1>1, <1>2, <1>3, <1>4, <1>5, <1>6, <1>7, <1>8, <1>9, <1>10, <1>11 DEF Inv, TypeInv

LEMMA NextInv == Inv /\ [Next]_vars => Inv'
<1> SUFFICES ASSUME Inv, [Next]_vars PROVE Inv'
  OBVIOUS
<1>1. TypeInv'
  BY FlatStep, SeqsStep, PlaceStep, WaitStep, NotYetStep DEF Inv, TypeInv
<1>2. GilInv' /\ LifeInv' /\ CancelledBySibling' /\ ExitInv'
  BY GilStep, LifeStep, CancelStep, ExitStep DEF Inv
<1>3. SharedInv' /\ OrderInv' /\ QueueInv' /\ ChainInv' /\ JoinInv'
  BY SharedStep, OrderStep, QueueStep, ChainStep, JoinStep DEF Inv
<1> QED
  BY <1>1, <1>2, <1>3 DEF Inv

LEMMA Invariance == Spec => []Inv
<1>1. Init => Inv
  BY InitInv
<1>2. Inv /\ [Next]_vars => Inv'
  BY NextInv
<1> QED
  BY <1>1, <1>2, PTL DEF Spec

(* Whatever tasks do in the middle of one another, as long as none of them *)
(* gives up the GIL before its end, the running thread finds its own scope *)
(* and its own signal in the shared Interp, and never a released queue.    *)
THEOREM InterpreterIsMine == Spec => []InterpIsMine
<1>1. Inv => InterpIsMine
  <2> SUFFICES ASSUME Inv PROVE InterpIsMine
    OBVIOUS
  <2>1. TypeInv /\ GilInv /\ SharedInv /\ QueueInv
    BY DEF Inv
  <2>2. TypeOK
    BY <2>1 DEF TypeInv, FlatOK, SeqsOK, Activations, TypeOK
  <2>3. ASSUME ~suspended, NEW p \in Threads, Evaluating(p)
        PROVE  env = p /\ (cf # None <=> threw[p])
    <3>1. gil = p /\ pc[p] = "run" /\ Alone
      BY <2>1, <2>3 DEF Evaluating, SharedInv
    <3>2. CASE p \in Tasks
      BY <3>1, <3>2 DEF Alone, InBody
    <3>3. CASE p = Main
      <4>1. \A t \in Tasks : ~InBody(t)
        BY <2>1, <3>1, <3>3, ThreadFacts DEF GilInv, Holding, InBody
      <4> QED
        BY <3>1, <3>3, <4>1 DEF Alone
    <3> QED
      BY <3>2, <3>3, ThreadFacts
  <2>4. ~suspended => QueueAlive
    BY <2>1 DEF QueueInv, Retired, QueueAlive
  <2> QED
    BY <2>2, <2>3, <2>4 DEF InterpIsMine, ScopeIsMine, SignalIsMine
<1> QED
  BY <1>1, Invariance, PTL

(* A block is left only when every task it spawned has finished, as long   *)
(* as no task was suspended: the loop of NODE_NURSERY has awaited all of   *)
(* its array, and the array is the one the block's spawns went to.         *)
THEOREM InterpNurseryJoins == Spec => NurseryJoinsOwn
<1> DEFINE A == ~suspended => \A p \in Threads : pc[p] = "join" /\ pc'[p] = "run" =>
                  \A t \in Last(block[p]) : done[t]
<1>1. Inv /\ [Next]_vars => [A]_vars
  <2> SUFFICES ASSUME Inv, [Next]_vars, ~suspended, NEW p \in Threads,
                      pc[p] = "join", pc'[p] = "run", NEW t \in Last(block[p])
               PROVE  done[t]
    OBVIOUS
  <2>1. TypeInv /\ ChainInv /\ JoinInv /\ SeqsOK /\ FlatOK
    BY DEF Inv, TypeInv
  <2>2. JoinOver(p) /\ NurseryLeave(p)
    <3>1. ASSUME ~NurseryLeave(p) PROVE FALSE
      <4>a. pc \in [Threads -> PCs] /\ pc[p] # pc'[p]
        BY <2>1 DEF FlatOK
      <4> USE <3>1, <4>a, ThreadFacts
      <4>1. ASSUME NEW r \in Threads, Spawn(r) PROVE FALSE
        BY <4>1, <2>1, SpawnTypes DEF Spawn, Goto
      <4>2. ASSUME NEW r \in Threads, Await(r) PROVE FALSE
        BY <4>2 DEF Await, Running, Evaluating, WaitFor, Goto
      <4>3. ASSUME NEW r \in Threads, TakeResult(r) PROVE FALSE
        BY <4>3 DEF TakeResult, Goto
      <4>4. ASSUME NEW r \in Threads, Resume(r) PROVE FALSE
        BY <4>4 DEF Resume, Goto
      <4>5. ASSUME NEW r \in Threads, NurseryBegin(r) PROVE FALSE
        BY <4>5 DEF NurseryBegin, Running, Evaluating
      <4>6. ASSUME NEW r \in Threads, NurseryBody(r) PROVE FALSE
        BY <4>6 DEF NurseryBody, Evaluating, Goto
      <4>7. ASSUME NEW r \in Threads, JoinNext(r) PROVE FALSE
        BY <4>7 DEF JoinNext, WaitFor, Goto
      <4>8. ASSUME NEW r \in Threads, NurseryLeave(r) PROVE FALSE
        <5>1. pc' = [pc EXCEPT ![r] = "run"]
          BY <4>8 DEF NurseryLeave, Goto
        <5> QED
          BY <4>8, <5>1
      <4>9. ASSUME NEW r \in Threads, Throw(r) PROVE FALSE
        BY <4>9 DEF Throw, Running, Evaluating
      <4>10. ASSUME NEW r \in Threads, Catch(r) PROVE FALSE
        BY <4>10 DEF Catch, Unwinding, Evaluating
      <4>11. ASSUME NEW r \in Threads, Sleep(r) PROVE FALSE
        BY <4>11 DEF Sleep, Running, Evaluating, Goto
      <4>12. ASSUME NEW r \in Threads, SleepEnd(r) PROVE FALSE
        BY <4>12 DEF SleepEnd, Goto
      <4>13. ASSUME NEW u \in Tasks, StartTask(u) PROVE FALSE
        BY <4>13 DEF StartTask, Goto
      <4>14. ASSUME NEW u \in Tasks, EndTask(u) PROVE FALSE
        BY <4>14 DEF EndTask, Evaluating, Goto
      <4>15. ASSUME NEW u \in Tasks, Retire(u) PROVE FALSE
        BY <4>15 DEF Retire, Goto
      <4>16. ASSUME EndMain PROVE FALSE
        BY <4>16 DEF EndMain, Evaluating, Goto
      <4>17. ASSUME Drain PROVE FALSE
        BY <4>17 DEF Drain, Goto
      <4>18. ASSUME DrainWake PROVE FALSE
        BY <4>18 DEF DrainWake, Goto
      <4>19. ASSUME DrainEnd PROVE FALSE
        BY <4>19 DEF DrainEnd, Goto
      <4>20. ASSUME Exited PROVE FALSE
        BY <4>20 DEF Exited, vars
      <4>21. CASE UNCHANGED vars
        BY <4>21 DEF vars
      <4> QED
        BY <4>1, <4>2, <4>3, <4>4, <4>5, <4>6, <4>7, <4>8, <4>9, <4>10, <4>11, <4>12, <4>13,
           <4>14, <4>15, <4>16, <4>17, <4>18, <4>19, <4>20, <4>21 DEF Next
    <3> QED
      BY <3>1 DEF NurseryLeave
  <2>3. /\ open[p] # <<>> /\ Joining(p) /\ Last(open[p]) = open[p][Len(open[p])]
        /\ Len(open[p]) \in 1..Len(open[p])
        /\ Last(block[p]) = block[p][Len(open[p])]
    BY <2>1, <2>2, LeaveFacts DEF Joining
  <2>4. t \in ToSet(Tasks_of(p))
    BY <2>1, <2>3 DEF ChainInv, BlocksOf, Tasks_of
  <2>5. Last(open[p]).q \in Queues
    BY <2>1, <2>3, Innermost
  <2>6. Tasks_of(p) \in Seq(Tasks) /\ Len(Tasks_of(p)) \in Nat /\ next[p] \in Nat
    BY <2>1, <2>5, LenProperties DEF Tasks_of, SeqsOK, FlatOK
  <2>7. PICK i \in 1..Len(Tasks_of(p)) : t = Tasks_of(p)[i]
    BY <2>4, <2>6, LenProperties DEF ToSet
  <2>8. i \in 1..next[p] - 1
    BY <2>2, <2>6 DEF JoinOver
  <2> QED
    BY <2>1, <2>3, <2>7, <2>8 DEF JoinInv, JoinOf
<1>2. Spec => [][A]_vars
  BY <1>1, Invariance, PTL DEF Spec
<1> QED
  BY <1>2 DEF NurseryJoinsOwn

(* A task of the interpreter is cancelled only because a task of the same  *)
(* nursery, another one, has failed.                                       *)
THEOREM InterpCancelledBySibling == Spec => []CancelledBySibling
<1>1. Inv => CancelledBySibling
  BY DEF Inv
<1> QED
  BY <1>1, Invariance, PTL

(* When the program exits, every task ever spawned is done and its thread  *)
(* has left the interpreter, whichever task was suspended or not.          *)
THEOREM InterpDrainLeavesNobody == Spec => []DrainLeavesNobody
<1>1. Inv => DrainLeavesNobody
  <2> SUFFICES ASSUME Inv, pc[Main] = "exit", NEW t \in Tasks
               PROVE  pc[t] \in {"none", "gone"} /\ (t <= spawned => done[t])
    BY DEF DrainLeavesNobody
  <2>1. pc[t] \in {"none", "gone"}
    BY DEF Inv, ExitInv
  <2>2. t > spawned <=> pc[t] = "none"
    BY DEF Inv, TypeInv, NotYet
  <2>3. done[t] <=> pc[t] \in {"retire", "gone"}
    BY DEF Inv, LifeInv
  <2>4. t \in Nat /\ spawned \in Nat
    BY DEF Inv, TypeInv, FlatOK, Tasks
  <2> QED
    BY <2>1, <2>2, <2>3, <2>4
<1> QED
  BY <1>1, Invariance, PTL

=============================================================================
