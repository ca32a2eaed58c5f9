---------------------------- MODULE VMTasksProofs ----------------------------
(***************************************************************************)
(* Proofs about VMTasks, for any number of tasks and nursery blocks.       *)
(***************************************************************************)
EXTENDS VMTasks, SequenceTheorems, FiniteSetTheorems, TLAPS

(* A frame of the VM's nursery stack. *)
Frame == [id : 1..MaxNurseries, prev : 0..MaxNurseries, kids : Seq(Tasks)]

(* The stack of the VM has at least the blocks the program has open, which *)
(* is what OP_NURSERY_END relies on when it takes the last frame; a list   *)
(* to join exists during a join only, and a join happens inside a block.   *)
BlockInv ==
  \A p \in Threads :
    /\ Len(block[p]) <= Len(stack[p])
    /\ join[p] # <<>> => pc[p] \in {"join", "wait", "took"}
    /\ pc[p] = "join" \/ join[p] # <<>> => block[p] # <<>>

(* Whoever waits, or has just waited, knows for which task. *)
WaitsForTask ==
  /\ \A p \in Threads : pc[p] \in {"wait", "took"} => target[p] \in Tasks
  /\ pc[Main] = "drain_wait" => target[Main] \in Tasks

(* A thread that was not created yet is nowhere. *)
NotYet == \A t \in Tasks : t > spawned => pc[t] = "none"

TypeInv == TypeOK /\ BlockInv /\ WaitsForTask /\ NotYet

-----------------------------------------------------------------------------
(* Sequences. *)

LEMMA SetLastProperties ==
  ASSUME NEW S, NEW s \in Seq(S), s # <<>>, NEW e \in S
  PROVE  /\ SetLast(s, e) \in Seq(S)
         /\ Len(SetLast(s, e)) = Len(s)
         /\ SetLast(s, e) # <<>>
         /\ \A i \in 1..Len(s) : SetLast(s, e)[i] = IF i = Len(s) THEN e ELSE s[i]
<1>1. Len(s) \in 1..Len(s)
  BY EmptySeq, LenProperties
<1>2. /\ SetLast(s, e) \in Seq(S)
      /\ Len(SetLast(s, e)) = Len(s)
      /\ \A i \in 1..Len(s) : SetLast(s, e)[i] = IF i = Len(s) THEN e ELSE s[i]
  BY <1>1, ExceptSeq DEF SetLast
<1> QED
  BY <1>1, <1>2, EmptySeq

LEMMA PrefixProperties ==
  ASSUME NEW S, NEW s \in Seq(S), NEW n \in 0..Len(s)
  PROVE  /\ SubSeq(s, 1, n) \in Seq(S)
         /\ Len(SubSeq(s, 1, n)) = n
         /\ \A i \in 1..n : SubSeq(s, 1, n)[i] = s[i]
<1>1. Len(s) \in Nat
  BY LenProperties
<1>2. \A i \in 1..n : s[i] \in S
  BY <1>1, ElementOfSeq
<1>3. /\ SubSeq(s, 1, n) \in Seq(S)
      /\ Len(SubSeq(s, 1, n)) = IF 1 <= n THEN n - 1 + 1 ELSE 0
      /\ \A i \in 1..n - 1 + 1 : SubSeq(s, 1, n)[i] = s[1 + i - 1]
  BY <1>1, <1>2, SubSeqProperties
<1> QED
  BY <1>1, <1>3

LEMMA LastFrontProperties ==
  ASSUME NEW S, NEW s \in Seq(S), s # <<>>
  PROVE  /\ Len(s) \in Nat \ {0}
         /\ Last(s) \in S
         /\ Front(s) \in Seq(S)
         /\ Len(Front(s)) = Len(s) - 1
         /\ \A i \in 1..Len(s) - 1 : Front(s)[i] = s[i]
<1>1. Len(s) \in Nat \ {0}
  BY EmptySeq
<1>2. Last(s) \in S
  BY <1>1, ElementOfSeq DEF Last
<1>3. Len(s) - 1 \in 0..Len(s)
  BY <1>1
<1> QED
  BY <1>1, <1>2, <1>3, PrefixProperties DEF Front

(* What Spawn appends to. *)
LEMMA EnrolledProperties ==
  ASSUME NEW f \in Frame, NEW t \in Tasks
  PROVE  Enrolled(f, t) \in Frame /\ Enrolled(f, t).kids = Append(f.kids, t)
  BY AppendProperties DEF Frame, Enrolled


-----------------------------------------------------------------------------
(* The type invariant. *)

(* Everything but the sequences of nursery blocks. *)
FlatOK ==
  /\ gil \in Threads \cup {None}
  /\ pc \in [Threads -> PCs]
  /\ spawned \in 0..MaxTasks /\ nurseries \in 0..MaxNurseries
  /\ done \in [Tasks -> BOOLEAN]
  /\ error \in [Tasks -> Errors \cup {None}]
  /\ cancelled \in [Tasks -> BOOLEAN]
  /\ nid \in [Tasks -> 0..MaxNurseries]
  /\ tls \in [Threads -> 0..MaxNurseries]
  /\ target \in [Threads -> Tasks \cup {None}]
  /\ got \in [Threads -> Errors \cup {None}]
  /\ pending \in [Threads -> Errors \cup {None}]
  /\ uncaught \in [Tasks -> {"effect", None}]
  /\ outcome \in [Tasks -> {"open", "ok", "throw", "effect"}]
  /\ surfaced \in [Tasks -> Nat]

SeqsOK ==
  /\ stack \in [Threads -> Seq(Frame)]
  /\ join \in [Threads -> Seq(Tasks)]
  /\ block \in [Threads -> Seq(SUBSET Tasks)]

LEMMA TypeParts == TypeOK <=> FlatOK /\ SeqsOK
  BY DEF TypeOK, FlatOK, SeqsOK, Frame

LEMMA ThreadFacts ==
  /\ Main \in Threads /\ Main \notin Tasks
  /\ \A p \in Threads : p = Main \/ p \in Tasks
  /\ \A t \in Tasks : t \in Threads
  /\ None \notin Threads /\ None \notin Tasks /\ None \notin Errors
  /\ 0 \in 0..MaxNurseries /\ 0 \in 0..MaxTasks
  /\ \A n \in 0..MaxTasks : n < MaxTasks => n + 1 \in Tasks /\ n + 1 \in 0..MaxTasks
  /\ \A n \in 0..MaxNurseries : n < MaxNurseries =>
       n + 1 \in 0..MaxNurseries /\ n + 1 \in 1..MaxNurseries
  BY VMTasksAssumption DEF Main, Threads, Tasks, Errors

(* Every spawned task is a task. *)
LEMMA SpawnedAreTasks == \A n \in 0..MaxTasks : \A t \in 1..n : t \in Tasks
  BY VMTasksAssumption DEF Tasks

LEMMA FlatStep == TypeInv /\ [Next]_vars => FlatOK'
<1> SUFFICES ASSUME TypeInv, [Next]_vars PROVE FlatOK'
  OBVIOUS
<1>0. FlatOK /\ SeqsOK /\ WaitsForTask /\ BlockInv
  BY TypeParts DEF TypeInv
<1> USE <1>0, ThreadFacts DEF FlatOK, PCs, Errors
<1>1. ASSUME NEW p \in Threads, Spawn(p) PROVE FlatOK'
  BY <1>1 DEF Spawn, Running, Goto, Register, NewTask
<1>2. ASSUME NEW p \in Threads, Await(p) PROVE FlatOK'
  BY <1>2, SpawnedAreTasks DEF Await, Running, WaitFor, Goto, Record, Nursery, History
<1>3. ASSUME NEW p \in Threads, NurseryBegin(p) PROVE FlatOK'
  BY <1>3 DEF NurseryBegin, Running, Record, History
<1>4. ASSUME NEW p \in Threads, NurseryEnd(p) PROVE FlatOK'
  BY <1>4 DEF NurseryEnd, Running, Goto, Record, Nursery, History
<1>5. ASSUME NEW p \in Threads, Escape(p) PROVE FlatOK'
  BY <1>5 DEF Escape, Running, Record, History
<1>6. ASSUME NEW p \in Threads, Sleep(p) PROVE FlatOK'
  BY <1>6 DEF Sleep, Running, Goto, Record, Nursery, History
<1>7. ASSUME NEW p \in Threads, Recv(p) PROVE FlatOK'
  BY <1>7 DEF Recv, Running, Goto, Record, Nursery, History
<1>8. ASSUME NEW p \in Threads, Throw(p) PROVE FlatOK'
  BY <1>8 DEF Throw, Running, Record, Nursery, History
<1>9. ASSUME NEW p \in Threads, Effect(p) PROVE FlatOK'
  BY <1>9 DEF Effect, Running, Goto, Record, Nursery
<1>10. ASSUME NEW p \in Threads, Return(p) PROVE FlatOK'
  <2>1. /\ Goto(p, "publish") \/ Goto(p, "drain")
        /\ (p \in Tasks /\ outcome' = [outcome EXCEPT ![p] = "ok"]) \/ UNCHANGED outcome
        /\ UNCHANGED <<gil, spawned, Record, Nursery, join, target, got, pending, uncaught,
                       surfaced>>
    BY <1>10, ThreadFacts, Zenon DEF Return
  <2> QED
    BY <2>1 DEF Goto, Record, Nursery
<1>11. ASSUME NEW p \in Threads, TakeResult(p) PROVE FlatOK'
  BY <1>11 DEF TakeResult, ClearError, Goto, Nursery, WaitsForTask
<1>12. ASSUME NEW p \in Threads, Resume(p) PROVE FlatOK'
  BY <1>12 DEF Resume, TakeGil, Combine, Goto, Record, Nursery, History
<1>13. ASSUME NEW p \in Threads, JoinNext(p) PROVE FlatOK'
  <2>1. Head(join[p]) \in Tasks
    BY <1>13, HeadTailProperties DEF JoinNext, SeqsOK
  <2> QED
    BY <1>13, <2>1 DEF JoinNext, WaitFor, Goto, Record, Nursery, History
<1>14. ASSUME NEW p \in Threads, NurseryLeave(p) PROVE FlatOK'
  <2>1. stack[p] \in Seq(Frame) /\ stack[p] # <<>>
    BY <1>14, EmptySeq, LenProperties DEF NurseryLeave, SeqsOK, BlockInv
  <2>3. Last(stack[p]) \in Frame
    BY <2>1, LastFrontProperties
  <2>2. Last(stack[p]).prev \in 0..MaxNurseries
    BY <2>3 DEF Frame
  <2> QED
    BY <1>14, <2>2 DEF NurseryLeave, Goto, Record, History
<1>15. ASSUME NEW p \in Threads, SleepEnd(p) PROVE FlatOK'
  BY <1>15 DEF SleepEnd, TakeGil, IsCancelled, Goto, Record, Nursery, History
<1>16. ASSUME NEW p \in Threads, RecvEnd(p) PROVE FlatOK'
  BY <1>16 DEF RecvEnd, TakeGil, Goto, Record, Nursery, History
<1>17. ASSUME NEW p \in Threads, Catch(p) PROVE FlatOK'
  BY <1>17 DEF Catch, Record, History
<1>18. ASSUME NEW p \in Threads, Uncaught(p) PROVE FlatOK'
  BY <1>18 DEF Uncaught, Goto, Record, Nursery
<1>19. ASSUME NEW t \in Tasks, StartTask(t) PROVE FlatOK'
  BY <1>19 DEF StartTask, TakeGil, Goto, Record, History
<1>20. ASSUME NEW t \in Tasks, Publish(t) PROVE FlatOK'
  BY <1>20 DEF Publish, Goto, Nursery, History
<1>21. ASSUME NEW t \in Tasks, Retire(t) PROVE FlatOK'
  BY <1>21 DEF Retire, Goto, Nursery, History
<1>22. ASSUME Drain PROVE FlatOK'
  <2>1. 1..spawned \subseteq Tasks
    BY VMTasksAssumption DEF Tasks
  <2> QED
    BY <1>22, <2>1 DEF Drain, Goto, Record, Nursery, History
<1>23. ASSUME DrainWake PROVE FlatOK'
  BY <1>23 DEF DrainWake, TakeGil, Goto, Record, Nursery, History
<1>24. ASSUME DrainReport PROVE FlatOK'
  BY <1>24 DEF DrainReport, Goto, Nursery
<1>25. ASSUME Exited PROVE FlatOK'
  BY <1>25 DEF Exited, vars
<1>26. CASE UNCHANGED vars
  BY <1>26 DEF vars
<1> QED
  BY <1>1, <1>2, <1>3, <1>4, <1>5, <1>6, <1>7, <1>8, <1>9, <1>10, <1>11, <1>12, <1>13, <1>14,
     <1>15, <1>16, <1>17, <1>18, <1>19, <1>20, <1>21, <1>22, <1>23, <1>24, <1>25, <1>26 DEF Next,
     Body

(* The steps that leave the sequences of nursery blocks alone. *)
QuietStep ==
  \/ \E p \in Threads :
       \/ Await(p) \/ Sleep(p) \/ Recv(p) \/ Throw(p) \/ Effect(p) \/ Return(p)
       \/ TakeResult(p) \/ JoinNext(p) \/ SleepEnd(p) \/ RecvEnd(p) \/ Uncaught(p)
  \/ \E t \in Tasks : StartTask(t) \/ Publish(t) \/ Retire(t)
  \/ Drain \/ DrainWake \/ DrainReport \/ Exited

LEMMA QuietKeepsBlocks == QuietStep => UNCHANGED <<stack, join, block>>
  BY DEF QuietStep, Await, Sleep, Recv, Throw, Effect, Return, TakeResult, JoinNext, SleepEnd,
     RecvEnd, Uncaught, StartTask, Publish, Retire, Drain, DrainWake, DrainReport, Exited,
     Nursery, vars

LEMMA StepCases ==
  ASSUME [Next]_vars
  PROVE  \/ \E p \in Threads :
              \/ Spawn(p) \/ NurseryBegin(p) \/ NurseryEnd(p) \/ Escape(p) \/ Resume(p)
              \/ NurseryLeave(p) \/ Catch(p)
         \/ QuietStep \/ UNCHANGED vars
  BY Zenon DEF Next, Body, QuietStep

LEMMA SeqsStep == TypeInv /\ [Next]_vars => SeqsOK'
<1> SUFFICES ASSUME TypeInv, [Next]_vars PROVE SeqsOK'
  OBVIOUS
<1>0. FlatOK /\ SeqsOK /\ BlockInv
  BY TypeParts DEF TypeInv
<1>1. ASSUME NEW p \in Threads, Spawn(p) PROVE SeqsOK'
  <2>1. NewTask \in Tasks
    BY <1>0, <1>1, ThreadFacts DEF FlatOK, Spawn, NewTask
  <2>2. stack' \in [Threads -> Seq(Frame)]
    <3>1. CASE stack[p] = <<>>
      BY <1>0, <1>1, <3>1 DEF Spawn, Register, SeqsOK
    <3>2. CASE stack[p] # <<>>
      <4>1. Last(stack[p]) \in Frame
        BY <1>0, <3>2, LastFrontProperties DEF SeqsOK
      <4>2. SetLast(stack[p], Enrolled(Last(stack[p]), NewTask)) \in Seq(Frame)
        BY <1>0, <2>1, <3>2, <4>1, EnrolledProperties, SetLastProperties DEF SeqsOK
      <4> QED
        BY <1>0, <1>1, <3>2, <4>2 DEF Spawn, Register, SeqsOK
    <3> QED
      BY <3>1, <3>2
  <2>3. block' \in [Threads -> Seq(SUBSET Tasks)]
    <3>1. CASE block[p] = <<>>
      BY <1>0, <1>1, <3>1 DEF Spawn, SeqsOK
    <3>2. CASE block[p] # <<>>
      <4>1. Last(block[p]) \cup {NewTask} \in SUBSET Tasks
        BY <1>0, <2>1, <3>2, LastFrontProperties DEF SeqsOK
      <4>2. SetLast(block[p], Last(block[p]) \cup {NewTask}) \in Seq(SUBSET Tasks)
        BY <1>0, <3>2, <4>1, SetLastProperties DEF SeqsOK
      <4> QED
        BY <1>0, <1>1, <3>2, <4>2 DEF Spawn, SeqsOK
    <3> QED
      BY <3>1, <3>2
  <2> QED
    BY <1>0, <1>1, <2>2, <2>3 DEF Spawn, SeqsOK
<1>2. ASSUME NEW p \in Threads, NurseryBegin(p) PROVE SeqsOK'
  <2>1. [id |-> nurseries + 1, prev |-> tls[p], kids |-> <<>>] \in Frame
    BY <1>0, <1>2, ThreadFacts DEF FlatOK, NurseryBegin, Frame
  <2>2. Append(stack[p], [id |-> nurseries + 1, prev |-> tls[p], kids |-> <<>>]) \in Seq(Frame)
    BY <1>0, <2>1, AppendProperties DEF SeqsOK
  <2>3. Append(block[p], {}) \in Seq(SUBSET Tasks)
    BY <1>0, AppendProperties DEF SeqsOK
  <2> QED
    BY <1>0, <1>2, <2>2, <2>3 DEF NurseryBegin, SeqsOK
<1>3. ASSUME NEW p \in Threads, NurseryEnd(p) PROVE SeqsOK'
  <2>1. stack[p] # <<>>
    BY <1>0, <1>3, EmptySeq, LenProperties DEF NurseryEnd, SeqsOK, BlockInv
  <2>2. Last(stack[p]) \in Frame
    BY <1>0, <2>1, LastFrontProperties DEF SeqsOK
  <2>3. Last(stack[p]).kids \in Seq(Tasks)
    BY <2>2 DEF Frame
  <2> QED
    BY <1>0, <1>3, <2>3 DEF NurseryEnd, Nursery, SeqsOK
<1>4. ASSUME NEW p \in Threads, Escape(p) PROVE SeqsOK'
  <2>1. PICK n \in 0..Len(block[p]) - 1 : block' = [block EXCEPT ![p] = SubSeq(@, 1, n)]
    BY <1>4 DEF Escape
  <2>2. n \in 0..Len(block[p])
    BY <1>0, LenProperties DEF SeqsOK
  <2>3. SubSeq(block[p], 1, n) \in Seq(SUBSET Tasks)
    BY <1>0, <2>2, PrefixProperties DEF SeqsOK
  <2> QED
    BY <1>0, <1>4, <2>1, <2>3 DEF Escape, SeqsOK
<1>5. ASSUME NEW p \in Threads, Resume(p) PROVE SeqsOK'
  <2>1. join[p] # <<>> => Tail(join[p]) \in Seq(Tasks)
    BY <1>0, HeadTailProperties DEF SeqsOK
  <2> QED
    BY <1>0, <1>5, <2>1 DEF Resume, Nursery, SeqsOK
<1>6. ASSUME NEW p \in Threads, NurseryLeave(p) PROVE SeqsOK'
  <2>1. stack[p] # <<>> /\ block[p] # <<>>
    BY <1>0, <1>6, EmptySeq, LenProperties DEF NurseryLeave, SeqsOK, BlockInv
  <2>2. Front(stack[p]) \in Seq(Frame) /\ Front(block[p]) \in Seq(SUBSET Tasks)
    BY <1>0, <2>1, LastFrontProperties DEF SeqsOK
  <2> QED
    BY <1>0, <1>6, <2>2 DEF NurseryLeave, SeqsOK
<1>7. ASSUME NEW p \in Threads, Catch(p) PROVE SeqsOK'
  <2>1. PICK n \in 0..Len(block[p]) : block' = [block EXCEPT ![p] = SubSeq(@, 1, n)]
    BY <1>7 DEF Catch
  <2>3. SubSeq(block[p], 1, n) \in Seq(SUBSET Tasks)
    BY <1>0, PrefixProperties DEF SeqsOK
  <2> QED
    BY <1>0, <1>7, <2>1, <2>3 DEF Catch, SeqsOK
<1>8. CASE QuietStep \/ UNCHANGED vars
  BY <1>0, <1>8, QuietKeepsBlocks DEF SeqsOK, vars
<1> QED
  BY <1>1, <1>2, <1>3, <1>4, <1>5, <1>6, <1>7, <1>8, StepCases

(* Such a step does not take a thread into a join, nor out of one. *)
LEMMA QuietPlaces ==
  ASSUME FlatOK, QuietStep, NEW q \in Threads
  PROVE  /\ pc'[q] = "join" => pc[q] = "join"
         /\ pc[q] \in {"join", "wait", "took"} => pc'[q] \in {"join", "wait", "took"}
<1> DEFINE G == /\ pc'[q] = "join" => pc[q] = "join"
                /\ pc[q] \in {"join", "wait", "took"} => pc'[q] \in {"join", "wait", "took"}
<1> USE ThreadFacts DEF FlatOK
<1>1. ASSUME NEW p \in Threads, Await(p) PROVE G
  BY <1>1 DEF Await, Running, WaitFor, Goto
<1>2. ASSUME NEW p \in Threads, Sleep(p) PROVE G
  BY <1>2 DEF Sleep, Running, Goto
<1>3. ASSUME NEW p \in Threads, Recv(p) PROVE G
  BY <1>3 DEF Recv, Running, Goto
<1>4. ASSUME NEW p \in Threads, Throw(p) PROVE G
  BY <1>4 DEF Throw, Running
<1>5. ASSUME NEW p \in Threads, Effect(p) PROVE G
  BY <1>5 DEF Effect, Running, Goto
<1>6. ASSUME NEW p \in Threads, Return(p) PROVE G
  BY <1>6 DEF Return, Running, Goto
<1>7. ASSUME NEW p \in Threads, TakeResult(p) PROVE G
  BY <1>7 DEF TakeResult, Goto
<1>8. ASSUME NEW p \in Threads, JoinNext(p) PROVE G
  BY <1>8 DEF JoinNext, WaitFor, Goto
<1>9. ASSUME NEW p \in Threads, SleepEnd(p) PROVE G
  BY <1>9 DEF SleepEnd, Goto
<1>10. ASSUME NEW p \in Threads, RecvEnd(p) PROVE G
  BY <1>10 DEF RecvEnd, Goto
<1>11. ASSUME NEW p \in Threads, Uncaught(p) PROVE G
  BY <1>11 DEF Uncaught, Goto
<1>12. ASSUME NEW t \in Tasks, StartTask(t) PROVE G
  BY <1>12 DEF StartTask, Goto
<1>13. ASSUME NEW t \in Tasks, Publish(t) PROVE G
  BY <1>13 DEF Publish, Goto
<1>14. ASSUME NEW t \in Tasks, Retire(t) PROVE G
  BY <1>14 DEF Retire, Goto
<1>15. CASE Drain
  BY <1>15 DEF Drain, Goto
<1>16. CASE DrainWake
  BY <1>16 DEF DrainWake, Goto
<1>17. CASE DrainReport
  BY <1>17 DEF DrainReport, Goto
<1>18. CASE Exited
  BY <1>18 DEF Exited, vars
<1> QED
  BY <1>1, <1>2, <1>3, <1>4, <1>5, <1>6, <1>7, <1>8, <1>9, <1>10, <1>11, <1>12, <1>13, <1>14,
     <1>15, <1>16, <1>17, <1>18 DEF QuietStep

LEMMA Fresh ==
  ASSUME FlatOK, NotYet, NEW p \in Threads, Spawn(p)
  PROVE  NewTask \in Tasks /\ pc[NewTask] = "none"
<1>1. NewTask \in Tasks /\ NewTask > spawned
  BY ThreadFacts DEF FlatOK, Spawn, NewTask
<1> QED
  BY <1>1 DEF NotYet

LEMMA NotYetStep == TypeInv /\ [Next]_vars => NotYet'
<1> SUFFICES ASSUME TypeInv, [Next]_vars, NEW u \in Tasks, u > spawned' PROVE pc'[u] = "none"
  BY DEF NotYet
<1>0. FlatOK /\ NotYet
  BY TypeParts DEF TypeInv
<1>a. spawned \in Nat /\ u \in Nat
  BY <1>0 DEF FlatOK, Tasks
<1> USE <1>0, <1>a, ThreadFacts DEF FlatOK, NotYet
<1>1. ASSUME NEW p \in Threads, Spawn(p) PROVE pc'[u] = "none"
  BY <1>1 DEF Spawn, Running, Goto, NewTask
<1>2. ASSUME NEW p \in Threads, Await(p) PROVE pc'[u] = "none"
  BY <1>2 DEF Await, Running, WaitFor, Goto
<1>3. ASSUME NEW p \in Threads, NurseryBegin(p) PROVE pc'[u] = "none"
  BY <1>3 DEF NurseryBegin, Running
<1>4. ASSUME NEW p \in Threads, NurseryEnd(p) PROVE pc'[u] = "none"
  BY <1>4 DEF NurseryEnd, Running, Goto
<1>5. ASSUME NEW p \in Threads, Escape(p) PROVE pc'[u] = "none"
  BY <1>5 DEF Escape, Running
<1>6. ASSUME NEW p \in Threads, Sleep(p) PROVE pc'[u] = "none"
  BY <1>6 DEF Sleep, Running, Goto
<1>7. ASSUME NEW p \in Threads, Recv(p) PROVE pc'[u] = "none"
  BY <1>7 DEF Recv, Running, Goto
<1>8. ASSUME NEW p \in Threads, Throw(p) PROVE pc'[u] = "none"
  BY <1>8 DEF Throw, Running
<1>9. ASSUME NEW p \in Threads, Effect(p) PROVE pc'[u] = "none"
  BY <1>9 DEF Effect, Running, Goto
<1>10. ASSUME NEW p \in Threads, Return(p) PROVE pc'[u] = "none"
  BY <1>10 DEF Return, Running, Goto
<1>11. ASSUME NEW p \in Threads, TakeResult(p) PROVE pc'[u] = "none"
  BY <1>11 DEF TakeResult, Goto
<1>12. ASSUME NEW p \in Threads, Resume(p) PROVE pc'[u] = "none"
  BY <1>12 DEF Resume, Goto
<1>13. ASSUME NEW p \in Threads, JoinNext(p) PROVE pc'[u] = "none"
  BY <1>13 DEF JoinNext, WaitFor, Goto
<1>14. ASSUME NEW p \in Threads, NurseryLeave(p) PROVE pc'[u] = "none"
  BY <1>14 DEF NurseryLeave, Goto
<1>15. ASSUME NEW p \in Threads, SleepEnd(p) PROVE pc'[u] = "none"
  BY <1>15 DEF SleepEnd, Goto
<1>16. ASSUME NEW p \in Threads, RecvEnd(p) PROVE pc'[u] = "none"
  BY <1>16 DEF RecvEnd, Goto
<1>17. ASSUME NEW p \in Threads, Catch(p) PROVE pc'[u] = "none"
  BY <1>17 DEF Catch
<1>18. ASSUME NEW p \in Threads, Uncaught(p) PROVE pc'[u] = "none"
  BY <1>18 DEF Uncaught, Goto
<1>19. ASSUME NEW t \in Tasks, StartTask(t) PROVE pc'[u] = "none"
  BY <1>19 DEF StartTask, Goto
<1>20. ASSUME NEW t \in Tasks, Publish(t) PROVE pc'[u] = "none"
  BY <1>20 DEF Publish, Goto
<1>21. ASSUME NEW t \in Tasks, Retire(t) PROVE pc'[u] = "none"
  BY <1>21 DEF Retire, Goto
<1>22. ASSUME Drain PROVE pc'[u] = "none"
  BY <1>22 DEF Drain, Goto
<1>23. ASSUME DrainWake PROVE pc'[u] = "none"
  BY <1>23 DEF DrainWake, Goto
<1>24. ASSUME DrainReport PROVE pc'[u] = "none"
  BY <1>24 DEF DrainReport, Goto
<1>25. ASSUME Exited PROVE pc'[u] = "none"
  BY <1>25 DEF Exited, vars
<1>26. CASE UNCHANGED vars
  BY <1>26 DEF vars
<1> QED
  BY <1>1, <1>2, <1>3, <1>4, <1>5, <1>6, <1>7, <1>8, <1>9, <1>10, <1>11, <1>12, <1>13, <1>14,
     <1>15, <1>16, <1>17, <1>18, <1>19, <1>20, <1>21, <1>22, <1>23, <1>24, <1>25, <1>26 DEF Next,
     Body

LEMMA BlockStep == TypeInv /\ [Next]_vars => BlockInv'
<1> SUFFICES ASSUME TypeInv, [Next]_vars, NEW q \in Threads
             PROVE  /\ Len(block'[q]) <= Len(stack'[q])
                    /\ join'[q] # <<>> => pc'[q] \in {"join", "wait", "took"}
                    /\ pc'[q] = "join" \/ join'[q] # <<>> => block'[q] # <<>>
  BY DEF BlockInv
<1>0. FlatOK /\ SeqsOK /\ BlockInv /\ NotYet
  BY TypeParts DEF TypeInv
<1>a. /\ stack[q] \in Seq(Frame) /\ join[q] \in Seq(Tasks) /\ block[q] \in Seq(SUBSET Tasks)
      /\ Len(stack[q]) \in Nat /\ Len(block[q]) \in Nat
  BY <1>0, LenProperties DEF SeqsOK
<1>b. /\ Len(block[q]) <= Len(stack[q])
      /\ join[q] # <<>> => pc[q] \in {"join", "wait", "took"}
      /\ pc[q] = "join" \/ join[q] # <<>> => block[q] # <<>>
  BY <1>0 DEF BlockInv
<1> DEFINE G == /\ Len(block'[q]) <= Len(stack'[q])
                /\ join'[q] # <<>> => pc'[q] \in {"join", "wait", "took"}
                /\ pc'[q] = "join" \/ join'[q] # <<>> => block'[q] # <<>>
           Same == UNCHANGED <<stack[q], join[q], block[q], pc[q]>>
<1>same. Same => G
  BY <1>b
<1>run. pc[q] = "run" => join[q] = <<>>
  BY <1>b
<1>1. ASSUME NEW p \in Threads, Spawn(p) PROVE G
  <2>0. /\ NewTask \in Tasks /\ spawned' = NewTask /\ pc' = [pc EXCEPT ![NewTask] = "new"]
        /\ UNCHANGED join
    BY <1>0, <1>1, ThreadFacts DEF FlatOK, Spawn, NewTask, Goto
  <2>1. Len(stack'[q]) = Len(stack[q])
    <3>1. CASE stack[p] = <<>> \/ q # p
      BY <1>0, <1>1, <3>1 DEF Spawn, Register, SeqsOK
    <3>2. CASE stack[p] # <<>> /\ q = p
      <4>1. Enrolled(Last(stack[p]), NewTask) \in Frame
        BY <1>0, <2>0, <3>2, LastFrontProperties, EnrolledProperties DEF SeqsOK
      <4>2. Len(SetLast(stack[p], Enrolled(Last(stack[p]), NewTask))) = Len(stack[p])
        BY <1>0, <3>2, <4>1, SetLastProperties DEF SeqsOK
      <4> QED
        BY <1>0, <1>1, <3>2, <4>2 DEF Spawn, Register, SeqsOK
    <3> QED
      BY <3>1, <3>2
  <2>2. Len(block'[q]) = Len(block[q]) /\ (block[q] # <<>> => block'[q] # <<>>)
    <3>1. CASE block[p] = <<>> \/ q # p
      BY <1>0, <1>1, <3>1 DEF Spawn, SeqsOK
    <3>2. CASE block[p] # <<>> /\ q = p
      <4>1. Last(block[p]) \cup {NewTask} \in SUBSET Tasks
        BY <1>0, <2>0, <3>2, LastFrontProperties DEF SeqsOK
      <4> DEFINE b == SetLast(block[p], Last(block[p]) \cup {NewTask})
      <4> DEFINE S == SUBSET Tasks
      <4>a. block[p] \in Seq(S) /\ block[p] # <<>> /\ Last(block[p]) \cup {NewTask} \in S
        BY <1>0, <3>2, <4>1 DEF SeqsOK
      <4>2. Len(b) = Len(block[p]) /\ b # <<>>
        <5> HIDE DEF S
        <5> QED
          BY <4>a, SetLastProperties
      <4> QED
        BY <1>0, <1>1, <3>2, <4>2 DEF Spawn, SeqsOK
    <3> QED
      BY <3>1, <3>2
  <2>3. pc'[q] = pc[q] \/ (pc'[q] = "new" /\ join[q] = <<>>)
    BY <1>0, <1>1, <1>b, <2>0, ThreadFacts, Fresh
  <2> QED
    BY <1>b, <2>0, <2>1, <2>2, <2>3
<1>2. ASSUME NEW p \in Threads, NurseryBegin(p) PROVE G
  <2>1. CASE q # p
    BY <1>0, <1>2, <1>b, <2>1 DEF NurseryBegin, SeqsOK
  <2>2. CASE q = p
    <3> DEFINE f == [id |-> nurseries + 1, prev |-> tls[p], kids |-> <<>>]
    <3>1. f \in Frame
      BY <1>0, <1>2, ThreadFacts DEF FlatOK, NurseryBegin, Frame
    <3>2. stack'[q] = Append(stack[q], f) /\ block'[q] = Append(block[q], {})
      BY <1>0, <1>2, <2>2 DEF NurseryBegin, SeqsOK
    <3>3. Len(stack'[q]) = Len(stack[q]) + 1
      BY <1>a, <3>1, <3>2, AppendProperties
    <3>4. block'[q] # <<>> /\ Len(block'[q]) = Len(block[q]) + 1
      <4> DEFINE S == SUBSET Tasks
      <4>1. block[q] \in Seq(S) /\ {} \in S
        BY <1>a
      <4>2. Append(block[q], {}) # <<>> /\ Len(Append(block[q], {})) = Len(block[q]) + 1
        <5> HIDE DEF S
        <5> QED
          BY <4>1, AppendProperties
      <4> QED
        BY <3>2, <4>2
    <3>5. join'[q] = <<>> /\ UNCHANGED pc
      BY <1>2, <1>run, <2>2 DEF NurseryBegin, Running
    <3> QED
      BY <1>a, <1>b, <3>3, <3>4, <3>5
  <2> QED
    BY <2>1, <2>2
<1>3. ASSUME NEW p \in Threads, NurseryEnd(p) PROVE G
  <2>1. CASE q # p
    BY <1>0, <1>3, <1>b, <2>1 DEF NurseryEnd, Nursery, Goto, FlatOK, SeqsOK
  <2>2. CASE q = p
    BY <1>0, <1>3, <1>b, <2>2 DEF NurseryEnd, Nursery, Goto, FlatOK, SeqsOK
  <2> QED
    BY <2>1, <2>2
<1>4. ASSUME NEW p \in Threads, Escape(p) PROVE G
  <2>1. PICK n \in 0..Len(block[p]) - 1 : block' = [block EXCEPT ![p] = SubSeq(@, 1, n)]
    BY <1>4 DEF Escape
  <2>2. CASE q # p
    BY <1>0, <1>4, <1>b, <2>1, <2>2 DEF Escape, SeqsOK
  <2>3. CASE q = p
    <3>1. n \in 0..Len(block[q]) /\ block'[q] = SubSeq(block[q], 1, n)
      BY <1>0, <1>a, <2>1, <2>3 DEF SeqsOK
    <3>2. Len(block'[q]) <= Len(block[q])
      BY <1>a, <3>1, PrefixProperties
    <3>3. /\ UNCHANGED <<stack, join>> /\ pc'[q] = "run" /\ join[q] = <<>>
          /\ Len(block'[q]) \in Nat
      BY <1>4, <1>run, <1>a, <2>3, <3>1, PrefixProperties DEF Escape, Running
    <3> QED
      BY <1>a, <1>b, <3>2, <3>3
  <2> QED
    BY <2>2, <2>3
<1>5. ASSUME NEW p \in Threads, Resume(p) PROVE G
  <2>1. CASE q # p
    BY <1>0, <1>5, <1>b, <2>1 DEF Resume, Nursery, Goto, FlatOK, SeqsOK
  <2>2. CASE q = p /\ join[p] # <<>>
    <3>1. pc'[q] = "join" /\ UNCHANGED <<stack, block>>
      BY <1>0, <1>5, <2>2 DEF Resume, Nursery, Goto, FlatOK
    <3> QED
      BY <1>b, <2>2, <3>1
  <2>3. CASE q = p /\ join[p] = <<>>
    <3>1. pc'[q] = "run" /\ UNCHANGED <<stack, block, join>>
      BY <1>0, <1>5, <2>3 DEF Resume, Nursery, Goto, FlatOK
    <3> QED
      BY <1>b, <2>3, <3>1
  <2> QED
    BY <2>1, <2>2, <2>3
<1>6. ASSUME NEW p \in Threads, NurseryLeave(p) PROVE G
  <2>1. CASE q # p
    BY <1>0, <1>6, <1>b, <2>1 DEF NurseryLeave, Goto, FlatOK, SeqsOK
  <2>2. CASE q = p
    <3>1. /\ stack'[q] = Front(stack[q]) /\ block'[q] = Front(block[q]) /\ pc'[q] = "run"
          /\ join'[q] = <<>> /\ block[q] # <<>>
      BY <1>0, <1>6, <1>b, <2>2 DEF NurseryLeave, Goto, FlatOK, SeqsOK
    <3>2. stack[q] # <<>>
      BY <1>a, <1>b, <3>1, EmptySeq
    <3>3. Len(stack'[q]) = Len(stack[q]) - 1 /\ Len(block'[q]) = Len(block[q]) - 1
      BY <1>a, <3>1, <3>2, LastFrontProperties
    <3> QED
      BY <1>a, <1>b, <3>1, <3>3
  <2> QED
    BY <2>1, <2>2
<1>7. ASSUME NEW p \in Threads, Catch(p) PROVE G
  <2>1. PICK n \in 0..Len(block[p]) : block' = [block EXCEPT ![p] = SubSeq(@, 1, n)]
    BY <1>7 DEF Catch
  <2>2. CASE q # p
    BY <1>0, <1>7, <1>b, <2>1, <2>2 DEF Catch, SeqsOK
  <2>3. CASE q = p
    <3>1. n \in 0..Len(block[q]) /\ block'[q] = SubSeq(block[q], 1, n)
      BY <1>0, <1>a, <2>1, <2>3 DEF SeqsOK
    <3>2. Len(block'[q]) <= Len(block[q]) /\ Len(block'[q]) \in Nat
      BY <1>a, <3>1, PrefixProperties
    <3>3. UNCHANGED <<stack, join>> /\ pc'[q] = "run" /\ join[q] = <<>>
      BY <1>7, <1>run, <2>3 DEF Catch
    <3> QED
      BY <1>a, <1>b, <3>2, <3>3
  <2> QED
    BY <2>2, <2>3
<1>8. CASE QuietStep
  <2>1. UNCHANGED <<stack[q], join[q], block[q]>>
    BY <1>8, QuietKeepsBlocks
  <2>2. /\ pc'[q] = "join" => pc[q] = "join"
        /\ pc[q] \in {"join", "wait", "took"} => pc'[q] \in {"join", "wait", "took"}
    BY <1>0, <1>8, QuietPlaces
  <2> QED
    BY <1>b, <2>1, <2>2
<1>9. CASE UNCHANGED vars
  BY <1>9, <1>b DEF vars
<1> QED
  BY <1>1, <1>2, <1>3, <1>4, <1>5, <1>6, <1>7, <1>8, <1>9, StepCases

LEMMA WaitsStep == TypeInv /\ [Next]_vars => WaitsForTask'
<1> SUFFICES ASSUME TypeInv, [Next]_vars PROVE WaitsForTask'
  OBVIOUS
<1>0. FlatOK /\ SeqsOK /\ NotYet /\ WaitsForTask
  BY TypeParts DEF TypeInv
<1> USE <1>0, ThreadFacts DEF FlatOK, WaitsForTask
<1>1. ASSUME NEW p \in Threads, Spawn(p) PROVE WaitsForTask'
  <2>1. NewTask \in Tasks /\ pc' = [pc EXCEPT ![NewTask] = "new"] /\ UNCHANGED target
    BY <1>1, Fresh DEF Spawn, Goto
  <2> QED
    BY <2>1
<1>2. ASSUME NEW p \in Threads, Await(p) PROVE WaitsForTask'
  BY <1>2, SpawnedAreTasks DEF Await, Running, WaitFor, Goto
<1>3. ASSUME NEW p \in Threads, NurseryBegin(p) PROVE WaitsForTask'
  BY <1>3 DEF NurseryBegin, Running
<1>4. ASSUME NEW p \in Threads, NurseryEnd(p) PROVE WaitsForTask'
  BY <1>4 DEF NurseryEnd, Running, Goto
<1>5. ASSUME NEW p \in Threads, Escape(p) PROVE WaitsForTask'
  BY <1>5 DEF Escape, Running
<1>6. ASSUME NEW p \in Threads, Sleep(p) PROVE WaitsForTask'
  BY <1>6 DEF Sleep, Running, Goto
<1>7. ASSUME NEW p \in Threads, Recv(p) PROVE WaitsForTask'
  BY <1>7 DEF Recv, Running, Goto
<1>8. ASSUME NEW p \in Threads, Throw(p) PROVE WaitsForTask'
  BY <1>8 DEF Throw, Running
<1>9. ASSUME NEW p \in Threads, Effect(p) PROVE WaitsForTask'
  BY <1>9 DEF Effect, Running, Goto
<1>10. ASSUME NEW p \in Threads, Return(p) PROVE WaitsForTask'
  BY <1>10 DEF Return, Running, Goto
<1>11. ASSUME NEW p \in Threads, TakeResult(p) PROVE WaitsForTask'
  BY <1>11 DEF TakeResult, Goto
<1>12. ASSUME NEW p \in Threads, Resume(p) PROVE WaitsForTask'
  BY <1>12 DEF Resume, TakeGil, Goto
<1>13. ASSUME NEW p \in Threads, JoinNext(p) PROVE WaitsForTask'
  <2>1. Head(join[p]) \in Tasks
    BY <1>13, HeadTailProperties DEF JoinNext, SeqsOK
  <2> QED
    BY <1>13, <2>1 DEF JoinNext, WaitFor, Goto
<1>14. ASSUME NEW p \in Threads, NurseryLeave(p) PROVE WaitsForTask'
  BY <1>14 DEF NurseryLeave, Goto
<1>15. ASSUME NEW p \in Threads, SleepEnd(p) PROVE WaitsForTask'
  BY <1>15 DEF SleepEnd, TakeGil, Goto
<1>16. ASSUME NEW p \in Threads, RecvEnd(p) PROVE WaitsForTask'
  BY <1>16 DEF RecvEnd, TakeGil, Goto
<1>17. ASSUME NEW p \in Threads, Catch(p) PROVE WaitsForTask'
  BY <1>17 DEF Catch
<1>18. ASSUME NEW p \in Threads, Uncaught(p) PROVE WaitsForTask'
  BY <1>18 DEF Uncaught, Goto
<1>19. ASSUME NEW t \in Tasks, StartTask(t) PROVE WaitsForTask'
  BY <1>19 DEF StartTask, TakeGil, Goto
<1>20. ASSUME NEW t \in Tasks, Publish(t) PROVE WaitsForTask'
  BY <1>20 DEF Publish, Goto
<1>21. ASSUME NEW t \in Tasks, Retire(t) PROVE WaitsForTask'
  BY <1>21 DEF Retire, Goto
<1>22. ASSUME Drain PROVE WaitsForTask'
  <2>1. 1..spawned \subseteq Tasks
    BY VMTasksAssumption DEF Tasks
  <2> QED
    BY <1>22, <2>1 DEF Drain, Goto
<1>23. ASSUME DrainWake PROVE WaitsForTask'
  BY <1>23 DEF DrainWake, TakeGil, Goto
<1>24. ASSUME DrainReport PROVE WaitsForTask'
  BY <1>24 DEF DrainReport, Goto
<1>25. ASSUME Exited PROVE WaitsForTask'
  BY <1>25 DEF Exited, vars
<1>26. CASE UNCHANGED vars
  BY <1>26 DEF vars
<1> QED
  BY <1>1, <1>2, <1>3, <1>4, <1>5, <1>6, <1>7, <1>8, <1>9, <1>10, <1>11, <1>12, <1>13, <1>14,
     <1>15, <1>16, <1>17, <1>18, <1>19, <1>20, <1>21, <1>22, <1>23, <1>24, <1>25, <1>26 DEF Next,
     Body

LEMMA TypeInit == Init => TypeInv
<1> SUFFICES ASSUME Init PROVE TypeInv
  OBVIOUS
<1>1. FlatOK
  BY ThreadFacts DEF Init, FlatOK, PCs, Errors
<1>2. SeqsOK
  BY EmptySeq DEF Init, SeqsOK
<1>3. BlockInv
  BY DEF Init, BlockInv
<1>4. WaitsForTask /\ NotYet
  BY ThreadFacts DEF Init, WaitsForTask, NotYet
<1> QED
  BY <1>1, <1>2, <1>3, <1>4, TypeParts DEF TypeInv

LEMMA TypeStep == TypeInv /\ [Next]_vars => TypeInv'
<1> SUFFICES ASSUME TypeInv, [Next]_vars PROVE TypeInv'
  OBVIOUS
<1>1. FlatOK' /\ SeqsOK'
  BY FlatStep, SeqsStep
<1>2. TypeOK'
  BY <1>1 DEF TypeOK, FlatOK, SeqsOK, Frame
<1> QED
  BY <1>2, BlockStep, WaitsStep, NotYetStep DEF TypeInv

(* Type correctness: the task records, the nursery stacks and blocks, and   *)
(* what each thread waits for keep their types and stay within the tasks    *)
(* and nurseries that vm_spawn_real and OP_NURSERY_BEGIN have created.      *)
THEOREM VMTypeCorrect == Spec => []TypeInv
<1>1. Init => TypeInv
  BY TypeInit
<1>2. TypeInv /\ [Next]_vars => TypeInv'
  BY TypeStep
<1> QED
  BY <1>1, <1>2, PTL DEF Spec

-----------------------------------------------------------------------------
(* Who holds the GIL, where threads can be, and the life of a task. *)

(* The program counters at which a thread holds the GIL. *)
Holding == {"run", "join", "publish", "retire", "drain", "exit"}

GilInv == \A p \in Threads : gil = p <=> pc[p] \in Holding

(* Only the main program drains and exits; it is never published. *)
PlaceInv ==
  /\ pc[Main] \in {"run", "sleep", "recv", "join", "wait", "took", "drain", "drain_wait", "exit"}
  /\ \A t \in Tasks : pc[t] \notin {"drain", "drain_wait", "exit"}

(* Whoever took a result took that of a task that is done. *)
TookInv == \A p \in Threads : pc[p] = "took" => done[target[p]]

(* The flags of a task tell where its thread is. *)
LifeInv ==
  \A t \in Tasks :
    /\ pc[t] = "none" <=> t > spawned
    /\ done[t] <=> pc[t] \in {"retire", "gone"}
    /\ outcome[t] # "open" <=> pc[t] \in {"publish", "retire", "gone"}
    /\ uncaught[t] = "effect" <=> outcome[t] = "effect"
    /\ cancelled[t] => pc[t] # "none"

LEMMA GilStep == TypeInv /\ GilInv /\ [Next]_vars => GilInv'
<1> SUFFICES ASSUME TypeInv, GilInv, [Next]_vars PROVE GilInv'
  OBVIOUS
<1>0. FlatOK /\ SeqsOK /\ BlockInv /\ WaitsForTask /\ NotYet
  BY TypeParts DEF TypeInv
<1> USE <1>0, ThreadFacts DEF FlatOK, GilInv, Holding
<1>1. ASSUME NEW p \in Threads, Spawn(p) PROVE GilInv'
  <2>1. NewTask \in Tasks /\ pc[NewTask] = "none" /\ pc' = [pc EXCEPT ![NewTask] = "new"]
    BY <1>1, Fresh DEF Spawn, Goto
  <2> QED
    BY <1>1, <2>1 DEF Spawn
<1>2. ASSUME NEW p \in Threads, Await(p) PROVE GilInv'
  BY <1>2 DEF Await, Running, WaitFor, Goto
<1>3. ASSUME NEW p \in Threads, NurseryBegin(p) PROVE GilInv'
  BY <1>3 DEF NurseryBegin, Running
<1>4. ASSUME NEW p \in Threads, NurseryEnd(p) PROVE GilInv'
  BY <1>4 DEF NurseryEnd, Running, Goto
<1>5. ASSUME NEW p \in Threads, Escape(p) PROVE GilInv'
  BY <1>5 DEF Escape, Running
<1>6. ASSUME NEW p \in Threads, Sleep(p) PROVE GilInv'
  BY <1>6 DEF Sleep, Running, Goto
<1>7. ASSUME NEW p \in Threads, Recv(p) PROVE GilInv'
  BY <1>7 DEF Recv, Running, Goto
<1>8. ASSUME NEW p \in Threads, Throw(p) PROVE GilInv'
  BY <1>8 DEF Throw, Running
<1>9. ASSUME NEW p \in Threads, Effect(p) PROVE GilInv'
  BY <1>9 DEF Effect, Running, Goto
<1>10. ASSUME NEW p \in Threads, Return(p) PROVE GilInv'
  BY <1>10 DEF Return, Running, Goto
<1>11. ASSUME NEW p \in Threads, TakeResult(p) PROVE GilInv'
  BY <1>11 DEF TakeResult, Goto
<1>12. ASSUME NEW p \in Threads, Resume(p) PROVE GilInv'
  BY <1>12 DEF Resume, TakeGil, Goto
<1>13. ASSUME NEW p \in Threads, JoinNext(p) PROVE GilInv'
  BY <1>13 DEF JoinNext, WaitFor, Goto
<1>14. ASSUME NEW p \in Threads, NurseryLeave(p) PROVE GilInv'
  BY <1>14 DEF NurseryLeave, Goto
<1>15. ASSUME NEW p \in Threads, SleepEnd(p) PROVE GilInv'
  BY <1>15 DEF SleepEnd, TakeGil, Goto
<1>16. ASSUME NEW p \in Threads, RecvEnd(p) PROVE GilInv'
  BY <1>16 DEF RecvEnd, TakeGil, Goto
<1>17. ASSUME NEW p \in Threads, Catch(p) PROVE GilInv'
  BY <1>17 DEF Catch
<1>18. ASSUME NEW p \in Threads, Uncaught(p) PROVE GilInv'
  BY <1>18 DEF Uncaught, Goto
<1>19. ASSUME NEW t \in Tasks, StartTask(t) PROVE GilInv'
  BY <1>19 DEF StartTask, TakeGil, Goto
<1>20. ASSUME NEW t \in Tasks, Publish(t) PROVE GilInv'
  BY <1>20 DEF Publish, Goto
<1>21. ASSUME NEW t \in Tasks, Retire(t) PROVE GilInv'
  BY <1>21 DEF Retire, Goto
<1>22. ASSUME Drain PROVE GilInv'
  BY <1>22 DEF Drain, Goto
<1>23. ASSUME DrainWake PROVE GilInv'
  BY <1>23 DEF DrainWake, TakeGil, Goto
<1>24. ASSUME DrainReport PROVE GilInv'
  BY <1>24 DEF DrainReport, Goto
<1>25. ASSUME Exited PROVE GilInv'
  BY <1>25 DEF Exited, vars
<1>26. CASE UNCHANGED vars
  BY <1>26 DEF vars
<1> QED
  BY <1>1, <1>2, <1>3, <1>4, <1>5, <1>6, <1>7, <1>8, <1>9, <1>10, <1>11, <1>12, <1>13, <1>14,
     <1>15, <1>16, <1>17, <1>18, <1>19, <1>20, <1>21, <1>22, <1>23, <1>24, <1>25, <1>26 DEF Next,
     Body

LEMMA PlaceStep == TypeInv /\ PlaceInv /\ [Next]_vars => PlaceInv'
<1> SUFFICES ASSUME TypeInv, PlaceInv, [Next]_vars PROVE PlaceInv'
  OBVIOUS
<1>0. FlatOK /\ SeqsOK /\ BlockInv /\ WaitsForTask /\ NotYet
  BY TypeParts DEF TypeInv
<1> USE <1>0, ThreadFacts DEF FlatOK, PlaceInv
<1>1. ASSUME NEW p \in Threads, Spawn(p) PROVE PlaceInv'
  <2>1. NewTask \in Tasks /\ pc[NewTask] = "none" /\ pc' = [pc EXCEPT ![NewTask] = "new"]
    BY <1>1, Fresh DEF Spawn, Goto
  <2> QED
    BY <1>1, <2>1 DEF Spawn
<1>2. ASSUME NEW p \in Threads, Await(p) PROVE PlaceInv'
  BY <1>2 DEF Await, Running, WaitFor, Goto
<1>3. ASSUME NEW p \in Threads, NurseryBegin(p) PROVE PlaceInv'
  BY <1>3 DEF NurseryBegin, Running
<1>4. ASSUME NEW p \in Threads, NurseryEnd(p) PROVE PlaceInv'
  BY <1>4 DEF NurseryEnd, Running, Goto
<1>5. ASSUME NEW p \in Threads, Escape(p) PROVE PlaceInv'
  BY <1>5 DEF Escape, Running
<1>6. ASSUME NEW p \in Threads, Sleep(p) PROVE PlaceInv'
  BY <1>6 DEF Sleep, Running, Goto
<1>7. ASSUME NEW p \in Threads, Recv(p) PROVE PlaceInv'
  BY <1>7 DEF Recv, Running, Goto
<1>8. ASSUME NEW p \in Threads, Throw(p) PROVE PlaceInv'
  BY <1>8 DEF Throw, Running
<1>9. ASSUME NEW p \in Threads, Effect(p) PROVE PlaceInv'
  BY <1>9 DEF Effect, Running, Goto
<1>10. ASSUME NEW p \in Threads, Return(p) PROVE PlaceInv'
  BY <1>10 DEF Return, Running, Goto
<1>11. ASSUME NEW p \in Threads, TakeResult(p) PROVE PlaceInv'
  BY <1>11 DEF TakeResult, Goto
<1>12. ASSUME NEW p \in Threads, Resume(p) PROVE PlaceInv'
  BY <1>12 DEF Resume, TakeGil, Goto
<1>13. ASSUME NEW p \in Threads, JoinNext(p) PROVE PlaceInv'
  BY <1>13 DEF JoinNext, WaitFor, Goto
<1>14. ASSUME NEW p \in Threads, NurseryLeave(p) PROVE PlaceInv'
  BY <1>14 DEF NurseryLeave, Goto
<1>15. ASSUME NEW p \in Threads, SleepEnd(p) PROVE PlaceInv'
  BY <1>15 DEF SleepEnd, TakeGil, Goto
<1>16. ASSUME NEW p \in Threads, RecvEnd(p) PROVE PlaceInv'
  BY <1>16 DEF RecvEnd, TakeGil, Goto
<1>17. ASSUME NEW p \in Threads, Catch(p) PROVE PlaceInv'
  BY <1>17 DEF Catch
<1>18. ASSUME NEW p \in Threads, Uncaught(p) PROVE PlaceInv'
  BY <1>18 DEF Uncaught, Goto
<1>19. ASSUME NEW t \in Tasks, StartTask(t) PROVE PlaceInv'
  BY <1>19 DEF StartTask, TakeGil, Goto
<1>20. ASSUME NEW t \in Tasks, Publish(t) PROVE PlaceInv'
  BY <1>20 DEF Publish, Goto
<1>21. ASSUME NEW t \in Tasks, Retire(t) PROVE PlaceInv'
  BY <1>21 DEF Retire, Goto
<1>22. ASSUME Drain PROVE PlaceInv'
  BY <1>22 DEF Drain, Goto
<1>23. ASSUME DrainWake PROVE PlaceInv'
  BY <1>23 DEF DrainWake, TakeGil, Goto
<1>24. ASSUME DrainReport PROVE PlaceInv'
  BY <1>24 DEF DrainReport, Goto
<1>25. ASSUME Exited PROVE PlaceInv'
  BY <1>25 DEF Exited, vars
<1>26. CASE UNCHANGED vars
  BY <1>26 DEF vars
<1> QED
  BY <1>1, <1>2, <1>3, <1>4, <1>5, <1>6, <1>7, <1>8, <1>9, <1>10, <1>11, <1>12, <1>13, <1>14,
     <1>15, <1>16, <1>17, <1>18, <1>19, <1>20, <1>21, <1>22, <1>23, <1>24, <1>25, <1>26 DEF Next,
     Body

LEMMA TookStep == TypeInv /\ TookInv /\ [Next]_vars => TookInv'
<1> SUFFICES ASSUME TypeInv, TookInv, [Next]_vars PROVE TookInv'
  OBVIOUS
<1>0. FlatOK /\ SeqsOK /\ BlockInv /\ WaitsForTask /\ NotYet
  BY TypeParts DEF TypeInv
<1> USE <1>0, ThreadFacts DEF FlatOK, TookInv, WaitsForTask
<1>1. ASSUME NEW p \in Threads, Spawn(p) PROVE TookInv'
  <2>1. NewTask \in Tasks /\ pc[NewTask] = "none" /\ pc' = [pc EXCEPT ![NewTask] = "new"]
    BY <1>1, Fresh DEF Spawn, Goto
  <2> QED
    BY <1>1, <2>1 DEF Spawn
<1>2. ASSUME NEW p \in Threads, Await(p) PROVE TookInv'
  BY <1>2 DEF Await, Running, WaitFor, Goto, Record, Nursery, History
<1>3. ASSUME NEW p \in Threads, NurseryBegin(p) PROVE TookInv'
  BY <1>3 DEF NurseryBegin, Running, Record, History
<1>4. ASSUME NEW p \in Threads, NurseryEnd(p) PROVE TookInv'
  BY <1>4 DEF NurseryEnd, Running, Goto, Record, Nursery, History
<1>5. ASSUME NEW p \in Threads, Escape(p) PROVE TookInv'
  BY <1>5 DEF Escape, Running, Record, History
<1>6. ASSUME NEW p \in Threads, Sleep(p) PROVE TookInv'
  BY <1>6 DEF Sleep, Running, Goto, Record, Nursery, History
<1>7. ASSUME NEW p \in Threads, Recv(p) PROVE TookInv'
  BY <1>7 DEF Recv, Running, Goto, Record, Nursery, History
<1>8. ASSUME NEW p \in Threads, Throw(p) PROVE TookInv'
  BY <1>8 DEF Throw, Running, Record, Nursery, History
<1>9. ASSUME NEW p \in Threads, Effect(p) PROVE TookInv'
  BY <1>9 DEF Effect, Running, Goto, Record, Nursery
<1>10. ASSUME NEW p \in Threads, Return(p) PROVE TookInv'
  BY <1>10 DEF Return, Running, Goto, Record, Nursery
<1>11. ASSUME NEW p \in Threads, TakeResult(p) PROVE TookInv'
  BY <1>11 DEF TakeResult, ClearError, Goto, Nursery
<1>12. ASSUME NEW p \in Threads, Resume(p) PROVE TookInv'
  BY <1>12 DEF Resume, TakeGil, Goto, Record, Nursery, History
<1>13. ASSUME NEW p \in Threads, JoinNext(p) PROVE TookInv'
  BY <1>13 DEF JoinNext, WaitFor, Goto, Record, Nursery, History
<1>14. ASSUME NEW p \in Threads, NurseryLeave(p) PROVE TookInv'
  BY <1>14 DEF NurseryLeave, Goto, Record, History
<1>15. ASSUME NEW p \in Threads, SleepEnd(p) PROVE TookInv'
  BY <1>15 DEF SleepEnd, TakeGil, Goto, Record, Nursery, History
<1>16. ASSUME NEW p \in Threads, RecvEnd(p) PROVE TookInv'
  BY <1>16 DEF RecvEnd, TakeGil, Goto, Record, Nursery, History
<1>17. ASSUME NEW p \in Threads, Catch(p) PROVE TookInv'
  BY <1>17 DEF Catch, Record, History
<1>18. ASSUME NEW p \in Threads, Uncaught(p) PROVE TookInv'
  BY <1>18 DEF Uncaught, Goto, Record, Nursery
<1>19. ASSUME NEW t \in Tasks, StartTask(t) PROVE TookInv'
  BY <1>19 DEF StartTask, TakeGil, Goto, Record, History
<1>20. ASSUME NEW t \in Tasks, Publish(t) PROVE TookInv'
  BY <1>20 DEF Publish, Goto, Nursery, History
<1>21. ASSUME NEW t \in Tasks, Retire(t) PROVE TookInv'
  BY <1>21 DEF Retire, Goto, Nursery, History
<1>22. ASSUME Drain PROVE TookInv'
  BY <1>22 DEF Drain, Goto, Record, Nursery, History
<1>23. ASSUME DrainWake PROVE TookInv'
  BY <1>23 DEF DrainWake, TakeGil, Goto, Record, Nursery, History
<1>24. ASSUME DrainReport PROVE TookInv'
  BY <1>24 DEF DrainReport, Goto, Nursery
<1>25. ASSUME Exited PROVE TookInv'
  BY <1>25 DEF Exited, vars
<1>26. CASE UNCHANGED vars
  BY <1>26 DEF vars
<1> QED
  BY <1>1, <1>2, <1>3, <1>4, <1>5, <1>6, <1>7, <1>8, <1>9, <1>10, <1>11, <1>12, <1>13, <1>14,
     <1>15, <1>16, <1>17, <1>18, <1>19, <1>20, <1>21, <1>22, <1>23, <1>24, <1>25, <1>26 DEF Next,
     Body

LEMMA LifeStep == TypeInv /\ GilInv /\ PlaceInv /\ LifeInv /\ [Next]_vars => LifeInv'
<1> SUFFICES ASSUME TypeInv, GilInv, PlaceInv, LifeInv, [Next]_vars PROVE LifeInv'
  OBVIOUS
<1>0. FlatOK /\ SeqsOK /\ BlockInv /\ WaitsForTask /\ NotYet
  BY TypeParts DEF TypeInv
<1> USE <1>0, ThreadFacts DEF FlatOK, LifeInv
<1>1. ASSUME NEW p \in Threads, Spawn(p) PROVE LifeInv'
  <2>1. /\ NewTask \in Tasks /\ pc[NewTask] = "none" /\ pc' = [pc EXCEPT ![NewTask] = "new"]
        /\ spawned' = spawned + 1 /\ NewTask = spawned + 1
        /\ UNCHANGED <<done, outcome, uncaught, cancelled>>
    BY <1>1, Fresh DEF Spawn, Goto, NewTask
  <2>2. \A u \in Tasks : u \in Nat
    BY DEF Tasks
  <2>3. \A u \in Tasks : u > spawned' <=> u > spawned /\ u # NewTask
    BY <2>1, <2>2
  <2> QED
    BY <2>1, <2>3
<1>2. ASSUME NEW p \in Threads, Await(p) PROVE LifeInv'
  BY <1>2 DEF Await, Running, WaitFor, Goto, Record, Nursery, History
<1>3. ASSUME NEW p \in Threads, NurseryBegin(p) PROVE LifeInv'
  BY <1>3 DEF NurseryBegin, Running, Record, History
<1>4. ASSUME NEW p \in Threads, NurseryEnd(p) PROVE LifeInv'
  BY <1>4 DEF NurseryEnd, Running, Goto, Record, Nursery, History
<1>5. ASSUME NEW p \in Threads, Escape(p) PROVE LifeInv'
  BY <1>5 DEF Escape, Running, Record, History
<1>6. ASSUME NEW p \in Threads, Sleep(p) PROVE LifeInv'
  BY <1>6 DEF Sleep, Running, Goto, Record, Nursery, History
<1>7. ASSUME NEW p \in Threads, Recv(p) PROVE LifeInv'
  BY <1>7 DEF Recv, Running, Goto, Record, Nursery, History
<1>8. ASSUME NEW p \in Threads, Throw(p) PROVE LifeInv'
  BY <1>8 DEF Throw, Running, Record, Nursery, History
<1>9. ASSUME NEW p \in Threads, Effect(p) PROVE LifeInv'
  BY <1>9 DEF Effect, Running, Goto, Record, Nursery
<1>10. ASSUME NEW p \in Threads, Return(p) PROVE LifeInv'
  BY <1>10 DEF Return, Running, Goto, Record, Nursery
<1>11. ASSUME NEW p \in Threads, TakeResult(p) PROVE LifeInv'
  BY <1>11 DEF TakeResult, ClearError, Goto, Nursery
<1>12. ASSUME NEW p \in Threads, Resume(p) PROVE LifeInv'
  BY <1>12 DEF Resume, TakeGil, Goto, Record, Nursery, History
<1>13. ASSUME NEW p \in Threads, JoinNext(p) PROVE LifeInv'
  BY <1>13 DEF JoinNext, WaitFor, Goto, Record, Nursery, History
<1>14. ASSUME NEW p \in Threads, NurseryLeave(p) PROVE LifeInv'
  BY <1>14 DEF NurseryLeave, Goto, Record, History
<1>15. ASSUME NEW p \in Threads, SleepEnd(p) PROVE LifeInv'
  BY <1>15 DEF SleepEnd, TakeGil, Goto, Record, Nursery, History
<1>16. ASSUME NEW p \in Threads, RecvEnd(p) PROVE LifeInv'
  BY <1>16 DEF RecvEnd, TakeGil, Goto, Record, Nursery, History
<1>17. ASSUME NEW p \in Threads, Catch(p) PROVE LifeInv'
  BY <1>17 DEF Catch, Record, History
<1>18. ASSUME NEW p \in Threads, Uncaught(p) PROVE LifeInv'
  BY <1>18 DEF Uncaught, Goto, Record, Nursery
<1>19. ASSUME NEW t \in Tasks, StartTask(t) PROVE LifeInv'
  BY <1>19 DEF StartTask, TakeGil, Goto, Record, History
<1>20. ASSUME NEW t \in Tasks, Publish(t) PROVE LifeInv'
  <2>1. outcome[t] # "open"
    BY <1>20 DEF Publish
  <2> QED
    BY <1>20, <2>1 DEF Publish, Goto, Nursery, History
<1>21. ASSUME NEW t \in Tasks, Retire(t) PROVE LifeInv'
  <2>1. \A u \in Siblings(t) : u \in Tasks => pc[u] # "none"
    BY DEF Siblings, Tasks
  <2>2. \A u \in Tasks : cancelled'[u] => pc[u] # "none"
    BY <1>21, <2>1 DEF Retire
  <2> QED
    BY <1>21, <2>2 DEF Retire, Goto, Nursery, History
<1>22. ASSUME Drain PROVE LifeInv'
  BY <1>22 DEF Drain, Goto, Record, Nursery, History
<1>23. ASSUME DrainWake PROVE LifeInv'
  BY <1>23 DEF DrainWake, TakeGil, Goto, Record, Nursery, History
<1>24. ASSUME DrainReport PROVE LifeInv'
  BY <1>24 DEF DrainReport, Goto, Nursery
<1>25. ASSUME Exited PROVE LifeInv'
  BY <1>25 DEF Exited, vars
<1>26. CASE UNCHANGED vars
  BY <1>26 DEF vars
<1> QED
  BY <1>1, <1>2, <1>3, <1>4, <1>5, <1>6, <1>7, <1>8, <1>9, <1>10, <1>11, <1>12, <1>13, <1>14,
     <1>15, <1>16, <1>17, <1>18, <1>19, <1>20, <1>21, <1>22, <1>23, <1>24, <1>25, <1>26 DEF Next,
     Body

(* At exit no other thread is left. *)
ExitInv == pc[Main] = "exit" => \A t \in Tasks : pc[t] \in {"none", "gone"}

(* A set of numbers that has an element has a largest one: of the sets     *)
(* t..n with t in S, take a smallest.                                      *)
LEMMA LargestElement ==
  ASSUME NEW n \in Nat, NEW S \in SUBSET (1..n), S # {}
  PROVE  \E t \in S : \A u \in S : u <= t
<1> DEFINE W == 1..n
           R == StrictSubsetOrdering(W)
           F == {t..n : t \in S}
<1>1. IsFiniteSet(W)
  BY FS_Interval
<1>2. IsWellFoundedOn(R, FiniteSubsetsOf(W))
  BY <1>1, FS_StrictSubsetOrderingWellFounded
<1>3. F \subseteq FiniteSubsetsOf(W) /\ F # {}
  <2>1. ASSUME NEW t \in S PROVE t..n \in FiniteSubsetsOf(W)
    <3>1. t..n \subseteq W
      OBVIOUS
    <3> QED
      BY <1>1, <3>1, FS_Subset DEF FiniteSubsetsOf
  <2> QED
    BY <2>1
<1>4. PICK x \in F : \A y \in F : ~(<<y, x>> \in R)
  BY <1>2, <1>3, WFMin
<1>5. PICK t \in S : x = t..n
  OBVIOUS
<1>6. ASSUME NEW u \in S, u > t PROVE FALSE
  <2>1. u..n \in F
    BY <1>6
  <2>2. u..n \subseteq x /\ u..n # x
    <3>1. t \in x /\ t \notin u..n
      BY <1>5, <1>6
    <3>2. u..n \subseteq x
      BY <1>5, <1>6
    <3> QED
      BY <3>1, <3>2
  <2>3. x \in SUBSET W /\ u..n \in SUBSET W
    BY <1>5
  <2>4. <<u..n, x>> \in R
    BY <2>2, <2>3, Zenon DEF StrictSubsetOrdering
  <2> QED
    BY <1>4, <2>1, <2>4
<1>7. \A u \in S : u <= t
  BY <1>6
<1> QED
  BY <1>7

(* When the scan of the drain finds nothing, there is nothing to find. *)
LEMMA ScanIsThorough ==
  ASSUME TypeInv, \A t \in 1..spawned : ~FirstUndone(t)
  PROVE  \A t \in 1..spawned : done[t]
<1>1. spawned \in Nat
  BY TypeParts DEF TypeInv, FlatOK
<1>2. Undone \in SUBSET (1..spawned)
  BY DEF Undone
<1>3. CASE Undone # {}
  <2>1. PICK t \in Undone : \A u \in Undone : u <= t
    BY <1>1, <1>2, <1>3, LargestElement
  <2>2. t \in 1..spawned /\ FirstUndone(t)
    BY <1>2, <2>1 DEF FirstUndone
  <2> QED
    BY <2>2
<1>4. CASE Undone = {}
  BY <1>4 DEF Undone
<1> QED
  BY <1>3, <1>4

LEMMA ExitStep == TypeInv /\ GilInv /\ PlaceInv /\ LifeInv /\ ExitInv /\ [Next]_vars => ExitInv'
<1> SUFFICES ASSUME TypeInv, GilInv, PlaceInv, LifeInv, ExitInv, [Next]_vars PROVE ExitInv'
  OBVIOUS
<1>0. FlatOK /\ SeqsOK /\ BlockInv /\ WaitsForTask /\ NotYet
  BY TypeParts DEF TypeInv
<1> USE <1>0, ThreadFacts DEF FlatOK, ExitInv, GilInv, Holding
<1>1. ASSUME NEW p \in Threads, Spawn(p) PROVE ExitInv'
  <2>1. NewTask \in Tasks /\ pc' = [pc EXCEPT ![NewTask] = "new"]
    BY <1>1, Fresh DEF Spawn, Goto
  <2>2. pc[Main] # "exit"
    BY <1>1 DEF Spawn, Running
  <2> QED
    BY <2>1, <2>2
<1>2. ASSUME NEW p \in Threads, Await(p) PROVE ExitInv'
  BY <1>2 DEF Await, Running, WaitFor, Goto
<1>3. ASSUME NEW p \in Threads, NurseryBegin(p) PROVE ExitInv'
  BY <1>3 DEF NurseryBegin, Running
<1>4. ASSUME NEW p \in Threads, NurseryEnd(p) PROVE ExitInv'
  BY <1>4 DEF NurseryEnd, Running, Goto
<1>5. ASSUME NEW p \in Threads, Escape(p) PROVE ExitInv'
  BY <1>5 DEF Escape, Running
<1>6. ASSUME NEW p \in Threads, Sleep(p) PROVE ExitInv'
  BY <1>6 DEF Sleep, Running, Goto
<1>7. ASSUME NEW p \in Threads, Recv(p) PROVE ExitInv'
  BY <1>7 DEF Recv, Running, Goto
<1>8. ASSUME NEW p \in Threads, Throw(p) PROVE ExitInv'
  BY <1>8 DEF Throw, Running
<1>9. ASSUME NEW p \in Threads, Effect(p) PROVE ExitInv'
  BY <1>9 DEF Effect, Running, Goto
<1>10. ASSUME NEW p \in Threads, Return(p) PROVE ExitInv'
  <2>1. gil = p /\ pc[p] = "run" /\ (Goto(p, "publish") \/ Goto(p, "drain"))
    BY <1>10, Zenon DEF Return, Running
  <2> QED
    BY <2>1 DEF Goto
<1>11. ASSUME NEW p \in Threads, TakeResult(p) PROVE ExitInv'
  BY <1>11 DEF TakeResult, Goto
<1>12. ASSUME NEW p \in Threads, Resume(p) PROVE ExitInv'
  BY <1>12 DEF Resume, TakeGil, Goto
<1>13. ASSUME NEW p \in Threads, JoinNext(p) PROVE ExitInv'
  BY <1>13 DEF JoinNext, WaitFor, Goto
<1>14. ASSUME NEW p \in Threads, NurseryLeave(p) PROVE ExitInv'
  BY <1>14 DEF NurseryLeave, Goto
<1>15. ASSUME NEW p \in Threads, SleepEnd(p) PROVE ExitInv'
  BY <1>15 DEF SleepEnd, TakeGil, Goto
<1>16. ASSUME NEW p \in Threads, RecvEnd(p) PROVE ExitInv'
  BY <1>16 DEF RecvEnd, TakeGil, Goto
<1>17. ASSUME NEW p \in Threads, Catch(p) PROVE ExitInv'
  BY <1>17 DEF Catch
<1>18. ASSUME NEW p \in Threads, Uncaught(p) PROVE ExitInv'
  BY <1>18 DEF Uncaught, Goto
<1>19. ASSUME NEW t \in Tasks, StartTask(t) PROVE ExitInv'
  BY <1>19 DEF StartTask, TakeGil, Goto
<1>20. ASSUME NEW t \in Tasks, Publish(t) PROVE ExitInv'
  BY <1>20 DEF Publish, Goto
<1>21. ASSUME NEW t \in Tasks, Retire(t) PROVE ExitInv'
  BY <1>21 DEF Retire, Goto
<1>22. ASSUME Drain PROVE ExitInv'
  BY <1>22 DEF Drain, Goto
<1>23. ASSUME DrainWake PROVE ExitInv'
  BY <1>23 DEF DrainWake, TakeGil, Goto
<1>24. ASSUME DrainReport PROVE ExitInv'
  <2>1. \A t \in 1..spawned : done[t]
    BY <1>24, ScanIsThorough DEF DrainReport
  <2>2. \A t \in Tasks : pc[t] = "none" \/ t \in 1..spawned
    BY DEF LifeInv, Tasks
  <2>3. \A t \in Tasks : pc[t] \in {"none", "retire", "gone"}
    BY <2>1, <2>2 DEF LifeInv
  <2>4. \A t \in Tasks : pc[t] # "retire"
    BY <1>24 DEF DrainReport
  <2> QED
    BY <1>24, <2>3, <2>4 DEF DrainReport, Goto
<1>25. ASSUME Exited PROVE ExitInv'
  BY <1>25 DEF Exited, vars
<1>26. CASE UNCHANGED vars
  BY <1>26 DEF vars
<1> QED
  BY <1>1, <1>2, <1>3, <1>4, <1>5, <1>6, <1>7, <1>8, <1>9, <1>10, <1>11, <1>12, <1>13, <1>14,
     <1>15, <1>16, <1>17, <1>18, <1>19, <1>20, <1>21, <1>22, <1>23, <1>24, <1>25, <1>26 DEF Next,
     Body

-----------------------------------------------------------------------------
(* Errors and cancellation. *)

(* What ErrorTakenOnce says of one task. *)
Accounted(t) ==
  surfaced[t] + (IF error[t] = None THEN 0 ELSE 1)
    = IF done[t] /\ outcome[t] = "effect" THEN 1 ELSE 0

ErrorInv ==
  /\ \A t \in Tasks : Accounted(t)
  /\ pc[Main] = "exit" => \A t \in Tasks : error[t] = None

LEMMA ErrorStep ==
  TypeInv /\ GilInv /\ PlaceInv /\ LifeInv /\ ExitInv /\ ErrorInv /\ [Next]_vars => ErrorInv'
<1> SUFFICES ASSUME TypeInv, GilInv, PlaceInv, LifeInv, ExitInv, ErrorInv, [Next]_vars
             PROVE  ErrorInv'
  OBVIOUS
<1>0. FlatOK /\ SeqsOK /\ BlockInv /\ WaitsForTask /\ NotYet
  BY TypeParts DEF TypeInv
<1> USE <1>0, ThreadFacts DEF FlatOK, ErrorInv, Accounted
<1>1. ASSUME NEW p \in Threads, Spawn(p) PROVE ErrorInv'
  <2>1. NewTask \in Tasks /\ pc' = [pc EXCEPT ![NewTask] = "new"]
    BY <1>1, Fresh DEF Spawn, Goto
  <2> QED
    BY <1>1, <2>1 DEF Spawn
<1>2. ASSUME NEW p \in Threads, Await(p) PROVE ErrorInv'
  BY <1>2 DEF Await, Running, WaitFor, Goto, Record, Nursery, History
<1>3. ASSUME NEW p \in Threads, NurseryBegin(p) PROVE ErrorInv'
  BY <1>3 DEF NurseryBegin, Running, Record, History
<1>4. ASSUME NEW p \in Threads, NurseryEnd(p) PROVE ErrorInv'
  BY <1>4 DEF NurseryEnd, Running, Goto, Record, Nursery, History
<1>5. ASSUME NEW p \in Threads, Escape(p) PROVE ErrorInv'
  BY <1>5 DEF Escape, Running, Record, History
<1>6. ASSUME NEW p \in Threads, Sleep(p) PROVE ErrorInv'
  BY <1>6 DEF Sleep, Running, Goto, Record, Nursery, History
<1>7. ASSUME NEW p \in Threads, Recv(p) PROVE ErrorInv'
  BY <1>7 DEF Recv, Running, Goto, Record, Nursery, History
<1>8. ASSUME NEW p \in Threads, Throw(p) PROVE ErrorInv'
  BY <1>8 DEF Throw, Running, Record, Nursery, History
<1>9. ASSUME NEW p \in Threads, Effect(p) PROVE ErrorInv'
  <2>1. CASE p # Main
    <3>1. p \in Tasks /\ ~done[p] /\ outcome' = [outcome EXCEPT ![p] = "effect"]
          /\ pc' = [pc EXCEPT ![p] = "publish"] /\ UNCHANGED <<done, error, surfaced>>
      BY <1>9, <2>1 DEF Effect, Running, Goto, LifeInv, Record
    <3> QED
      BY <3>1
  <2>2. CASE p = Main
    BY <1>9, <2>2 DEF Effect, Goto, Record
  <2> QED
    BY <2>1, <2>2
<1>10. ASSUME NEW p \in Threads, Return(p) PROVE ErrorInv'
  <2>0. /\ Running(p) /\ UNCHANGED <<Record, surfaced>>
        /\ \/ p # Main /\ Goto(p, "publish") /\ outcome' = [outcome EXCEPT ![p] = "ok"]
           \/ p = Main /\ Goto(p, "drain") /\ UNCHANGED outcome
    BY <1>10, Zenon DEF Return
  <2>1. CASE p # Main
    <3>1. p \in Tasks /\ ~done[p] /\ outcome' = [outcome EXCEPT ![p] = "ok"]
          /\ pc' = [pc EXCEPT ![p] = "publish"] /\ UNCHANGED <<done, error, surfaced>>
      BY <2>0, <2>1 DEF Running, Goto, LifeInv, Record
    <3> QED
      BY <3>1
  <2>2. CASE p = Main
    BY <2>0, <2>2 DEF Goto, Record
  <2> QED
    BY <2>1, <2>2
<1>11. ASSUME NEW p \in Threads, TakeResult(p) PROVE ErrorInv'
  <2> DEFINE v == target[p]
  <2>1. v \in Tasks /\ surfaced[v] \in Nat
    BY <1>11 DEF TakeResult, WaitsForTask
  <2>2. /\ error' = [error EXCEPT ![v] = None] /\ UNCHANGED <<done, outcome>>
        /\ surfaced' = IF error[v] = None THEN surfaced ELSE [surfaced EXCEPT ![v] = @ + 1]
        /\ pc' = [pc EXCEPT ![p] = "took"]
    BY <1>11 DEF TakeResult, ClearError, Goto
  <2> HIDE DEF v
  <2>3. \A t \in Tasks : Accounted(t)'
    BY <2>1, <2>2
  <2>4. \A t \in Tasks : error[t] = None => error'[t] = None
    BY <2>2
  <2> QED
    BY <2>2, <2>3, <2>4
<1>12. ASSUME NEW p \in Threads, Resume(p) PROVE ErrorInv'
  BY <1>12 DEF Resume, TakeGil, Goto, Record, Nursery, History
<1>13. ASSUME NEW p \in Threads, JoinNext(p) PROVE ErrorInv'
  BY <1>13 DEF JoinNext, WaitFor, Goto, Record, Nursery, History
<1>14. ASSUME NEW p \in Threads, NurseryLeave(p) PROVE ErrorInv'
  BY <1>14 DEF NurseryLeave, Goto, Record, History
<1>15. ASSUME NEW p \in Threads, SleepEnd(p) PROVE ErrorInv'
  BY <1>15 DEF SleepEnd, TakeGil, Goto, Record, Nursery, History
<1>16. ASSUME NEW p \in Threads, RecvEnd(p) PROVE ErrorInv'
  BY <1>16 DEF RecvEnd, TakeGil, Goto, Record, Nursery, History
<1>17. ASSUME NEW p \in Threads, Catch(p) PROVE ErrorInv'
  BY <1>17 DEF Catch, Record, History
<1>18. ASSUME NEW p \in Threads, Uncaught(p) PROVE ErrorInv'
  <2>1. CASE p # Main
    <3>1. p \in Tasks /\ ~done[p] /\ outcome' = [outcome EXCEPT ![p] = "throw"]
          /\ pc' = [pc EXCEPT ![p] = "publish"] /\ UNCHANGED <<done, error, surfaced>>
      BY <1>18, <2>1 DEF Uncaught, Goto, LifeInv, Record
    <3> QED
      BY <3>1
  <2>2. CASE p = Main
    BY <1>18, <2>2 DEF Uncaught, Goto, Record
  <2> QED
    BY <2>1, <2>2
<1>19. ASSUME NEW t \in Tasks, StartTask(t) PROVE ErrorInv'
  BY <1>19 DEF StartTask, TakeGil, Goto, Record, History
<1>20. ASSUME NEW t \in Tasks, Publish(t) PROVE ErrorInv'
  <2>1. ~done[t] /\ (uncaught[t] = "effect" <=> outcome[t] = "effect") /\ pc[Main] # "exit"
    BY <1>20 DEF Publish, LifeInv, ExitInv
  <2>2. surfaced[t] = 0
    BY <2>1
  <2>3. /\ error' = [error EXCEPT ![t] = uncaught[t]] /\ done' = [done EXCEPT ![t] = TRUE]
        /\ pc' = [pc EXCEPT ![t] = "retire"] /\ UNCHANGED <<surfaced, outcome>>
    BY <1>20 DEF Publish, Goto, History
  <2>4. uncaught[t] = None <=> outcome[t] # "effect"
    BY <2>1, VMTasksAssumption
  <2> QED
    BY <2>1, <2>2, <2>3, <2>4
<1>21. ASSUME NEW t \in Tasks, Retire(t) PROVE ErrorInv'
  BY <1>21 DEF Retire, Goto, Nursery, History
<1>22. ASSUME Drain PROVE ErrorInv'
  BY <1>22 DEF Drain, Goto, Record, Nursery, History
<1>23. ASSUME DrainWake PROVE ErrorInv'
  BY <1>23 DEF DrainWake, TakeGil, Goto, Record, Nursery, History
<1>24. ASSUME DrainReport PROVE ErrorInv'
  <2>1. /\ surfaced' = [t \in Tasks |-> surfaced[t] + IF error[t] = None THEN 0 ELSE 1]
        /\ error' = [t \in Tasks |-> None] /\ UNCHANGED <<done, outcome>>
    BY <1>24 DEF DrainReport
  <2> QED
    BY <2>1
<1>25. ASSUME Exited PROVE ErrorInv'
  BY <1>25 DEF Exited, vars
<1>26. CASE UNCHANGED vars
  BY <1>26 DEF vars
<1> QED
  BY <1>1, <1>2, <1>3, <1>4, <1>5, <1>6, <1>7, <1>8, <1>9, <1>10, <1>11, <1>12, <1>13, <1>14,
     <1>15, <1>16, <1>17, <1>18, <1>19, <1>20, <1>21, <1>22, <1>23, <1>24, <1>25, <1>26 DEF Next,
     Body

(* A cancelled task has a sibling whose error did it. *)
Culprit(t, u) == u # t /\ nid[u] = nid[t] /\ nid[t] # 0 /\ outcome[u] = "effect"

LEMMA CancelStep ==
  TypeInv /\ LifeInv /\ CancelledBySibling /\ [Next]_vars => CancelledBySibling'
<1> SUFFICES ASSUME TypeInv, LifeInv, CancelledBySibling, [Next]_vars,
                    NEW v \in Tasks, cancelled'[v]
             PROVE  \E u \in Tasks \ {v} : Culprit(v, u)'
  BY DEF CancelledBySibling, Culprit
<1>0. FlatOK /\ NotYet
  BY TypeParts DEF TypeInv
<1>1. ASSUME NEW t \in Tasks, Retire(t), ~cancelled[v]
      PROVE  \E u \in Tasks \ {v} : Culprit(v, u)'
  <2>1. v \in Siblings(t) /\ uncaught[t] # None /\ UNCHANGED <<nid, outcome>>
    BY <1>0, <1>1 DEF Retire, FlatOK, History
  <2>2. uncaught[t] = "effect"
    BY <1>0, <2>1 DEF FlatOK
  <2>3. outcome[t] = "effect"
    BY <2>2 DEF LifeInv
  <2>4. t # v /\ nid[t] = nid[v] /\ nid[v] # 0
    BY <2>1 DEF Siblings
  <2> QED
    BY <2>1, <2>3, <2>4 DEF Culprit
<1>2. ASSUME ~ \E t \in Tasks : Retire(t) PROVE UNCHANGED cancelled
  BY <1>2 DEF Next, Body, Spawn, Await, NurseryBegin, NurseryEnd, Escape, Sleep, Recv, Throw,
     Effect, Return, TakeResult, Resume, JoinNext, NurseryLeave, SleepEnd, RecvEnd, Catch,
     Uncaught, StartTask, Publish, Drain, DrainWake, DrainReport, Exited, Record, vars
<1>3. ASSUME cancelled[v], NEW u \in Tasks \ {v}, Culprit(v, u)
      PROVE  Culprit(v, u)'
  <2>0. pc[v] # "none" /\ pc[u] \notin {"none", "run"}
    BY <1>3 DEF LifeInv, Culprit
  <2> USE <1>0, <1>3, <2>0, ThreadFacts DEF FlatOK, Culprit
  <2>1. ASSUME NEW p \in Threads, Spawn(p) PROVE Culprit(v, u)'
    <3>1. /\ NewTask \in Tasks /\ pc[NewTask] = "none" /\ UNCHANGED outcome
          /\ nid' = [nid EXCEPT ![NewTask] = tls[p]]
      BY <2>1, Fresh DEF Spawn
    <3> QED
      BY <3>1
  <2>2. ASSUME NEW p \in Threads, Await(p) PROVE Culprit(v, u)'
    BY <2>2 DEF Await, Running, WaitFor, Goto, Record, Nursery, History
  <2>3. ASSUME NEW p \in Threads, NurseryBegin(p) PROVE Culprit(v, u)'
    BY <2>3 DEF NurseryBegin, Running, Record, History
  <2>4. ASSUME NEW p \in Threads, NurseryEnd(p) PROVE Culprit(v, u)'
    BY <2>4 DEF NurseryEnd, Running, Goto, Record, Nursery, History
  <2>5. ASSUME NEW p \in Threads, Escape(p) PROVE Culprit(v, u)'
    BY <2>5 DEF Escape, Running, Record, History
  <2>6. ASSUME NEW p \in Threads, Sleep(p) PROVE Culprit(v, u)'
    BY <2>6 DEF Sleep, Running, Goto, Record, Nursery, History
  <2>7. ASSUME NEW p \in Threads, Recv(p) PROVE Culprit(v, u)'
    BY <2>7 DEF Recv, Running, Goto, Record, Nursery, History
  <2>8. ASSUME NEW p \in Threads, Throw(p) PROVE Culprit(v, u)'
    BY <2>8 DEF Throw, Running, Record, Nursery, History
  <2>9. ASSUME NEW p \in Threads, Effect(p) PROVE Culprit(v, u)'
    BY <2>9 DEF Effect, Running, Goto, Record, Nursery
  <2>10. ASSUME NEW p \in Threads, Return(p) PROVE Culprit(v, u)'
    <3>1. /\ pc[p] = "run" /\ UNCHANGED Record
          /\ UNCHANGED outcome \/ outcome' = [outcome EXCEPT ![p] = "ok"]
      BY <2>10, Zenon DEF Return, Running
    <3> QED
      BY <3>1 DEF Record
  <2>11. ASSUME NEW p \in Threads, TakeResult(p) PROVE Culprit(v, u)'
    BY <2>11 DEF TakeResult, ClearError, Goto, Nursery
  <2>12. ASSUME NEW p \in Threads, Resume(p) PROVE Culprit(v, u)'
    BY <2>12 DEF Resume, TakeGil, Goto, Record, Nursery, History
  <2>13. ASSUME NEW p \in Threads, JoinNext(p) PROVE Culprit(v, u)'
    BY <2>13 DEF JoinNext, WaitFor, Goto, Record, Nursery, History
  <2>14. ASSUME NEW p \in Threads, NurseryLeave(p) PROVE Culprit(v, u)'
    BY <2>14 DEF NurseryLeave, Goto, Record, History
  <2>15. ASSUME NEW p \in Threads, SleepEnd(p) PROVE Culprit(v, u)'
    BY <2>15 DEF SleepEnd, TakeGil, Goto, Record, Nursery, History
  <2>16. ASSUME NEW p \in Threads, RecvEnd(p) PROVE Culprit(v, u)'
    BY <2>16 DEF RecvEnd, TakeGil, Goto, Record, Nursery, History
  <2>17. ASSUME NEW p \in Threads, Catch(p) PROVE Culprit(v, u)'
    BY <2>17 DEF Catch, Record, History
  <2>18. ASSUME NEW p \in Threads, Uncaught(p) PROVE Culprit(v, u)'
    BY <2>18 DEF Uncaught, Goto, Record, Nursery
  <2>19. ASSUME NEW t \in Tasks, StartTask(t) PROVE Culprit(v, u)'
    BY <2>19 DEF StartTask, TakeGil, Goto, Record, History
  <2>20. ASSUME NEW t \in Tasks, Publish(t) PROVE Culprit(v, u)'
    BY <2>20 DEF Publish, Goto, Nursery, History
  <2>21. ASSUME NEW t \in Tasks, Retire(t) PROVE Culprit(v, u)'
    BY <2>21 DEF Retire, Goto, Nursery, History
  <2>22. ASSUME Drain PROVE Culprit(v, u)'
    BY <2>22 DEF Drain, Goto, Record, Nursery, History
  <2>23. ASSUME DrainWake PROVE Culprit(v, u)'
    BY <2>23 DEF DrainWake, TakeGil, Goto, Record, Nursery, History
  <2>24. ASSUME DrainReport PROVE Culprit(v, u)'
    BY <2>24 DEF DrainReport, Goto, Nursery
  <2>25. ASSUME Exited PROVE Culprit(v, u)'
    BY <2>25 DEF Exited, vars
  <2>26. CASE UNCHANGED vars
    BY <2>26 DEF vars
  <2> QED
    BY <2>1, <2>2, <2>3, <2>4, <2>5, <2>6, <2>7, <2>8, <2>9, <2>10, <2>11, <2>12, <2>13, <2>14,
       <2>15, <2>16, <2>17, <2>18, <2>19, <2>20, <2>21, <2>22, <2>23, <2>24, <2>25, <2>26 DEF Next,
       Body
<1>4. CASE cancelled[v]
  <2>1. PICK u \in Tasks \ {v} : Culprit(v, u)
    BY <1>4 DEF CancelledBySibling, Culprit
  <2> QED
    BY <1>3, <1>4, <2>1
<1>5. CASE ~cancelled[v]
  BY <1>1, <1>2, <1>5
<1> QED
  BY <1>4, <1>5

-----------------------------------------------------------------------------
(* Joins. *)

Kids(s) == {s[i] : i \in 1..Len(s)}

LEMMA KidsProperties ==
  /\ Kids(<<>>) = {}
  /\ \A s \in Seq(Tasks), t \in Tasks : Kids(Append(s, t)) = Kids(s) \cup {t}
  /\ \A s \in Seq(Tasks) : s # <<>> => Kids(s) \subseteq {Head(s)} \cup Kids(Tail(s))
<1>1. Kids(<<>>) = {}
  BY DEF Kids
<1>2. ASSUME NEW s \in Seq(Tasks), NEW t \in Tasks
      PROVE  Kids(Append(s, t)) = Kids(s) \cup {t}
  <2>1. /\ Len(s) \in Nat /\ Len(Append(s, t)) = Len(s) + 1
        /\ \A i \in 1..Len(s) : Append(s, t)[i] = s[i]
        /\ Append(s, t)[Len(s) + 1] = t
    BY AppendProperties, LenProperties
  <2> QED
    BY <2>1 DEF Kids
<1>3. ASSUME NEW s \in Seq(Tasks), s # <<>>, NEW i \in 1..Len(s)
      PROVE  s[i] \in {Head(s)} \cup Kids(Tail(s))
  <2>1. Len(s) \in Nat /\ Head(s) = s[1] /\ Len(Tail(s)) = Len(s) - 1
    BY <1>3, LenProperties, HeadTailProperties
  <2>2. CASE i # 1
    <3>1. i - 1 \in 1..Len(Tail(s)) /\ Tail(s)[i - 1] = s[i]
      BY <1>3, <2>1, <2>2, HeadTailProperties
    <3> QED
      BY <3>1 DEF Kids
  <2> QED
    BY <2>1, <2>2
<1> QED
  BY <1>1, <1>2, <1>3 DEF Kids

(* Where no block was escaped from, the frames of the VM hold exactly the  *)
(* tasks the open blocks spawned; a join waits for the first task of its   *)
(* list, and every task of the block is done or still on the list.         *)
FramesAgree(p) ==
  Len(block[p]) = Len(stack[p]) =>
    \A i \in 1..Len(block[p]) : block[p][i] = Kids(stack[p][i].kids)
AwaitsHead(p) == pc[p] \in {"wait", "took"} /\ join[p] # <<>> => target[p] = Head(join[p])
Remembers(p) ==
  pc[p] = "join" \/ join[p] # <<>> =>
    \A t \in Kids(Last(stack[p]).kids) : done[t] \/ t \in Kids(join[p])

AgreeInv == \A p \in Threads : FramesAgree(p) /\ AwaitsHead(p) /\ Remembers(p)

LEMMA DoneGrows ==
  ASSUME FlatOK, [Next]_vars, NEW t \in Tasks, done[t]
  PROVE  done'[t]
<1>1. ASSUME NEW u \in Tasks, Publish(u) PROVE done'[t]
  BY <1>1 DEF Publish, FlatOK
<1>2. ASSUME ~ \E u \in Tasks : Publish(u) PROVE UNCHANGED done
  BY <1>2 DEF Next, Body, Spawn, Await, NurseryBegin, NurseryEnd, Escape, Sleep, Recv, Throw,
     Effect, Return, TakeResult, Resume, JoinNext, NurseryLeave, SleepEnd, RecvEnd, Catch,
     Uncaught, StartTask, Retire, Drain, DrainWake, DrainReport, Exited, Record, vars
<1> QED
  BY <1>1, <1>2

(* A step of another thread, or one that changes nothing the join of q is  *)
(* about.                                                                  *)
LEMMA AgreeKept ==
  ASSUME TypeInv, [Next]_vars, NEW q \in Threads, FramesAgree(q), AwaitsHead(q), Remembers(q),
         UNCHANGED <<stack[q], block[q], join[q], pc[q], target[q]>>
  PROVE  (FramesAgree(q) /\ AwaitsHead(q) /\ Remembers(q))'
<1>1. FramesAgree(q)' /\ AwaitsHead(q)'
  BY DEF FramesAgree, AwaitsHead
<1>2. ASSUME pc[q] = "join" \/ join[q] # <<>>, NEW t \in Kids(Last(stack[q]).kids)
      PROVE  done'[t] \/ t \in Kids(join[q])
  <2>0. FlatOK /\ SeqsOK /\ BlockInv
    BY TypeParts DEF TypeInv
  <2>1. stack[q] \in Seq(Frame) /\ stack[q] # <<>>
    BY <1>2, <2>0, EmptySeq, LenProperties DEF SeqsOK, BlockInv
  <2>2. Last(stack[q]) \in Frame
    BY <2>1, LastFrontProperties
  <2>3. Last(stack[q]).kids \in Seq(Tasks)
    BY <2>2 DEF Frame
  <2>4. t \in Tasks
    BY <1>2, <2>3, ElementOfSeq DEF Kids
  <2> QED
    BY <1>2, <2>0, <2>4, DoneGrows DEF Remembers
<1>3. Remembers(q)'
  BY <1>2 DEF Remembers
<1> QED
  BY <1>1, <1>3

(* A step that takes q neither into a join nor on in one. *)
LEMMA AgreeIdle ==
  ASSUME NEW q \in Threads, FramesAgree(q), UNCHANGED <<stack[q], block[q]>>,
         join'[q] = <<>>, pc'[q] # "join"
  PROVE  (FramesAgree(q) /\ AwaitsHead(q) /\ Remembers(q))'
  BY DEF FramesAgree, AwaitsHead, Remembers

LEMMA QuietEffect ==
  ASSUME TypeInv, QuietStep, NEW q \in Threads
  PROVE  \/ UNCHANGED <<pc[q], target[q]>>
         \/ pc[q] \notin {"join", "wait", "took"} /\ pc'[q] # "join"
         \/ JoinNext(q) \/ TakeResult(q)
<1> DEFINE G == \/ UNCHANGED <<pc[q], target[q]>>
                \/ pc[q] \notin {"join", "wait", "took"} /\ pc'[q] # "join"
                \/ JoinNext(q) \/ TakeResult(q)
<1>0. FlatOK
  BY TypeParts DEF TypeInv
<1> USE <1>0, ThreadFacts DEF FlatOK
<1>1. ASSUME NEW p \in Threads, Await(p) PROVE G
  BY <1>1 DEF Await, Running, WaitFor, Goto
<1>2. ASSUME NEW p \in Threads, Sleep(p) PROVE G
  BY <1>2 DEF Sleep, Running, Goto
<1>3. ASSUME NEW p \in Threads, Recv(p) PROVE G
  BY <1>3 DEF Recv, Running, Goto
<1>4. ASSUME NEW p \in Threads, Throw(p) PROVE G
  BY <1>4 DEF Throw, Running
<1>5. ASSUME NEW p \in Threads, Effect(p) PROVE G
  BY <1>5 DEF Effect, Running, Goto
<1>6. ASSUME NEW p \in Threads, Return(p) PROVE G
  <2>1. pc[p] = "run" /\ UNCHANGED target /\ (Goto(p, "publish") \/ Goto(p, "drain"))
    BY <1>6, Zenon DEF Return, Running
  <2> QED
    BY <2>1 DEF Goto
<1>7. ASSUME NEW p \in Threads, TakeResult(p) PROVE G
  BY <1>7 DEF TakeResult, Goto
<1>8. ASSUME NEW p \in Threads, JoinNext(p) PROVE G
  BY <1>8 DEF JoinNext, WaitFor, Goto
<1>9. ASSUME NEW p \in Threads, SleepEnd(p) PROVE G
  BY <1>9 DEF SleepEnd, Goto
<1>10. ASSUME NEW p \in Threads, RecvEnd(p) PROVE G
  BY <1>10 DEF RecvEnd, Goto
<1>11. ASSUME NEW p \in Threads, Uncaught(p) PROVE G
  BY <1>11 DEF Uncaught, Goto
<1>12. ASSUME NEW t \in Tasks, StartTask(t) PROVE G
  BY <1>12 DEF StartTask, Goto
<1>13. ASSUME NEW t \in Tasks, Publish(t) PROVE G
  BY <1>13 DEF Publish, Goto
<1>14. ASSUME NEW t \in Tasks, Retire(t) PROVE G
  BY <1>14 DEF Retire, Goto
<1>15. CASE Drain
  BY <1>15 DEF Drain, Goto
<1>16. CASE DrainWake
  BY <1>16 DEF DrainWake, Goto
<1>17. CASE DrainReport
  BY <1>17 DEF DrainReport, Goto
<1>18. CASE Exited
  BY <1>18 DEF Exited, vars
<1> QED
  BY <1>1, <1>2, <1>3, <1>4, <1>5, <1>6, <1>7, <1>8, <1>9, <1>10, <1>11, <1>12, <1>13, <1>14,
     <1>15, <1>16, <1>17, <1>18 DEF QuietStep

(* Spawning enrols the new task in the frame and in the block. *)
LEMMA SpawnAgrees ==
  ASSUME TypeInv, NEW p \in Threads, Spawn(p), FramesAgree(p)
  PROVE  FramesAgree(p)'
<1>0. FlatOK /\ SeqsOK /\ BlockInv /\ NotYet
  BY TypeParts DEF TypeInv
<1>1. NewTask \in Tasks
  BY <1>0, Fresh
<1> DEFINE S == SUBSET Tasks
           s == stack[p]
           b == block[p]
           e == Enrolled(Last(s), NewTask)
           B == Last(b) \cup {NewTask}
<1>2. s \in Seq(Frame) /\ b \in Seq(S) /\ Len(s) \in Nat /\ Len(b) \in Nat
  BY <1>0, LenProperties DEF SeqsOK
<1>3. CASE s = <<>>
  <2>1. b = <<>>
    BY <1>0, <1>2, <1>3, EmptySeq DEF BlockInv
  <2>2. UNCHANGED block
    BY <2>1 DEF Spawn
  <2>3. Len(block'[p]) = 0
    BY <2>1, <2>2
  <2> QED
    BY <2>3 DEF FramesAgree
<1>4. CASE s # <<>> /\ b = <<>>
  <2>1. UNCHANGED block
    BY <1>4 DEF Spawn
  <2>3. Len(block'[p]) = 0
    BY <1>4, <2>1
  <2> QED
    BY <2>3 DEF FramesAgree
<1>5. CASE s # <<>> /\ b # <<>>
  <2>1. Last(s) \in Frame /\ Last(b) \in S /\ Len(s) # 0 /\ Len(b) # 0
    <3> HIDE DEF S
    <3> QED
      BY <1>2, <1>5, LastFrontProperties, EmptySeq
  <2>2. e \in Frame /\ e.kids = Append(Last(s).kids, NewTask) /\ Last(s).kids \in Seq(Tasks)
    <3>1. Last(s).kids \in Seq(Tasks)
      BY <2>1 DEF Frame
    <3> QED
      BY <1>1, <2>1, <3>1, EnrolledProperties
  <2>3. B \in S
    BY <1>1, <2>1
  <2>4. stack'[p] = SetLast(s, e) /\ block'[p] = SetLast(b, B)
    BY <1>0, <1>5 DEF Spawn, Register, SeqsOK
  <2>5. /\ Len(stack'[p]) = Len(s)
        /\ \A i \in 1..Len(s) : stack'[p][i] = IF i = Len(s) THEN e ELSE s[i]
    <3>1. s \in Seq(Frame) /\ e \in Frame /\ s # <<>> /\ stack'[p] = SetLast(s, e)
      BY <1>2, <1>5, <2>2, <2>4
    <3> HIDE DEF e, s
    <3> QED
      BY <3>1, SetLastProperties
  <2>6. /\ Len(block'[p]) = Len(b)
        /\ \A i \in 1..Len(b) : block'[p][i] = IF i = Len(b) THEN B ELSE b[i]
    <3> HIDE DEF S, B, b
    <3> QED
      BY <1>2, <1>5, <2>3, <2>4, SetLastProperties
  <2>7. Kids(e.kids) = Kids(Last(s).kids) \cup {NewTask}
    <3> HIDE DEF e, s
    <3> QED
      BY <1>1, <2>2, KidsProperties
  <2>8. ASSUME Len(b) = Len(s), NEW i \in 1..Len(b) PROVE block'[p][i] = Kids(stack'[p][i].kids)
    <3>0. b[i] = Kids(s[i].kids)
      BY <2>8 DEF FramesAgree
    <3>1. CASE i # Len(b)
      BY <2>5, <2>6, <2>8, <3>0, <3>1
    <3>2. CASE i = Len(b)
      <4>1. Last(b) = b[i] /\ Last(s) = s[i]
        BY <2>8, <3>2 DEF Last
      <4>2. block'[p][i] = B /\ stack'[p][i] = e
        <5> HIDE DEF B, e
        <5> QED
          BY <2>5, <2>6, <2>8, <3>2
      <4>3. B = Kids(e.kids)
        <5> HIDE DEF e, s, b
        <5> QED
          BY <2>7, <3>0, <4>1
      <4> QED
        BY <4>2, <4>3
    <3> QED
      BY <3>1, <3>2
  <2> QED
    BY <2>5, <2>6, <2>8 DEF FramesAgree
<1> QED
  BY <1>3, <1>4, <1>5

LEMMA AgreeStep == TypeInv /\ GilInv /\ TookInv /\ AgreeInv /\ [Next]_vars => AgreeInv'
<1> SUFFICES ASSUME TypeInv, GilInv, TookInv, AgreeInv, [Next]_vars, NEW q \in Threads
             PROVE  (FramesAgree(q) /\ AwaitsHead(q) /\ Remembers(q))'
  BY DEF AgreeInv
<1> DEFINE G == (FramesAgree(q) /\ AwaitsHead(q) /\ Remembers(q))'
           S == SUBSET Tasks
<1>0. FlatOK /\ SeqsOK /\ BlockInv /\ NotYet
  BY TypeParts DEF TypeInv
<1>a. FramesAgree(q) /\ AwaitsHead(q) /\ Remembers(q)
  BY DEF AgreeInv
<1>b. /\ stack[q] \in Seq(Frame) /\ block[q] \in Seq(S) /\ join[q] \in Seq(Tasks)
      /\ Len(stack[q]) \in Nat /\ Len(block[q]) \in Nat
  BY <1>0, LenProperties DEF SeqsOK
<1>idle. pc[q] \notin {"join", "wait", "took"} => join[q] = <<>>
  BY <1>0 DEF BlockInv
<1>1. ASSUME NEW p \in Threads, Spawn(p) PROVE G
  <2>1. /\ NewTask \in Tasks /\ pc[NewTask] = "none" /\ pc[p] = "run"
        /\ pc' = [pc EXCEPT ![NewTask] = "new"] /\ UNCHANGED <<join, target>>
    BY <1>0, <1>1, Fresh DEF Spawn, Goto, Running
  <2>2. CASE q = p
    <3>1. join'[q] = <<>> /\ pc'[q] = "run"
      BY <1>0, <1>idle, <2>1, <2>2 DEF FlatOK
    <3>2. FramesAgree(q)'
      BY <1>1, <1>a, <2>2, SpawnAgrees
    <3> QED
      BY <3>1, <3>2 DEF AwaitsHead, Remembers
  <2>3. CASE q # p
    <3>1. UNCHANGED <<stack[q], block[q]>>
      BY <1>0, <1>1, <2>3 DEF Spawn, Register, SeqsOK
    <3>2. CASE q = NewTask
      <4>1. join'[q] = <<>> /\ pc'[q] = "new"
        BY <1>0, <1>idle, <2>1, <3>2, ThreadFacts DEF FlatOK
      <4> QED
        BY <1>a, <3>1, <4>1, AgreeIdle
    <3>3. CASE q # NewTask
      <4>1. UNCHANGED <<stack[q], block[q], join[q], pc[q], target[q]>>
        BY <1>0, <2>1, <3>1, <3>3 DEF FlatOK
      <4> QED
        BY <1>a, <4>1, AgreeKept
    <3> QED
      BY <3>2, <3>3
  <2> QED
    BY <2>2, <2>3
<1>2. ASSUME NEW p \in Threads, NurseryBegin(p) PROVE G
  <2>1. CASE q # p
    <3>1. UNCHANGED <<stack[q], block[q], join[q], pc[q], target[q]>>
      BY <1>0, <1>2, <2>1 DEF NurseryBegin, SeqsOK
    <3> QED
      BY <1>a, <3>1, AgreeKept
  <2>2. CASE q = p
    <3> DEFINE f == [id |-> nurseries + 1, prev |-> tls[p], kids |-> <<>>]
    <3>1. f \in Frame /\ f.kids = <<>> /\ {} \in S
      BY <1>0, <1>2, ThreadFacts DEF FlatOK, NurseryBegin, Frame
    <3>2. stack'[q] = Append(stack[q], f) /\ block'[q] = Append(block[q], {})
      BY <1>0, <1>2, <2>2 DEF NurseryBegin, SeqsOK
    <3>3. /\ Len(stack'[q]) = Len(stack[q]) + 1
          /\ \A i \in 1..Len(stack[q]) : stack'[q][i] = stack[q][i]
          /\ stack'[q][Len(stack[q]) + 1] = f
      <4> HIDE DEF f
      <4> QED
        BY <1>b, <3>1, <3>2, AppendProperties
    <3>4. /\ Len(block'[q]) = Len(block[q]) + 1
          /\ \A i \in 1..Len(block[q]) : block'[q][i] = block[q][i]
          /\ block'[q][Len(block[q]) + 1] = {}
      <4>1. block[q] \in Seq(S) /\ {} \in S
        BY <1>b, <3>1
      <4> HIDE DEF S
      <4> QED
        BY <3>2, <4>1, AppendProperties
    <3>5. FramesAgree(q)'
      <4> SUFFICES ASSUME Len(block'[q]) = Len(stack'[q]), NEW i \in 1..Len(block'[q])
                   PROVE  block'[q][i] = Kids(stack'[q][i].kids)
        BY DEF FramesAgree
      <4>1. Len(block[q]) = Len(stack[q])
        BY <1>b, <3>3, <3>4
      <4>2. CASE i = Len(block[q]) + 1
        BY <3>1, <3>3, <3>4, <4>1, <4>2, KidsProperties
      <4>3. CASE i \in 1..Len(block[q])
        BY <1>a, <3>3, <3>4, <4>1, <4>3 DEF FramesAgree
      <4> QED
        BY <1>b, <3>4, <4>2, <4>3
    <3>6. join'[q] = <<>> /\ pc'[q] = "run"
      BY <1>2, <1>idle, <2>2 DEF NurseryBegin, Running
    <3> QED
      BY <3>5, <3>6 DEF AwaitsHead, Remembers
  <2> QED
    BY <2>1, <2>2
<1>3. ASSUME NEW p \in Threads, NurseryEnd(p) PROVE G
  <2>1. UNCHANGED <<stack, block, target>> /\ pc' = [pc EXCEPT ![p] = "join"]
    BY <1>3 DEF NurseryEnd, Nursery, Goto
  <2>2. join' = [join EXCEPT ![p] = Last(stack[p]).kids]
    BY <1>3 DEF NurseryEnd
  <2>3. CASE q # p
    <3>1. UNCHANGED <<stack[q], block[q], join[q], pc[q], target[q]>>
      BY <1>0, <2>1, <2>2, <2>3 DEF SeqsOK, FlatOK
    <3> QED
      BY <1>a, <3>1, AgreeKept
  <2>4. CASE q = p
    <3>1. join'[q] = Last(stack[q]).kids /\ pc'[q] = "join" /\ UNCHANGED <<stack, block>>
      BY <1>0, <2>1, <2>2, <2>4 DEF SeqsOK, FlatOK
    <3> QED
      BY <1>a, <3>1 DEF FramesAgree, AwaitsHead, Remembers
  <2> QED
    BY <2>3, <2>4
<1>4. ASSUME NEW p \in Threads, Escape(p) PROVE G
  <2>1. PICK n \in 0..Len(block[p]) - 1 : block' = [block EXCEPT ![p] = SubSeq(@, 1, n)]
    BY <1>4 DEF Escape
  <2>2. CASE q # p
    <3>1. UNCHANGED <<stack[q], block[q], join[q], pc[q], target[q]>>
      BY <1>0, <1>4, <2>1, <2>2 DEF Escape, SeqsOK
    <3> QED
      BY <1>a, <3>1, AgreeKept
  <2>3. CASE q = p
    <3>1. n \in 0..Len(block[q]) /\ block'[q] = SubSeq(block[q], 1, n) /\ n < Len(block[q])
      BY <1>0, <1>b, <2>1, <2>3 DEF SeqsOK
    <3>2. Len(block'[q]) = n
      <4>1. block[q] \in Seq(S)
        BY <1>b
      <4> HIDE DEF S
      <4> QED
        BY <3>1, <4>1, PrefixProperties
    <3>3. UNCHANGED stack /\ join'[q] = <<>> /\ pc'[q] = "run"
      BY <1>4, <1>idle, <2>3 DEF Escape, Running
    <3>4. Len(block[q]) <= Len(stack[q])
      BY <1>0 DEF BlockInv
    <3>5. Len(block'[q]) # Len(stack'[q])
      BY <1>b, <3>1, <3>2, <3>3, <3>4
    <3> QED
      BY <3>3, <3>5 DEF FramesAgree, AwaitsHead, Remembers
  <2> QED
    BY <2>2, <2>3
<1>5. ASSUME NEW p \in Threads, Resume(p) PROVE G
  <2>1. CASE q # p
    <3>1. UNCHANGED <<stack[q], block[q], join[q], pc[q], target[q]>>
      BY <1>0, <1>5, <2>1 DEF Resume, Nursery, Goto, FlatOK, SeqsOK
    <3> QED
      BY <1>a, <3>1, AgreeKept
  <2>2. CASE q = p /\ join[q] # <<>>
    <3>1. /\ UNCHANGED <<stack, block, done>> /\ join'[q] = Tail(join[q]) /\ pc'[q] = "join"
      BY <1>0, <1>5, <2>2 DEF Resume, Nursery, Record, Goto, FlatOK, SeqsOK
    <3>2. pc[q] = "took"
      BY <1>5, <2>2 DEF Resume
    <3>3. done[Head(join[q])]
      BY <1>a, <2>2, <3>2 DEF AwaitsHead, TookInv
    <3>4. Kids(join[q]) \subseteq {Head(join[q])} \cup Kids(Tail(join[q]))
      BY <1>b, <2>2, KidsProperties
    <3>5. \A t \in Kids(Last(stack[q]).kids) : done[t] \/ t \in Kids(Tail(join[q]))
      BY <1>a, <2>2, <3>3, <3>4 DEF Remembers
    <3> QED
      BY <1>a, <3>1, <3>5 DEF FramesAgree, AwaitsHead, Remembers
  <2>3. CASE q = p /\ join[q] = <<>>
    <3>1. UNCHANGED <<stack, block, join>> /\ pc'[q] = "run"
      BY <1>0, <1>5, <2>3 DEF Resume, Nursery, Goto, FlatOK
    <3> QED
      BY <1>a, <2>3, <3>1, AgreeIdle
  <2> QED
    BY <2>1, <2>2, <2>3
<1>6. ASSUME NEW p \in Threads, NurseryLeave(p) PROVE G
  <2>1. CASE q # p
    <3>1. UNCHANGED <<stack[q], block[q], join[q], pc[q], target[q]>>
      BY <1>0, <1>6, <2>1 DEF NurseryLeave, Goto, FlatOK, SeqsOK
    <3> QED
      BY <1>a, <3>1, AgreeKept
  <2>2. CASE q = p
    <3>1. /\ stack'[q] = Front(stack[q]) /\ block'[q] = Front(block[q]) /\ pc'[q] = "run"
          /\ join'[q] = <<>> /\ block[q] # <<>>
      BY <1>0, <1>6, <2>2 DEF NurseryLeave, Goto, FlatOK, SeqsOK, BlockInv
    <3>2. stack[q] # <<>>
      BY <1>0, <1>b, <3>1, EmptySeq DEF BlockInv
    <3>3. /\ Len(stack'[q]) = Len(stack[q]) - 1
          /\ \A i \in 1..Len(stack[q]) - 1 : stack'[q][i] = stack[q][i]
      BY <1>b, <3>1, <3>2, LastFrontProperties
    <3>4. /\ Len(block'[q]) = Len(block[q]) - 1
          /\ \A i \in 1..Len(block[q]) - 1 : block'[q][i] = block[q][i]
      <4>1. block[q] \in Seq(S)
        BY <1>b
      <4> HIDE DEF S
      <4> QED
        BY <3>1, <4>1, LastFrontProperties
    <3>5. FramesAgree(q)'
      <4> SUFFICES ASSUME Len(block'[q]) = Len(stack'[q]), NEW i \in 1..Len(block'[q])
                   PROVE  block'[q][i] = Kids(stack'[q][i].kids)
        BY DEF FramesAgree
      <4>1. Len(block[q]) = Len(stack[q])
        BY <1>b, <3>3, <3>4
      <4>2. i \in 1..Len(block[q]) /\ i \in 1..Len(block[q]) - 1
        BY <1>b, <3>4
      <4> QED
        BY <1>a, <3>3, <3>4, <4>1, <4>2 DEF FramesAgree
    <3> QED
      BY <3>1, <3>5 DEF AwaitsHead, Remembers
  <2> QED
    BY <2>1, <2>2
<1>7. ASSUME NEW p \in Threads, Catch(p) PROVE G
  <2>1. PICK n \in 0..Len(block[p]) : block' = [block EXCEPT ![p] = SubSeq(@, 1, n)]
    BY <1>7 DEF Catch
  <2>2. CASE q # p
    <3>1. UNCHANGED <<stack[q], block[q], join[q], pc[q], target[q]>>
      BY <1>0, <1>7, <2>1, <2>2 DEF Catch, SeqsOK
    <3> QED
      BY <1>a, <3>1, AgreeKept
  <2>3. CASE q = p
    <3>1. n \in 0..Len(block[q]) /\ block'[q] = SubSeq(block[q], 1, n)
      BY <1>0, <1>b, <2>1, <2>3 DEF SeqsOK
    <3>2. Len(block'[q]) = n /\ \A i \in 1..n : block'[q][i] = block[q][i]
      <4>1. block[q] \in Seq(S)
        BY <1>b
      <4> HIDE DEF S
      <4> QED
        BY <3>1, <4>1, PrefixProperties
    <3>3. UNCHANGED stack /\ join'[q] = <<>> /\ pc'[q] = "run"
      BY <1>7, <1>idle, <2>3 DEF Catch
    <3>4. Len(block[q]) <= Len(stack[q])
      BY <1>0 DEF BlockInv
    <3>5. FramesAgree(q)'
      <4> SUFFICES ASSUME Len(block'[q]) = Len(stack'[q]), NEW i \in 1..Len(block'[q])
                   PROVE  block'[q][i] = Kids(stack'[q][i].kids)
        BY DEF FramesAgree
      <4>1. n = Len(block[q]) /\ Len(block[q]) = Len(stack[q])
        BY <1>b, <3>1, <3>2, <3>3, <3>4
      <4> QED
        BY <1>a, <3>2, <3>3, <4>1 DEF FramesAgree
    <3> QED
      BY <3>3, <3>5 DEF AwaitsHead, Remembers
  <2> QED
    BY <2>2, <2>3
<1>8. CASE QuietStep
  <2>1. UNCHANGED <<stack, block, join>>
    BY <1>8, QuietKeepsBlocks
  <2>2. CASE UNCHANGED <<pc[q], target[q]>>
    BY <1>a, <2>1, <2>2, AgreeKept
  <2>3. CASE pc[q] \notin {"join", "wait", "took"} /\ pc'[q] # "join"
    <3>1. join'[q] = <<>>
      BY <1>idle, <2>1, <2>3
    <3> QED
      BY <1>a, <2>1, <2>3, <3>1, AgreeIdle
  <2>4. CASE JoinNext(q)
    <3>1. /\ pc[q] = "join" /\ join[q] # <<>> /\ pc'[q] = "wait" /\ target'[q] = Head(join[q])
          /\ UNCHANGED done
      BY <1>0, <2>4 DEF JoinNext, WaitFor, Goto, Record, FlatOK
    <3> QED
      BY <1>a, <2>1, <3>1 DEF FramesAgree, AwaitsHead, Remembers
  <2>5. CASE TakeResult(q)
    <3>1. pc[q] = "wait" /\ pc'[q] = "took" /\ UNCHANGED <<target, done>>
      BY <1>0, <2>5 DEF TakeResult, Goto, FlatOK
    <3> QED
      BY <1>a, <2>1, <3>1 DEF FramesAgree, AwaitsHead, Remembers
  <2> QED
    BY <1>8, <2>2, <2>3, <2>4, <2>5, QuietEffect
<1>9. CASE UNCHANGED vars
  BY <1>9, <1>a, AgreeKept DEF vars
<1> QED
  BY <1>1, <1>2, <1>3, <1>4, <1>5, <1>6, <1>7, <1>8, <1>9, StepCases

(* Only OP_NURSERY_END leads past the end of a block, with nothing left to *)
(* await.                                                                  *)
LEMMA PastEndIsLeave ==
  ASSUME TypeInv, [Next]_vars, NEW q \in Threads, PastEnd(q)
  PROVE  join[q] = <<>>
<1>0. FlatOK /\ NotYet
  BY TypeParts DEF TypeInv
<1>a. pc[q] = "join" /\ pc'[q] = "run"
  BY DEF PastEnd
<1> USE <1>0, <1>a, ThreadFacts DEF FlatOK
<1>1. ASSUME NEW p \in Threads, Spawn(p) PROVE join[q] = <<>>
  <2>1. NewTask \in Tasks /\ pc[NewTask] = "none" /\ pc' = [pc EXCEPT ![NewTask] = "new"]
    BY <1>1, Fresh DEF Spawn, Goto
  <2> QED
    BY <1>1, <2>1 DEF Spawn
<1>2. ASSUME NEW p \in Threads, Await(p) PROVE join[q] = <<>>
  BY <1>2 DEF Await, Running, WaitFor, Goto
<1>3. ASSUME NEW p \in Threads, NurseryBegin(p) PROVE join[q] = <<>>
  BY <1>3 DEF NurseryBegin, Running
<1>4. ASSUME NEW p \in Threads, NurseryEnd(p) PROVE join[q] = <<>>
  BY <1>4 DEF NurseryEnd, Running, Goto
<1>5. ASSUME NEW p \in Threads, Escape(p) PROVE join[q] = <<>>
  BY <1>5 DEF Escape, Running
<1>6. ASSUME NEW p \in Threads, Sleep(p) PROVE join[q] = <<>>
  BY <1>6 DEF Sleep, Running, Goto
<1>7. ASSUME NEW p \in Threads, Recv(p) PROVE join[q] = <<>>
  BY <1>7 DEF Recv, Running, Goto
<1>8. ASSUME NEW p \in Threads, Throw(p) PROVE join[q] = <<>>
  BY <1>8 DEF Throw, Running
<1>9. ASSUME NEW p \in Threads, Effect(p) PROVE join[q] = <<>>
  BY <1>9 DEF Effect, Running, Goto
<1>10. ASSUME NEW p \in Threads, Return(p) PROVE join[q] = <<>>
  BY <1>10 DEF Return, Running, Goto
<1>11. ASSUME NEW p \in Threads, TakeResult(p) PROVE join[q] = <<>>
  BY <1>11 DEF TakeResult, Goto
<1>12. ASSUME NEW p \in Threads, Resume(p) PROVE join[q] = <<>>
  BY <1>12 DEF Resume, TakeGil, Goto
<1>13. ASSUME NEW p \in Threads, JoinNext(p) PROVE join[q] = <<>>
  BY <1>13 DEF JoinNext, WaitFor, Goto
<1>14. ASSUME NEW p \in Threads, NurseryLeave(p) PROVE join[q] = <<>>
  BY <1>14 DEF NurseryLeave, Goto
<1>15. ASSUME NEW p \in Threads, SleepEnd(p) PROVE join[q] = <<>>
  BY <1>15 DEF SleepEnd, TakeGil, Goto
<1>16. ASSUME NEW p \in Threads, RecvEnd(p) PROVE join[q] = <<>>
  BY <1>16 DEF RecvEnd, TakeGil, Goto
<1>17. ASSUME NEW p \in Threads, Catch(p) PROVE join[q] = <<>>
  BY <1>17 DEF Catch
<1>18. ASSUME NEW p \in Threads, Uncaught(p) PROVE join[q] = <<>>
  BY <1>18 DEF Uncaught, Goto
<1>19. ASSUME NEW t \in Tasks, StartTask(t) PROVE join[q] = <<>>
  BY <1>19 DEF StartTask, TakeGil, Goto
<1>20. ASSUME NEW t \in Tasks, Publish(t) PROVE join[q] = <<>>
  BY <1>20 DEF Publish, Goto
<1>21. ASSUME NEW t \in Tasks, Retire(t) PROVE join[q] = <<>>
  BY <1>21 DEF Retire, Goto
<1>22. ASSUME Drain PROVE join[q] = <<>>
  BY <1>22 DEF Drain, Goto
<1>23. ASSUME DrainWake PROVE join[q] = <<>>
  BY <1>23 DEF DrainWake, TakeGil, Goto
<1>24. ASSUME DrainReport PROVE join[q] = <<>>
  BY <1>24 DEF DrainReport, Goto
<1>25. ASSUME Exited PROVE join[q] = <<>>
  BY <1>25 DEF Exited, vars
<1>26. CASE UNCHANGED vars
  BY <1>26 DEF vars
<1> QED
  BY <1>1, <1>2, <1>3, <1>4, <1>5, <1>6, <1>7, <1>8, <1>9, <1>10, <1>11, <1>12, <1>13, <1>14,
     <1>15, <1>16, <1>17, <1>18, <1>19, <1>20, <1>21, <1>22, <1>23, <1>24, <1>25, <1>26 DEF Next,
     Body
-----------------------------------------------------------------------------
(* The inductive invariant, and what follows from it. *)

Inv ==
  /\ TypeInv
  /\ GilInv /\ PlaceInv /\ TookInv /\ LifeInv
  /\ ExitInv /\ ErrorInv /\ CancelledBySibling
  /\ AgreeInv

LEMMA InvInit == Init => Inv
<1> SUFFICES ASSUME Init PROVE Inv
  OBVIOUS
<1>1. TypeInv
  BY TypeInit
<1>2. GilInv /\ PlaceInv /\ TookInv /\ ExitInv /\ CancelledBySibling
  BY ThreadFacts DEF Init, GilInv, Holding, PlaceInv, TookInv, ExitInv, CancelledBySibling
<1>3. LifeInv
  <2>1. \A t \in Tasks : t > 0
    BY DEF Tasks
  <2> QED
    BY <2>1, ThreadFacts, VMTasksAssumption DEF Init, LifeInv
<1>4. ErrorInv
  BY ThreadFacts DEF Init, ErrorInv, Accounted
<1>5. AgreeInv
  <2>1. Kids(<<>>) = {}
    BY KidsProperties
  <2> QED
    BY <2>1, ThreadFacts DEF Init, AgreeInv, FramesAgree, AwaitsHead, Remembers
<1> QED
  BY <1>1, <1>2, <1>3, <1>4, <1>5 DEF Inv

LEMMA InvStep == Inv /\ [Next]_vars => Inv'
  BY TypeStep, GilStep, PlaceStep, TookStep, LifeStep, ExitStep, ErrorStep, CancelStep,
     AgreeStep
     DEF Inv

LEMMA VMInvariant == Spec => []Inv
  BY InvInit, InvStep, PTL DEF Spec

(* An error that a task captured is taken exactly once, by an await, a     *)
(* join or the drain.                                                      *)
THEOREM VMErrorTakenOnce == Spec => []ErrorTakenOnce
<1>1. Inv => ErrorTakenOnce
  BY DEF Inv, TypeInv, ErrorInv, Accounted, ErrorTakenOnce
<1> QED
  BY <1>1, VMInvariant, PTL

(* vm_drain_tasks leaves no thread behind. *)
THEOREM VMDrainLeavesNobody == Spec => []DrainLeavesNobody
<1>1. ASSUME Inv PROVE DrainLeavesNobody
  <2>1. spawned \in Nat /\ \A t \in Tasks : t \in Nat
    BY <1>1, TypeParts DEF Inv, TypeInv, FlatOK, Tasks
  <2>2. \A t \in Tasks : t <= spawned => pc[t] # "none"
    BY <1>1, <2>1 DEF Inv, LifeInv
  <2> QED
    BY <1>1, <2>2 DEF Inv, ExitInv, LifeInv, DrainLeavesNobody
<1> QED
  BY <1>1, VMInvariant, PTL

(* Only a failed sibling of the same nursery cancels a task. *)
THEOREM VMCancelledBySibling == Spec => []CancelledBySibling
<1>1. Inv => CancelledBySibling
  BY DEF Inv
<1> QED
  BY <1>1, VMInvariant, PTL

(* Whoever goes past the end of a nursery block has seen every task the    *)
(* block spawned finish.                                                   *)
THEOREM VMNurseryJoinsChildren == Spec => NurseryJoinsChildren
<1> DEFINE Joined == \A p \in Threads : PastEnd(p) /\ Len(stack[p]) = Len(block[p]) =>
                       \A t \in Last(block[p]) : done[t]
<1>1. ASSUME Inv, [Next]_vars PROVE Joined
  <2> SUFFICES ASSUME NEW p \in Threads, PastEnd(p), Len(stack[p]) = Len(block[p]),
                      NEW t \in Last(block[p])
               PROVE  done[t]
    OBVIOUS
  <2>0. SeqsOK /\ BlockInv /\ AgreeInv
    BY <1>1, TypeParts DEF Inv, TypeInv
  <2>1. join[p] = <<>> /\ pc[p] = "join"
    BY <1>1, PastEndIsLeave DEF Inv, PastEnd
  <2>2. block[p] # <<>> /\ block[p] \in Seq(SUBSET Tasks)
    BY <2>0, <2>1 DEF BlockInv, SeqsOK
  <2>3. Len(block[p]) \in 1..Len(block[p])
    BY <2>2, EmptySeq, LenProperties
  <2>4. Last(block[p]) = Kids(Last(stack[p]).kids)
    BY <2>0, <2>3 DEF AgreeInv, FramesAgree, Last
  <2>5. Kids(join[p]) = {}
    BY <2>1, KidsProperties
  <2> QED
    BY <2>0, <2>1, <2>4, <2>5 DEF AgreeInv, Remembers
<1>2. Inv /\ [Next]_vars => [Joined]_vars
  BY <1>1
<1>3. Spec => [][Joined]_vars
  BY <1>2, VMInvariant, PTL DEF Spec
<1> QED
  BY <1>3 DEF NurseryJoinsChildren

=============================================================================
