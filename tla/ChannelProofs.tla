---------------------------- MODULE ChannelProofs ----------------------------
(***************************************************************************)
(* Proofs about Channel, for any number of threads, any messages and any   *)
(* capacity.                                                               *)
(***************************************************************************)
EXTENDS Channel, TLAPS

(* A thread inside a send carries a message that may be sent: what Push    *)
(* appends.                                                                *)
Sending == {"send_lock", "send_in", "send_wait", "usend_lock", "usend_in"}

SendersCarryMsgs == \A t \in Threads : pc[t] \in Sending => val[t] \in Msgs

(* The send that keeps the GIL is taken on an unbounded channel only. *)
UnboundedPath ==
  \A t \in Threads : pc[t] \in {"usend_lock", "usend_in"} => Cap = 0

TypeInv == TypeOK /\ SendersCarryMsgs

-----------------------------------------------------------------------------
(* The type invariant. *)

LEMMA TypeInit == Init => TypeInv
<1> SUFFICES ASSUME Init PROVE TypeInv
  OBVIOUS
<1>1. buf \in Seq(Msgs)
  BY DEF Init
<1>4. closed \in BOOLEAN
  BY Zenon DEF Init
<1>2. /\ cancelled \in [Threads -> BOOLEAN]
      /\ ok \in [Threads -> BOOLEAN]
  BY DEF Init
<1>3. /\ gil \in Threads \cup {NoOne} /\ mu \in Threads \cup {NoOne}
      /\ pc \in [Threads -> {"run", "acq"}]
      /\ kind \in [Threads -> {"recv", "pair"}]
      /\ val \in [Threads -> Msgs \cup {Null}]
      /\ res \in [Threads -> Results]
  BY DEF Init, Results
<1> QED
  BY <1>1, <1>2, <1>3, <1>4 DEF TypeInv, TypeOK, SendersCarryMsgs, Sending, PCs

LEMMA TypeStep == TypeInv /\ [Next]_vars => TypeInv'
<1> SUFFICES ASSUME TypeInv, [Next]_vars PROVE TypeInv'
  OBVIOUS
<1> USE ChannelAssumption DEF TypeInv, TypeOK, SendersCarryMsgs, Sending, PCs, Results
<1>1. ASSUME NEW t \in Threads, AcquireGil(t) PROVE TypeInv'
  BY <1>1 DEF AcquireGil, Goto
<1>2. ASSUME NEW t \in Threads, LockMu(t) PROVE TypeInv'
  BY <1>2 DEF LockMu, Goto, LockSteps
<1>3. ASSUME NEW t \in Threads, TimedOut(t) PROVE TypeInv'
  BY <1>3 DEF TimedOut, Goto
<1>4. ASSUME NEW t \in Threads, SpuriousWake(t) PROVE TypeInv'
  BY <1>4 DEF SpuriousWake, Goto
<1>5. ASSUME NEW t \in Threads, SendBlock(t) PROVE TypeInv'
  BY <1>5 DEF SendBlock, UnlockMu, Goto
<1>6. ASSUME NEW t \in Threads, SendClosed(t) PROVE TypeInv'
  BY <1>6 DEF SendClosed, UnlockMu, Goto
<1>7. ASSUME NEW t \in Threads, SendPush(t) PROVE TypeInv'
  BY <1>7 DEF SendPush, UnlockMu, BroadcastGoto, Woken, Push
<1>8. ASSUME NEW t \in Threads, SendUnbounded(t) PROVE TypeInv'
  <2>1. CASE Refuse
    BY <1>8, <2>1 DEF SendUnbounded, UnlockMu, Goto
  <2>2. CASE ~Refuse
    <3>1. res' \in [Threads -> Results]
      BY <1>8, <2>2 DEF SendUnbounded
    <3>4. buf' \in Seq(Msgs)
      <4>1. buf' = Append(buf, val[t]) /\ val[t] \in Msgs
        BY <1>8, <2>2 DEF SendUnbounded, Push
      <4> QED
        BY <4>1
    <3>2. pc' \in [Threads -> PCs]
      BY <1>8, <2>2 DEF SendUnbounded, BroadcastGoto, Woken
    <3>3. SendersCarryMsgs'
      BY <1>8, <2>2 DEF SendUnbounded, BroadcastGoto, Woken
    <3> QED
      BY <1>8, <3>1, <3>2, <3>3, <3>4 DEF SendUnbounded, UnlockMu
  <2> QED
    BY <2>1, <2>2
<1>9. ASSUME NEW t \in Threads, RecvBlock(t) PROVE TypeInv'
  BY <1>9 DEF RecvBlock, UnlockMu, Goto
<1>10. ASSUME NEW t \in Threads, RecvWoke(t) PROVE TypeInv'
  BY <1>10 DEF RecvWoke, UnlockMu, Goto, AfterRecv
<1>11. ASSUME NEW t \in Threads, RecvDrained(t) PROVE TypeInv'
  BY <1>11 DEF RecvDrained, UnlockMu, Goto, AfterRecv
<1>12. ASSUME NEW t \in Threads, RecvPop(t) PROVE TypeInv'
  BY <1>12 DEF RecvPop, Pop, UnlockMu, BroadcastGoto, Woken, AfterRecv
<1>13. ASSUME NEW t \in Threads, PairClosed(t) PROVE TypeInv'
  BY <1>13 DEF PairClosed, UnlockMu, Goto
<1>14. ASSUME NEW t \in Threads, PairLen(t) PROVE TypeInv'
  BY <1>14 DEF PairLen, PairOk, UnlockMu, Goto
<1>15. ASSUME NEW t \in Threads, TryRecv(t) PROVE TypeInv'
  <2>1. CASE buf = <<>>
    BY <1>15, <2>1 DEF TryRecv, Pop, UnlockMu, Goto
  <2>2. CASE buf # <<>>
    <3>1. Pop(t) /\ BroadcastGoto(t, "run")
      BY <1>15, <2>2 DEF TryRecv
    <3> QED
      BY <1>15, <2>2, <3>1 DEF TryRecv, Pop, UnlockMu, BroadcastGoto, Woken
  <2> QED
    BY <2>1, <2>2
<1>16. ASSUME NEW t \in Threads, CloseChan(t) PROVE TypeInv'
  BY <1>16 DEF CloseChan, UnlockMu, BroadcastGoto, Woken
<1>17. ASSUME NEW t \in Threads, Call(t) PROVE TypeInv'
  <2>1. ASSUME NEW k \in {"recv", "pair"}, NEW v \in Msgs \cup {Null}, Begin(t, k, v)
        PROVE  /\ kind' \in [Threads -> {"recv", "pair"}]
               /\ val' \in [Threads -> Msgs \cup {Null}] /\ val'[t] = v
               /\ \A u \in Threads \ {t} : val'[u] = val[u]
               /\ res' \in [Threads -> Results] /\ ok' \in [Threads -> BOOLEAN]
               /\ UNCHANGED <<mu, buf, closed, cancelled>>
    BY <2>1 DEF Begin
  <2>2. CASE SendCall(t)
    <3>1. PICK v \in Msgs : Begin(t, "recv", v)
      BY <2>2 DEF SendCall
    <3>2. PICK where \in {"send_lock", "usend_lock"} : Goto(t, where)
      BY <2>2 DEF SendCall, ReleaseGil
    <3>3. gil' \in Threads \cup {NoOne}
      BY <2>2 DEF SendCall, ReleaseGil
    <3> QED
      BY <2>1, <3>1, <3>2, <3>3 DEF Goto
  <2>3. CASE RecvCall(t)
    BY <2>1, <2>3 DEF RecvCall, ReleaseGil, Goto
  <2>4. CASE TryCall(t) \/ CloseCall(t) \/ Sleep(t)
    <3>1. Begin(t, "recv", Null)
      BY <2>4 DEF TryCall, CloseCall, Sleep
    <3>2. PICK where \in {"try_lock", "close_lock", "acq"} : Goto(t, where)
      BY <2>4 DEF TryCall, CloseCall, Sleep, ReleaseGil
    <3>3. gil' \in Threads \cup {NoOne}
      BY <2>4 DEF TryCall, CloseCall, Sleep, ReleaseGil
    <3> QED
      BY <2>1, <3>1, <3>2, <3>3 DEF Goto
  <2> QED
    BY <1>17, <2>2, <2>3, <2>4 DEF Call
<1>18. ASSUME NEW t \in Threads, CancelTask(t) PROVE TypeInv'
  BY <1>18 DEF CancelTask
<1>19. CASE UNCHANGED vars
  BY <1>19 DEF vars
<1> QED
  BY <1>1, <1>2, <1>3, <1>4, <1>5, <1>6, <1>7, <1>8, <1>9, <1>10, <1>11, <1>12,
     <1>13, <1>14, <1>15, <1>16, <1>17, <1>18, <1>19
  DEF Next, Critical

(* The state of the channel and of its callers stays well typed. *)
THEOREM ChannelTypeCorrect == Spec => []TypeOK
<1>1. TypeInv => TypeOK
  BY DEF TypeInv
<1> QED
  BY <1>1, TypeInit, TypeStep, PTL DEF Spec

-----------------------------------------------------------------------------
(* Locks: the invariant is inductive as it stands. *)

LEMMA LockInit == Init => LockDiscipline
  BY ChannelAssumption DEF Init, LockDiscipline, UnderGil, InMu

LEMMA LockStep == TypeInv /\ LockDiscipline /\ [Next]_vars => LockDiscipline'
<1> SUFFICES ASSUME TypeInv, LockDiscipline, [Next]_vars PROVE LockDiscipline'
  OBVIOUS
<1> USE ChannelAssumption DEF TypeInv, TypeOK, LockDiscipline, UnderGil, InMu, PCs
<1>1. ASSUME NEW t \in Threads, AcquireGil(t) PROVE LockDiscipline'
  BY <1>1 DEF AcquireGil, Goto
<1>2. ASSUME NEW t \in Threads, LockMu(t) PROVE LockDiscipline'
  BY <1>2 DEF LockMu, Goto, LockSteps
<1>3. ASSUME NEW t \in Threads, TimedOut(t) \/ SpuriousWake(t) PROVE LockDiscipline'
  BY <1>3 DEF TimedOut, SpuriousWake, Goto
<1>4. ASSUME NEW t \in Threads, SendBlock(t) \/ SendClosed(t) PROVE LockDiscipline'
  BY <1>4 DEF SendBlock, SendClosed, UnlockMu, Goto
<1>5. ASSUME NEW t \in Threads, SendPush(t) PROVE LockDiscipline'
  BY <1>5 DEF SendPush, UnlockMu, BroadcastGoto, Woken
<1>6. ASSUME NEW t \in Threads, SendUnbounded(t) PROVE LockDiscipline'
  <2>1. CASE Goto(t, "run")
    BY <1>6, <2>1 DEF SendUnbounded, UnlockMu, Goto
  <2>2. CASE BroadcastGoto(t, "run")
    BY <1>6, <2>2 DEF SendUnbounded, UnlockMu, BroadcastGoto, Woken
  <2> QED
    BY <1>6, <2>1, <2>2 DEF SendUnbounded
<1>7. ASSUME NEW t \in Threads, RecvBlock(t) \/ RecvWoke(t) \/ RecvDrained(t)
      PROVE  LockDiscipline'
  BY <1>7 DEF RecvBlock, RecvWoke, RecvDrained, AfterRecv, UnlockMu, Goto
<1>8. ASSUME NEW t \in Threads, RecvPop(t) PROVE LockDiscipline'
  BY <1>8 DEF RecvPop, AfterRecv, UnlockMu, BroadcastGoto, Woken
<1>9. ASSUME NEW t \in Threads, PairClosed(t) \/ PairLen(t) PROVE LockDiscipline'
  BY <1>9 DEF PairClosed, PairLen, UnlockMu, Goto
<1>10. ASSUME NEW t \in Threads, TryRecv(t) PROVE LockDiscipline'
  <2>1. CASE Goto(t, "run")
    BY <1>10, <2>1 DEF TryRecv, UnlockMu, Goto
  <2>2. CASE BroadcastGoto(t, "run")
    BY <1>10, <2>2 DEF TryRecv, UnlockMu, BroadcastGoto, Woken
  <2> QED
    BY <1>10, <2>1, <2>2 DEF TryRecv
<1>11. ASSUME NEW t \in Threads, CloseChan(t) PROVE LockDiscipline'
  BY <1>11 DEF CloseChan, UnlockMu, BroadcastGoto, Woken
<1>12. ASSUME NEW t \in Threads, Call(t) PROVE LockDiscipline'
  <2>1. pc[t] = "run" /\ mu' = mu
    BY <1>12 DEF Call, SendCall, RecvCall, TryCall, CloseCall, Sleep, Begin
  <2>2. CASE \E where \in {"send_lock", "recv_lock", "acq"} : ReleaseGil(t, where)
    BY <2>1, <2>2 DEF ReleaseGil, Goto
  <2>3. CASE /\ \E where \in {"usend_lock", "try_lock", "close_lock"} : Goto(t, where)
             /\ UNCHANGED gil
    BY <2>1, <2>3 DEF Goto
  <2> QED
    BY <1>12, <2>2, <2>3 DEF Call, SendCall, RecvCall, TryCall, CloseCall, Sleep
<1>13. ASSUME NEW t \in Threads, CancelTask(t) PROVE LockDiscipline'
  BY <1>13 DEF CancelTask
<1>14. CASE UNCHANGED vars
  BY <1>14 DEF vars
<1> QED
  BY <1>1, <1>2, <1>3, <1>4, <1>5, <1>6, <1>7, <1>8, <1>9, <1>10, <1>11, <1>12,
     <1>13, <1>14
  DEF Next, Critical

(* The GIL and the mutex are held exactly where the code believes so, for  *)
(* any number of threads: no caller waits with a lock in its hands.        *)
THEOREM ChannelLocks == Spec => []LockDiscipline
  BY TypeInit, TypeStep, LockInit, LockStep, PTL DEF Spec

-----------------------------------------------------------------------------
(* The buffer and the threads that wait on it. *)

BufInv == UnboundedPath /\ CapacityBound /\ NoLostWakeup

LEMMA BufInit == Init => BufInv
<1> SUFFICES ASSUME Init PROVE BufInv
  OBVIOUS
<1>1. \A t \in Threads : pc[t] \in {"run", "acq"}
  BY DEF Init
<1>2. Len(buf) = 0
  BY DEF Init
<1> QED
  BY <1>1, <1>2, ChannelAssumption DEF BufInv, UnboundedPath, CapacityBound, NoLostWakeup

(* A step that leaves the buffer and the flag alone, and puts no thread to *)
(* sleep or on the unbounded path, cannot disturb the invariant.           *)
LEMMA BufQuiet ==
  ASSUME TypeOK, BufInv, UNCHANGED <<buf, closed>>,
         NEW t \in Threads, NEW where \in PCs, Goto(t, where),
         where \notin {"send_wait", "recv_wait"},
         where \in {"usend_lock", "usend_in"} => Cap = 0
  PROVE  BufInv'
  BY DEF TypeOK, BufInv, UnboundedPath, CapacityBound, NoLostWakeup, Goto

(* A broadcast leaves nobody waiting. *)
LEMMA BroadcastWakesAll ==
  ASSUME TypeOK, BufInv, NEW t \in Threads, NEW where \in PCs, BroadcastGoto(t, where),
         where \notin {"send_wait", "recv_wait", "usend_lock", "usend_in"}
  PROVE  UnboundedPath' /\ NoLostWakeup'
<1>1. \A u \in Threads :
        /\ pc'[u] \notin {"send_wait", "recv_wait"}
        /\ pc'[u] \in {"usend_lock", "usend_in"} => pc[u] = pc'[u]
  BY DEF TypeOK, BroadcastGoto, Woken
<1> QED
  BY <1>1 DEF BufInv, UnboundedPath, NoLostWakeup

LEMMA BufStep == TypeInv /\ BufInv /\ [Next]_vars => BufInv'
<1> SUFFICES ASSUME TypeInv, BufInv, [Next]_vars PROVE BufInv'
  OBVIOUS
<1> USE ChannelAssumption DEF TypeInv, TypeOK, PCs
<1>1. ASSUME NEW t \in Threads, AcquireGil(t) PROVE BufInv'
  BY <1>1, BufQuiet DEF AcquireGil
<1>2. ASSUME NEW t \in Threads, LockMu(t) PROVE BufInv'
  BY <1>2, BufQuiet DEF LockMu, LockSteps, BufInv, UnboundedPath
<1>3. ASSUME NEW t \in Threads, TimedOut(t) \/ SpuriousWake(t) PROVE BufInv'
  BY <1>3, BufQuiet DEF TimedOut, SpuriousWake
<1>4. ASSUME NEW t \in Threads, SendBlock(t) PROVE BufInv'
  BY <1>4 DEF SendBlock, Refuse, Room, Goto, BufInv, UnboundedPath, CapacityBound, NoLostWakeup
<1>5. ASSUME NEW t \in Threads, SendClosed(t) PROVE BufInv'
  BY <1>5, BufQuiet DEF SendClosed
<1>6. ASSUME NEW t \in Threads, SendPush(t) PROVE BufInv'
  <2>1. UnboundedPath' /\ NoLostWakeup'
    BY <1>6, BroadcastWakesAll DEF SendPush
  <2>2. CapacityBound'
    BY <1>6 DEF SendPush, Room, Push, CapacityBound
  <2> QED
    BY <2>1, <2>2 DEF BufInv
<1>7. ASSUME NEW t \in Threads, SendUnbounded(t) PROVE BufInv'
  <2>1. CASE Refuse
    BY <1>7, <2>1, BufQuiet DEF SendUnbounded
  <2>2. CASE ~Refuse
    <3>1. UnboundedPath' /\ NoLostWakeup'
      BY <1>7, <2>2, BroadcastWakesAll DEF SendUnbounded
    <3>2. CapacityBound'
      BY <1>7 DEF SendUnbounded, BufInv, UnboundedPath, CapacityBound
    <3> QED
      BY <3>1, <3>2 DEF BufInv
  <2> QED
    BY <2>1, <2>2
<1>8. ASSUME NEW t \in Threads, RecvBlock(t) PROVE BufInv'
  BY <1>8 DEF RecvBlock, Goto, BufInv, UnboundedPath, CapacityBound, NoLostWakeup
<1>9. ASSUME NEW t \in Threads, RecvWoke(t) \/ RecvDrained(t) PROVE BufInv'
  BY <1>9, BufQuiet DEF RecvWoke, RecvDrained, AfterRecv
<1>10. ASSUME NEW t \in Threads, RecvPop(t) PROVE BufInv'
  <2>1. UnboundedPath' /\ NoLostWakeup'
    BY <1>10, BroadcastWakesAll DEF RecvPop, AfterRecv
  <2>2. CapacityBound'
    BY <1>10 DEF RecvPop, Pop, BufInv, CapacityBound
  <2> QED
    BY <2>1, <2>2 DEF BufInv
<1>11. ASSUME NEW t \in Threads, PairClosed(t) \/ PairLen(t) PROVE BufInv'
  BY <1>11, BufQuiet DEF PairClosed, PairLen
<1>12. ASSUME NEW t \in Threads, TryRecv(t) PROVE BufInv'
  <2>1. CASE buf = <<>>
    BY <1>12, <2>1, BufQuiet DEF TryRecv, Pop
  <2>2. CASE buf # <<>>
    <3>1. Pop(t) /\ BroadcastGoto(t, "run")
      BY <1>12, <2>2 DEF TryRecv
    <3>2. UnboundedPath' /\ NoLostWakeup'
      BY <3>1, BroadcastWakesAll
    <3>3. CapacityBound'
      BY <3>1 DEF Pop, BufInv, CapacityBound
    <3> QED
      BY <3>2, <3>3 DEF BufInv
  <2> QED
    BY <2>1, <2>2
<1>13. ASSUME NEW t \in Threads, CloseChan(t) PROVE BufInv'
  <2>1. UnboundedPath' /\ NoLostWakeup'
    BY <1>13, BroadcastWakesAll DEF CloseChan
  <2>2. CapacityBound'
    BY <1>13 DEF CloseChan, BufInv, CapacityBound
  <2> QED
    BY <2>1, <2>2 DEF BufInv
<1>14. ASSUME NEW t \in Threads, Call(t) PROVE BufInv'
  <2>1. UNCHANGED <<buf, closed>>
    BY <1>14 DEF Call, SendCall, RecvCall, TryCall, CloseCall, Sleep, Begin
  <2>2. \/ \E where \in {"send_lock", "recv_lock", "acq", "try_lock", "close_lock"} : Goto(t, where)
        \/ Cap = 0 /\ Goto(t, "usend_lock")
    BY <1>14 DEF Call, SendCall, RecvCall, TryCall, CloseCall, Sleep, ReleaseGil
  <2> QED
    BY <2>1, <2>2, BufQuiet
<1>15. ASSUME NEW t \in Threads, CancelTask(t) PROVE BufInv'
  BY <1>15 DEF CancelTask, BufInv, UnboundedPath, CapacityBound, NoLostWakeup
<1>16. CASE UNCHANGED vars
  BY <1>16 DEF vars, BufInv, UnboundedPath, CapacityBound, NoLostWakeup
<1> QED
  BY <1>1, <1>2, <1>3, <1>4, <1>5, <1>6, <1>7, <1>8, <1>9, <1>10, <1>11, <1>12,
     <1>13, <1>14, <1>15, <1>16
  DEF Next, Critical

(* However many senders one receive wakes, the buffer never exceeds the    *)
(* capacity.                                                               *)
THEOREM ChannelCapacity == Spec => []CapacityBound
<1>1. BufInv => CapacityBound
  BY DEF BufInv
<1> QED
  BY <1>1, TypeInit, TypeStep, BufInit, BufStep, PTL DEF Spec

(* No thread sleeps on a condition that already holds: every critical      *)
(* section that changes it broadcasts before it unlocks.                   *)
THEOREM ChannelNoLostWakeup == Spec => []NoLostWakeup
<1>1. BufInv => NoLostWakeup
  BY DEF BufInv
<1> QED
  BY <1>1, TypeInit, TypeStep, BufInit, BufStep, PTL DEF Spec

-----------------------------------------------------------------------------
(* What close() promises. *)

LEMMA ClosedStep ==
  TypeInv /\ [Next]_vars => (closed => closed' /\ Len(buf') <= Len(buf))
<1> SUFFICES ASSUME TypeInv, [Next]_vars, closed PROVE closed' /\ Len(buf') <= Len(buf)
  OBVIOUS
<1> USE DEF TypeInv, TypeOK
<1>1. ASSUME UNCHANGED buf PROVE Len(buf') <= Len(buf)
  BY <1>1
<1>2. ASSUME NEW t \in Threads, Critical(t) PROVE closed' /\ Len(buf') <= Len(buf)
  <2>1. CASE TryRecv(t) \/ RecvPop(t)
    <3>1. closed'
      BY <2>1, Zenon DEF TryRecv, RecvPop
    <3>2. buf' = buf \/ (buf # <<>> /\ buf' = Tail(buf))
      BY <2>1 DEF TryRecv, RecvPop, Pop
    <3> QED
      BY <3>1, <3>2
  <2>2. CASE CloseChan(t)
    <3>1. closed'
      BY <2>2, Zenon DEF CloseChan
    <3> QED
      BY <3>1, <2>2, <1>1 DEF CloseChan
  <2>3. CASE SendPush(t) \/ SendUnbounded(t)
    <3>1. UNCHANGED <<buf, closed>>
      BY <2>3 DEF SendPush, SendUnbounded, Refuse
    <3> QED
      BY <3>1, <1>1
  <2>4. CASE \/ SendBlock(t) \/ SendClosed(t) \/ RecvBlock(t) \/ RecvWoke(t)
             \/ RecvDrained(t) \/ PairClosed(t) \/ PairLen(t)
    <3>1. UNCHANGED <<buf, closed>>
      BY <2>4 DEF SendBlock, SendClosed, RecvBlock, RecvWoke, RecvDrained, PairClosed, PairLen
    <3> QED
      BY <3>1, <1>1
  <2> QED
    BY <1>2, <2>1, <2>2, <2>3, <2>4 DEF Critical
<1>3. ASSUME NEW t \in Threads,
             \/ AcquireGil(t) \/ LockMu(t) \/ TimedOut(t) \/ SpuriousWake(t)
             \/ Call(t) \/ CancelTask(t)
      PROVE  closed' /\ Len(buf') <= Len(buf)
  <2>1. UNCHANGED <<buf, closed>>
    BY <1>3 DEF AcquireGil, LockMu, TimedOut, SpuriousWake, CancelTask,
                Call, SendCall, RecvCall, TryCall, CloseCall, Sleep, Begin
  <2> QED
    BY <2>1, <1>1
<1>4. CASE UNCHANGED vars
  BY <1>1, <1>4 DEF vars
<1> QED
  BY <1>2, <1>3, <1>4 DEF Next

(* A closed channel stays closed, and nothing enters it any more. *)
THEOREM ChannelClosedForGood == Spec => ClosedForGood
  BY TypeInit, TypeStep, ClosedStep, PTL DEF Spec, ClosedForGood

-----------------------------------------------------------------------------
(* The channel implements the FIFO queue of ChanSpec. *)

Receiving == {"recv_lock", "recv_in", "recv_wait", "recv_relock", "recv_woke"}
Polling == {"try_lock", "try_in"}

(* A receive has nothing in hand until it pops. *)
ReceiversHoldNull ==
  \A t \in Threads : pc[t] \in Receiving \cup Polling => val[t] = Null

LEMMA HandsInit == Init => ReceiversHoldNull
  BY DEF Init, ReceiversHoldNull, Receiving, Polling

LEMMA HandsStep == TypeInv /\ ReceiversHoldNull /\ [Next]_vars => ReceiversHoldNull'
<1> SUFFICES ASSUME TypeInv, ReceiversHoldNull, [Next]_vars PROVE ReceiversHoldNull'
  OBVIOUS
<1> USE DEF TypeInv, TypeOK, ReceiversHoldNull, Receiving, Polling
<1>1. ASSUME NEW t \in Threads,
             AcquireGil(t) \/ LockMu(t) \/ TimedOut(t) \/ SpuriousWake(t) \/ CancelTask(t)
      PROVE  ReceiversHoldNull'
  BY <1>1 DEF AcquireGil, LockMu, LockSteps, TimedOut, SpuriousWake, CancelTask, Goto
<1>2. ASSUME NEW t \in Threads,
             \/ SendBlock(t) \/ SendClosed(t) \/ RecvBlock(t) \/ RecvWoke(t)
             \/ RecvDrained(t) \/ PairClosed(t) \/ PairLen(t)
      PROVE  ReceiversHoldNull'
  BY <1>2 DEF SendBlock, SendClosed, RecvBlock, RecvWoke, RecvDrained, PairClosed, PairLen,
              AfterRecv, Goto
<1>3. ASSUME NEW t \in Threads, NEW where \in {"run", "acq", "pair_acq"},
             BroadcastGoto(t, where), \A u \in Threads \ {t} : val'[u] = val[u]
      PROVE  ReceiversHoldNull'
  BY <1>3 DEF BroadcastGoto, Woken
<1>4. ASSUME NEW t \in Threads, SendPush(t) \/ SendUnbounded(t) \/ CloseChan(t)
      PROVE  ReceiversHoldNull'
  BY <1>3, <1>4 DEF SendPush, SendUnbounded, CloseChan, Goto
<1>5. ASSUME NEW t \in Threads, RecvPop(t) \/ TryRecv(t) PROVE ReceiversHoldNull'
  BY <1>3, <1>5 DEF RecvPop, TryRecv, Pop, AfterRecv, Goto
<1>6. ASSUME NEW t \in Threads, Call(t) PROVE ReceiversHoldNull'
  BY <1>6 DEF Call, SendCall, RecvCall, TryCall, CloseCall, Sleep, Begin, ReleaseGil, Goto
<1>7. CASE UNCHANGED vars
  BY <1>7 DEF vars
<1> QED
  BY <1>1, <1>2, <1>4, <1>5, <1>6, <1>7 DEF Next, Critical

(* What the mapping makes of a thread, by the class of its pc. *)
LEMMA SpecCallValue ==
  ASSUME NEW u \in Threads
  PROVE  /\ pc[u] \in Sending => SpecCall[u] = [st |-> "send", v |-> val[u]]
         /\ pc[u] \in Receiving => SpecCall[u] = [st |-> "recv", v |-> Null]
         /\ pc[u] \in Polling => SpecCall[u] = [st |-> "poll", v |-> Null]
         /\ pc[u] \notin Sending \cup Receiving \cup Polling =>
              SpecCall[u] = IF res[u] = "none" THEN [st |-> "idle", v |-> Null]
                            ELSE [st |-> res[u], v |-> val[u]]
  BY DEF SpecCall, Sending, Receiving, Polling

LEMMA SpecCallValueNext ==
  ASSUME NEW u \in Threads
  PROVE  /\ pc'[u] \in Sending => SpecCall'[u] = [st |-> "send", v |-> val'[u]]
         /\ pc'[u] \in Receiving => SpecCall'[u] = [st |-> "recv", v |-> Null]
         /\ pc'[u] \in Polling => SpecCall'[u] = [st |-> "poll", v |-> Null]
         /\ pc'[u] \notin Sending \cup Receiving \cup Polling =>
              SpecCall'[u] = IF res'[u] = "none" THEN [st |-> "idle", v |-> Null]
                             ELSE [st |-> res'[u], v |-> val'[u]]
  BY DEF SpecCall, Sending, Receiving, Polling

(* A thread that the step does not concern, or that a broadcast wakes,     *)
(* keeps its abstract state.                                               *)
LEMMA OthersKeepCall ==
  ASSUME TypeOK, NEW t \in Threads, NEW where \in PCs,
         Goto(t, where) \/ BroadcastGoto(t, where),
         \A u \in Threads \ {t} : val'[u] = val[u] /\ res'[u] = res[u]
  PROVE  SpecCall' = [SpecCall EXCEPT ![t] = SpecCall'[t]]
<1>1. ASSUME NEW u \in Threads, u # t PROVE SpecCall'[u] = SpecCall[u]
  <2>1. \/ pc'[u] = pc[u]
        \/ pc[u] \in Sending /\ pc'[u] \in Sending
        \/ pc[u] \in Receiving /\ pc'[u] \in Receiving
    BY <1>1 DEF TypeOK, Goto, BroadcastGoto, Woken, Sending, Receiving
  <2>2. val'[u] = val[u] /\ res'[u] = res[u]
    BY <1>1
  <2>3. CASE pc'[u] = pc[u]
    BY <2>2, <2>3 DEF SpecCall
  <2>4. CASE pc[u] \in Sending /\ pc'[u] \in Sending
    BY <2>2, <2>4, SpecCallValue, SpecCallValueNext
  <2>5. CASE pc[u] \in Receiving /\ pc'[u] \in Receiving
    BY <2>5, SpecCallValue, SpecCallValueNext
  <2> QED
    BY <2>1, <2>3, <2>4, <2>5
<1>2. SpecCall \in [Threads -> {SpecCall[u] : u \in Threads}]
  BY DEF SpecCall
<1>3. SpecCall' = [u \in Threads |-> SpecCall'[u]]
  BY DEF SpecCall
<1> QED
  BY <1>1, <1>2, <1>3

(* A step that changes neither the queue nor any caller's standing. *)
LEMMA QuietStep ==
  ASSUME TypeOK, NEW t \in Threads, NEW where \in PCs, Goto(t, where),
         UNCHANGED <<buf, closed, val, res>>,
         \/ pc[t] \in Sending /\ where \in Sending
         \/ pc[t] \in Receiving /\ where \in Receiving
         \/ pc[t] \in Polling /\ where \in Polling
         \/ /\ pc[t] \notin Sending \cup Receiving \cup Polling
            /\ where \notin Sending \cup Receiving \cup Polling
  PROVE  UNCHANGED <<buf, closed, SpecCall>>
<1>1. SpecCall' = [SpecCall EXCEPT ![t] = SpecCall'[t]]
  BY OthersKeepCall
<1>2. pc'[t] = where
  BY DEF TypeOK, Goto
<1>3. SpecCall'[t] = SpecCall[t]
  BY <1>2, SpecCallValue, SpecCallValueNext
<1>4. SpecCall = [u \in Threads |-> SpecCall[u]]
  BY DEF SpecCall
<1> QED
  BY <1>1, <1>3, <1>4

LEMMA FifoInit == Init => Fifo!SpecInit
<1> SUFFICES ASSUME Init PROVE Fifo!SpecInit
  OBVIOUS
<1>1. \A t \in Threads : pc[t] \in {"run", "acq"} /\ res[t] = "none"
  BY DEF Init
<1>2. \A t \in Threads : SpecCall[t] = [st |-> "idle", v |-> Null]
  BY <1>1, SpecCallValue DEF Sending, Receiving, Polling
<1>3. SpecCall = [t \in Threads |-> [st |-> "idle", v |-> Null]]
  BY <1>2 DEF SpecCall
<1> QED
  BY <1>3 DEF Init, Fifo!SpecInit, Fifo!Idle

LEMMA FifoStep ==
  TypeInv /\ BufInv /\ ReceiversHoldNull /\ [Next]_vars => [Fifo!SpecNext]_(Fifo!specVars)
<1> SUFFICES ASSUME TypeInv, BufInv, ReceiversHoldNull, [Next]_vars
             PROVE  Fifo!SpecNext \/ UNCHANGED <<buf, closed, SpecCall>>
  BY DEF Fifo!specVars
<1> USE DEF TypeInv, TypeOK
<1>1. ASSUME NEW t \in Threads,
             AcquireGil(t) \/ LockMu(t) \/ TimedOut(t) \/ SpuriousWake(t)
      PROVE  UNCHANGED <<buf, closed, SpecCall>>
  BY <1>1, QuietStep
  DEF AcquireGil, LockMu, LockSteps, TimedOut, SpuriousWake, PCs, Sending, Receiving, Polling
<1>2. ASSUME NEW t \in Threads,
             SendBlock(t) \/ RecvBlock(t) \/ PairClosed(t) \/ PairLen(t)
      PROVE  UNCHANGED <<buf, closed, SpecCall>>
  BY <1>2, QuietStep
  DEF SendBlock, RecvBlock, PairClosed, PairLen, PCs, Sending, Receiving, Polling
<1>3. ASSUME NEW t \in Threads, SendClosed(t) PROVE Fifo!Refuse(t)
  <2>1. SpecCall[t] = [st |-> "send", v |-> val[t]]
    BY <1>3, SpecCallValue DEF SendClosed, Sending
  <2>2. SpecCall'[t] = [st |-> "refused", v |-> val[t]]
    BY <1>3, SpecCallValueNext DEF SendClosed, Goto, Sending, Receiving, Polling
  <2>3. SpecCall' = [SpecCall EXCEPT ![t] = SpecCall'[t]]
    BY <1>3, OthersKeepCall DEF SendClosed, PCs
  <2> QED
    BY <1>3, <2>1, <2>2, <2>3 DEF SendClosed, Refuse, Fifo!Refuse, Fifo!Become
<1>4. ASSUME NEW t \in Threads, SendPush(t) PROVE Fifo!Accept(t)
  <2>1. SpecCall[t] = [st |-> "send", v |-> val[t]]
    BY <1>4, SpecCallValue DEF SendPush, Sending
  <2>2. pc'[t] = "acq" /\ res'[t] = "sent" /\ val' = val
    BY <1>4 DEF SendPush, BroadcastGoto, Woken
  <2>3. SpecCall'[t] = [st |-> "sent", v |-> val[t]]
    BY <2>2, SpecCallValueNext DEF Sending, Receiving, Polling
  <2>4. SpecCall' = [SpecCall EXCEPT ![t] = SpecCall'[t]]
    BY <1>4, OthersKeepCall DEF SendPush, PCs
  <2> QED
    BY <1>4, <2>1, <2>3, <2>4 DEF SendPush, Push, Refuse, Room, Fifo!Accept, Fifo!Become
<1>5. ASSUME NEW t \in Threads, SendUnbounded(t) PROVE Fifo!Refuse(t) \/ Fifo!Accept(t)
  <2>1. SpecCall[t] = [st |-> "send", v |-> val[t]]
    BY <1>5, SpecCallValue DEF SendUnbounded, Sending
  <2>2. Cap = 0
    BY <1>5 DEF SendUnbounded, BufInv, UnboundedPath
  <2>3. pc'[t] = "run" /\ val' = val
    BY <1>5 DEF SendUnbounded, Goto, BroadcastGoto, Woken
  <2>4. SpecCall' = [SpecCall EXCEPT ![t] = SpecCall'[t]]
    BY <1>5, OthersKeepCall DEF SendUnbounded, PCs
  <2>5. CASE Refuse
    <3>1. SpecCall'[t] = [st |-> "refused", v |-> val[t]]
      BY <1>5, <2>3, <2>5, SpecCallValueNext DEF SendUnbounded, Sending, Receiving, Polling
    <3> QED
      BY <1>5, <2>1, <2>4, <2>5, <3>1 DEF SendUnbounded, Refuse, Fifo!Refuse, Fifo!Become
  <2>6. CASE ~Refuse
    <3>1. SpecCall'[t] = [st |-> "sent", v |-> val[t]]
      BY <1>5, <2>3, <2>6, SpecCallValueNext DEF SendUnbounded, Sending, Receiving, Polling
    <3> QED
      BY <1>5, <2>1, <2>2, <2>4, <2>6, <3>1
      DEF SendUnbounded, Push, Refuse, Fifo!Accept, Fifo!Become
  <2> QED
    BY <2>5, <2>6
<1>6. ASSUME NEW t \in Threads, Pop(t), pc[t] \in Receiving \cup Polling,
             NEW where \in {"run", "acq", "pair_acq"}, BroadcastGoto(t, where),
             UNCHANGED closed
      PROVE  Fifo!Deliver(t)
  <2>1. SpecCall[t].st \in {"recv", "poll"}
    <3>1. SpecCall[t] \in {[st |-> "recv", v |-> Null], [st |-> "poll", v |-> Null]}
      BY <1>6, SpecCallValue
    <3> QED
      BY <3>1
  <2>2. pc'[t] = where /\ res'[t] = "got" /\ val'[t] = Head(buf)
    BY <1>6 DEF Pop, BroadcastGoto, Woken
  <2>3. SpecCall'[t] = [st |-> "got", v |-> Head(buf)]
    BY <2>2, SpecCallValueNext DEF Sending, Receiving, Polling
  <2>4. SpecCall' = [SpecCall EXCEPT ![t] = SpecCall'[t]]
    BY <1>6, OthersKeepCall DEF Pop, PCs
  <2> QED
    BY <1>6, <2>1, <2>3, <2>4 DEF Pop, Fifo!Deliver, Fifo!Become
<1>7. ASSUME NEW t \in Threads, pc[t] \in Receiving \cup Polling,
             NEW where \in {"run", "acq", "pair_acq"}, Goto(t, where),
             res' = [res EXCEPT ![t] = "nothing"], UNCHANGED <<buf, closed, val>>,
             \/ buf = <<>> /\ closed
             \/ buf = <<>> /\ pc[t] \in Polling
             \/ pc[t] \in Receiving /\ t \in InterpTasks
      PROVE  Fifo!Nothing(t)
  <2>1. /\ pc[t] \in Receiving => SpecCall[t].st = "recv"
        /\ pc[t] \in Polling => SpecCall[t].st = "poll"
    <3>1. /\ pc[t] \in Receiving => SpecCall[t] = [st |-> "recv", v |-> Null]
          /\ pc[t] \in Polling => SpecCall[t] = [st |-> "poll", v |-> Null]
      BY SpecCallValue
    <3> QED
      BY <3>1
  <2>2. pc'[t] = where /\ res'[t] = "nothing" /\ val'[t] = Null
    BY <1>7 DEF Goto, ReceiversHoldNull
  <2>3. SpecCall'[t] = [st |-> "nothing", v |-> Null]
    BY <2>2, SpecCallValueNext DEF Sending, Receiving, Polling
  <2>4. SpecCall' = [SpecCall EXCEPT ![t] = SpecCall'[t]]
    BY <1>7, OthersKeepCall DEF PCs
  <2> QED
    BY <1>7, <2>1, <2>3, <2>4 DEF Fifo!Nothing, Fifo!Become
<1>8. ASSUME NEW t \in Threads, RecvPop(t) PROVE Fifo!Deliver(t)
  BY <1>6, <1>8 DEF RecvPop, AfterRecv, Receiving
<1>9. ASSUME NEW t \in Threads, RecvDrained(t) PROVE Fifo!Nothing(t)
  BY <1>7, <1>9 DEF RecvDrained, AfterRecv, Receiving
<1>10. ASSUME NEW t \in Threads, RecvWoke(t)
       PROVE  Fifo!Nothing(t) \/ UNCHANGED <<buf, closed, SpecCall>>
  <2>1. CASE CancelSeen(t)
    BY <1>7, <1>10, <2>1 DEF RecvWoke, CancelSeen, AfterRecv, Receiving
  <2>2. CASE ~CancelSeen(t)
    BY <1>10, <2>2, QuietStep DEF RecvWoke, PCs, Sending, Receiving, Polling
  <2> QED
    BY <2>1, <2>2
<1>11. ASSUME NEW t \in Threads, TryRecv(t) PROVE Fifo!Deliver(t) \/ Fifo!Nothing(t)
  <2>1. CASE buf = <<>>
    BY <1>7, <1>11, <2>1 DEF TryRecv, Pop, Polling
  <2>2. CASE buf # <<>>
    BY <1>6, <1>11, <2>2 DEF TryRecv, Polling
  <2> QED
    BY <2>1, <2>2
<1>12. ASSUME NEW t \in Threads, CloseChan(t) PROVE Fifo!Shut
  <2>1. SpecCall[t] = IF res[t] = "none" THEN [st |-> "idle", v |-> Null]
                      ELSE [st |-> res[t], v |-> val[t]]
    BY <1>12, SpecCallValue DEF CloseChan, Sending, Receiving, Polling
  <2>2. pc'[t] = "run" /\ res' = res /\ val' = val
    BY <1>12 DEF CloseChan, BroadcastGoto, Woken
  <2>3. SpecCall'[t] = SpecCall[t]
    BY <2>1, <2>2, SpecCallValueNext DEF Sending, Receiving, Polling
  <2>4. SpecCall' = [SpecCall EXCEPT ![t] = SpecCall'[t]]
    BY <1>12, OthersKeepCall DEF CloseChan, PCs
  <2>5. SpecCall = [u \in Threads |-> SpecCall[u]]
    BY DEF SpecCall
  <2>6. UNCHANGED SpecCall
    BY <2>3, <2>4, <2>5
  <2> QED
    BY <1>12, <2>6 DEF CloseChan, Fifo!Shut
<1>13. ASSUME NEW t \in Threads, Call(t) PROVE Fifo!Start(t) \/ Fifo!Return(t)
  <2>1. UNCHANGED <<buf, closed>> /\ pc[t] = "run"
    BY <1>13 DEF Call, SendCall, RecvCall, TryCall, CloseCall, Sleep, Begin
  <2>2. SpecCall[t].st \in Results \cup {"idle"}
    <3>1. SpecCall[t] = IF res[t] = "none" THEN [st |-> "idle", v |-> Null]
                        ELSE [st |-> res[t], v |-> val[t]]
      BY <2>1, SpecCallValue DEF Sending, Receiving, Polling
    <3>2. res[t] \in Results
      OBVIOUS
    <3>3. CASE res[t] = "none"
      BY <3>1, <3>3
    <3>4. CASE res[t] # "none"
      BY <3>1, <3>2, <3>4
    <3> QED
      BY <3>3, <3>4
  <2>3. SpecCall[t].st \notin Fifo!Pending
    BY <2>2 DEF Results, Fifo!Pending
  <2>4. PICK where \in {"send_lock", "usend_lock", "recv_lock", "try_lock", "close_lock", "acq"} :
          Goto(t, where)
    BY <1>13 DEF Call, SendCall, RecvCall, TryCall, CloseCall, Sleep, ReleaseGil
  <2>5. PICK k \in {"recv", "pair"}, v \in Msgs \cup {Null} : Begin(t, k, v)
    BY <1>13 DEF Call, SendCall, RecvCall, TryCall, CloseCall, Sleep
  <2>6. SpecCall' = [SpecCall EXCEPT ![t] = SpecCall'[t]]
    BY <2>4, <2>5, OthersKeepCall DEF Begin, PCs
  <2>7. pc'[t] = where /\ val'[t] = v /\ res'[t] = "none"
    BY <2>4, <2>5 DEF Begin, Goto
  <2>8. CASE where \in {"send_lock", "usend_lock"}
    <3>1. v \in Msgs
      BY TypeStep, <2>7, <2>8 DEF SendersCarryMsgs, Sending
    <3>2. SpecCall'[t] = [st |-> "send", v |-> v]
      BY <2>7, <2>8, SpecCallValueNext DEF Sending
    <3> QED
      BY <2>1, <2>3, <2>6, <3>1, <3>2 DEF Fifo!Start, Fifo!Become
  <2>9. CASE where \in {"recv_lock", "try_lock"}
    <3>1. SpecCall'[t] \in {[st |-> "recv", v |-> Null], [st |-> "poll", v |-> Null]}
      BY <2>7, <2>9, SpecCallValueNext DEF Receiving, Polling
    <3> QED
      BY <2>1, <2>3, <2>6, <3>1 DEF Fifo!Start, Fifo!Become
  <2>10. CASE where \in {"close_lock", "acq"}
    <3>1. SpecCall'[t] = [st |-> "idle", v |-> Null]
      BY <2>7, <2>10, SpecCallValueNext DEF Sending, Receiving, Polling
    <3> QED
      BY <2>1, <2>3, <2>6, <3>1 DEF Fifo!Return, Fifo!Idle
  <2> QED
    BY <2>8, <2>9, <2>10
<1>14. ASSUME NEW t \in Threads, CancelTask(t) PROVE UNCHANGED <<buf, closed, SpecCall>>
  BY <1>14 DEF CancelTask, SpecCall
<1>15. CASE UNCHANGED vars
  BY <1>15 DEF vars, SpecCall
<1> QED
  BY <1>1, <1>2, <1>3, <1>4, <1>5, <1>8, <1>9, <1>10, <1>11, <1>12, <1>13, <1>14, <1>15
  DEF Next, Critical, Fifo!SpecNext

(* The channel with its two locks and its condition variable implements    *)
(* the atomic FIFO queue: every send, receive, poll and close takes effect *)
(* once, in one critical section, with the outcome it reports.             *)
THEOREM ChannelImplementsFifo == Spec => ImplementsFifo
<1>1. TypeInv /\ BufInv /\ ReceiversHoldNull /\ [Next]_vars
        => [Fifo!SpecNext]_(Fifo!specVars)
  BY FifoStep
<1> QED
  BY <1>1, TypeInit, TypeStep, BufInit, BufStep, HandsInit, HandsStep, FifoInit, PTL
  DEF Spec, ImplementsFifo, Fifo!FifoSpec
-----------------------------------------------------------------------------
(* What recv_pair says about a null. *)

PairChecks == {"pair_acq", "pair_closed", "pair_closed_in", "pair_len", "pair_len_in"}

(* A pair that found no message was cancelled, or had met a channel that   *)
(* was closed and empty - and is so still when recv_pair looks again.      *)
DrainedForGood(t) == res[t] = "got" \/ cancelled[t] \/ (closed /\ buf = <<>>)

PairInv ==
  \A t \in Threads : kind[t] = "pair" =>
    /\ pc[t] \in Receiving \cup PairChecks \cup {"acq", "run"}
    /\ pc[t] = "acq" => res[t] = "got"
    /\ pc[t] \in PairChecks => DrainedForGood(t)
    /\ pc[t] = "run" /\ ok[t] => res[t] = "got" \/ cancelled[t]

LEMMA PairInit == Init => PairInv
  BY DEF Init, PairInv

(* A cancelled task stays cancelled. *)
LEMMA CancelStays ==
  ASSUME TypeInv, [Next]_vars, NEW u \in Threads, cancelled[u]
  PROVE  cancelled'[u]
  BY DEF Next, vars, Critical, TypeInv, TypeOK, AcquireGil, LockMu, TimedOut, SpuriousWake,
         SendBlock, SendClosed, SendPush, SendUnbounded, RecvBlock, RecvWoke, RecvDrained,
         RecvPop, PairClosed, PairLen, TryRecv, CloseChan, CancelTask,
         Call, SendCall, RecvCall, TryCall, CloseCall, Sleep, Begin

(* What was found stays true whatever the others do. *)
LEMMA DrainedStays ==
  ASSUME TypeInv, [Next]_vars, NEW u \in Threads, DrainedForGood(u), res'[u] = res[u]
  PROVE  DrainedForGood(u)'
<1>1. closed /\ buf = <<>> => closed' /\ buf' = <<>>
  <2> SUFFICES ASSUME closed, buf = <<>> PROVE closed' /\ buf' = <<>>
    OBVIOUS
  <2>1. closed' /\ Len(buf') <= Len(buf)
    BY ClosedStep
  <2>2. buf' \in Seq(Msgs) /\ Len(buf) = 0
    BY TypeStep DEF TypeInv, TypeOK
  <2> QED
    BY <2>1, <2>2
<1>2. cancelled[u] => cancelled'[u]
  BY CancelStays
<1> QED
  BY <1>1, <1>2, Zenon DEF DrainedForGood

(* The step of a thread leaves what the invariant says of the others. *)
LEMMA PairOthers ==
  ASSUME TypeInv, PairInv, [Next]_vars, NEW t \in Threads, NEW where \in PCs,
         Goto(t, where) \/ BroadcastGoto(t, where),
         NEW u \in Threads \ {t}, kind'[u] = "pair",
         kind'[u] = kind[u] /\ res'[u] = res[u] /\ ok'[u] = ok[u]
  PROVE  /\ pc'[u] \in Receiving \cup PairChecks \cup {"acq", "run"}
         /\ pc'[u] = "acq" => res'[u] = "got"
         /\ pc'[u] \in PairChecks => DrainedForGood(u)'
         /\ pc'[u] = "run" /\ ok'[u] => res'[u] = "got" \/ cancelled'[u]
<1>1. pc'[u] = pc[u] \/ (pc[u] \in Receiving /\ pc'[u] \in Receiving)
      \/ pc[u] = "send_wait"
  BY DEF TypeInv, TypeOK, Goto, BroadcastGoto, Woken, Receiving
<1>2. pc[u] # "send_wait"
  BY DEF PairInv, Receiving, PairChecks
<1>3. CASE pc[u] \in Receiving /\ pc'[u] \in Receiving
  BY <1>3 DEF Receiving, PairChecks
<1>4. CASE pc'[u] = pc[u]
  <2>1. pc[u] \in PairChecks => DrainedForGood(u)'
    BY DrainedStays DEF PairInv
  <2>2. pc[u] = "run" /\ ok[u] => res[u] = "got" \/ cancelled'[u]
    <3>1. cancelled[u] => cancelled'[u]
      BY CancelStays
    <3> QED
      BY <3>1 DEF PairInv
  <2> QED
    BY <1>4, <2>1, <2>2 DEF PairInv
<1> QED
  BY <1>1, <1>2, <1>3, <1>4

LEMMA PairStep == TypeInv /\ PairInv /\ [Next]_vars => PairInv'
<1> SUFFICES ASSUME TypeInv, PairInv, [Next]_vars PROVE PairInv'
  OBVIOUS
<1> DEFINE Good(t) ==
      kind[t] = "pair" =>
        /\ pc[t] \in Receiving \cup PairChecks \cup {"acq", "run"}
        /\ pc[t] = "acq" => res[t] = "got"
        /\ pc[t] \in PairChecks => DrainedForGood(t)
        /\ pc[t] = "run" /\ ok[t] => res[t] = "got" \/ cancelled[t]
<1>0. ASSUME NEW t \in Threads, NEW where \in PCs,
             Goto(t, where) \/ BroadcastGoto(t, where), Good(t)',
             \A u \in Threads \ {t} :
               kind'[u] = kind[u] /\ res'[u] = res[u] /\ ok'[u] = ok[u]
      PROVE  PairInv'
  <2>1. ASSUME NEW u \in Threads \ {t} PROVE Good(u)'
    BY <1>0, <2>1, PairOthers
  <2> QED
    BY <1>0, <2>1 DEF PairInv
<1> HIDE DEF Good
<1> USE DEF TypeInv, TypeOK
<1>1. ASSUME NEW t \in Threads, AcquireGil(t) PROVE PairInv'
  <2>1. PICK where \in {"run", "pair_closed"} :
          /\ Goto(t, where)
          /\ where = "run" => pc[t] = "acq"
          /\ where = "pair_closed" => pc[t] = "pair_acq"
    BY <1>1 DEF AcquireGil
  <2>2. Good(t)'
    BY <1>1, <2>1, DrainedStays DEF AcquireGil, Good, Goto, PairInv, PairChecks, Receiving
  <2> QED
    BY <1>0, <1>1, <2>1, <2>2 DEF AcquireGil, PCs
<1>2. ASSUME NEW t \in Threads, LockMu(t) PROVE PairInv'
  <2>1. Good(t)'
    BY <1>2, DrainedStays DEF LockMu, LockSteps, Good, Goto, PairInv, PairChecks, Receiving
  <2> QED
    BY <1>0, <1>2, <2>1 DEF LockMu, LockSteps, PCs
<1>3. ASSUME NEW t \in Threads, TimedOut(t) \/ SpuriousWake(t) PROVE PairInv'
  <2>1. Good(t)'
    BY <1>3 DEF TimedOut, SpuriousWake, Good, Goto, PairInv, PairChecks, Receiving
  <2> QED
    BY <1>0, <1>3, <2>1 DEF TimedOut, SpuriousWake, PCs
<1>4. ASSUME NEW t \in Threads,
             \/ SendBlock(t) \/ SendClosed(t) \/ SendPush(t) \/ SendUnbounded(t)
             \/ TryRecv(t) \/ CloseChan(t)
      PROVE  PairInv'
  <2>1. kind[t] # "pair"
    BY <1>4 DEF SendBlock, SendClosed, SendPush, SendUnbounded, TryRecv, CloseChan,
                PairInv, PairChecks, Receiving
  <2>2. Good(t)'
    BY <1>4, <2>1 DEF SendBlock, SendClosed, SendPush, SendUnbounded, TryRecv, CloseChan, Good
  <2>3. PICK where \in {"send_wait", "acq", "run"} : Goto(t, where) \/ BroadcastGoto(t, where)
    BY <1>4 DEF SendBlock, SendClosed, SendPush, SendUnbounded, TryRecv, CloseChan
  <2>4. \A u \in Threads \ {t} : kind'[u] = kind[u] /\ res'[u] = res[u] /\ ok'[u] = ok[u]
    BY <1>4 DEF SendBlock, SendClosed, SendPush, SendUnbounded, TryRecv, CloseChan, Pop
  <2> QED
    BY <1>0, <2>2, <2>3, <2>4 DEF PCs
<1>5. ASSUME NEW t \in Threads, RecvBlock(t) PROVE PairInv'
  <2>1. Good(t)'
    BY <1>5 DEF RecvBlock, Good, Goto, PairChecks, Receiving
  <2> QED
    BY <1>0, <1>5, <2>1 DEF RecvBlock, PCs
<1>6. ASSUME NEW t \in Threads, RecvWoke(t) PROVE PairInv'
  <2>1. Good(t)'
    BY <1>6 DEF RecvWoke, CancelSeen, AfterRecv, Good, Goto, PairChecks, Receiving,
                DrainedForGood
  <2> QED
    BY <1>0, <1>6, <2>1 DEF RecvWoke, AfterRecv, PCs
<1>7. ASSUME NEW t \in Threads, RecvDrained(t) PROVE PairInv'
  <2>1. Good(t)'
    BY <1>7 DEF RecvDrained, AfterRecv, Good, Goto, PairChecks, Receiving, DrainedForGood
  <2> QED
    BY <1>0, <1>7, <2>1 DEF RecvDrained, AfterRecv, PCs
<1>8. ASSUME NEW t \in Threads, RecvPop(t) PROVE PairInv'
  <2>1. res'[t] = "got" /\ pc'[t] \in {"acq", "pair_acq"}
    BY <1>8 DEF RecvPop, Pop, AfterRecv, BroadcastGoto, Woken
  <2>2. Good(t)'
    BY <2>1 DEF Good, PairChecks, Receiving, DrainedForGood
  <2> QED
    BY <1>0, <1>8, <2>2 DEF RecvPop, Pop, AfterRecv, PCs
<1>9. ASSUME NEW t \in Threads, PairClosed(t) PROVE PairInv'
  <2>1. DrainedForGood(t) \/ kind[t] # "pair"
    BY <1>9 DEF PairClosed, PairInv, PairChecks
  <2>2. CASE closed
    <3>1. Good(t)'
      BY <1>9, <2>1, <2>2, DrainedStays DEF PairClosed, Good, Goto, PairChecks, Receiving
    <3> QED
      BY <1>0, <1>9, <2>2, <3>1 DEF PairClosed, PCs
  <2>3. CASE ~closed
    <3>1. Good(t)'
      BY <1>9, <2>1, <2>3 DEF PairClosed, Good, Goto, PairChecks, Receiving, DrainedForGood
    <3> QED
      BY <1>0, <1>9, <2>3, <3>1 DEF PairClosed, PCs
  <2> QED
    BY <2>2, <2>3
<1>10. ASSUME NEW t \in Threads, PairLen(t) PROVE PairInv'
  <2>1. DrainedForGood(t) \/ kind[t] # "pair"
    BY <1>10 DEF PairLen, PairInv, PairChecks
  <2>2. ok'[t] = (buf # <<>>)
    BY <1>10 DEF PairLen, PairOk
  <2>3. Good(t)'
    BY <1>10, <2>1, <2>2 DEF PairLen, Good, Goto, PairChecks, Receiving, DrainedForGood
  <2> QED
    BY <1>0, <1>10, <2>3 DEF PairLen, PCs
<1>11. ASSUME NEW t \in Threads, Call(t) PROVE PairInv'
  <2>1. PICK where \in {"send_lock", "usend_lock", "recv_lock", "try_lock", "close_lock", "acq"} :
          Goto(t, where)
    BY <1>11 DEF Call, SendCall, RecvCall, TryCall, CloseCall, Sleep, ReleaseGil
  <2>2. PICK kd \in {"recv", "pair"}, v \in Msgs \cup {Null} : Begin(t, kd, v)
    BY <1>11 DEF Call, SendCall, RecvCall, TryCall, CloseCall, Sleep
  <2>3. kind'[t] = "pair" => pc'[t] = "recv_lock"
    BY <1>11 DEF Call, SendCall, RecvCall, TryCall, CloseCall, Sleep, ReleaseGil, Begin, Goto
  <2>4. Good(t)'
    BY <2>3 DEF Good, PairChecks, Receiving
  <2>5. \A u \in Threads \ {t} : kind'[u] = kind[u] /\ res'[u] = res[u] /\ ok'[u] = ok[u]
    BY <2>2 DEF Begin
  <2> QED
    BY <1>0, <2>1, <2>4, <2>5 DEF PCs
<1>12. ASSUME NEW t \in Threads, CancelTask(t) PROVE PairInv'
  BY <1>12 DEF CancelTask, PairInv, DrainedForGood
<1>13. CASE UNCHANGED vars
  BY <1>13 DEF vars, PairInv, DrainedForGood
<1> QED
  BY <1>1, <1>2, <1>3, <1>4, <1>5, <1>6, <1>7, <1>8, <1>9, <1>10, <1>11, <1>12, <1>13
  DEF Next, Critical

(* recv_pair asks for the length only of a closed channel, and answers     *)
(* false only of one that was empty then; it stays closed and empty.       *)
DrainedInv ==
  \A t \in Threads :
    /\ pc[t] \in {"pair_len", "pair_len_in"} => closed
    /\ ~ok[t] => closed /\ buf = <<>>

LEMMA DrainedInit == Init => DrainedInv
  BY DEF Init, DrainedInv

(* Who changes ok, and who gets to the second look.                        *)
Looks(u) ==
  /\ \/ ok'[u] = ok[u] \/ ok'[u]
     \/ pc[u] = "pair_len_in" /\ buf = <<>>
  /\ pc'[u] \in {"pair_len", "pair_len_in"} => pc[u] \in {"pair_len", "pair_len_in"} \/ closed

LEMMA PairLooks == ASSUME TypeInv, [Next]_vars, NEW u \in Threads PROVE Looks(u)
<1> USE DEF Looks, TypeInv, TypeOK
<1>1. ASSUME NEW t \in Threads, AcquireGil(t) PROVE Looks(u)
  BY <1>1 DEF AcquireGil, Goto
<1>2. ASSUME NEW t \in Threads, LockMu(t) PROVE Looks(u)
  BY <1>2 DEF LockMu, LockSteps, Goto
<1>3. ASSUME NEW t \in Threads, TimedOut(t) \/ SpuriousWake(t) PROVE Looks(u)
  BY <1>3 DEF TimedOut, SpuriousWake, Goto
<1>4. ASSUME NEW t \in Threads, SendBlock(t) \/ SendClosed(t) \/ RecvBlock(t) PROVE Looks(u)
  BY <1>4 DEF SendBlock, SendClosed, RecvBlock, Goto
<1>5. ASSUME NEW t \in Threads, SendPush(t) \/ SendUnbounded(t) PROVE Looks(u)
  BY <1>5 DEF SendPush, SendUnbounded, Goto, BroadcastGoto, Woken
<1>6. ASSUME NEW t \in Threads, RecvWoke(t) \/ RecvDrained(t) PROVE Looks(u)
  BY <1>6 DEF RecvWoke, RecvDrained, AfterRecv, Goto
<1>7. ASSUME NEW t \in Threads, RecvPop(t) PROVE Looks(u)
  BY <1>7 DEF RecvPop, AfterRecv, BroadcastGoto, Woken
<1>8. ASSUME NEW t \in Threads, PairClosed(t) PROVE Looks(u)
  BY <1>8 DEF PairClosed, Goto
<1>9. ASSUME NEW t \in Threads, PairLen(t) PROVE Looks(u)
  BY <1>9 DEF PairLen, PairOk, Goto
<1>10. ASSUME NEW t \in Threads, TryRecv(t) \/ CloseChan(t) PROVE Looks(u)
  BY <1>10 DEF TryRecv, CloseChan, Goto, BroadcastGoto, Woken
<1>11. ASSUME NEW t \in Threads, Call(t) PROVE Looks(u)
  BY <1>11 DEF Call, SendCall, RecvCall, TryCall, CloseCall, Sleep, Begin, ReleaseGil, Goto
<1>12. ASSUME NEW t \in Threads, CancelTask(t) PROVE Looks(u)
  BY <1>12 DEF CancelTask
<1>13. CASE UNCHANGED vars
  BY <1>13 DEF vars
<1> QED
  BY <1>1, <1>2, <1>3, <1>4, <1>5, <1>6, <1>7, <1>8, <1>9, <1>10, <1>11, <1>12, <1>13
  DEF Next, Critical

LEMMA DrainedStep == TypeInv /\ DrainedInv /\ [Next]_vars => DrainedInv'
<1> SUFFICES ASSUME TypeInv, DrainedInv, [Next]_vars, NEW u \in Threads
             PROVE  /\ pc'[u] \in {"pair_len", "pair_len_in"} => closed'
                    /\ ~ok'[u] => closed' /\ buf' = <<>>
  BY DEF DrainedInv
<1>1. closed => closed' /\ (buf = <<>> => buf' = <<>>)
  <2> SUFFICES ASSUME closed PROVE closed' /\ (buf = <<>> => buf' = <<>>)
    OBVIOUS
  <2>1. closed' /\ Len(buf') <= Len(buf)
    BY ClosedStep
  <2>2. buf' \in Seq(Msgs)
    BY TypeStep DEF TypeInv, TypeOK
  <2> QED
    BY <2>1, <2>2
<1> QED
  BY <1>1, PairLooks DEF DrainedInv, Looks

(* The ok of a pair is right: between the receive that found nothing and   *)
(* the two looks of recv_pair the channel cannot reopen or fill up,        *)
(* whatever the other threads do, so only a cancelled receive is mistaken  *)
(* for a message; and whoever got false finds the channel closed and empty *)
(* whenever it looks again.                                                *)
THEOREM ChannelPairOk == Spec => []PairOkIsRight
<1>1. PairInv /\ DrainedInv => PairOkIsRight
  BY DEF PairInv, DrainedInv, PairOkIsRight
<1> QED
  BY <1>1, TypeInit, TypeStep, PairInit, PairStep, DrainedInit, DrainedStep, PTL DEF Spec
=============================================================================
