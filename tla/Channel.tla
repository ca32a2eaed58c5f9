------------------------------- MODULE Channel -------------------------------
(***************************************************************************)
(* One channel of runtime/concurrent.c: a FIFO buffer guarded by a mutex   *)
(* and a condition variable, used by threads that otherwise run under the  *)
(* global interpreter lock (GIL).                                          *)
(*                                                                         *)
(* A thread in state "run" executes XS code and holds the GIL.  Blocking   *)
(* calls drop the GIL, then lock the channel, and take the GIL back only   *)
(* after they have unlocked the channel; the calls that never block keep   *)
(* the GIL and lock the channel under it.                                  *)
(***************************************************************************)
EXTENDS Naturals, Sequences, FiniteSets

CONSTANTS
  Threads,      \* OS threads that run XS code
  Msgs,         \* values that are sent; may include Null
  Null,         \* XS_NULL_VAL
  Cap,          \* cs->cap, 0 = unbounded
  MaxLen,       \* bound on the buffer of an unbounded channel
  InterpTasks,  \* threads with tls_current_task set: tasks of the interpreter
  NoOne         \* not a thread: the holder of a free lock

ASSUME ChannelAssumption ==
  /\ Cap \in Nat
  /\ MaxLen \in Nat
  /\ InterpTasks \subseteq Threads
  /\ NoOne \notin Threads

VARIABLES
  gil,        \* holder of g_gil
  mu,         \* holder of cs->mu
  buf,        \* the channel's _buf array
  closed,     \* cs->closed
  cancelled,  \* t->cancelled of each task
  pc,         \* where each thread is
  kind,       \* which receive the thread is in: "recv" or "pair"
  val,        \* the value being sent, or the one received
  res,        \* how the current call ended
  ok          \* second component of the tuple recv_pair returned last

vars == <<gil, mu, buf, closed, cancelled, pc, kind, val, res, ok>>

PCs == {"run", "acq", "pair_acq",
        "send_lock", "send_in", "send_wait", "usend_lock", "usend_in",
        "recv_lock", "recv_in", "recv_wait", "recv_relock", "recv_woke",
        "try_lock", "try_in", "close_lock", "close_in",
        "pair_closed", "pair_closed_in", "pair_len", "pair_len_in"}

Results == {"none", "sent", "refused", "got", "nothing"}

Init ==
  /\ gil \in Threads
  /\ mu = NoOne
  /\ buf = <<>>
  /\ closed = FALSE
  /\ cancelled = [t \in Threads |-> FALSE]
  /\ pc = [t \in Threads |-> IF t = gil THEN "run" ELSE "acq"]
  /\ kind = [t \in Threads |-> "recv"]
  /\ val = [t \in Threads |-> Null]
  /\ res = [t \in Threads |-> "none"]
  /\ ok = [t \in Threads |-> TRUE]

-----------------------------------------------------------------------------
(* The two locks and the condition variable. *)

Goto(t, where) == pc' = [pc EXCEPT ![t] = where]

(* Mutant: a blocking call that forgets to release the GIL. *)
KeepGil(t, where) ==
  /\ gil = t
  /\ Goto(t, where)
  /\ UNCHANGED gil

(* xs_gil_release, then go on without it. *)
ReleaseGil(t, where) ==
  /\ gil = t
  /\ gil' = NoOne
  /\ Goto(t, where)

(* xs_gil_acquire, the last step of every call that dropped the GIL. *)
AcquireGil(t) ==
  /\ gil = NoOne
  /\ \/ pc[t] = "acq" /\ Goto(t, "run")
     \/ pc[t] = "pair_acq" /\ Goto(t, "pair_closed")
  /\ gil' = t
  /\ UNCHANGED <<mu, buf, closed, cancelled, kind, val, res, ok>>

LockSteps ==
  [send_lock |-> "send_in", usend_lock |-> "usend_in",
   recv_lock |-> "recv_in", recv_relock |-> "recv_woke",
   try_lock |-> "try_in", close_lock |-> "close_in",
   pair_closed |-> "pair_closed_in", pair_len |-> "pair_len_in"]

(* xs_mutex_lock(&cs->mu), also the reacquisition inside a condition wait. *)
LockMu(t) ==
  /\ pc[t] \in DOMAIN LockSteps
  /\ mu = NoOne
  /\ mu' = t
  /\ Goto(t, LockSteps[pc[t]])
  /\ UNCHANGED <<gil, buf, closed, cancelled, kind, val, res, ok>>

(* xs_cond_broadcast: every waiter goes for the mutex again. *)
Woken ==
  [t \in Threads |->
     CASE pc[t] = "send_wait" -> "send_lock"
       [] pc[t] = "recv_wait" -> "recv_relock"
       [] OTHER -> pc[t]]

BroadcastGoto(t, where) == pc' = [Woken EXCEPT ![t] = where]

(* The wait in a recv ends by itself after 25 ms (xs_cond_timedwait_ms). *)
TimedOut(t) ==
  /\ pc[t] = "recv_wait"
  /\ Goto(t, "recv_relock")
  /\ UNCHANGED <<gil, mu, buf, closed, cancelled, kind, val, res, ok>>

(* The wait in a send has no limit; POSIX lets it end spuriously. *)
SpuriousWake(t) ==
  /\ pc[t] = "send_wait"
  /\ Goto(t, "send_lock")
  /\ UNCHANGED <<gil, mu, buf, closed, cancelled, kind, val, res, ok>>

UnlockMu == mu' = NoOne

-----------------------------------------------------------------------------
(* xs_chan_send. *)

(* A call begins: what the previous one left is forgotten. *)
Begin(t, k, v) ==
  /\ pc[t] = "run"
  /\ kind' = [kind EXCEPT ![t] = k]
  /\ val' = [val EXCEPT ![t] = v]
  /\ res' = [res EXCEPT ![t] = "none"]
  /\ ok' = [ok EXCEPT ![t] = TRUE]
  /\ UNCHANGED <<mu, buf, closed, cancelled>>

InFlight == Cardinality({t \in Threads : pc[t] \in {"usend_lock", "usend_in"}})

(* The call: bounded sends drop the GIL, unbounded sends keep it. *)
SendCall(t) ==
  /\ \E v \in Msgs : Begin(t, "recv", v)
  /\ \/ Cap > 0 /\ ReleaseGil(t, "send_lock")
     \/ Cap = 0 /\ Len(buf) + InFlight < MaxLen /\ Goto(t, "usend_lock") /\ UNCHANGED gil

Push(t) == buf' = Append(buf, val[t])

(* Mutant: the closed flag is not looked at. *)
NeverRefuse == FALSE

Refuse == closed
Room == Len(buf) < Cap

(* Bounded send, under the mutex: wait for room, refuse, or push. *)
SendBlock(t) ==
  /\ pc[t] = "send_in"
  /\ ~Refuse /\ ~Room
  /\ UnlockMu
  /\ Goto(t, "send_wait")
  /\ UNCHANGED <<gil, buf, closed, cancelled, kind, val, res, ok>>

SendClosed(t) ==
  /\ pc[t] = "send_in"
  /\ Refuse
  /\ res' = [res EXCEPT ![t] = "refused"]
  /\ UnlockMu
  /\ Goto(t, "acq")
  /\ UNCHANGED <<gil, buf, closed, cancelled, kind, val, ok>>

SendPush(t) ==
  /\ pc[t] = "send_in"
  /\ ~Refuse /\ Room
  /\ Push(t)
  /\ res' = [res EXCEPT ![t] = "sent"]
  /\ UnlockMu
  /\ BroadcastGoto(t, "acq")
  /\ UNCHANGED <<gil, closed, cancelled, kind, val, ok>>

(* Unbounded send, under the mutex and the GIL. *)
SendUnbounded(t) ==
  /\ pc[t] = "usend_in"
  /\ \/ /\ Refuse
        /\ res' = [res EXCEPT ![t] = "refused"]
        /\ Goto(t, "run")
        /\ UNCHANGED buf
     \/ /\ ~Refuse
        /\ Push(t)
        /\ res' = [res EXCEPT ![t] = "sent"]
        /\ BroadcastGoto(t, "run")
  /\ UnlockMu
  /\ UNCHANGED <<gil, closed, cancelled, kind, val, ok>>

-----------------------------------------------------------------------------
(* xs_chan_recv, and recv_pair, which looks again after a null. *)

RecvCall(t) ==
  /\ \E k \in {"recv", "pair"} : Begin(t, k, Null)
  /\ ReleaseGil(t, "recv_lock")

RecvBlock(t) ==
  /\ pc[t] = "recv_in"
  /\ buf = <<>> /\ ~closed
  /\ UnlockMu
  /\ Goto(t, "recv_wait")
  /\ UNCHANGED <<gil, buf, closed, cancelled, kind, val, res, ok>>

(* Where a receive that returns v goes on: recv_pair inspects the channel  *)
(* again when it was handed a null.                                        *)
AfterRecv(t, v) == IF kind[t] = "pair" /\ v = Null THEN "pair_acq" ELSE "acq"

(* Mutant: the flag is not polled. *)
NoCancelSeen(t) == FALSE

(* Only a thread that has a tls_current_task polls its cancelled flag. *)
CancelSeen(t) == t \in InterpTasks /\ cancelled[t]

(* After the wait the flag comes first: a cancelled receive leaves even a  *)
(* message that has just arrived.                                          *)
RecvWoke(t) ==
  /\ pc[t] = "recv_woke"
  /\ \/ /\ CancelSeen(t)
        /\ res' = [res EXCEPT ![t] = "nothing"]
        /\ UnlockMu
        /\ Goto(t, AfterRecv(t, Null))
     \/ /\ ~CancelSeen(t)
        /\ Goto(t, "recv_in")
        /\ UNCHANGED <<mu, res>>
  /\ UNCHANGED <<gil, buf, closed, cancelled, kind, val, ok>>

RecvDrained(t) ==
  /\ pc[t] = "recv_in"
  /\ buf = <<>> /\ closed
  /\ res' = [res EXCEPT ![t] = "nothing"]
  /\ UnlockMu
  /\ Goto(t, AfterRecv(t, Null))
  /\ UNCHANGED <<gil, buf, closed, cancelled, kind, val, ok>>

(* Mutants: the buffer is not shifted; the newest message is taken. *)
PopNoShift(t) ==
  /\ buf # <<>>
  /\ val' = [val EXCEPT ![t] = Head(buf)]
  /\ res' = [res EXCEPT ![t] = "got"]
  /\ UNCHANGED buf

PopNewest(t) ==
  /\ buf # <<>>
  /\ val' = [val EXCEPT ![t] = buf[Len(buf)]]
  /\ buf' = SubSeq(buf, 1, Len(buf) - 1)
  /\ res' = [res EXCEPT ![t] = "got"]

(* Take items[0] and shift the rest. *)
Pop(t) ==
  /\ buf # <<>>
  /\ val' = [val EXCEPT ![t] = Head(buf)]
  /\ buf' = Tail(buf)
  /\ res' = [res EXCEPT ![t] = "got"]

RecvPop(t) ==
  /\ pc[t] = "recv_in"
  /\ Pop(t)
  /\ UnlockMu
  /\ BroadcastGoto(t, AfterRecv(t, Head(buf)))
  /\ UNCHANGED <<gil, closed, cancelled, kind, ok>>

(* recv_pair: ok = !(v is null && is_closed(ch) && len(ch) == 0), the last *)
(* two each under the mutex, one after the other.                          *)
PairClosed(t) ==
  /\ pc[t] = "pair_closed_in"
  /\ UnlockMu
  /\ \/ closed /\ Goto(t, "pair_len") /\ UNCHANGED ok
     \/ ~closed /\ Goto(t, "run") /\ ok' = [ok EXCEPT ![t] = TRUE]
  /\ UNCHANGED <<gil, buf, closed, cancelled, kind, val, res>>

(* Mutants: ok is the null that was received; ok ignores the length. *)
PairOkNull == Null
PairOkAlways == TRUE

PairOk == buf # <<>>

PairLen(t) ==
  /\ pc[t] = "pair_len_in"
  /\ UnlockMu
  /\ ok' = [ok EXCEPT ![t] = PairOk]
  /\ Goto(t, "run")
  /\ UNCHANGED <<gil, buf, closed, cancelled, kind, val, res>>

-----------------------------------------------------------------------------
(* xs_chan_try_recv; select polls each channel in the same way. *)

TryCall(t) ==
  /\ Begin(t, "recv", Null)
  /\ Goto(t, "try_lock")
  /\ UNCHANGED gil

TryRecv(t) ==
  /\ pc[t] = "try_in"
  /\ \/ /\ Pop(t)
        /\ BroadcastGoto(t, "run")
     \/ /\ buf = <<>>
        /\ res' = [res EXCEPT ![t] = "nothing"]
        /\ Goto(t, "run")
        /\ UNCHANGED <<buf, val>>
  /\ UnlockMu
  /\ UNCHANGED <<gil, closed, cancelled, kind, ok>>

(* xs_chan_close. *)
CloseCall(t) ==
  /\ Begin(t, "recv", Null)
  /\ Goto(t, "close_lock")
  /\ UNCHANGED gil

CloseChan(t) ==
  /\ pc[t] = "close_in"
  /\ closed' = TRUE
  /\ UnlockMu
  /\ BroadcastGoto(t, "run")
  /\ UNCHANGED <<gil, buf, cancelled, kind, val, res, ok>>

-----------------------------------------------------------------------------
(* xs_sleep_seconds: the other way a thread gives up the GIL. *)
Sleep(t) ==
  /\ Begin(t, "recv", Null)
  /\ ReleaseGil(t, "acq")

(* The nursery of t cancels it: mark_siblings_cancelled_locked. *)
CancelTask(t) ==
  /\ t \in InterpTasks
  /\ ~cancelled[t]
  /\ cancelled' = [cancelled EXCEPT ![t] = TRUE]
  /\ UNCHANGED <<gil, mu, buf, closed, pc, kind, val, res, ok>>

(* What a thread does inside a critical section, without waiting. *)
Critical(t) ==
  \/ SendBlock(t) \/ SendClosed(t) \/ SendPush(t) \/ SendUnbounded(t)
  \/ RecvBlock(t) \/ RecvWoke(t) \/ RecvDrained(t) \/ RecvPop(t)
  \/ PairClosed(t) \/ PairLen(t)
  \/ TryRecv(t) \/ CloseChan(t)

Call(t) == SendCall(t) \/ RecvCall(t) \/ TryCall(t) \/ CloseCall(t) \/ Sleep(t)

Next ==
  \E t \in Threads :
    \/ AcquireGil(t) \/ LockMu(t) \/ TimedOut(t) \/ SpuriousWake(t)
    \/ Critical(t) \/ Call(t) \/ CancelTask(t)

Spec == Init /\ [][Next]_vars

(* The calls with which a running thread gives up the GIL. *)
Yield(t) == Sleep(t) \/ RecvCall(t) \/ (Cap > 0 /\ SendCall(t))

(* The scheduler runs every thread, and a mutex that keeps becoming free   *)
(* is not withheld for ever from one that waits for it.  The program keeps *)
(* giving up the GIL: XS has no preemption, so a thread that computes for  *)
(* ever starves the others.  No fairness for spurious wake-ups, for        *)
(* cancellation or for any particular call.                                *)
Fairness ==
  \A t \in Threads :
    /\ WF_vars(Critical(t)) /\ WF_vars(TimedOut(t))
    /\ SF_vars(LockMu(t)) /\ SF_vars(AcquireGil(t))
    /\ SF_vars(Yield(t))

FairSpec == Spec /\ Fairness

-----------------------------------------------------------------------------
(* Properties. *)

TypeOK ==
  /\ gil \in Threads \cup {NoOne}
  /\ mu \in Threads \cup {NoOne}
  /\ buf \in Seq(Msgs)
  /\ closed \in BOOLEAN
  /\ cancelled \in [Threads -> BOOLEAN]
  /\ pc \in [Threads -> PCs]
  /\ kind \in [Threads -> {"recv", "pair"}]
  /\ val \in [Threads -> Msgs \cup {Null}]
  /\ res \in [Threads -> Results]
  /\ ok \in [Threads -> BOOLEAN]

(* States in which the thread is inside cs->mu. *)
InMu == {"send_in", "usend_in", "recv_in", "recv_woke", "try_in", "close_in",
         "pair_closed_in", "pair_len_in"}

(* States in which the thread executes under the GIL. *)
UnderGil == {"run", "usend_lock", "usend_in", "try_lock", "try_in", "close_lock",
             "close_in", "pair_closed", "pair_closed_in", "pair_len", "pair_len_in"}

(* The GIL and the mutex are held exactly where the code believes so.  A   *)
(* thread that waits for a peer, for the mutex of a blocking call or for   *)
(* the GIL holds neither, so the two locks cannot be waited for in a cycle *)
(* ("Blocking ops release the GIL while waiting", concurrent.h).           *)
LockDiscipline ==
  \A t \in Threads :
    /\ pc[t] \in UnderGil <=> gil = t
    /\ pc[t] \in InMu <=> mu = t

(* A bounded channel never holds more than its capacity, however many      *)
(* senders are woken by one receive (the while of xs_chan_send).           *)
CapacityBound == Cap > 0 => Len(buf) <= Cap

(* No wake-up is lost: whoever sits in the condition wait has nothing to   *)
(* do.  A send, a receive or a close that changes a waiter's condition has *)
(* woken it in the same critical section.                                  *)
NoLostWakeup ==
  \A t \in Threads :
    /\ pc[t] = "send_wait" => ~closed /\ Len(buf) >= Cap
    /\ pc[t] = "recv_wait" => ~closed /\ buf = <<>>

(* Nothing enters a channel once it is closed, not even from a send that   *)
(* was already waiting for room, and the channel never reopens.            *)
ClosedForGood ==
  [][closed => closed' /\ Len(buf') <= Len(buf)]_<<buf, closed>>

(* The channel implements the FIFO queue its callers are promised. *)
SpecCall ==
  [t \in Threads |->
     CASE pc[t] \in {"send_lock", "send_in", "send_wait", "usend_lock", "usend_in"}
            -> [st |-> "send", v |-> val[t]]
       [] pc[t] \in {"recv_lock", "recv_in", "recv_wait", "recv_relock", "recv_woke"}
            -> [st |-> "recv", v |-> Null]
       [] pc[t] \in {"try_lock", "try_in"} -> [st |-> "poll", v |-> Null]
       [] OTHER -> IF res[t] = "none" THEN [st |-> "idle", v |-> Null]
                   ELSE [st |-> res[t], v |-> val[t]]]

Fifo == INSTANCE ChanSpec
          WITH queue <- buf, shut <- closed, call <- SpecCall,
               Cancellable <- InterpTasks

(* Every call takes effect once, in one place, in FIFO order, with the     *)
(* outcome it reports.                                                     *)
ImplementsFifo == Fifo!FifoSpec

(* close() wakes every waiter: "pending recvs return null, pending bounded *)
(* sends bail out" (xs_chan_close).                                        *)
CloseReleasesAll ==
  \A t \in Threads : closed /\ pc[t] # "run" ~> pc[t] = "run"

(* A cancelled interpreter task does not stay in a recv that nobody        *)
(* answers (the 25 ms poll in xs_chan_recv).                               *)
CancelReleasesRecv ==
  \A t \in Threads : (cancelled[t] /\ pc[t] = "recv_wait") ~> pc[t] = "run"

(* The ok of a pair is right, although recv_pair looks at the channel only  *)
(* after the receive is over and others may have used it since: true comes *)
(* with a message, but for a receive that was cancelled; false comes from  *)
(* a channel that was closed and empty, and is so ever after.              *)
PairOkIsRight ==
  \A t \in Threads : pc[t] = "run" /\ kind[t] = "pair" =>
    /\ ok[t] /\ res[t] # "got" => cancelled[t]
    /\ ~ok[t] => closed /\ buf = <<>>
=============================================================================
