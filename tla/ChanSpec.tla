------------------------------ MODULE ChanSpec ------------------------------
(***************************************************************************)
(* What a channel promises its callers: LANGUAGE.md, "Channels are FIFO    *)
(* message queues.  Unbounded by default, or bounded with a capacity."     *)
(*                                                                         *)
(* Every call takes effect atomically, exactly once, at some moment        *)
(* between its start and its return.  There are no locks, no condition     *)
(* variables and no interpreter lock here; module Channel has them and is  *)
(* shown to implement this one.                                            *)
(***************************************************************************)
EXTENDS Naturals, Sequences

CONSTANTS
  Threads,      \* the threads that use the channel
  Msgs,         \* the values that may be sent
  Null,         \* the XS null value, also what an empty-handed recv returns
  Cap,          \* capacity; 0 means unbounded
  Cancellable   \* the threads whose blocked recv a nursery may cancel

VARIABLES
  queue,        \* the buffered messages, oldest first
  shut,         \* the channel was closed
  call          \* per thread: the call in progress, or its outcome

specVars == <<queue, shut, call>>

Idle == [st |-> "idle", v |-> Null]

SpecInit ==
  /\ queue = <<>>
  /\ shut = FALSE
  /\ call = [t \in Threads |-> Idle]

Become(t, st, v) == call' = [call EXCEPT ![t] = [st |-> st, v |-> v]]

Pending == {"send", "recv", "poll"}

(* A call starts; the outcome of the previous one is forgotten. *)
Start(t) ==
  /\ call[t].st \notin Pending
  /\ \/ \E v \in Msgs : Become(t, "send", v)
     \/ Become(t, "recv", Null)
     \/ Become(t, "poll", Null)
  /\ UNCHANGED <<queue, shut>>

(* A send takes effect: room, and the channel is open. *)
Accept(t) ==
  /\ call[t].st = "send"
  /\ ~shut
  /\ Cap = 0 \/ Len(queue) < Cap
  /\ queue' = Append(queue, call[t].v)
  /\ Become(t, "sent", call[t].v)
  /\ UNCHANGED shut

(* A send on a closed channel is refused, and adds nothing. *)
Refuse(t) ==
  /\ call[t].st = "send"
  /\ shut
  /\ Become(t, "refused", call[t].v)
  /\ UNCHANGED <<queue, shut>>

(* A recv or a poll takes the oldest message. *)
Deliver(t) ==
  /\ call[t].st \in {"recv", "poll"}
  /\ queue # <<>>
  /\ Become(t, "got", Head(queue))
  /\ queue' = Tail(queue)
  /\ UNCHANGED shut

(* A recv comes back empty-handed only from a channel that is closed and   *)
(* drained, or because its task was cancelled; a poll also when empty.     *)
Nothing(t) ==
  /\ \/ call[t].st \in {"recv", "poll"} /\ queue = <<>> /\ shut
     \/ call[t].st = "poll" /\ queue = <<>>
     \/ call[t].st = "recv" /\ t \in Cancellable
  /\ Become(t, "nothing", Null)
  /\ UNCHANGED <<queue, shut>>

Return(t) ==
  /\ call[t].st \notin Pending
  /\ call' = [call EXCEPT ![t] = Idle]
  /\ UNCHANGED <<queue, shut>>

Shut ==
  /\ shut' = TRUE
  /\ UNCHANGED <<queue, call>>

SpecNext ==
  \/ \E t \in Threads :
       Start(t) \/ Accept(t) \/ Refuse(t) \/ Deliver(t) \/ Nothing(t) \/ Return(t)
  \/ Shut

FifoSpec == SpecInit /\ [][SpecNext]_specVars
=============================================================================
