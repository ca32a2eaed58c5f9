----------------------------- MODULE HttpServer -----------------------------
(***************************************************************************)
(* The HTTP server of net/http_server.c on the event loop of               *)
(* runtime/event_loop.c: one thread that polls its sockets, looks at the   *)
(* pending signals and fires its timers, round after round.                *)
(*                                                                         *)
(* The bytes a connection has received are abstracted to what its callback *)
(* makes of them.  Time is counted in sweep intervals (the repeating timer *)
(* of one second): the clock moves on only after the sweep of the interval *)
(* has fired, that is, a round of the loop is shorter than an interval.    *)
(* Left out: routing, TLS, the byte and request counters.                  *)
(***************************************************************************)
EXTENDS Integers, Sequences, SequencesExt

CONSTANTS
  Clients,          \* sockets that connect, and may connect again
  MaxConnections,   \* limits.max_connections
  IdleTimeout,      \* limits.idle_timeout_ms, in sweep intervals
  RequestTimeout    \* limits.request_timeout_ms, in sweep intervals

ASSUME HttpServerAssumption ==
  /\ MaxConnections \in Nat \ {0}
  /\ IdleTimeout \in Nat \ {0}
  /\ RequestTimeout \in Nat \ {0}

VARIABLES
  phase,      \* the step of evloop_run_once, or what follows evloop_run
  at,         \* the entry of the table the sweep looks at next, 0 for none
  running,    \* evloop->running
  draining,   \* server->draining
  listening,  \* server->listen_fd is open and registered
  sigint,     \* g_signal_received[SIGINT]
  swept,      \* the sweep timer has fired in this interval
  conns,      \* server->conns
  sources,    \* clients whose socket is an active source of the loop
  sock,       \* "out", "backlog" (connected, not accepted) or "open"
  buf,        \* what the read buffer starts with: nothing, a "partial"
              \* request, a complete one ("ready"), a malformed one ("bad")
  request,    \* intervals since request_start_ms, or Idle when that is 0
  idle,       \* intervals since last_activity_ms
  \* History
  unanswered, \* intervals since a client was accepted or last answered
  stopping    \* intervals since a shutdown was asked for

loop == <<phase, at, running, draining, listening, sigint, swept>>
conn == <<buf, request, idle, unanswered>>
vars == <<loop, conns, sources, sock, conn, stopping>>

Idle == -1

Init ==
  /\ phase = "poll" /\ at = 0
  /\ running = TRUE /\ draining = FALSE /\ listening = TRUE
  /\ sigint = FALSE /\ swept = TRUE
  /\ conns = <<>>
  /\ sources = {}
  /\ sock = [c \in Clients |-> "out"]
  /\ buf = [c \in Clients |-> "empty"]
  /\ request = [c \in Clients |-> Idle]
  /\ idle = [c \in Clients |-> 0]
  /\ unanswered = [c \in Clients |-> 0]
  /\ stopping = 0

-----------------------------------------------------------------------------
(* The connection table. *)

(* Mutant: the last entry is dropped without taking the place of the other. *)
FillGapNot(s, i) == Front(s)

(* The last entry takes the place of entry i. *)
FillGap(s, i) == Front([s EXCEPT ![i] = Last(s)])

(* server_remove_conn. *)
SwapRemove(s, c) == FillGap(s, CHOOSE j \in 1..Len(s) : s[j] = c)

(* What a connection is set back to when it is freed; conn_new starts so. *)
Fresh(c) ==
  /\ buf' = [buf EXCEPT ![c] = "empty"]
  /\ request' = [request EXCEPT ![c] = Idle]
  /\ idle' = [idle EXCEPT ![c] = 0]
  /\ unanswered' = [unanswered EXCEPT ![c] = 0]

(* evloop_remove_fd and conn_free. *)
Close(c) ==
  /\ sources' = sources \ {c}
  /\ sock' = [sock EXCEPT ![c] = "out"]
  /\ Fresh(c)

(* A callback is through with its connection. *)
Drop(c) == Close(c) /\ conns' = SwapRemove(conns, c)

Keep == UNCHANGED <<conns, sources, sock>>

(* http_server_shutdown; closing the listener resets who is in its backlog. *)
Shutdown ==
  IF draining THEN UNCHANGED <<draining, listening, sock>>
  ELSE /\ draining' = TRUE
       /\ listening' = FALSE
       /\ sock' = [c \in Clients |-> IF sock[c] = "backlog" THEN "out" ELSE sock[c]]

-----------------------------------------------------------------------------
(* Clients and time. *)

Connect(c) ==
  /\ listening /\ sock[c] = "out"
  /\ sock' = [sock EXCEPT ![c] = "backlog"]
  /\ UNCHANGED <<loop, conns, sources, conn, stopping>>

(* The signal handler only sets a flag; a second SIGINT is the same flag. *)
Interrupt ==
  /\ ~sigint /\ phase # "freed"
  /\ sigint' = TRUE
  /\ UNCHANGED <<phase, at, running, draining, listening, swept, conns, sources, sock, conn,
                 stopping>>

Tick ==
  /\ swept /\ phase \in {"poll", "signals", "timers"}
  /\ swept' = FALSE
  /\ LET older(age) == [c \in Clients |-> IF c \in sources /\ age[c] # Idle
                                          THEN age[c] + 1 ELSE age[c]]
     IN  /\ request' = older(request)
         /\ idle' = older(idle)
         /\ unanswered' = older(unanswered)
  /\ stopping' = IF draining \/ sigint THEN stopping + 1 ELSE 0
  /\ UNCHANGED <<phase, at, running, draining, listening, sigint, conns, sources, sock, buf>>

-----------------------------------------------------------------------------
(* backend_poll: callbacks of the sockets that are ready. *)

Full == Len(conns) >= MaxConnections

(* on_accept; a refused client gets its 503 and is closed. *)
Accept(c) ==
  /\ phase = "poll" /\ listening /\ sock[c] = "backlog"
  /\ IF draining \/ Full
     THEN /\ sock' = [sock EXCEPT ![c] = "out"]
          /\ UNCHANGED <<conns, sources, conn>>
     ELSE /\ sock' = [sock EXCEPT ![c] = "open"]
          /\ conns' = Append(conns, c)
          /\ sources' = sources \cup {c}
          /\ Fresh(c)
  /\ UNCHANGED <<loop, stopping>>

Readable(c) == phase = "poll" /\ c \in sources

(* on_client_readable: the peer is gone; or what it sends is over a limit (the
   buffer is at its cap, 413; the headers are too long, 431; the announced
   body is too long, 413). *)
HangUp(c) ==
  /\ Readable(c)
  /\ Drop(c)
  /\ UNCHANGED <<loop, stopping>>

(* Mutant: every arrival restarts the clock of the request. *)
ArrivesRestarting(c) ==
  /\ idle' = [idle EXCEPT ![c] = 0]
  /\ request' = [request EXCEPT ![c] = 0]

(* Bytes have arrived: the first of a request starts its clock. *)
Arrives(c) ==
  /\ idle' = [idle EXCEPT ![c] = 0]
  /\ request' = [request EXCEPT ![c] = IF @ = Idle THEN 0 ELSE @]

(* ... and the request is still not complete. *)
MoreData(c) ==
  /\ Readable(c)
  /\ buf[c] \in {"empty", "partial"}
  /\ buf' = [buf EXCEPT ![c] = "partial"]
  /\ Arrives(c)
  /\ Keep
  /\ UNCHANGED <<loop, unanswered, stopping>>

(* The end of on_client_readable: a request has been answered and the buffer
   now starts with rest.  One callback answers one request, whatever else has
   arrived.  The connection is closed when the buffer is empty, when it shows a
   "Connection: close" (rest is then "empty" too, whatever follows) and while
   the server drains. *)
Answered(c, rest) ==
  IF rest = "empty" \/ draining THEN Drop(c)
  ELSE /\ buf' = [buf EXCEPT ![c] = rest]
       /\ request' = [request EXCEPT ![c] = Idle]
       /\ idle' = [idle EXCEPT ![c] = 0]
       /\ unanswered' = [unanswered EXCEPT ![c] = 0]
       /\ Keep

(* A complete request goes to its handler. *)
Serve(c, rest) ==
  /\ Readable(c)
  /\ buf[c] # "bad"
  /\ Answered(c, rest)
  /\ UNCHANGED <<loop, stopping>>

(* A handler that calls http_server_shutdown: its connection is then closed. *)
ServeShutdown(c) ==
  /\ Readable(c)
  /\ buf[c] # "bad" /\ ~draining
  /\ draining' = TRUE
  /\ listening' = FALSE
  /\ sources' = sources \ {c}
  /\ conns' = SwapRemove(conns, c)
  /\ sock' = [d \in Clients |-> IF d = c \/ sock[d] = "backlog" THEN "out" ELSE sock[d]]
  /\ Fresh(c)
  /\ UNCHANGED <<phase, at, running, sigint, swept, stopping>>

(* A handler that calls http_server_stop: the round is still completed. *)
ServeStop(c, rest) ==
  /\ Readable(c)
  /\ buf[c] # "bad"
  /\ running' = FALSE
  /\ Answered(c, rest)
  /\ UNCHANGED <<phase, at, draining, listening, sigint, swept, stopping>>

(* A malformed request is answered with 400 and stays in the buffer, where the
   next arrival finds it again. *)
Malformed(c, rest) ==
  /\ Readable(c)
  /\ buf[c] # "ready"
  /\ Answered(c, rest)
  /\ UNCHANGED <<loop, stopping>>

EndPoll ==
  /\ phase = "poll"
  /\ phase' = "signals"
  /\ UNCHANGED <<at, running, draining, listening, sigint, swept, conns, sources, sock, conn,
                 stopping>>

-----------------------------------------------------------------------------
(* process_signals and fire_timers. *)

ProcessSignals ==
  /\ phase = "signals"
  /\ phase' = "timers"
  /\ sigint' = FALSE
  /\ IF sigint THEN Shutdown ELSE UNCHANGED <<draining, listening, sock>>
  /\ UNCHANGED <<at, running, swept, conns, sources, conn, stopping>>

Overdue(c) ==
  \/ request[c] > RequestTimeout
  \/ request[c] = Idle /\ idle[c] > IdleTimeout

(* Mutant: the loop begins below the last entry. *)
LastEntryButOne == IF conns = <<>> THEN 0 ELSE Len(conns) - 1

(* Where the first loop of on_sweep_timer begins; it goes down to the first. *)
LastEntry == Len(conns)

(* The condition of the loop in evloop_run. *)
NextRound == phase' = IF running' THEN "poll" ELSE "ended"

(* fire_timers: the sweep timer is not due ... *)
NoTimer ==
  /\ phase = "timers" /\ swept
  /\ UNCHANGED <<at, running, draining, listening, sigint, swept, conns, sources, sock, conn,
                 stopping>>
  /\ NextRound

(* ... or it is, and on_sweep_timer begins. *)
BeginSweep ==
  /\ phase = "timers" /\ ~swept
  /\ phase' = "sweep"
  /\ at' = LastEntry
  /\ UNCHANGED <<running, draining, listening, sigint, swept, conns, sources, sock, conn, stopping>>

(* One turn of its first loop. *)
SweepEntry ==
  /\ phase = "sweep" /\ at > 0
  /\ IF Overdue(conns[at]) THEN Close(conns[at]) /\ conns' = FillGap(conns, at)
     ELSE UNCHANGED <<conns, sources, sock, conn>>
  /\ at' = at - 1
  /\ UNCHANGED <<phase, running, draining, listening, sigint, swept, stopping>>

(* Mutant: draining ends the connections and leaves the loop running. *)
StopsNever == FALSE

(* In a sweep no connection is processing a request (that flag is up only
   during a callback), so draining never waits for shutdown_deadline_ms: the
   first sweep closes every connection and stops the loop. *)
Stops == draining

CloseAll ==
  /\ conns' = <<>>
  /\ sources' = {}
  /\ sock' = [c \in Clients |-> IF sock[c] = "open" THEN "out" ELSE sock[c]]
  /\ buf' = [c \in Clients |-> "empty"]
  /\ request' = [c \in Clients |-> Idle]
  /\ idle' = [c \in Clients |-> 0]
  /\ unanswered' = [c \in Clients |-> 0]

(* The rest of on_sweep_timer and of fire_timers. *)
EndSweep ==
  /\ phase = "sweep" /\ at = 0
  /\ swept' = TRUE
  /\ IF draining THEN CloseAll ELSE UNCHANGED <<conns, sources, sock, conn>>
  /\ running' = (running /\ ~Stops)
  /\ NextRound
  /\ UNCHANGED <<at, draining, listening, sigint, stopping>>

(* http_server_free, once http_server_start has returned. *)
Free ==
  /\ phase = "ended"
  /\ phase' = "freed"
  /\ listening' = FALSE
  /\ conns' = <<>>
  /\ sources' = {}
  /\ sock' = [c \in Clients |-> "out"]
  /\ buf' = [c \in Clients |-> "empty"]
  /\ request' = [c \in Clients |-> Idle]
  /\ idle' = [c \in Clients |-> 0]
  /\ unanswered' = [c \in Clients |-> 0]
  /\ UNCHANGED <<at, running, draining, sigint, swept, stopping>>

(* The process goes on without the server. *)
Over == phase = "freed" /\ UNCHANGED vars

-----------------------------------------------------------------------------
Leftovers == {"empty", "partial", "ready", "bad"}

Next ==
  \/ Interrupt \/ Tick \/ EndPoll \/ ProcessSignals \/ NoTimer
  \/ BeginSweep \/ SweepEntry \/ EndSweep \/ Free \/ Over
  \/ \E c \in Clients :
       \/ Connect(c) \/ Accept(c) \/ HangUp(c) \/ MoreData(c) \/ ServeShutdown(c)
       \/ \E rest \in {"empty", "bad"} : Malformed(c, rest)
       \/ \E rest \in Leftovers : Serve(c, rest) \/ ServeStop(c, rest)

Spec == Init /\ [][Next]_vars

-----------------------------------------------------------------------------
(* Properties. *)

(* Every variable has its type; the table holds at most MaxConnections. *)
TypeOK ==
  /\ phase \in {"poll", "signals", "timers", "sweep", "ended", "freed"}
  /\ at \in 0..Len(conns)
  /\ {running, draining, listening, sigint, swept} \subseteq BOOLEAN
  /\ ToSet(conns) \subseteq Clients /\ Len(conns) <= MaxConnections
  /\ sock \in [Clients -> {"out", "backlog", "open"}]
  /\ buf \in [Clients -> Leftovers]
  /\ \A c \in Clients : request[c] >= Idle /\ idle[c] >= 0 /\ unanswered[c] >= 0

(* The table of connections, the sources of the event loop and the sockets the
   process holds are the same set, each connection once: no callback can run
   for a freed connection, and none is leaked by the swap-removals of
   on_client_readable, the sweep and the shutdown. *)
TableMatchesSockets ==
  /\ TypeOK
  /\ ToSet(conns) = sources
  /\ sources = {c \in Clients : sock[c] = "open"}
  /\ \A i, j \in 1..Len(conns) : conns[i] = conns[j] => i = j

(* The sweep leaves no connection past its deadline behind, wherever it stands
   in the table. *)
SweepIsThorough == swept => \A c \in sources : ~Overdue(c)

(* A client cannot hold a slot without being answered for longer than the two
   timeouts together (and the interval the sweep needs to notice), however it
   spaces its bytes and whatever it pipelines: request_timeout_ms "drops
   connections stuck mid-request", idle_timeout_ms the rest. *)
SlotsComeBack ==
  \A c \in sources : unanswered[c] <= IdleTimeout + RequestTimeout + 2

(* A shutdown, by signal or by a handler, is over two intervals later at the
   latest, with every connection closed, whatever the clients do meanwhile and
   wherever in its round the loop was. *)
ShutdownInTime ==
  /\ stopping <= 2
  /\ phase = "freed" => sources = {}
=============================================================================
