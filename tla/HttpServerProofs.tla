--------------------------- MODULE HttpServerProofs --------------------------
(***************************************************************************)
(* Proofs about HttpServer, for any set of clients, any connection limit   *)
(* and any timeouts.                                                       *)
(***************************************************************************)
EXTENDS HttpServer, SequenceTheorems, TLAPS

-----------------------------------------------------------------------------
(* The connection table. *)

Distinct(s) == \A i, j \in 1..Len(s) : s[i] = s[j] => i = j

(* Filling the gap removes one entry and keeps the others, each once. *)
LEMMA FillGapProperties ==
  ASSUME NEW S, NEW s \in Seq(S), Distinct(s), NEW i \in 1..Len(s)
  PROVE  /\ FillGap(s, i) \in Seq(S)
         /\ Len(FillGap(s, i)) = Len(s) - 1
         /\ \A j \in 1..Len(s) - 1 : FillGap(s, i)[j] = IF j = i THEN s[Len(s)] ELSE s[j]
         /\ Distinct(FillGap(s, i))
         /\ ToSet(FillGap(s, i)) = ToSet(s) \ {s[i]}
<1> DEFINE n == Len(s)
           r == [s EXCEPT ![i] = s[n]]
           f == FillGap(s, i)
<1>1. n \in Nat /\ n \in 1..n /\ i \in 1..n
  BY LenProperties
<1>2. s[n] \in S
  BY <1>1, ElementOfSeq
<1>3. /\ r \in Seq(S) /\ Len(r) = n
      /\ \A j \in 1..n : r[j] = IF j = i THEN s[n] ELSE s[j]
  BY <1>1, <1>2, ExceptSeq
<1>4. f = SubSeq(r, 1, n - 1)
  BY <1>3 DEF FillGap, Front, Last
<1>5. \A j \in 1..n - 1 : r[j] \in S
  BY <1>1, <1>3, ElementOfSeq
<1>6. /\ f \in Seq(S)
      /\ Len(f) = IF 1 <= n - 1 THEN n - 1 - 1 + 1 ELSE 0
      /\ \A j \in 1..n - 1 - 1 + 1 : f[j] = r[1 + j - 1]
  <2> HIDE DEF r, f
  <2> QED
    BY <1>1, <1>3, <1>4, <1>5, SubSeqProperties
<1> HIDE DEF f, r
<1>7. Len(f) = n - 1 /\ \A j \in 1..n - 1 : f[j] = IF j = i THEN s[n] ELSE s[j]
  BY <1>1, <1>3, <1>6
<1>8. Distinct(f)
  BY <1>1, <1>7 DEF Distinct
<1>9. ToSet(f) = ToSet(s) \ {s[i]}
  <2>1. ToSet(f) = {f[j] : j \in 1..n - 1} /\ ToSet(s) = {s[j] : j \in 1..n}
    BY <1>6, <1>7, LenProperties DEF ToSet
  <2>2. ASSUME NEW j \in 1..n - 1 PROVE f[j] \in ToSet(s) \ {s[i]}
    <3>1. CASE j = i
      <4>1. f[j] = s[n] /\ n # i
        BY <1>1, <1>7, <3>1
      <4> QED
        BY <1>1, <2>1, <4>1 DEF Distinct
    <3>2. CASE j # i
      <4>1. f[j] = s[j] /\ j \in 1..n
        BY <1>1, <1>7, <3>2
      <4> QED
        BY <1>1, <2>1, <3>2, <4>1 DEF Distinct
    <3> QED
      BY <3>1, <3>2
  <2>3. ASSUME NEW j \in 1..n, s[j] # s[i] PROVE s[j] \in ToSet(f)
    <3>1. CASE j = n
      <4>1. i \in 1..n - 1 /\ f[i] = s[j]
        BY <1>1, <1>7, <2>3, <3>1
      <4> QED
        BY <2>1, <4>1
    <3>2. CASE j # n
      <4>1. j \in 1..n - 1 /\ f[j] = s[j]
        BY <1>1, <1>7, <2>3, <3>2
      <4> QED
        BY <2>1, <4>1
    <3> QED
      BY <3>1, <3>2
  <2> QED
    BY <2>1, <2>2, <2>3
<1> QED
  BY <1>6, <1>7, <1>8, <1>9 DEF f

(* server_remove_conn finds the connection, whichever entry it is. *)
LEMMA SwapRemoveProperties ==
  ASSUME NEW S, NEW s \in Seq(S), Distinct(s), NEW c \in ToSet(s)
  PROVE  /\ SwapRemove(s, c) \in Seq(S)
         /\ Len(SwapRemove(s, c)) = Len(s) - 1
         /\ Distinct(SwapRemove(s, c))
         /\ ToSet(SwapRemove(s, c)) = ToSet(s) \ {c}
<1> DEFINE i == CHOOSE j \in 1..Len(s) : s[j] = c
<1>1. \E j \in 1..Len(s) : s[j] = c
  BY LenProperties DEF ToSet
<1>2. i \in 1..Len(s) /\ s[i] = c
  BY <1>1
<1>3. SwapRemove(s, c) = FillGap(s, i)
  BY DEF SwapRemove
<1> HIDE DEF i
<1>4. /\ FillGap(s, i) \in Seq(S)
      /\ Len(FillGap(s, i)) = Len(s) - 1
      /\ Distinct(FillGap(s, i))
      /\ ToSet(FillGap(s, i)) = ToSet(s) \ {s[i]}
  BY <1>2, FillGapProperties
<1> QED
  BY <1>2, <1>3, <1>4

LEMMA AppendTable ==
  ASSUME NEW S, NEW s \in Seq(S), Distinct(s), NEW c \in S \ ToSet(s)
  PROVE  /\ Append(s, c) \in Seq(S)
         /\ Len(Append(s, c)) = Len(s) + 1
         /\ Distinct(Append(s, c))
         /\ ToSet(Append(s, c)) = ToSet(s) \cup {c}
<1>1. /\ Append(s, c) \in Seq(S) /\ Len(s) \in Nat /\ Len(Append(s, c)) = Len(s) + 1
      /\ \A j \in 1..Len(s) : Append(s, c)[j] = s[j]
      /\ Append(s, c)[Len(s) + 1] = c
  BY AppendProperties, LenProperties
<1>2. /\ ToSet(s) = {s[j] : j \in 1..Len(s)}
      /\ ToSet(Append(s, c)) = {Append(s, c)[j] : j \in 1..Len(s) + 1}
  BY <1>1, LenProperties DEF ToSet
<1>3. ToSet(Append(s, c)) = ToSet(s) \cup {c}
  BY <1>1, <1>2
<1>4. \A j \in 1..Len(s) : s[j] # c
  BY <1>2
<1>5. Distinct(Append(s, c))
  BY <1>1, <1>4 DEF Distinct
<1> QED
  BY <1>1, <1>3, <1>5

LEMMA EmptyTable == <<>> \in Seq(Clients) /\ Len(<<>>) = 0 /\ Distinct(<<>>) /\ ToSet(<<>>) = {}
  BY DEF Distinct, ToSet

-----------------------------------------------------------------------------
(* Types, and the table against the sockets. *)

Ages == {Idle} \cup Nat

FlatOK ==
  /\ phase \in {"poll", "signals", "timers", "sweep", "ended", "freed"}
  /\ running \in BOOLEAN /\ draining \in BOOLEAN /\ listening \in BOOLEAN
  /\ sigint \in BOOLEAN /\ swept \in BOOLEAN
  /\ sock \in [Clients -> {"out", "backlog", "open"}]
  /\ buf \in [Clients -> Leftovers]
  /\ request \in [Clients -> Ages] /\ idle \in [Clients -> Nat] /\ unanswered \in [Clients -> Nat]
  /\ stopping \in Nat

TableInv ==
  /\ conns \in Seq(Clients) /\ Distinct(conns)
  /\ Len(conns) <= MaxConnections
  /\ at \in 0..Len(conns) /\ (phase # "sweep" => at = 0)
  /\ ToSet(conns) = sources

SockInv == sources = {c \in Clients : sock[c] = "open"}

LEMMA FlatStep == FlatOK /\ TableInv /\ [Next]_vars => FlatOK'
<1> SUFFICES ASSUME FlatOK, TableInv, [Next]_vars PROVE FlatOK'
  OBVIOUS
<1> USE DEF FlatOK, Leftovers, Ages, Idle
<1>1. ASSUME Interrupt PROVE FlatOK'
  BY <1>1 DEF Interrupt, conn
<1>2. ASSUME Tick PROVE FlatOK'
  <2>1. /\ request' = [d \in Clients |-> IF d \in sources /\ request[d] # Idle
                                        THEN request[d] + 1 ELSE request[d]]
        /\ idle' = [d \in Clients |-> IF d \in sources /\ idle[d] # Idle
                                     THEN idle[d] + 1 ELSE idle[d]]
        /\ unanswered' = [d \in Clients |-> IF d \in sources /\ unanswered[d] # Idle
                                           THEN unanswered[d] + 1 ELSE unanswered[d]]
    BY <1>2 DEF Tick
  <2>2. /\ request' \in [Clients -> Ages] /\ idle' \in [Clients -> Nat]
        /\ unanswered' \in [Clients -> Nat]
    BY <2>1
  <2>3. stopping' \in Nat
    BY <1>2 DEF Tick
  <2> QED
    BY <1>2, <2>2, <2>3 DEF Tick
<1>3. ASSUME EndPoll PROVE FlatOK'
  BY <1>3 DEF EndPoll, conn
<1>4. ASSUME ProcessSignals PROVE FlatOK'
  BY <1>4 DEF ProcessSignals, Shutdown, conn
<1>5. ASSUME NoTimer PROVE FlatOK'
  BY <1>5 DEF NoTimer, NextRound, conn
<1>6. ASSUME BeginSweep PROVE FlatOK'
  BY <1>6 DEF BeginSweep, LastEntry, conn
<1>7. ASSUME SweepEntry PROVE FlatOK'
  <2>1. conns[at] \in Clients
    BY <1>7, ElementOfSeq, LenProperties DEF SweepEntry, TableInv
  <2> QED
    BY <1>7, <2>1 DEF SweepEntry, Close, Fresh, conn
<1>8. ASSUME EndSweep PROVE FlatOK'
  BY <1>8 DEF EndSweep, CloseAll, Stops, NextRound, conn
<1>9. ASSUME Free PROVE FlatOK'
  BY <1>9 DEF Free
<1>10. ASSUME Over PROVE FlatOK'
  BY <1>10 DEF Over, vars, loop, conn
<1>11. ASSUME NEW c \in Clients, Connect(c) PROVE FlatOK'
  BY <1>11 DEF Connect, loop, conn
<1>12. ASSUME NEW c \in Clients, Accept(c) PROVE FlatOK'
  <2>1. CASE draining \/ Full
    BY <1>12, <2>1 DEF Accept, loop, conn
  <2>2. CASE ~(draining \/ Full)
    <3>1. sock' = [sock EXCEPT ![c] = "open"] /\ Fresh(c) /\ UNCHANGED <<loop, stopping>>
      BY <1>12, <2>2 DEF Accept
    <3>2. UNCHANGED <<phase, running, draining, listening, sigint, swept, stopping>>
      BY <3>1 DEF loop
    <3>3. /\ sock' \in [Clients -> {"out", "backlog", "open"}] /\ buf' \in [Clients -> Leftovers]
          /\ request' \in [Clients -> Ages] /\ idle' \in [Clients -> Nat]
          /\ unanswered' \in [Clients -> Nat]
      BY <3>1 DEF Fresh
    <3> QED
      BY <3>2, <3>3
  <2> QED
    BY <2>1, <2>2
<1>13. ASSUME NEW c \in Clients, HangUp(c) PROVE FlatOK'
  BY <1>13 DEF HangUp, Readable, Drop, Close, Fresh, loop
<1>14. ASSUME NEW c \in Clients, MoreData(c) PROVE FlatOK'
  BY <1>14 DEF MoreData, Readable, Arrives, Keep, loop
<1>15. ASSUME NEW c \in Clients, ServeShutdown(c) PROVE FlatOK'
  BY <1>15 DEF ServeShutdown, Readable, Fresh
<1>16. ASSUME NEW c \in Clients, NEW rest \in {"empty", "bad"}, Malformed(c, rest)
      PROVE  FlatOK'
  <2>1. CASE rest = "empty" \/ draining
    BY <1>16, <2>1 DEF Malformed, Answered, Drop, Close, Fresh, loop
  <2>2. CASE ~(rest = "empty" \/ draining)
    BY <1>16, <2>2 DEF Malformed, Answered, Keep, loop
  <2> QED
    BY <2>1, <2>2
<1>17. ASSUME NEW c \in Clients, NEW rest \in Leftovers, Serve(c, rest) PROVE FlatOK'
  <2>1. CASE rest = "empty" \/ draining
    BY <1>17, <2>1 DEF Serve, Answered, Drop, Close, Fresh, loop
  <2>2. CASE ~(rest = "empty" \/ draining)
    BY <1>17, <2>2 DEF Serve, Answered, Keep, loop
  <2> QED
    BY <2>1, <2>2
<1>18. ASSUME NEW c \in Clients, NEW rest \in Leftovers, ServeStop(c, rest) PROVE FlatOK'
  <2>1. /\ UNCHANGED <<phase, draining, listening, sigint, swept, stopping>>
        /\ running' \in BOOLEAN
    BY <1>18 DEF ServeStop
  <2>2. Answered(c, rest)
    BY <1>18 DEF ServeStop
  <2>3. /\ sock' \in [Clients -> {"out", "backlog", "open"}] /\ buf' \in [Clients -> Leftovers]
        /\ request' \in [Clients -> Ages] /\ idle' \in [Clients -> Nat]
        /\ unanswered' \in [Clients -> Nat]
    <3>1. CASE rest = "empty" \/ draining
      BY <2>2, <3>1 DEF Answered, Drop, Close, Fresh
    <3>2. CASE ~(rest = "empty" \/ draining)
      BY <2>2, <3>2 DEF Answered, Keep
    <3> QED
      BY <3>1, <3>2
  <2> QED
    BY <2>1, <2>3
<1>19. CASE UNCHANGED vars
  BY <1>19 DEF vars, loop, conn
<1> QED
  BY <1>1, <1>2, <1>3, <1>4, <1>5, <1>6, <1>7, <1>8, <1>9, <1>10, <1>11, <1>12, <1>13, <1>14,
     <1>15, <1>16, <1>17, <1>18, <1>19
     DEF Next

LEMMA SockStep == FlatOK /\ TableInv /\ SockInv /\ [Next]_vars => SockInv'
<1> SUFFICES ASSUME FlatOK, TableInv, SockInv, [Next]_vars PROVE SockInv'
  OBVIOUS
<1> USE DEF FlatOK, SockInv
<1>1. ASSUME Interrupt PROVE SockInv'
  BY <1>1 DEF Interrupt, conn
<1>2. ASSUME Tick PROVE SockInv'
  BY <1>2 DEF Tick
<1>3. ASSUME EndPoll PROVE SockInv'
  BY <1>3 DEF EndPoll, conn
<1>4. ASSUME ProcessSignals PROVE SockInv'
  BY <1>4 DEF ProcessSignals, Shutdown, conn
<1>5. ASSUME NoTimer PROVE SockInv'
  BY <1>5 DEF NoTimer, NextRound, conn
<1>6. ASSUME BeginSweep PROVE SockInv'
  BY <1>6 DEF BeginSweep, LastEntry, conn
<1>7. ASSUME SweepEntry PROVE SockInv'
  <2>1. conns[at] \in Clients
    BY <1>7, ElementOfSeq, LenProperties DEF SweepEntry, TableInv
  <2> QED
    BY <1>7, <2>1 DEF SweepEntry, Close
<1>8. ASSUME EndSweep PROVE SockInv'
  BY <1>8 DEF EndSweep, CloseAll, Stops, NextRound, conn
<1>9. ASSUME Free PROVE SockInv'
  BY <1>9 DEF Free
<1>10. ASSUME Over PROVE SockInv'
  BY <1>10 DEF Over, vars, loop, conn
<1>11. ASSUME NEW c \in Clients, Connect(c) PROVE SockInv'
  BY <1>11 DEF Connect, loop, conn
<1>12. ASSUME NEW c \in Clients, Accept(c) PROVE SockInv'
  BY <1>12 DEF Accept, Fresh, loop, conn
<1>13. ASSUME NEW c \in Clients, HangUp(c) PROVE SockInv'
  BY <1>13 DEF HangUp, Readable, Drop, Close, Fresh, loop
<1>14. ASSUME NEW c \in Clients, MoreData(c) PROVE SockInv'
  BY <1>14 DEF MoreData, Readable, Arrives, Keep, loop
<1>15. ASSUME NEW c \in Clients, ServeShutdown(c) PROVE SockInv'
  BY <1>15 DEF ServeShutdown, Readable, Fresh
<1>16. ASSUME NEW c \in Clients, NEW rest \in {"empty", "bad"}, Malformed(c, rest)
      PROVE  SockInv'
  BY <1>16 DEF Malformed, Readable, Answered, Drop, Close, Fresh, Keep, loop
<1>17. ASSUME NEW c \in Clients, NEW rest \in Leftovers, Serve(c, rest) PROVE SockInv'
  BY <1>17 DEF Serve, Readable, Answered, Drop, Close, Fresh, Keep, loop
<1>18. ASSUME NEW c \in Clients, NEW rest \in Leftovers, ServeStop(c, rest) PROVE SockInv'
  BY <1>18 DEF ServeStop, Readable, Answered, Drop, Close, Fresh, Keep
<1>19. CASE UNCHANGED vars
  BY <1>19 DEF vars, loop, conn
<1> QED
  BY <1>1, <1>2, <1>3, <1>4, <1>5, <1>6, <1>7, <1>8, <1>9, <1>10, <1>11, <1>12, <1>13, <1>14,
     <1>15, <1>16, <1>17, <1>18, <1>19
     DEF Next

(* What a callback that is through with its connection does to the table. *)
LEMMA DropTable ==
  ASSUME TableInv, NEW c \in sources, conns' = SwapRemove(conns, c), sources' = sources \ {c},
         phase # "sweep", UNCHANGED <<phase, at>>
  PROVE  TableInv'
<1>1. /\ conns' \in Seq(Clients) /\ Len(conns') = Len(conns) - 1 /\ Distinct(conns')
      /\ ToSet(conns') = ToSet(conns) \ {c}
  BY SwapRemoveProperties DEF TableInv
<1>2. Len(conns) \in Nat /\ Len(conns') \in Nat
  BY <1>1, LenProperties DEF TableInv
<1> QED
  BY <1>1, <1>2, HttpServerAssumption DEF TableInv

LEMMA AnsweredTable ==
  ASSUME TableInv, NEW c \in Clients, NEW rest, Readable(c), Answered(c, rest),
         UNCHANGED <<phase, at>>
  PROVE  TableInv'
<1>1. phase # "sweep" /\ c \in sources
  BY DEF Readable
<1>2. CASE rest = "empty" \/ draining
  <2>1. Drop(c)
    BY <1>2 DEF Answered
  <2> QED
    BY <1>1, <2>1, DropTable DEF Drop, Close
<1>3. CASE ~(rest = "empty" \/ draining)
  <2>1. UNCHANGED <<conns, sources>>
    BY <1>3 DEF Answered, Keep
  <2> QED
    BY <2>1 DEF TableInv
<1> QED
  BY <1>2, <1>3

LEMMA TableStep == FlatOK /\ TableInv /\ SockInv /\ [Next]_vars => TableInv'
<1> SUFFICES ASSUME FlatOK, TableInv, SockInv, [Next]_vars PROVE TableInv'
  OBVIOUS
<1>a. Len(conns) \in Nat
  BY LenProperties DEF TableInv
<1>1. ASSUME Interrupt PROVE TableInv'
  <2>1. UNCHANGED <<phase, at, conns, sources>>
    BY <1>1 DEF Interrupt, conn
  <2> QED
    BY <2>1 DEF TableInv
<1>2. ASSUME Tick PROVE TableInv'
  <2>1. UNCHANGED <<phase, at, conns, sources>>
    BY <1>2 DEF Tick
  <2> QED
    BY <2>1 DEF TableInv
<1>3. ASSUME EndPoll PROVE TableInv'
  <2>1. UNCHANGED <<at, conns, sources>> /\ phase # "sweep" /\ phase' # "sweep"
    BY <1>3 DEF EndPoll, conn
  <2> QED
    BY <2>1 DEF TableInv
<1>4. ASSUME ProcessSignals PROVE TableInv'
  <2>1. UNCHANGED <<at, conns, sources>> /\ phase # "sweep" /\ phase' # "sweep"
    BY <1>4 DEF ProcessSignals, Shutdown, conn
  <2> QED
    BY <2>1 DEF TableInv
<1>5. ASSUME NoTimer PROVE TableInv'
  <2>1. UNCHANGED <<at, conns, sources>> /\ phase # "sweep" /\ phase' # "sweep"
    BY <1>5 DEF NoTimer, NextRound, conn
  <2> QED
    BY <2>1 DEF TableInv
<1>6. ASSUME BeginSweep PROVE TableInv'
  BY <1>6, <1>a DEF BeginSweep, LastEntry, TableInv
<1>7. ASSUME SweepEntry PROVE TableInv'
  <2>1. at \in 1..Len(conns) /\ phase' = "sweep" /\ at' = at - 1
    BY <1>7, <1>a DEF SweepEntry, TableInv
  <2>2. CASE Overdue(conns[at])
    <3>a. conns' = FillGap(conns, at)
      BY <1>7, <2>2 DEF SweepEntry
    <3>b. conns \in Seq(Clients) /\ Distinct(conns)
      BY DEF TableInv
    <3>1. /\ conns' \in Seq(Clients) /\ Distinct(conns') /\ Len(conns') = Len(conns) - 1
          /\ ToSet(conns') = ToSet(conns) \ {conns[at]}
      BY <2>1, <3>a, <3>b, FillGapProperties
    <3>2. sources' = sources \ {conns[at]}
      BY <1>7, <2>2 DEF SweepEntry, Close
    <3> QED
      BY <1>a, <2>1, <3>1, <3>2, HttpServerAssumption DEF TableInv
  <2>3. CASE ~Overdue(conns[at])
    <3>1. UNCHANGED <<conns, sources>>
      BY <1>7, <2>3 DEF SweepEntry
    <3> QED
      BY <1>a, <2>1, <3>1 DEF TableInv
  <2> QED
    BY <2>2, <2>3
<1>8. ASSUME EndSweep PROVE TableInv'
  <2>1. at = 0 /\ at' = 0
    BY <1>8 DEF EndSweep
  <2>2. CASE draining
    <3>1. conns' = <<>> /\ sources' = {}
      BY <1>8, <2>2 DEF EndSweep, CloseAll
    <3> QED
      BY <2>1, <3>1, EmptyTable, HttpServerAssumption DEF TableInv
  <2>3. CASE ~draining
    <3>1. UNCHANGED <<conns, sources>>
      BY <1>8, <2>3 DEF EndSweep
    <3> QED
      BY <1>a, <2>1, <3>1 DEF TableInv
  <2> QED
    BY <2>2, <2>3
<1>9. ASSUME Free PROVE TableInv'
  <2>1. conns' = <<>> /\ sources' = {} /\ at' = 0
    BY <1>9 DEF Free, TableInv
  <2> QED
    BY <2>1, EmptyTable, HttpServerAssumption DEF TableInv
<1>10. ASSUME Over PROVE TableInv'
  <2>1. UNCHANGED <<phase, at, conns, sources>>
    BY <1>10 DEF Over, vars, loop, conn
  <2> QED
    BY <2>1 DEF TableInv
<1>11. ASSUME NEW c \in Clients, Connect(c) PROVE TableInv'
  <2>1. UNCHANGED <<phase, at, conns, sources>>
    BY <1>11 DEF Connect, loop, conn
  <2> QED
    BY <2>1 DEF TableInv
<1>12. ASSUME NEW c \in Clients, Accept(c) PROVE TableInv'
  <2>1. CASE draining \/ Full
    <3>1. UNCHANGED <<phase, at, conns, sources>>
      BY <1>12, <2>1 DEF Accept, loop
    <3> QED
      BY <3>1 DEF TableInv
  <2>2. CASE ~(draining \/ Full)
    <3>1. /\ conns' = Append(conns, c) /\ sources' = sources \cup {c}
          /\ UNCHANGED <<phase, at>> /\ phase # "sweep"
      BY <1>12, <2>2 DEF Accept, loop
    <3>2. c \in Clients \ ToSet(conns)
      BY <1>12 DEF Accept, SockInv, TableInv
    <3>3. /\ conns' \in Seq(Clients) /\ Distinct(conns') /\ Len(conns') = Len(conns) + 1
          /\ ToSet(conns') = ToSet(conns) \cup {c}
      BY <3>1, <3>2, AppendTable DEF TableInv
    <3>4. Len(conns) < MaxConnections
      BY <1>a, <2>2, HttpServerAssumption DEF Full
    <3> QED
      BY <1>a, <3>1, <3>3, <3>4, HttpServerAssumption DEF TableInv
  <2> QED
    BY <2>1, <2>2
<1>13. ASSUME NEW c \in Clients, HangUp(c) PROVE TableInv'
  <2>1. c \in sources /\ phase # "sweep" /\ Drop(c) /\ UNCHANGED <<phase, at>>
    BY <1>13 DEF HangUp, Readable, loop
  <2> QED
    BY <2>1, DropTable DEF Drop, Close
<1>14. ASSUME NEW c \in Clients, MoreData(c) PROVE TableInv'
  <2>1. UNCHANGED <<phase, at, conns, sources>>
    BY <1>14 DEF MoreData, Readable, Arrives, Keep, loop
  <2> QED
    BY <2>1 DEF TableInv
<1>15. ASSUME NEW c \in Clients, ServeShutdown(c) PROVE TableInv'
  BY <1>15, DropTable DEF ServeShutdown, Readable
<1>16. ASSUME NEW c \in Clients, NEW rest \in {"empty", "bad"}, Malformed(c, rest)
      PROVE  TableInv'
  <2>1. Readable(c) /\ Answered(c, rest) /\ UNCHANGED <<phase, at>>
    BY <1>16 DEF Malformed, loop
  <2> QED
    BY <2>1, AnsweredTable
<1>17. ASSUME NEW c \in Clients, NEW rest \in Leftovers, Serve(c, rest) PROVE TableInv'
  <2>1. Readable(c) /\ Answered(c, rest) /\ UNCHANGED <<phase, at>>
    BY <1>17 DEF Serve, loop
  <2> QED
    BY <2>1, AnsweredTable
<1>18. ASSUME NEW c \in Clients, NEW rest \in Leftovers, ServeStop(c, rest) PROVE TableInv'
  <2>1. Readable(c) /\ Answered(c, rest) /\ UNCHANGED <<phase, at>>
    BY <1>18 DEF ServeStop, loop
  <2> QED
    BY <2>1, AnsweredTable
<1>19. CASE UNCHANGED vars
  BY <1>19 DEF vars, loop, conn, TableInv
<1> QED
  BY <1>1, <1>2, <1>3, <1>4, <1>5, <1>6, <1>7, <1>8, <1>9, <1>10, <1>11, <1>12, <1>13, <1>14,
     <1>15, <1>16, <1>17, <1>18, <1>19
     DEF Next

-----------------------------------------------------------------------------
(* How the clocks of a connection move. *)

(* A connection keeps its clocks, is set back, or has received bytes. *)
Stays(c) ==
  /\ c \in sources
  /\ request'[c] = request[c] /\ idle'[c] = idle[c] /\ unanswered'[c] = unanswered[c]

SetBack(c) == request'[c] = Idle /\ idle'[c] = 0 /\ unanswered'[c] = 0

Receives(c) ==
  /\ c \in sources
  /\ request'[c] = IF request[c] = Idle THEN 0 ELSE request[c]
  /\ idle'[c] = 0 /\ unanswered'[c] = unanswered[c]

ClocksMove == \A c \in sources' : Stays(c) \/ SetBack(c) \/ Receives(c)

LEMMA FreshClocks ==
  ASSUME FlatOK, NEW c \in Clients, Fresh(c), sources \subseteq Clients,
         sources' \subseteq sources \cup {c}
  PROVE  ClocksMove
<1> SUFFICES ASSUME NEW d \in sources' PROVE Stays(d) \/ SetBack(d)
  BY DEF ClocksMove
<1>1. CASE d = c
  BY <1>1 DEF Fresh, SetBack, FlatOK
<1>2. CASE d # c
  BY <1>2 DEF Fresh, Stays, FlatOK
<1> QED
  BY <1>1, <1>2

LEMMA SameClocks == UNCHANGED <<sources, request, idle, unanswered>> => ClocksMove
  BY DEF ClocksMove, Stays

LEMMA AnsweredClocks ==
  ASSUME FlatOK, sources \subseteq Clients, NEW c \in Clients, NEW rest, Answered(c, rest)
  PROVE  ClocksMove
<1>1. CASE rest = "empty" \/ draining
  <2>1. Fresh(c) /\ sources' = sources \ {c}
    BY <1>1 DEF Answered, Drop, Close
  <2> QED
    BY <2>1, FreshClocks
<1>2. CASE ~(rest = "empty" \/ draining)
  <2>1. /\ request' = [request EXCEPT ![c] = Idle] /\ idle' = [idle EXCEPT ![c] = 0]
        /\ unanswered' = [unanswered EXCEPT ![c] = 0] /\ sources' = sources
    BY <1>2 DEF Answered, Keep
  <2>2. ASSUME NEW d \in sources' PROVE Stays(d) \/ SetBack(d)
    <3>1. CASE d = c
      BY <2>1, <3>1 DEF SetBack, FlatOK
    <3>2. CASE d # c
      BY <2>1, <3>2 DEF Stays, FlatOK
    <3> QED
      BY <3>1, <3>2
  <2> QED
    BY <2>2 DEF ClocksMove
<1> QED
  BY <1>1, <1>2

LEMMA SourcesAreClients == TableInv => sources \subseteq Clients
<1> SUFFICES ASSUME TableInv PROVE ToSet(conns) \subseteq Clients
  BY DEF TableInv
<1> QED
  BY ElementOfSeq, LenProperties DEF TableInv, ToSet

(* Every step but the passing of an interval moves the clocks so. *)
LEMMA ClocksStep ==
  ASSUME FlatOK, TableInv, [Next]_vars
  PROVE  Tick \/ ClocksMove
<1>a. sources \subseteq Clients
  BY SourcesAreClients
<1>1. ASSUME Interrupt PROVE Tick \/ ClocksMove
  <2>1. UNCHANGED <<sources, request, idle, unanswered>>
    BY <1>1 DEF Interrupt, conn
  <2> QED
    BY <2>1, SameClocks
<1>2. ASSUME Tick PROVE Tick \/ ClocksMove
  BY <1>2
<1>3. ASSUME EndPoll PROVE Tick \/ ClocksMove
  <2>1. UNCHANGED <<sources, request, idle, unanswered>>
    BY <1>3 DEF EndPoll, conn
  <2> QED
    BY <2>1, SameClocks
<1>4. ASSUME ProcessSignals PROVE Tick \/ ClocksMove
  <2>1. UNCHANGED <<sources, request, idle, unanswered>>
    BY <1>4 DEF ProcessSignals, Shutdown, conn
  <2> QED
    BY <2>1, SameClocks
<1>5. ASSUME NoTimer PROVE Tick \/ ClocksMove
  <2>1. UNCHANGED <<sources, request, idle, unanswered>>
    BY <1>5 DEF NoTimer, NextRound, conn
  <2> QED
    BY <2>1, SameClocks
<1>6. ASSUME BeginSweep PROVE Tick \/ ClocksMove
  <2>1. UNCHANGED <<sources, request, idle, unanswered>>
    BY <1>6 DEF BeginSweep, LastEntry, conn
  <2> QED
    BY <2>1, SameClocks
<1>7. ASSUME SweepEntry PROVE Tick \/ ClocksMove
  <2>1. CASE Overdue(conns[at])
    <3>1. conns[at] \in Clients
      BY <1>7, ElementOfSeq, LenProperties DEF SweepEntry, TableInv
    <3>2. Fresh(conns[at]) /\ sources' = sources \ {conns[at]}
      BY <1>7, <2>1 DEF SweepEntry, Close
    <3> QED
      BY <1>a, <3>1, <3>2, FreshClocks
  <2>2. CASE ~Overdue(conns[at])
    <3>1. UNCHANGED <<sources, request, idle, unanswered>>
      BY <1>7, <2>2 DEF SweepEntry, conn
    <3> QED
      BY <3>1, SameClocks
  <2> QED
    BY <2>1, <2>2
<1>8. ASSUME EndSweep PROVE Tick \/ ClocksMove
  <2>1. CASE draining
    <3>1. sources' = {}
      BY <1>8, <2>1 DEF EndSweep, CloseAll
    <3> QED
      BY <3>1 DEF ClocksMove
  <2>2. CASE ~draining
    <3>1. UNCHANGED <<sources, request, idle, unanswered>>
      BY <1>8, <2>2 DEF EndSweep, conn
    <3> QED
      BY <3>1, SameClocks
  <2> QED
    BY <2>1, <2>2
<1>9. ASSUME Free PROVE Tick \/ ClocksMove
  <2>1. sources' = {}
    BY <1>9 DEF Free
  <2> QED
    BY <2>1 DEF ClocksMove
<1>10. ASSUME Over PROVE Tick \/ ClocksMove
  <2>1. UNCHANGED <<sources, request, idle, unanswered>>
    BY <1>10 DEF Over, vars, loop, conn
  <2> QED
    BY <2>1, SameClocks
<1>11. ASSUME NEW c \in Clients, Connect(c) PROVE Tick \/ ClocksMove
  <2>1. UNCHANGED <<sources, request, idle, unanswered>>
    BY <1>11 DEF Connect, loop, conn
  <2> QED
    BY <2>1, SameClocks
<1>12. ASSUME NEW c \in Clients, Accept(c) PROVE Tick \/ ClocksMove
  <2>1. CASE draining \/ Full
    <3>1. UNCHANGED <<sources, request, idle, unanswered>>
      BY <1>12, <2>1 DEF Accept, conn
    <3> QED
      BY <3>1, SameClocks
  <2>2. CASE ~(draining \/ Full)
    <3>1. sources' = sources \cup {c} /\ Fresh(c)
      BY <1>12, <2>2 DEF Accept
    <3> QED
      BY <1>a, <3>1, FreshClocks
  <2> QED
    BY <2>1, <2>2
<1>13. ASSUME NEW c \in Clients, HangUp(c) PROVE Tick \/ ClocksMove
  <2>1. sources' = sources \ {c} /\ Fresh(c)
    BY <1>13 DEF HangUp, Drop, Close
  <2> QED
    BY <1>a, <2>1, FreshClocks
<1>14. ASSUME NEW c \in Clients, MoreData(c) PROVE Tick \/ ClocksMove
  <2>1. /\ c \in sources /\ sources' = sources /\ unanswered' = unanswered
        /\ idle' = [idle EXCEPT ![c] = 0]
        /\ request' = [request EXCEPT ![c] = IF request[c] = Idle THEN 0 ELSE request[c]]
    BY <1>14 DEF MoreData, Readable, Arrives, Keep
  <2>2. ASSUME NEW d \in sources' PROVE Stays(d) \/ Receives(d)
    <3>1. CASE d = c
      BY <2>1, <3>1 DEF Receives, FlatOK
    <3>2. CASE d # c
      BY <1>a, <2>1, <3>2 DEF Stays, FlatOK
    <3> QED
      BY <3>1, <3>2
  <2> QED
    BY <2>2 DEF ClocksMove
<1>15. ASSUME NEW c \in Clients, ServeShutdown(c) PROVE Tick \/ ClocksMove
  <2>1. sources' = sources \ {c} /\ Fresh(c)
    BY <1>15 DEF ServeShutdown
  <2> QED
    BY <1>a, <2>1, FreshClocks
<1>16. ASSUME NEW c \in Clients, NEW rest \in {"empty", "bad"}, Malformed(c, rest)
      PROVE  Tick \/ ClocksMove
  <2>1. Answered(c, rest)
    BY <1>16 DEF Malformed
  <2> QED
    BY <1>a, <2>1, AnsweredClocks
<1>17. ASSUME NEW c \in Clients, NEW rest \in Leftovers, Serve(c, rest)
      PROVE  Tick \/ ClocksMove
  <2>1. Answered(c, rest)
    BY <1>17 DEF Serve
  <2> QED
    BY <1>a, <2>1, AnsweredClocks
<1>18. ASSUME NEW c \in Clients, NEW rest \in Leftovers, ServeStop(c, rest)
      PROVE  Tick \/ ClocksMove
  <2>1. Answered(c, rest)
    BY <1>18 DEF ServeStop
  <2> QED
    BY <1>a, <2>1, AnsweredClocks
<1>19. CASE UNCHANGED vars
  <2>1. UNCHANGED <<sources, request, idle, unanswered>>
    BY <1>19 DEF vars, conn
  <2> QED
    BY <2>1, SameClocks
<1> QED
  BY <1>1, <1>2, <1>3, <1>4, <1>5, <1>6, <1>7, <1>8, <1>9, <1>10, <1>11, <1>12, <1>13, <1>14,
     <1>15, <1>16, <1>17, <1>18, <1>19
     DEF Next

(* Nothing but time makes a connection overdue. *)
LEMMA NotOverdueStep ==
  ASSUME FlatOK, TableInv, ClocksMove, NEW c \in sources',
         c \in sources => ~Overdue(c)
  PROVE  ~Overdue(c)'
<1>1. sources \subseteq Clients
  BY SourcesAreClients
<1>2. Stays(c) \/ SetBack(c) \/ Receives(c)
  BY DEF ClocksMove
<1>3. CASE Stays(c)
  BY <1>3 DEF Stays, Overdue
<1>4. CASE SetBack(c)
  BY <1>4, HttpServerAssumption DEF SetBack, Overdue, Idle
<1>5. CASE Receives(c)
  BY <1>1, <1>5, HttpServerAssumption DEF Receives, Overdue, Idle, FlatOK, Ages
<1> QED
  BY <1>2, <1>3, <1>4, <1>5

-----------------------------------------------------------------------------
(* The sweep. *)

(* While it runs, the entries it has passed are not overdue. *)
SweepInv ==
  phase = "sweep" => ~swept /\ \A j \in at + 1..Len(conns) : ~Overdue(conns[j])

LEMMA SweepInvStep ==
  ASSUME FlatOK, TableInv, SweepInv, [Next]_vars
  PROVE  SweepInv'
<1>a. Len(conns) \in Nat /\ at \in 0..Len(conns)
  BY LenProperties DEF TableInv
<1>1. ASSUME Interrupt PROVE SweepInv'
  <2>1. UNCHANGED <<phase, at, swept, conns, request, idle>>
    BY <1>1 DEF Interrupt, conn
  <2> QED
    BY <2>1 DEF SweepInv, Overdue
<1>2. ASSUME Tick PROVE SweepInv'
  <2>1. phase' # "sweep"
    BY <1>2 DEF Tick
  <2> QED
    BY <2>1 DEF SweepInv
<1>3. ASSUME EndPoll PROVE SweepInv'
  <2>1. phase' # "sweep"
    BY <1>3 DEF EndPoll, conn
  <2> QED
    BY <2>1 DEF SweepInv
<1>4. ASSUME ProcessSignals PROVE SweepInv'
  <2>1. phase' # "sweep"
    BY <1>4 DEF ProcessSignals, Shutdown, conn
  <2> QED
    BY <2>1 DEF SweepInv
<1>5. ASSUME NoTimer PROVE SweepInv'
  <2>1. phase' # "sweep"
    BY <1>5 DEF NoTimer, NextRound, conn
  <2> QED
    BY <2>1 DEF SweepInv
<1>6. ASSUME BeginSweep PROVE SweepInv'
  <2>1. ~swept' /\ at' = Len(conns')
    BY <1>6 DEF BeginSweep, LastEntry
  <2>2. at' + 1..Len(conns') = {}
    BY <1>6, <1>a, <2>1 DEF BeginSweep
  <2> QED
    BY <2>1, <2>2 DEF SweepInv
<1>7. ASSUME SweepEntry PROVE SweepInv'
  <2>1. at \in 1..Len(conns) /\ phase = "sweep" /\ at' = at - 1 /\ swept' = swept
    BY <1>7, <1>a DEF SweepEntry
  <2>2. ~swept /\ \A j \in at + 1..Len(conns) : ~Overdue(conns[j])
    BY <2>1 DEF SweepInv
  <2>3. CASE Overdue(conns[at])
    <3>1. conns' = FillGap(conns, at) /\ Fresh(conns[at])
      BY <1>7, <2>3 DEF SweepEntry, Close
    <3>2. conns \in Seq(Clients) /\ Distinct(conns)
      BY DEF TableInv
    <3>3. /\ Len(conns') = Len(conns) - 1
          /\ \A j \in 1..Len(conns) - 1 : conns'[j] = IF j = at THEN conns[Len(conns)] ELSE conns[j]
      BY <2>1, <3>1, <3>2, FillGapProperties
    <3>4. ASSUME NEW j \in at' + 1..Len(conns')
          PROVE  \E k \in at + 1..Len(conns) : conns'[j] = conns[k] /\ conns[k] # conns[at]
      <4>1. j \in 1..Len(conns) - 1 /\ at <= j
        BY <1>a, <2>1, <3>3
      <4>2. CASE j = at
        <5>1. Len(conns) \in at + 1..Len(conns) /\ conns'[j] = conns[Len(conns)]
          BY <1>a, <2>1, <3>3, <4>1, <4>2
        <5>2. conns[Len(conns)] # conns[at]
          <6>1. Len(conns) \in 1..Len(conns) /\ at # Len(conns)
            BY <1>a, <2>1, <5>1
          <6> QED
            BY <2>1, <3>2, <6>1 DEF Distinct
        <5> QED
          BY <5>1, <5>2
      <4>3. CASE j # at
        <5>1. j \in at + 1..Len(conns) /\ conns'[j] = conns[j]
          BY <1>a, <2>1, <3>3, <4>1, <4>3
        <5>2. conns[j] # conns[at]
          BY <1>a, <2>1, <3>2, <4>3, <5>1 DEF Distinct
        <5> QED
          BY <5>1, <5>2
      <4> QED
        BY <4>2, <4>3
    <3>5. ASSUME NEW j \in at' + 1..Len(conns') PROVE ~Overdue(conns[j])'
      <4>1. PICK k \in at + 1..Len(conns) : conns'[j] = conns[k] /\ conns[k] # conns[at]
        BY <3>4
      <4>2. k \in 1..Len(conns)
        BY <1>a, <2>1
      <4>3. conns[k] \in Clients /\ conns[at] \in Clients
        BY <2>1, <3>2, <4>2, ElementOfSeq
      <4>4. request'[conns[k]] = request[conns[k]] /\ idle'[conns[k]] = idle[conns[k]]
        BY <3>1, <4>1, <4>3 DEF Fresh, FlatOK
      <4> QED
        BY <2>2, <4>1, <4>4 DEF Overdue
    <3> QED
      BY <2>1, <2>2, <3>5 DEF SweepInv
  <2>4. CASE ~Overdue(conns[at])
    <3>1. UNCHANGED <<conns, request, idle>>
      BY <1>7, <2>4 DEF SweepEntry, conn
    <3>2. \A j \in at' + 1..Len(conns') : j = at \/ j \in at + 1..Len(conns)
      BY <1>a, <2>1, <3>1
    <3>3. \A j \in at' + 1..Len(conns') : ~Overdue(conns[j])
      BY <2>2, <2>4, <3>2
    <3> QED
      BY <2>1, <2>2, <3>1, <3>3 DEF SweepInv, Overdue
  <2> QED
    BY <2>3, <2>4
<1>8. ASSUME EndSweep PROVE SweepInv'
  <2>1. phase' # "sweep"
    BY <1>8 DEF EndSweep, NextRound
  <2> QED
    BY <2>1 DEF SweepInv
<1>9. ASSUME Free PROVE SweepInv'
  <2>1. phase' # "sweep"
    BY <1>9 DEF Free
  <2> QED
    BY <2>1 DEF SweepInv
<1>10. ASSUME Over PROVE SweepInv'
  <2>1. phase' # "sweep"
    BY <1>10 DEF Over, vars, loop, conn
  <2> QED
    BY <2>1 DEF SweepInv
<1>11. ASSUME NEW c \in Clients, Connect(c) PROVE SweepInv'
  <2>1. UNCHANGED <<phase, at, swept, conns, request, idle>>
    BY <1>11 DEF Connect, loop, conn
  <2> QED
    BY <2>1 DEF SweepInv, Overdue
<1>12. ASSUME NEW c \in Clients, Accept(c) PROVE SweepInv'
  <2>1. phase' # "sweep"
    BY <1>12 DEF Accept, loop
  <2> QED
    BY <2>1 DEF SweepInv
<1>13. ASSUME NEW c \in Clients, HangUp(c) PROVE SweepInv'
  <2>1. phase' # "sweep"
    BY <1>13 DEF HangUp, Readable, loop
  <2> QED
    BY <2>1 DEF SweepInv
<1>14. ASSUME NEW c \in Clients, MoreData(c) PROVE SweepInv'
  <2>1. phase' # "sweep"
    BY <1>14 DEF MoreData, Readable, loop
  <2> QED
    BY <2>1 DEF SweepInv
<1>15. ASSUME NEW c \in Clients, ServeShutdown(c) PROVE SweepInv'
  <2>1. phase' # "sweep"
    BY <1>15 DEF ServeShutdown, Readable
  <2> QED
    BY <2>1 DEF SweepInv
<1>16. ASSUME NEW c \in Clients, NEW rest \in {"empty", "bad"}, Malformed(c, rest)
      PROVE  SweepInv'
  <2>1. phase' # "sweep"
    BY <1>16 DEF Malformed, Readable, loop
  <2> QED
    BY <2>1 DEF SweepInv
<1>17. ASSUME NEW c \in Clients, NEW rest \in Leftovers, Serve(c, rest) PROVE SweepInv'
  <2>1. phase' # "sweep"
    BY <1>17 DEF Serve, Readable, loop
  <2> QED
    BY <2>1 DEF SweepInv
<1>18. ASSUME NEW c \in Clients, NEW rest \in Leftovers, ServeStop(c, rest) PROVE SweepInv'
  <2>1. phase' # "sweep"
    BY <1>18 DEF ServeStop, Readable
  <2> QED
    BY <2>1 DEF SweepInv
<1>19. CASE UNCHANGED vars
  BY <1>19 DEF vars, loop, conn, SweepInv, Overdue
<1> QED
  BY <1>1, <1>2, <1>3, <1>4, <1>5, <1>6, <1>7, <1>8, <1>9, <1>10, <1>11, <1>12, <1>13, <1>14,
     <1>15, <1>16, <1>17, <1>18, <1>19
     DEF Next

LEMMA SweptStep ==
  ASSUME FlatOK, TableInv, SweepInv, SweepIsThorough, [Next]_vars
  PROVE  SweepIsThorough'
<1>1. Tick \/ ClocksMove
  BY ClocksStep
<1>2. CASE Tick
  BY <1>2 DEF Tick, SweepIsThorough
<1>3. CASE swept /\ ClocksMove
  <2>1. \A c \in sources : ~Overdue(c)
    BY <1>3 DEF SweepIsThorough
  <2>2. \A c \in sources' : ~Overdue(c)'
    BY <1>3, <2>1, NotOverdueStep
  <2> QED
    BY <2>2 DEF SweepIsThorough
<1>4. CASE ~swept /\ ClocksMove
  <2>1. CASE swept'
    <3>1. EndSweep
      BY <1>4, <2>1
         DEF Next, vars, loop, Interrupt, Tick, EndPoll, ProcessSignals, NoTimer, BeginSweep,
             SweepEntry, Free, Over, Connect, Accept, HangUp, MoreData, ServeShutdown, Malformed,
             Serve, ServeStop
    <3>2. phase = "sweep" /\ at = 0
      BY <3>1 DEF EndSweep
    <3>3. \A j \in 1..Len(conns) : ~Overdue(conns[j])
      BY <3>2 DEF SweepInv
    <3>4. \A c \in sources : ~Overdue(c)
      BY <3>3, LenProperties DEF TableInv, ToSet
    <3>5. \A c \in sources' : ~Overdue(c)'
      BY <1>4, <3>4, NotOverdueStep
    <3> QED
      BY <3>5 DEF SweepIsThorough
  <2>2. CASE ~swept'
    BY <2>2 DEF SweepIsThorough
  <2> QED
    BY <2>1, <2>2
<1> QED
  BY <1>1, <1>2, <1>3, <1>4

-----------------------------------------------------------------------------
(* How long a connection may go unanswered. *)

AgeInv ==
  \A c \in sources :
    /\ request[c] <= RequestTimeout + 1
    /\ request[c] # Idle => unanswered[c] <= IdleTimeout + 1 + request[c]
    /\ request[c] = Idle => unanswered[c] <= idle[c] /\ idle[c] <= IdleTimeout + 1

LEMMA AgeStep ==
  ASSUME FlatOK, TableInv, SweepIsThorough, AgeInv, [Next]_vars
  PROVE  AgeInv'
<1>a. sources \subseteq Clients
  BY SourcesAreClients
<1>1. Tick \/ ClocksMove
  BY ClocksStep
<1>2. CASE Tick
  <2> SUFFICES ASSUME NEW c \in sources'
               PROVE  /\ request'[c] <= RequestTimeout + 1
                      /\ request'[c] # Idle => unanswered'[c] <= IdleTimeout + 1 + request'[c]
                      /\ request'[c] = Idle =>
                           unanswered'[c] <= idle'[c] /\ idle'[c] <= IdleTimeout + 1
    BY DEF AgeInv
  <2>1. c \in sources /\ c \in Clients
    BY <1>a, <1>2 DEF Tick
  <2>2. ~Overdue(c)
    BY <1>2, <2>1 DEF Tick, SweepIsThorough
  <2>3. request[c] \in Ages /\ idle[c] \in Nat /\ unanswered[c] \in Nat
    BY <2>1 DEF FlatOK
  <2>4. /\ request'[c] = IF request[c] # Idle THEN request[c] + 1 ELSE request[c]
        /\ idle'[c] = idle[c] + 1 /\ unanswered'[c] = unanswered[c] + 1
    BY <1>2, <2>1, <2>3 DEF Tick, Idle
  <2> QED
    BY <2>1, <2>2, <2>3, <2>4, HttpServerAssumption DEF AgeInv, Overdue, Ages, Idle
<1>3. CASE ClocksMove
  <2> SUFFICES ASSUME NEW c \in sources'
               PROVE  /\ request'[c] <= RequestTimeout + 1
                      /\ request'[c] # Idle => unanswered'[c] <= IdleTimeout + 1 + request'[c]
                      /\ request'[c] = Idle =>
                           unanswered'[c] <= idle'[c] /\ idle'[c] <= IdleTimeout + 1
    BY DEF AgeInv
  <2>1. Stays(c) \/ SetBack(c) \/ Receives(c)
    BY <1>3 DEF ClocksMove
  <2>2. CASE Stays(c)
    BY <2>2 DEF Stays, AgeInv
  <2>3. CASE SetBack(c)
    BY <2>3, HttpServerAssumption DEF SetBack, Idle
  <2>4. CASE Receives(c)
    <3>1. c \in sources /\ c \in Clients
      BY <1>a, <2>4 DEF Receives
    <3>2. request[c] \in Ages /\ idle[c] \in Nat /\ unanswered[c] \in Nat
      BY <3>1 DEF FlatOK
    <3> QED
      BY <2>4, <3>1, <3>2, HttpServerAssumption DEF Receives, AgeInv, Ages, Idle
  <2> QED
    BY <2>1, <2>2, <2>3, <2>4
<1> QED
  BY <1>1, <1>2, <1>3

LEMMA SlotsBound == FlatOK /\ TableInv /\ AgeInv => SlotsComeBack
<1> SUFFICES ASSUME FlatOK, TableInv, AgeInv, NEW c \in sources
             PROVE  unanswered[c] <= IdleTimeout + RequestTimeout + 2
  BY DEF SlotsComeBack
<1>1. c \in Clients
  BY SourcesAreClients
<1>2. request[c] \in Ages /\ idle[c] \in Nat /\ unanswered[c] \in Nat
  BY <1>1 DEF FlatOK
<1> QED
  BY <1>2, HttpServerAssumption DEF AgeInv, Ages, Idle

-----------------------------------------------------------------------------
(* Shutting down. *)

(* A shutdown that is one interval old has been seen by process_signals when
   the sweep of that interval fires, or will be in the round that has begun;
   one that is two intervals old ends with the next sweep. *)
StopInv ==
  /\ stopping \in 0..2
  /\ stopping > 0 => draining \/ sigint
  /\ stopping = 1 /\ swept /\ ~draining => phase \in {"poll", "signals", "ended", "freed"}
  /\ stopping = 2 => /\ ~swept \/ phase \in {"ended", "freed"}
                     /\ draining \/ phase \in {"poll", "signals", "ended", "freed"}
  /\ phase = "freed" => sources = {}

LEMMA StopStep ==
  ASSUME FlatOK, SweepInv, StopInv, [Next]_vars
  PROVE  StopInv'
<1>1. ASSUME Interrupt PROVE StopInv'
  BY <1>1 DEF StopInv, FlatOK, SweepInv, Interrupt
<1>2. ASSUME Tick PROVE StopInv'
  BY <1>2 DEF StopInv, FlatOK, SweepInv, Tick
<1>3. ASSUME EndPoll PROVE StopInv'
  BY <1>3 DEF StopInv, FlatOK, SweepInv, EndPoll
<1>4. ASSUME ProcessSignals PROVE StopInv'
  BY <1>4 DEF StopInv, FlatOK, SweepInv, ProcessSignals, Shutdown
<1>5. ASSUME NoTimer PROVE StopInv'
  BY <1>5 DEF StopInv, FlatOK, SweepInv, NoTimer, NextRound
<1>6. ASSUME BeginSweep PROVE StopInv'
  BY <1>6 DEF StopInv, FlatOK, SweepInv, BeginSweep
<1>7. ASSUME SweepEntry PROVE StopInv'
  BY <1>7 DEF StopInv, FlatOK, SweepInv, SweepEntry, Close
<1>8. ASSUME EndSweep PROVE StopInv'
  BY <1>8 DEF StopInv, FlatOK, SweepInv, EndSweep, CloseAll, Stops, NextRound
<1>9. ASSUME Free PROVE StopInv'
  BY <1>9 DEF StopInv, FlatOK, SweepInv, Free
<1>10. ASSUME Over PROVE StopInv'
  BY <1>10 DEF StopInv, FlatOK, SweepInv, Over, vars, loop
<1>11. ASSUME NEW c \in Clients, Connect(c) PROVE StopInv'
  BY <1>11 DEF StopInv, FlatOK, SweepInv, Connect, loop
<1>12. ASSUME NEW c \in Clients, Accept(c) PROVE StopInv'
  BY <1>12 DEF StopInv, FlatOK, SweepInv, Accept, loop
<1>13. ASSUME NEW c \in Clients, HangUp(c) PROVE StopInv'
  BY <1>13 DEF StopInv, FlatOK, SweepInv, HangUp, Readable, Drop, Close, loop
<1>14. ASSUME NEW c \in Clients, MoreData(c) PROVE StopInv'
  BY <1>14 DEF StopInv, FlatOK, SweepInv, MoreData, Readable, Keep, loop
<1>15. ASSUME NEW c \in Clients, ServeShutdown(c) PROVE StopInv'
  BY <1>15 DEF StopInv, FlatOK, SweepInv, ServeShutdown, Readable
<1>16. ASSUME NEW c \in Clients, NEW rest \in {"empty", "bad"}, Malformed(c, rest)
      PROVE  StopInv'
  BY <1>16 DEF StopInv, FlatOK, SweepInv, Malformed, Readable, Answered, Drop, Close, Keep, loop
<1>17. ASSUME NEW c \in Clients, NEW rest \in Leftovers, Serve(c, rest) PROVE StopInv'
  BY <1>17 DEF StopInv, FlatOK, SweepInv, Serve, Readable, Answered, Drop, Close, Keep, loop
<1>18. ASSUME NEW c \in Clients, NEW rest \in Leftovers, ServeStop(c, rest) PROVE StopInv'
  BY <1>18 DEF StopInv, FlatOK, SweepInv, ServeStop, Readable, Answered, Drop, Close, Keep
<1>19. CASE UNCHANGED vars
  BY <1>19 DEF vars, loop, StopInv
<1> QED
  BY <1>1, <1>2, <1>3, <1>4, <1>5, <1>6, <1>7, <1>8, <1>9, <1>10, <1>11, <1>12, <1>13, <1>14,
     <1>15, <1>16, <1>17, <1>18, <1>19
     DEF Next

-----------------------------------------------------------------------------
(* The theorems. *)

Inv ==
  FlatOK /\ TableInv /\ SockInv /\ SweepInv /\ SweepIsThorough /\ AgeInv /\ StopInv

LEMMA InitInv == Init => Inv
<1> SUFFICES ASSUME Init PROVE Inv
  OBVIOUS
<1>1. FlatOK
  BY DEF Init, FlatOK, Leftovers, Ages, Idle
<1>2. TableInv
  <2>1. conns = <<>> /\ sources = {} /\ at = 0
    BY DEF Init
  <2> QED
    BY <2>1, EmptyTable, HttpServerAssumption DEF TableInv
<1>3. SockInv
  BY DEF Init, SockInv
<1>4. SweepInv /\ SweepIsThorough /\ AgeInv /\ StopInv
  BY DEF Init, SweepInv, SweepIsThorough, AgeInv, StopInv
<1> QED
  BY <1>1, <1>2, <1>3, <1>4 DEF Inv

LEMMA NextInv == Inv /\ [Next]_vars => Inv'
  BY FlatStep, TableStep, SockStep, SweepInvStep, SweptStep, AgeStep, StopStep DEF Inv

LEMMA InvAlways == Spec => []Inv
  BY InitInv, NextInv, PTL DEF Spec

LEMMA TypeFromInv == FlatOK /\ TableInv => TypeOK
<1> SUFFICES ASSUME FlatOK, TableInv PROVE TypeOK
  OBVIOUS
<1>1. ToSet(conns) \subseteq Clients
  BY SourcesAreClients DEF TableInv
<1>2. \A c \in Clients : request[c] >= Idle /\ idle[c] >= 0 /\ unanswered[c] >= 0
  BY DEF FlatOK, Ages, Idle
<1>3. {running, draining, listening, sigint, swept} \subseteq BOOLEAN
  BY DEF FlatOK
<1> QED
  BY <1>1, <1>2, <1>3 DEF FlatOK, TableInv, TypeOK

(* Whatever the clients, the signals and the handlers do, the table of
   connections, the sources of the event loop and the open sockets are the same
   set, each connection stands in the table once, and the table never exceeds
   max_connections: the swap-removals of server_remove_conn and of
   on_sweep_timer, which shrinks the table it walks, lose and leak nothing. *)
THEOREM HttpTableMatchesSockets == Spec => []TableMatchesSockets
<1>1. Inv => TableMatchesSockets
  BY TypeFromInv DEF Inv, TableInv, SockInv, Distinct, TableMatchesSockets
<1> QED
  BY InvAlways, <1>1, PTL

(* After on_sweep_timer has fired no connection of the table is past its
   deadline: walking the table downwards, the sweep skips no entry, although
   each removal puts the last entry in the place of the removed one. *)
THEOREM HttpSweepIsThorough == Spec => []SweepIsThorough
<1>1. Inv => SweepIsThorough
  BY DEF Inv
<1> QED
  BY InvAlways, <1>1, PTL

(* For any timeouts: a client that is not answered loses its slot after the two
   timeouts together and two sweep intervals, however it spaces its bytes. *)
THEOREM HttpSlotsComeBack == Spec => []SlotsComeBack
<1>1. Inv => SlotsComeBack
  BY SlotsBound DEF Inv
<1> QED
  BY InvAlways, <1>1, PTL

(* A shutdown is over two sweep intervals after it was asked for, by a signal or
   by http_server_shutdown, and leaves no connection open. *)
THEOREM HttpShutdownInTime == Spec => []ShutdownInTime
<1>1. Inv => ShutdownInTime
  BY DEF Inv, StopInv, ShutdownInTime
<1> QED
  BY InvAlways, <1>1, PTL

=============================================================================
