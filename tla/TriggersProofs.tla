--------------------------- MODULE TriggersProofs ---------------------------
(***************************************************************************)
(* Proofs about Triggers, for any decorators, any signals, tables of any   *)
(* size and any bound on time and events.                                  *)
(***************************************************************************)
EXTENDS Triggers, TLAPS, SequenceTheorems, WellFoundedInduction

-----------------------------------------------------------------------------
(* The inductive invariants. *)

Scans == {"on_start", "on_panic", "on_exit", "signals", "watches", "due"}

(* Which part of the program runs, and what a running handler was called for. *)
Fits(j) ==
  /\ ~Spent(j)
  /\ phase \in {"on_start", "on_panic", "on_exit"} => Name(j) = phase
  /\ phase = "signals" => Name(j) = "on_signal"
  /\ phase = "watches" => Name(j) = "watch"
  /\ phase = "due" => Name(j) \in Timed /\ ~(Name(j) = "delayed" /\ table[j].fired)

PlaceInv ==
  /\ k > 0 => phase \in Scans
  /\ phase \in Scans \ {"signals"} => k > 0
  /\ phase = "signals" /\ k > 0 => sig > 0
  /\ phase \in {"script", "on_start", "main"} => back = "main"
  /\ phase = "loop" => back = "loop"
  /\ running # 0 => k > 0 /\ k <= running /\ Fits(running)

(* Each counted call of a @once or @delayed handler is either under way, or its
   end is in the table, or it is known to be lost.  An os.exit leaves the call
   under way for good, and the program with it.                              *)
Bit(b) == IF b THEN 1 ELSE 0

OnceAt(j) ==
  table[j].dec.once \/ Name(j) = "delayed" =>
    /\ log[j].calls <= 1 + log[j].lost
    /\ phase \notin {"on_exit", "gone"} =>
         log[j].calls <= log[j].lost + Bit(table[j].fired) + Bit(running = j /\ pending = "none")

OnceInv == \A j \in Indices : OnceAt(j)

(* After a failure the scan that the loop would go on with is at its end. *)
AbortInv ==
  /\ phase = "script" => ~aborted
  /\ aborted /\ phase \in {"on_start", "watches", "due"} => running = 0 /\ k > Len(table)

(* Where what is owed to a handler is remembered. *)
Remembered(j) ==
  \/ Name(j) = "watch" /\ (j \in changed \/ (table[j].next = -1 /\ running # j))
  \/ Name(j) = "on_signal" /\ Arg(j) \in flags
  \/ /\ Name(j) = "on_signal" /\ phase = "signals"
     /\ sig > 0 /\ Arg(j) = Signals[sig]
     /\ k > 0 /\ j >= k /\ j > running

Ending == {"on_panic", "on_exit", "gone"}

OwedAt(j) ==
  log[j].owed /\ ~Spent(j) /\ failed = {} /\ phase \notin Ending => Remembered(j)

OwedInv == \A j \in Indices : OwedAt(j)

(* The last scan: the handlers behind it have run, those ahead of it not yet, and
   none was passed over.                                                     *)
ExitAt(j) ==
  Name(j) = "on_exit" =>
    /\ phase \notin {"on_exit", "gone"} => log[j].calls = 0
    /\ phase = "on_exit" /\ running # 0 => j < k \/ j >= running
    /\ phase = "on_exit" /\ "on_exit" \notin failed =>
         /\ j < k \/ (j = running /\ pending = "none") =>
              log[j].calls >= 1 /\ (depth = 0 => log[j].calls = 1)
         /\ depth = 0 /\ j >= k /\ (j # running \/ pending # "none") => log[j].calls = 0
    /\ phase = "gone" /\ "on_exit" \notin failed =>
         log[j].calls >= 1 /\ (depth = 0 => log[j].calls = 1)

ExitInv == \A j \in Indices : ExitAt(j)

(* A handler of a timer runs at or after its deadline; only the files of watches
   are in the queue.                                                         *)
DueInv ==
  /\ at <= now
  /\ running # 0 /\ phase = "due" => table[running].next <= at
  /\ \A j \in changed : Name(j) = "watch"

(* The entries NeverAhead speaks of. *)
InSchedule(j) ==
  /\ Name(j) \in Timed /\ ~log[j].late /\ log[j].lost = 0
  /\ Name(j) = "cron" => ~log[j].slow

Waits(j) == ~(running = j /\ pending = "none")
Live == phase \notin {"on_exit", "gone"}

(* The calls so far fit between the moment the deadline was first set and now, and
   between it and the next deadline there is room for one call more, unless that
   call is under way.                                                        *)
Paced(j) ==
  LET a == Arg(j)
      s == log[j].since
      c == log[j].calls
      n == table[j].next
  IN  /\ n > 0
      /\ Name(j) = "every" =>
           /\ table[j].gap = a /\ s + c * a <= now
           /\ Live => s + c * a <= n /\ (Waits(j) => s + c * a + a <= n)
      /\ Name(j) = "cron" =>
           /\ table[j].gap = a /\ s \div a + c <= now \div a
           /\ Live => s \div a + c <= n \div a /\ (Waits(j) => s \div a + c + 1 <= n \div a)
      /\ Name(j) = "delayed" => n = s + a /\ (c >= 1 => s + a <= now)

TimerAt(j) ==
  InSchedule(j) =>
    /\ log[j].since <= now
    /\ table[j].next = 0 =>
         log[j].calls = 0 /\ (Spent(j) \/ phase \notin {"signals", "watches", "due"})
    /\ table[j].next # 0 => Paced(j)

TimerInv == \A j \in Indices : TimerAt(j)

-----------------------------------------------------------------------------
(* Facts about the constants, sequences and sets. *)

LEMMA Bounds ==
  /\ InitialCap \in Nat /\ InitialCap > 0 /\ MaxEntries \in Nat /\ MaxEvents \in Nat
  /\ MaxTime \in Nat /\ MaxTime > 0 /\ MaxCount \in Nat /\ MaxCount > 1 /\ MaxDepth \in Nat
  BY TriggersAssumption

LEMMA FunctionIsSeq ==
  ASSUME NEW S, NEW n \in Nat, NEW f \in [1..n -> S]
  PROVE  f \in Seq(S) /\ Len(f) = n
<1>1. f \in Seq(S)
  OBVIOUS
<1>2. DOMAIN f = 1..Len(f) /\ Len(f) \in Nat
  BY <1>1, LenProperties
<1>3. DOMAIN f = 1..n
  OBVIOUS
<1> QED
  BY <1>1, <1>2, <1>3

(* The smallest entry ahead exists. *)
LEMMA MinOfAhead ==
  ASSUME NEW A, A \subseteq Nat, A # {}
  PROVE  Min(A) \in A /\ \A y \in A : Min(A) <= y
<1>1. PICK x \in A : \A y \in A : ~(<<y, x>> \in OpToRel(<, Nat))
  BY NatLessThanWellFounded, WFMin, Zenon
<1>2. ASSUME NEW y \in A PROVE x <= y
  <2>1. <<y, x>> \in OpToRel(<, Nat) <=> y < x
    BY DEF OpToRel
  <2>2. ~(y < x)
    BY <1>1, <2>1, Zenon
  <2>3. x \in Nat /\ y \in Nat
    OBVIOUS
  <2> QED
    BY <2>2, <2>3
<1> QED
  BY <1>2, Zenon DEF Min

-----------------------------------------------------------------------------
(* What the steps do to the table and to the record, entry by entry. *)

(* Nothing but what is said of an entry changes. *)
Keeps(j) ==
  /\ table'[j].dec = table[j].dec
  /\ table'[j].fired = table[j].fired
  /\ table'[j].next = table[j].next
  /\ table'[j].gap = table[j].gap

SameTimes(j) ==
  /\ log'[j].since = log[j].since
  /\ log'[j].late = log[j].late
  /\ log'[j].slow = log[j].slow

KeepsRecord(j) ==
  /\ log'[j].calls = log[j].calls
  /\ log'[j].lost = log[j].lost
  /\ log'[j].owed = log[j].owed

SameSize ==
  /\ table' \in Seq(Entry) /\ Len(table') = Len(table)
  /\ log' \in Seq(Record) /\ Len(log') = Len(log)

LEMMA Shape ==
  ASSUME TypeOK
  PROVE  /\ Len(table) \in Nat /\ Len(log) = Len(table) /\ Indices = 1..Len(table)
         /\ table \in [1..Len(table) -> Entry] /\ log \in [1..Len(table) -> Record]
         /\ \A j \in Indices : table[j] \in Entry /\ log[j] \in Record
  BY LenProperties DEF TypeOK, Indices

(* An entry that is updated in place. *)
LEMMA TablePut ==
  ASSUME TypeOK, NEW j \in Indices, NEW e \in Entry, table' = [table EXCEPT ![j] = e]
  PROVE  /\ table' \in Seq(Entry) /\ Len(table') = Len(table)
         /\ table'[j] = e /\ \A i \in Indices : i # j => table'[i] = table[i]
  BY Shape, ExceptSeq DEF TypeOK

LEMMA LogPut ==
  ASSUME TypeOK, NEW j \in Indices, NEW r \in Record, log' = [log EXCEPT ![j] = r]
  PROVE  /\ log' \in Seq(Record) /\ Len(log') = Len(log)
         /\ log'[j] = r /\ \A i \in Indices : i # j => log'[i] = log[i]
  BY Shape, ExceptSeq DEF TypeOK

LEMMA SignalEffect ==
  ASSUME TypeOK, NEW s, Signal(s)
  PROVE  /\ SameSize
         /\ \A j \in Indices :
              /\ log'[j].calls = log[j].calls /\ log'[j].lost = log[j].lost /\ SameTimes(j)
              /\ log'[j].owed => log[j].owed \/ (Name(j) = "on_signal" /\ Arg(j) = s)
<1> DEFINE r(j) == IF Name(j) = "on_signal" /\ Arg(j) = s THEN [log[j] EXCEPT !.owed = TRUE]
                   ELSE log[j]
<1>1. log' = [j \in Indices |-> r(j)]
  BY DEF Signal
<1>2. \A j \in Indices :
        /\ r(j) \in Record /\ r(j).calls = log[j].calls /\ r(j).lost = log[j].lost
        /\ r(j).since = log[j].since /\ r(j).late = log[j].late /\ r(j).slow = log[j].slow
        /\ r(j).owed => log[j].owed \/ (Name(j) = "on_signal" /\ Arg(j) = s)
  BY Shape DEF Record
<1> HIDE DEF r
<1>3. log' \in [1..Len(table) -> Record]
  BY <1>1, <1>2, Shape
<1>4. log' \in Seq(Record) /\ Len(log') = Len(table)
  BY <1>3, Shape, FunctionIsSeq
<1>5. table' = table
  BY DEF Signal
<1> QED
  BY <1>1, <1>2, <1>4, <1>5, Shape DEF SameSize, SameTimes, TypeOK

LEMMA FileChangeEffect ==
  ASSUME TypeOK, NEW j \in Indices, FileChange(j)
  PROVE  /\ SameSize
         /\ \A i \in Indices :
              /\ log'[i].calls = log[i].calls /\ log'[i].lost = log[i].lost /\ SameTimes(i)
              /\ i # j => log'[i] = log[i]
<1> DEFINE r == [log[j] EXCEPT !.owed = TRUE]
<1>1. log' = [log EXCEPT ![j] = r] /\ table' = table
  BY DEF FileChange
<1>2. /\ r \in Record /\ r.calls = log[j].calls /\ r.lost = log[j].lost
      /\ r.since = log[j].since /\ r.late = log[j].late /\ r.slow = log[j].slow
  BY Shape DEF Record
<1> HIDE DEF r
<1> QED
  BY <1>1, <1>2, LogPut, Shape DEF SameSize, SameTimes, TypeOK

LEMMA RegisterEffect ==
  ASSUME TypeOK, NEW d \in Decorators, Register(d)
  PROVE  /\ table' \in Seq(Entry) /\ Len(table') = Len(table) + 1
         /\ log' \in Seq(Record) /\ Len(log') = Len(log) + 1
         /\ \A i \in Indices : table'[i] = table[i] /\ log'[i] = log[i]
         /\ LET n == Len(table) + 1
            IN  /\ table'[n].dec = d /\ table'[n].fired = FALSE /\ table'[n].next = 0
                /\ log'[n].since = 0 /\ log'[n].late = (running # 0)
                /\ log'[n].calls = 0 /\ log'[n].lost = 0 /\ log'[n].owed = FALSE
<1> DEFINE e == [dec |-> d, fired |-> FALSE, next |-> 0, gap |-> 0, init |-> FALSE]
           r == [calls |-> 0, lost |-> 0, since |-> 0, late |-> running # 0,
                 slow |-> FALSE, owed |-> FALSE]
<1>1. table' = Append(table, e) /\ log' = Append(log, r)
  BY DEF Register
<1>2. e \in Entry /\ e.dec = d /\ e.fired = FALSE /\ e.next = 0
  BY DEF Entry
<1>3. /\ r \in Record /\ r.calls = 0 /\ r.lost = 0 /\ r.owed = FALSE
      /\ r.since = 0 /\ r.late = (running # 0)
  BY Bounds DEF Record
<1> HIDE DEF e, r
<1>4. /\ table' \in Seq(Entry) /\ Len(table') = Len(table) + 1
      /\ \A i \in Indices : table'[i] = table[i]
      /\ table'[Len(table) + 1] = e
  BY <1>1, <1>2, Shape DEF TypeOK
<1>5. /\ log' \in Seq(Record) /\ Len(log') = Len(log) + 1
      /\ \A i \in Indices : log'[i] = log[i]
      /\ log'[Len(table) + 1] = r
  <2>1. log \in Seq(Record) /\ Len(log) = Len(table)
    BY DEF TypeOK
  <2> QED
    BY <1>1, <1>3, <2>1, Shape
<1> QED
  BY <1>2, <1>3, <1>4, <1>5

(* check_watches sets entries up: nothing a caller could see. *)
LEMMA SetUpEffect ==
  ASSUME TypeOK, NEW a, NEW b, table' = SetUp(a, b)
  PROVE  table' \in Seq(Entry) /\ Len(table') = Len(table) /\ \A i \in Indices : Keeps(i)
<1> DEFINE e(j) == IF phase = "watches" /\ j \in a..b /\ Name(j) = "watch" /\ ~Spent(j)
                   THEN [table[j] EXCEPT !.init = TRUE] ELSE table[j]
<1>1. table' = [j \in Indices |-> e(j)]
  BY DEF SetUp
<1>2. \A j \in Indices : /\ e(j) \in Entry /\ e(j).dec = table[j].dec
                         /\ e(j).fired = table[j].fired /\ e(j).next = table[j].next
                         /\ e(j).gap = table[j].gap
  BY Shape DEF Entry
<1> HIDE DEF e
<1>3. table' \in [1..Len(table) -> Entry]
  BY <1>1, <1>2, Shape
<1>4. table' \in Seq(Entry) /\ Len(table') = Len(table)
  BY <1>3, Shape, FunctionIsSeq
<1> QED
  BY <1>1, <1>2, <1>4 DEF Keeps

LEMMA CallEffect ==
  ASSUME TypeOK, Call
  PROVE  /\ SameSize /\ running' \in Ahead
         /\ \A i \in Ahead : running' <= i
         /\ \A i \in Indices :
              /\ Keeps(i) /\ SameTimes(i) /\ log'[i].lost = log[i].lost
              /\ i # running' => log'[i] = log[i]
         /\ log'[running'].owed = FALSE
         /\ log'[running'].calls = IF pending # "none" THEN log[running'].calls
                                   ELSE OneMore(log[running'].calls)
<1> DEFINE j == Min(Ahead)
           r == [log[j] EXCEPT !.owed = FALSE,
                               !.calls = IF pending = "none" THEN OneMore(@) ELSE @]
<1>1. j \in Ahead /\ \A i \in Ahead : j <= i
  <2>1. Ahead # {}
    BY DEF Call
  <2>2. Ahead \subseteq Nat
    BY Shape DEF Ahead
  <2> QED
    BY <2>1, <2>2, MinOfAhead
<1>2. j \in Indices
  BY <1>1 DEF Ahead
<1>3. table' = SetUp(k, j - 1) /\ running' = j
  BY DEF Call
<1>4. log' = [log EXCEPT ![j].owed = FALSE, ![j].calls = IF pending = "none" THEN OneMore(@) ELSE @]
  BY DEF Call
<1> HIDE DEF j
<1>5. log' = [log EXCEPT ![j] = r]
  BY <1>2, <1>4, Shape DEF Record
<1>6. /\ r \in Record /\ r.lost = log[j].lost /\ r.owed = FALSE
      /\ r.since = log[j].since /\ r.late = log[j].late /\ r.slow = log[j].slow
      /\ r.calls = IF pending # "none" THEN log[j].calls ELSE OneMore(log[j].calls)
  <2>1. log[j] \in Record /\ OneMore(log[j].calls) \in 0..MaxCount
    BY <1>2, Shape, Bounds DEF Record, OneMore
  <2>2. CASE pending # "none"
    BY <2>1, <2>2 DEF Record
  <2>3. CASE pending = "none"
    BY <2>1, <2>3 DEF Record
  <2> QED
    BY <2>2, <2>3
<1> HIDE DEF r
<1>7. /\ log' \in Seq(Record) /\ Len(log') = Len(log)
      /\ log'[j] = r /\ \A i \in Indices : i # j => log'[i] = log[i]
  BY <1>2, <1>5, <1>6, LogPut
<1>8. table' \in Seq(Entry) /\ Len(table') = Len(table) /\ \A i \in Indices : Keeps(i)
  BY <1>3, SetUpEffect
<1> QED
  BY <1>1, <1>3, <1>6, <1>7, <1>8 DEF SameSize, SameTimes

LEMMA RegisterNew ==
  ASSUME TypeOK, NEW d \in Decorators, Register(d)
  PROVE  /\ Indices' = 1..(Len(table) + 1)
         /\ \A j \in Indices' : j \in Indices \/ j = Len(table) + 1
         /\ \A j \in Indices' : j \notin Indices =>
              /\ j > Len(table) /\ table'[j].dec = d /\ table'[j].fired = FALSE
              /\ table'[j].next = 0 /\ log'[j].since = 0 /\ log'[j].late = (running # 0)
              /\ log'[j].calls = 0 /\ log'[j].lost = 0 /\ log'[j].owed = FALSE
<1>1. Len(table') = Len(table) + 1 /\ Len(table) \in Nat
  BY RegisterEffect, Shape
<1>2. Indices' = 1..(Len(table) + 1)
  BY <1>1 DEF Indices
<1>3. \A j \in Indices' : j \in Indices \/ j = Len(table) + 1
  BY <1>1, <1>2 DEF Indices
<1>4. PICK n : n = Len(table) + 1
  OBVIOUS
<1>5. /\ table'[n].dec = d /\ table'[n].fired = FALSE
      /\ table'[n].next = 0 /\ log'[n].since = 0 /\ log'[n].late = (running # 0)
      /\ log'[n].calls = 0 /\ log'[n].lost = 0 /\ log'[n].owed = FALSE
  BY <1>4, RegisterEffect
<1>6. n > Len(table) /\ \A j \in Indices' : j \notin Indices => j = n
  BY <1>1, <1>3, <1>4
<1> QED
  BY <1>2, <1>3, <1>5, <1>6

LEMMA BookedEffect ==
  ASSUME TypeOK, NEW j \in Indices
  PROVE  /\ Booked(j) \in Entry /\ Booked(j).dec = table[j].dec /\ Booked(j).fired = TRUE
<1> DEFINE e == table[j]
           next == CASE Name(j) = "watch" -> 0
                     [] Name(j) = "every" -> IF e.next + e.gap > at THEN e.next + e.gap
                                             ELSE at + e.gap
                     [] Name(j) = "cron" /\ e.gap # 0 -> at + CronAfter(j, now) - now
                     [] Name(j) = "cron" /\ e.gap = 0 -> at + Far
                     [] OTHER -> e.next
<1>1. e \in Entry /\ e.next \in Int /\ e.gap \in Nat /\ e.dec \in Decorators
  BY Shape DEF Entry
<1>2. at \in Int /\ now \in Int /\ Far \in Int
  BY Bounds DEF TypeOK, Far
<1>3. Name(j) = "cron" => CronAfter(j, now) \in Int
  <2>1. Name(j) = "cron" => Arg(j) \in Nat \ {0}
    BY <1>1, TriggersAssumption DEF Name, Arg, Timed
  <2>2. \A a \in Nat \ {0} : now \div a \in Int
    BY <1>2
  <2> QED
    BY <2>1, <2>2 DEF CronAfter
<1>4. next \in Int
  BY <1>1, <1>2, <1>3
<1>5. Booked(j) = [e EXCEPT !.fired = TRUE, !.next = next]
  BY DEF Booked, Marked
<1> HIDE DEF next
<1> QED
  BY <1>1, <1>4, <1>5 DEF Entry

LEMMA ReturnEffect ==
  ASSUME TypeOK, Return
  PROVE  /\ SameSize /\ running \in Indices
         /\ \A i \in Indices : i # running => table'[i] = table[i] /\ log'[i] = log[i]
         /\ table'[running].dec = table[running].dec
         /\ log'[running].calls = log[running].calls
         /\ log'[running].owed = log[running].owed
         /\ log'[running].since = log[running].since /\ log'[running].late = log[running].late
         /\ \/ /\ table'[running].fired = TRUE /\ log'[running].lost = log[running].lost
               /\ table'[running] = Booked(running)
               /\ log'[running].slow = (log[running].slow \/ (phase = "due" /\ now # at))
            \/ /\ table'[running].fired = table[running].fired
               /\ log'[running].lost = OneMore(log[running].lost)
<1>1. running \in Indices
  BY Shape DEF Return, TypeOK
<1>2. CASE /\ table' = [table EXCEPT ![running] = Booked(running)]
           /\ log' = [log EXCEPT ![running].slow = @ \/ (phase = "due" /\ now # at)]
  <2> DEFINE r == [log[running] EXCEPT !.slow = @ \/ (phase = "due" /\ now # at)]
  <2>1. log' = [log EXCEPT ![running] = r]
    BY <1>2
  <2>2. /\ r \in Record /\ r.calls = log[running].calls
        /\ r.lost = log[running].lost /\ r.owed = log[running].owed
        /\ r.since = log[running].since /\ r.late = log[running].late
        /\ r.slow = (log[running].slow \/ (phase = "due" /\ now # at))
    BY <1>1, Shape DEF Record
  <2> HIDE DEF r
  <2>3. /\ table' \in Seq(Entry) /\ Len(table') = Len(table)
        /\ table'[running] = Booked(running)
        /\ \A i \in Indices : i # running => table'[i] = table[i]
    BY <1>1, <1>2, TablePut, BookedEffect
  <2>4. /\ log' \in Seq(Record) /\ Len(log') = Len(log)
        /\ log'[running] = r /\ \A i \in Indices : i # running => log'[i] = log[i]
    BY <1>1, <2>1, <2>2, LogPut
  <2> QED
    BY <1>1, <2>2, <2>3, <2>4, BookedEffect DEF SameSize
<1>3. CASE /\ log' = [log EXCEPT ![running].lost = OneMore(@)]
           /\ UNCHANGED table
  <2> DEFINE r == [log[running] EXCEPT !.lost = OneMore(@)]
  <2>1. log' = [log EXCEPT ![running] = r]
    BY <1>3
  <2>2. /\ r \in Record /\ r.calls = log[running].calls
        /\ r.lost = OneMore(log[running].lost) /\ r.owed = log[running].owed
        /\ r.since = log[running].since /\ r.late = log[running].late
    <3>1. log[running] \in Record /\ OneMore(log[running].lost) \in 0..MaxCount
      BY <1>1, Shape, Bounds DEF Record, OneMore
    <3> QED
      BY <3>1 DEF Record
  <2> HIDE DEF r
  <2>4. /\ log' \in Seq(Record) /\ Len(log') = Len(log)
        /\ log'[running] = r /\ \A i \in Indices : i # running => log'[i] = log[i]
    BY <1>1, <2>1, <2>2, LogPut
  <2> QED
    BY <1>1, <1>3, <2>2, <2>4 DEF SameSize, TypeOK
<1> QED
  BY <1>2, <1>3 DEF Return

LEMMA FailEffect ==
  ASSUME TypeOK, Fail
  PROVE  /\ SameSize /\ running \in Indices /\ table' = table
         /\ \A i \in Indices :
              /\ log'[i].calls = log[i].calls /\ SameTimes(i)
              /\ i # running => log'[i] = log[i]
         /\ log'[running].lost = IF pending # "none" THEN log[running].lost
                                 ELSE OneMore(log[running].lost)
<1>1. running \in Indices
  BY Shape DEF Fail, TypeOK
<1> DEFINE n == IF pending # "none" THEN log[running].lost ELSE OneMore(log[running].lost)
           r == [log[running] EXCEPT !.lost = n]
<1>2. log' = [log EXCEPT ![running] = r] /\ table' = table
  BY DEF Fail
<1>3. log[running] \in Record /\ log[running].lost \in 0..MaxCount
  BY <1>1, Shape DEF Record
<1>4. n \in 0..MaxCount
  BY <1>3, Bounds DEF OneMore
<1>5. /\ log'[running].lost = n /\ r.calls = log[running].calls /\ r.lost = n /\ r \in Record
      /\ r.since = log[running].since /\ r.late = log[running].late
      /\ r.slow = log[running].slow
  <2> HIDE DEF n
  <2>1. /\ r \in Record /\ r.calls = log[running].calls /\ r.lost = n
        /\ r.since = log[running].since /\ r.late = log[running].late
        /\ r.slow = log[running].slow
    BY <1>3, <1>4 DEF Record
  <2> HIDE DEF r
  <2> QED
    BY <1>1, <1>2, <2>1, LogPut
<1> HIDE DEF n, r
<1>6. /\ log' \in Seq(Record) /\ Len(log') = Len(log)
      /\ log'[running] = r /\ \A i \in Indices : i # running => log'[i] = log[i]
  BY <1>1, <1>2, <1>5, LogPut
<1> QED
  BY <1>1, <1>2, <1>5, <1>6 DEF SameSize, SameTimes, TypeOK, n

LEMMA ScheduleEffect ==
  ASSUME TypeOK, Schedule
  PROVE  /\ SameSize
         /\ \A i \in Indices :
              /\ table'[i].dec = table[i].dec /\ table'[i].fired = table[i].fired
              /\ Name(i) \notin Timed => table'[i].next = table[i].next
              /\ KeepsRecord(i) /\ table'[i] = Scheduled(i)
              /\ log'[i].late = log[i].late /\ log'[i].slow = log[i].slow
              /\ log'[i].since = IF table[i].next = 0 /\ Scheduled(i).next # 0 THEN now
                                 ELSE log[i].since
<1>1. \A i \in Indices :
        /\ Scheduled(i) \in Entry /\ Scheduled(i).dec = table[i].dec
        /\ Scheduled(i).fired = table[i].fired
        /\ Name(i) \notin Timed => Scheduled(i) = table[i]
  <2> SUFFICES ASSUME NEW i \in Indices
               PROVE  /\ Scheduled(i) \in Entry /\ Scheduled(i).dec = table[i].dec
                      /\ Scheduled(i).fired = table[i].fired
                      /\ Name(i) \notin Timed => Scheduled(i) = table[i]
    OBVIOUS
  <2>1. table[i] \in Entry /\ table[i].dec \in Decorators
    BY Shape DEF Entry
  <2>2. CASE table[i].next # 0 \/ Name(i) \notin Timed \/ Spent(i)
    BY <2>1, <2>2 DEF Scheduled
  <2>3. CASE ~(table[i].next # 0 \/ Name(i) \notin Timed \/ Spent(i))
    <3>1. Arg(i) \in Nat \ {0}
      BY <2>1, <2>3, TriggersAssumption DEF Name, Arg
    <3>5. now \in Nat
      BY Bounds DEF TypeOK
    <3>2. now \div Arg(i) \in Int
      BY <3>1, <3>5
    <3>3. CronAfter(i, now) \in Int /\ now + Arg(i) \in Int
      BY <3>1, <3>2, <3>5 DEF CronAfter
    <3>4. \/ Scheduled(i) = [table[i] EXCEPT !.gap = Arg(i), !.next = now + Arg(i)]
          \/ Scheduled(i) = [table[i] EXCEPT !.gap = Arg(i), !.next = CronAfter(i, now)]
          \/ Scheduled(i) = [table[i] EXCEPT !.next = now + Arg(i)]
      BY <2>3 DEF Scheduled
    <3> QED
      BY <2>1, <2>3, <3>1, <3>3, <3>4 DEF Entry
  <2> QED
    BY <2>2, <2>3
<1> DEFINE r(i) == IF table[i].next = 0 /\ Scheduled(i).next # 0
                   THEN [log[i] EXCEPT !.since = now] ELSE log[i]
<1>2. table' = [i \in Indices |-> Scheduled(i)] /\ log' = [i \in Indices |-> r(i)]
  BY DEF Schedule
<1>3. \A i \in Indices : /\ r(i) \in Record /\ r(i).calls = log[i].calls
                         /\ r(i).lost = log[i].lost /\ r(i).owed = log[i].owed
                         /\ r(i).late = log[i].late /\ r(i).slow = log[i].slow
                         /\ r(i).since = IF table[i].next = 0 /\ Scheduled(i).next # 0
                                         THEN now ELSE log[i].since
  <2>1. now \in 0..MaxTime
    BY Bounds DEF TypeOK
  <2> QED
    BY <2>1, Shape DEF Record
<1> HIDE DEF r
<1>4. table' \in [1..Len(table) -> Entry] /\ log' \in [1..Len(table) -> Record]
  BY <1>1, <1>2, <1>3, Shape
<1>5. /\ table' \in Seq(Entry) /\ Len(table') = Len(table)
      /\ log' \in Seq(Record) /\ Len(log') = Len(table)
  BY <1>4, Shape, FunctionIsSeq
<1> QED
  BY <1>1, <1>2, <1>3, <1>5, Shape DEF SameSize, KeepsRecord

(* The queue of inotify goes into the table. *)
LEMMA DrainEffect ==
  ASSUME TypeOK, DrainEvents
  PROVE  /\ table' \in Seq(Entry) /\ Len(table') = Len(table)
         /\ \A i \in Indices :
              /\ table'[i].dec = table[i].dec /\ table'[i].fired = table[i].fired
              /\ table'[i].gap = table[i].gap
              /\ table'[i].next = IF i \in changed THEN -1 ELSE table[i].next
<1> DEFINE e(j) == IF j \in changed THEN [table[j] EXCEPT !.next = -1] ELSE table[j]
<1>1. table' = [j \in Indices |-> e(j)]
  BY DEF DrainEvents
<1>2. \A j \in Indices : /\ e(j) \in Entry /\ e(j).dec = table[j].dec
                         /\ e(j).fired = table[j].fired /\ e(j).gap = table[j].gap
                         /\ e(j).next = IF j \in changed THEN -1 ELSE table[j].next
  BY Shape DEF Entry
<1> HIDE DEF e
<1>3. table' \in [1..Len(table) -> Entry]
  BY <1>1, <1>2, Shape
<1>4. table' \in Seq(Entry) /\ Len(table') = Len(table)
  BY <1>3, Shape, FunctionIsSeq
<1> QED
  BY <1>1, <1>2, <1>4

(* Where a scan goes on when it has come to the end of the table. *)
LEMMA ScanEndsPhase ==
  ASSUME ScanEnds, k > 0 => phase \in Scans
  PROVE  \/ phase = "on_start" /\ phase' = "main" /\ k' = 0 /\ at' = at
         \/ phase = "signals" /\ phase' = "signals" /\ k' = 0 /\ at' = at
         \/ phase = "watches" /\ aborted /\ phase' = back /\ k' = 0 /\ at' = at
         \/ phase = "watches" /\ ~aborted /\ phase' = "due" /\ k' = 1 /\ at' = now
         \/ phase = "due" /\ phase' = back /\ k' = 0 /\ at' = 0
         \/ phase = "on_panic" /\ phase' = "on_exit" /\ k' = 1 /\ at' = at
         \/ phase = "on_exit" /\ phase' = "gone" /\ k' = 0 /\ at' = at
<1>1. phase \in Scans
  BY DEF ScanEnds, Scanning
<1>2. CASE phase = "on_start"
  BY <1>2 DEF ScanEnds
<1>3. CASE phase = "signals"
  BY <1>3 DEF ScanEnds
<1>4. CASE phase = "watches" /\ aborted
  BY <1>4 DEF ScanEnds
<1>5. CASE phase = "watches" /\ ~aborted
  BY <1>5 DEF ScanEnds, Go
<1>6. CASE phase = "due"
  BY <1>6 DEF ScanEnds
<1>7. CASE phase = "on_panic"
  BY <1>7 DEF ScanEnds, Go
<1>8. CASE phase = "on_exit"
  BY <1>8 DEF ScanEnds
<1> QED
  BY <1>1, <1>2, <1>3, <1>4, <1>5, <1>6, <1>7, <1>8 DEF Scans

-----------------------------------------------------------------------------
(* The type invariant, in parts. *)

TypeTable ==
  /\ table \in Seq(Entry) /\ log \in Seq(Record)
  /\ Len(table) <= cap /\ Len(table) <= MaxEntries /\ Len(log) = Len(table)
  /\ cap \in Nat \ {0}

TypeOutside ==
  /\ events \in 0..MaxEvents /\ now \in 1..MaxTime
  /\ \A s \in flags : \E q \in 1..Len(Signals) : s = Signals[q]
  /\ changed \subseteq 1..Len(table)

TypePlace ==
  /\ at \in 0..MaxTime
  /\ phase \in {"script", "main", "loop", "gone", "on_start", "on_panic", "on_exit", "signals",
                "watches", "due"}
  /\ back \in {"loop", "main"}
  /\ sig \in 0..Len(Signals) /\ k \in 0..(MaxEntries + 1) /\ running \in 0..Len(table)
  /\ depth \in 0..MaxDepth

TypeBits ==
  {aborted, exc, counted, moved} \subseteq BOOLEAN /\ pending \in {"none", "throw", "other"}

LEMMA TypeParts == TypeOK <=> TypeTable /\ TypeOutside /\ TypePlace /\ TypeBits
  BY DEF TypeOK, TypeTable, TypeOutside, TypePlace, TypeBits, Indices

LEMMA TypePartsNext == TypeOK' <=> TypeTable' /\ TypeOutside' /\ TypePlace' /\ TypeBits'
  BY DEF TypeOK, TypeTable, TypeOutside, TypePlace, TypeBits, Indices

LEMMA SameTable ==
  ASSUME TypeTable, SameSize \/ UNCHANGED <<table, log>>, UNCHANGED cap
  PROVE  TypeTable' /\ Len(table') = Len(table)
  BY DEF TypeTable, SameSize

LEMMA SameBits ==
  ASSUME TypeBits, UNCHANGED <<aborted, exc, pending, counted, moved>>
  PROVE  TypeBits'
<1>1. aborted' = aborted /\ exc' = exc /\ pending' = pending /\ counted' = counted /\ moved' = moved
  OBVIOUS
<1> QED
  BY <1>1, Zenon DEF TypeBits

LEMMA TypeInit == Init => TypeOK
<1> SUFFICES ASSUME Init PROVE TypeOK
  OBVIOUS
<1>1. table \in Seq(Entry) /\ log \in Seq(Record) /\ Len(table) = 0 /\ Len(log) = 0
  BY EmptySeq DEF Init
<1>2. 0 \in 0..Len(Signals)
  BY TriggersAssumption, LenProperties
<1>3. TypeBits
  BY Zenon DEF Init, TypeBits
<1>4. TypeTable
  BY <1>1, Bounds DEF Init, TypeTable
<1>5. TypeOutside /\ TypePlace
  BY <1>1, <1>2, Bounds DEF Init, TypeOutside, TypePlace
<1> QED
  BY <1>3, <1>4, <1>5, TypeParts

LEMMA TypeStep == TypeOK /\ PlaceInv /\ [Next]_vars => TypeOK'
<1> SUFFICES ASSUME TypeOK, PlaceInv, [Next]_vars PROVE TypeOK'
  OBVIOUS
<1> USE DEF entries, outside, place, outcome
<1>0. /\ TypeTable /\ TypeOutside /\ TypePlace /\ TypeBits
      /\ Len(Signals) \in Nat /\ Len(table) \in Nat
  BY TriggersAssumption, LenProperties, TypeParts, Shape
<1>a. ASSUME SameSize \/ UNCHANGED <<table, log>>, UNCHANGED cap,
             TypeOutside', TypePlace', TypeBits'
      PROVE  TypeOK'
  BY <1>0, <1>a, SameTable, TypePartsNext
<1>b. ASSUME SameSize \/ UNCHANGED <<table, log>>, UNCHANGED cap,
             UNCHANGED <<aborted, exc, pending, counted, moved>>
      PROVE  TypeOutside' /\ TypePlace' => TypeOK'
  BY <1>0, <1>a, <1>b, SameBits
<1>c. ASSUME SameSize \/ UNCHANGED <<table, log>>, UNCHANGED cap PROVE Len(table') = Len(table)
  BY <1>0, <1>c, SameTable
<1>1. CASE Tick
  <2>1. TypeOutside' /\ TypePlace'
    BY <1>0, <1>1, Bounds DEF Tick, TypeOutside, TypePlace
  <2> QED
    BY <1>1, <1>b, <2>1 DEF Tick
<1>17. CASE CountError
  <2>1. /\ aborted' = aborted /\ counted' = TRUE /\ moved' = moved
        /\ pending' = pending /\ exc' = exc
    BY <1>17 DEF CountError
  <2>2. TypeBits'
    BY <1>0, <2>1, Zenon DEF TypeBits
  <2>3. TypeOutside' /\ TypePlace'
    BY <1>0, <1>17 DEF CountError, TypeOutside, TypePlace
  <2> QED
    BY <1>17, <1>a, <2>2, <2>3 DEF CountError
<1>2. ASSUME NEW q \in 1..Len(Signals), Signal(Signals[q]) PROVE TypeOK'
  <2>1. SameSize /\ UNCHANGED cap
    BY <1>2, SignalEffect DEF Signal
  <2>2. TypeOutside' /\ TypePlace'
    <3>1. /\ Len(table') = Len(table) /\ flags' = flags \cup {Signals[q]}
          /\ events < MaxEvents /\ events' = events + 1
          /\ UNCHANGED <<now, changed, place, outcome>>
      BY <1>2, <2>1, <1>c DEF Signal
    <3>2. TypeOutside'
      BY <1>0, <3>1, Bounds DEF TypeOutside
    <3> QED
      BY <1>0, <3>1, <3>2 DEF TypePlace
  <2> QED
    BY <1>2, <1>b, <2>1, <2>2 DEF Signal
<1>3. ASSUME NEW j \in Indices, FileChange(j) PROVE TypeOK'
  <2>1. SameSize /\ UNCHANGED cap
    BY <1>3, FileChangeEffect DEF FileChange
  <2>2. TypeOutside' /\ TypePlace'
    <3>1. /\ Len(table') = Len(table) /\ changed' = changed \cup {j} /\ j \in 1..Len(table)
          /\ events < MaxEvents /\ events' = events + 1
          /\ UNCHANGED <<now, flags, place, outcome>>
      BY <1>3, <2>1, <1>c DEF FileChange, Indices
    <3>2. TypeOutside'
      BY <1>0, <3>1, Bounds DEF TypeOutside
    <3> QED
      BY <1>0, <3>1, <3>2 DEF TypePlace
  <2> QED
    BY <1>3, <1>b, <2>1, <2>2 DEF FileChange
<1>4. ASSUME NEW d \in Decorators, Register(d) PROVE TypeOK'
  <2>1. /\ table' \in Seq(Entry) /\ log' \in Seq(Record)
        /\ Len(table') = Len(table) + 1 /\ Len(log') = Len(log) + 1
    BY <1>4, RegisterEffect
  <2>2. /\ Len(table') <= cap' /\ Len(table') <= MaxEntries /\ cap' \in Nat \ {0}
    <3>1. /\ Len(table) < MaxEntries /\ Len(table) <= cap /\ cap \in Nat \ {0}
          /\ cap' = IF Len(table) = cap THEN 2 * cap ELSE cap
      BY <1>0, <1>4 DEF Register, Grown, TypeTable
    <3> QED
      BY <1>0, <2>1, <3>1, Bounds
  <2>3. TypeBits'
    BY <1>0, <1>4, Zenon DEF Register, TypeBits
  <2>4. TypeTable'
    BY <1>0, <2>1, <2>2 DEF TypeTable
  <2>5. TypeOutside' /\ TypePlace'
    BY <1>0, <1>4, <2>1 DEF Register, TypeOutside, TypePlace
  <2> QED
    BY <2>3, <2>4, <2>5, TypePartsNext
<1>5. CASE Call
  <2>1. SameSize /\ UNCHANGED cap /\ running' \in 1..Len(table)
    BY <1>5, CallEffect DEF Call, Ahead, Indices
  <2>2. TypeBits'
    BY <1>0, <1>5, Zenon DEF Call, TypeBits
  <2>3. TypeOutside' /\ TypePlace'
    BY <1>0, <1>5, <2>1, <1>c DEF Call, TypeOutside, TypePlace
  <2> QED
    BY <1>a, <2>1, <2>2, <2>3
<1>6. CASE Return
  <2>1. SameSize /\ UNCHANGED cap /\ running \in 1..Len(table)
    BY <1>6, ReturnEffect DEF Return, Indices
  <2>2. TypeOutside' /\ TypePlace'
    <3>1. /\ Len(table') = Len(table) /\ k' = running + 1 /\ running' = 0
          /\ UNCHANGED <<now, outside, phase, back, sig, at, depth>>
      BY <1>6, <2>1, <1>c DEF Return
    <3>2. TypeOutside'
      BY <1>0, <3>1 DEF TypeOutside
    <3> QED
      BY <1>0, <2>1, <3>1, <3>2, Bounds DEF TypeTable, TypePlace
  <2> QED
    BY <1>6, <1>b, <2>1, <2>2 DEF Return
<1>7. CASE Fail
  <2>1. SameSize /\ UNCHANGED cap
    BY <1>7, FailEffect DEF Fail
  <2>2. TypeBits'
    <3>1. aborted' = TRUE /\ counted' = FALSE /\ moved' = moved
      BY <1>7 DEF Fail
    <3>2. /\ pending' \in {"none", "throw", "other"}
          /\ exc' = exc \/ \E b \in BOOLEAN : exc' = (exc \/ b)
      BY <1>7, Zenon DEF Fail
    <3> QED
      BY <1>0, <3>1, <3>2, Zenon DEF TypeBits
  <2>3. TypeOutside' /\ TypePlace'
    <3>1. /\ Len(table') = Len(table) /\ k' = Len(table) + 1 /\ running' = 0
          /\ UNCHANGED <<now, outside, phase, back, sig, at, depth>>
      BY <1>7, <2>1, <1>c DEF Fail
    <3>2. TypeOutside'
      BY <1>0, <3>1 DEF TypeOutside
    <3>3. Len(table) \in Nat /\ Len(table) <= MaxEntries
      BY Shape DEF TypeOK
    <3> QED
      BY <1>0, <3>1, <3>2, <3>3, Bounds DEF TypePlace
  <2> QED
    BY <1>a, <2>1, <2>2, <2>3
<1>8. CASE Exit
  <2>1. TypeOutside' /\ TypePlace'
    BY <1>0, <1>8, Bounds DEF Exit, TypeOutside, TypePlace
  <2> QED
    BY <1>8, <1>b, <2>1 DEF Exit
<1>9. CASE EndScript
  <2>1. TypeOutside' /\ TypePlace'
    BY <1>0, <1>9, Bounds DEF EndScript, Go, TypeOutside, TypePlace
  <2>2. TypeBits'
    <3>1. /\ aborted' = aborted /\ counted' = counted /\ moved' = moved
          /\ pending' = pending \/ pending' = "other"
          /\ exc' = exc \/ exc' \in BOOLEAN
      BY <1>9 DEF EndScript
    <3> QED
      BY <1>0, <3>1, Zenon DEF TypeBits
  <2> QED
    BY <1>9, <1>a, <2>1, <2>2 DEF EndScript
<1>10. CASE EndMain
  <2>1. TypeOutside' /\ TypePlace'
    BY <1>0, <1>10, Bounds DEF EndMain, TypeOutside, TypePlace
  <2>2. TypeBits'
    <3>1. /\ aborted' = (aborted /\ ~HasPersistent)
          /\ pending' = pending \/ pending' \in {"throw", "other"}
          /\ counted' = counted /\ moved' = moved /\ exc' = exc
      BY <1>10, Zenon DEF EndMain
    <3> QED
      BY <1>0, <3>1, Zenon DEF TypeBits
  <2> QED
    BY <1>10, <1>a, <2>1, <2>2 DEF EndMain
<1>11. CASE Schedule
  <2>1. SameSize /\ UNCHANGED cap
    BY <1>11, ScheduleEffect DEF Schedule
  <2>2. TypeOutside' /\ TypePlace'
    BY <1>0, <1>11, <2>1, <1>c, Bounds DEF Schedule, TypeOutside, TypePlace
  <2> QED
    BY <1>11, <1>b, <2>1, <2>2 DEF Schedule
<1>12. CASE LoopEnds
  <2>1. TypeOutside' /\ TypePlace'
    BY <1>0, <1>12, Bounds DEF LoopEnds, Go, TypeOutside, TypePlace
  <2> QED
    BY <1>12, <1>b, <2>1 DEF LoopEnds
<1>13. CASE PumpSignal
  <2>1. PICK q \in 1..Len(Signals) : NextSignal(q)
    BY <1>13 DEF PumpSignal
  <2>2. TypeOutside' /\ TypePlace'
    BY <1>0, <1>13, <2>1, Bounds DEF PumpSignal, NextSignal, TypeOutside, TypePlace
  <2> QED
    BY <1>13, <1>b, <2>2 DEF PumpSignal
<1>14. CASE SignalsEnd
  <2>1. UNCHANGED <<cap, log, aborted, exc, pending, counted, moved>>
    BY <1>14 DEF SignalsEnd
  <2>2. CASE aborted
    <3>1. TypeOutside' /\ TypePlace'
      <4>1. /\ table' = table /\ phase' = back /\ k' = 0 /\ at' = 0 /\ sig' = 0
            /\ UNCHANGED <<outside, now, back, running, depth>>
        BY <1>14, <2>2 DEF SignalsEnd, AfterSignals, PassEnds
      <4>2. TypeOutside'
        BY <1>0, <4>1 DEF TypeOutside
      <4> QED
        BY <1>0, <4>1, <4>2, Bounds DEF TypePlace
    <3> QED
      BY <1>14, <1>b, <2>1, <2>2, <3>1 DEF SignalsEnd, AfterSignals, PassEnds
  <2>3. CASE ~aborted
    <3>1. DrainEvents
      BY <1>14, <2>3 DEF SignalsEnd, AfterSignals
    <3>2. SameSize
      BY <1>0, <2>1, <3>1, DrainEffect DEF SameSize, TypeTable
    <3>3. TypeOutside' /\ TypePlace'
      <4>1. /\ Len(table') = Len(table) /\ phase' = "watches" /\ k' = 1 /\ at' = at /\ sig' = 0
            /\ changed' = {} /\ UNCHANGED <<flags, events, now, back, running, depth>>
        BY <1>14, <2>1, <3>1, <3>2, <1>c DEF SignalsEnd, DrainEvents, Go
      <4>2. TypeOutside'
        BY <1>0, <4>1 DEF TypeOutside
      <4> QED
        BY <1>0, <4>1, <4>2, Bounds DEF TypePlace
    <3> QED
      BY <1>b, <2>1, <3>2, <3>3
  <2> QED
    BY <2>2, <2>3
<1>15. CASE ScanEnds
  <2>1. UNCHANGED <<cap, log, aborted, exc, pending, counted, moved>>
    BY <1>15 DEF ScanEnds
  <2>2. SameSize
    BY <1>0, <1>15, <2>1, SetUpEffect DEF ScanEnds, SameSize, TypeTable
  <2>3. /\ phase' \in {"script", "main", "loop", "gone", "on_start", "on_panic", "on_exit",
                       "signals", "watches", "due"}
        /\ k' \in 0..(MaxEntries + 1) /\ at' \in 0..MaxTime
    BY <1>0, <1>15, ScanEndsPhase, Bounds DEF PlaceInv, TypePlace, TypeOutside
  <2>4. TypeOutside' /\ TypePlace'
    BY <1>0, <1>15, <2>1, <2>2, <2>3, <1>c DEF ScanEnds, TypeOutside, TypePlace
  <2> QED
    BY <1>b, <2>1, <2>2, <2>4
<1>16. CASE UNCHANGED vars
  <2>1. TypeOutside' /\ TypePlace'
    BY <1>0, <1>16 DEF vars, TypeOutside, TypePlace
  <2> QED
    BY <1>16, <1>b, <2>1 DEF vars
<1> QED
  BY <1>1, <1>2, <1>3, <1>4, <1>5, <1>6, <1>7, <1>8, <1>9, <1>10, <1>11, <1>12,
     <1>13, <1>14, <1>15, <1>16, <1>17
  DEF Next, Step, LoopTop, PumpDue

-----------------------------------------------------------------------------
(* Where the program is, and whose handler runs. *)

(* Outside a scan no handler runs. *)
LEMMA NoHandler ==
  ASSUME TypeOK, PlaceInv, phase \notin Scans \/ k = 0
  PROVE  running = 0 /\ k = 0
<1>1. k \in Nat
  BY Bounds DEF TypeOK
<1> QED
  BY <1>1 DEF PlaceInv

LEMMA FitsKept ==
  ASSUME NEW j, Fits(j), phase' = phase,
         table'[j].dec = table[j].dec, table'[j].fired = table[j].fired
  PROVE  Fits(j)'
  BY DEF Fits, Spent, Name

LEMMA PlaceInit == Init => PlaceInv
  BY DEF Init, PlaceInv, Scans

LEMMA PlaceStep == TypeOK /\ PlaceInv /\ [Next]_vars => PlaceInv'
<1> SUFFICES ASSUME TypeOK, PlaceInv, [Next]_vars PROVE PlaceInv'
  OBVIOUS
<1> USE DEF entries, outside, place, outcome
<1>0. k \in Nat /\ running \in 0..Len(table) /\ Len(table) \in Nat /\ sig \in Nat
  BY Shape, Bounds, TriggersAssumption, LenProperties DEF TypeOK
(* Steps that leave the program where it is. *)
<1>a. ASSUME UNCHANGED <<phase, back, sig, k, running>>,
             running # 0 => /\ table'[running].dec = table[running].dec
                            /\ table'[running].fired = table[running].fired
      PROVE  PlaceInv'
  <2>1. running # 0 => Fits(running)'
    <3> SUFFICES ASSUME running # 0 PROVE Fits(running)'
      OBVIOUS
    <3>1. Fits(running)
      BY DEF PlaceInv
    <3>2. ASSUME NEW j, Fits(j), table'[j].dec = table[j].dec, table'[j].fired = table[j].fired
          PROVE  Fits(j)'
      BY <1>a, <3>2, FitsKept
    <3>3. PICK j : j = running
      OBVIOUS
    <3>4. Fits(j)'
      BY <1>a, <3>1, <3>2, <3>3
    <3> QED
      BY <1>a, <3>3, <3>4
  <2> QED
    BY <1>a, <2>1 DEF PlaceInv
(* Steps after which no handler runs. *)
<1>b. ASSUME running' = 0,
             k' > 0 => phase' \in Scans,
             phase' \in Scans \ {"signals"} => k' > 0,
             phase' = "signals" /\ k' > 0 => sig' > 0,
             phase' \in {"script", "on_start", "main"} => back' = "main",
             phase' = "loop" => back' = "loop"
      PROVE  PlaceInv'
  BY <1>b DEF PlaceInv
<1>1. CASE Tick \/ CountError
  BY <1>1, <1>a DEF Tick, CountError
<1>2. ASSUME NEW q \in 1..Len(Signals), Signal(Signals[q]) PROVE PlaceInv'
  BY <1>2, <1>a DEF Signal
<1>3. ASSUME NEW j \in Indices, FileChange(j) PROVE PlaceInv'
  BY <1>3, <1>a DEF FileChange
<1>4. ASSUME NEW d \in Decorators, Register(d) PROVE PlaceInv'
  <2>1. running # 0 => table'[running] = table[running]
    <3>1. running # 0 => running \in Indices
      BY <1>0 DEF Indices
    <3>2. \A i \in Indices : table'[i] = table[i]
      BY <1>4, RegisterEffect
    <3> QED
      BY <3>1, <3>2
  <2> QED
    BY <1>4, <1>a, <2>1 DEF Register
<1>5. CASE Call
  <2>1. PICK j : j = running'
    OBVIOUS
  <2>2. j \in Indices /\ j >= k /\ Wanted(j) /\ Keeps(j)
    BY <1>5, <2>1, CallEffect DEF Ahead
  <2>3. k > 0 /\ UNCHANGED <<phase, back, sig, k, pending>>
    BY <1>5 DEF Call, Scanning
  <2>4. Fits(j)
    BY <2>2, <2>3 DEF Wanted, Fits, PlaceInv, Scans
  <2>5. Fits(j)'
    BY <2>2, <2>3, <2>4, FitsKept DEF Keeps
  <2>6. Fits(running)'
    BY <2>1, <2>5
  <2>7. k <= j /\ k > 0
    BY <1>0, <2>2, <2>3 DEF Indices
  <2> QED
    BY <2>1, <2>3, <2>6, <2>7 DEF PlaceInv
<1>6. CASE Return \/ Fail
  <2>1. /\ running # 0 /\ running' = 0 /\ UNCHANGED <<phase, back, sig>>
        /\ k' \in {running + 1, Len(table) + 1}
    BY <1>6 DEF Return, Fail
  <2> QED
    BY <1>0, <1>b, <2>1 DEF PlaceInv
<1>7. CASE Exit
  <2>1. running' = 0 /\ k' = 1 /\ phase' = "on_exit" /\ UNCHANGED <<back, pending>>
    BY <1>7 DEF Exit
  <2> QED
    BY <1>b, <2>1 DEF PlaceInv, Scans
<1>8. CASE EndScript
  <2>1. phase = "script" /\ phase' = "on_start" /\ k' = 1 /\ UNCHANGED <<back, running>>
    BY <1>8 DEF EndScript, Go
  <2> QED
    BY <1>b, <2>1, NoHandler DEF PlaceInv, Scans
<1>9. CASE EndMain
  <2>1. phase' = "loop" /\ back' = "loop" /\ k' = 0 /\ running' = running
    BY <1>9 DEF EndMain
  <2>2. running = 0
    BY <1>9, NoHandler DEF EndMain, MainSkipped, Scanning, Scans
  <2> QED
    BY <1>b, <2>1, <2>2 DEF Scans
<1>10. CASE LoopTop \/ PumpDue
  <2>1. phase \in {"loop", "main"} /\ phase' = "signals" /\ k' = 0
        /\ UNCHANGED <<back, running, pending>>
    BY <1>10 DEF LoopTop, PumpDue, Schedule
  <2> QED
    BY <1>b, <2>1, NoHandler DEF PlaceInv, Scans
<1>11. CASE LoopEnds
  <2>1. phase = "loop" /\ phase' \in {"on_panic", "on_exit"} /\ k' = 1
        /\ UNCHANGED <<back, running, pending>>
    BY <1>11 DEF LoopEnds, Go
  <2> QED
    BY <1>b, <2>1, NoHandler DEF PlaceInv, Scans
<1>12. CASE PumpSignal
  <2>1. phase = "signals" /\ k = 0 /\ k' = 1 /\ sig' > sig
        /\ UNCHANGED <<phase, back, running, pending>>
    BY <1>12 DEF PumpSignal, NextSignal
  <2>2. sig' > 0
    <3>1. sig' \in Int
      BY <1>12, TriggersAssumption, LenProperties DEF PumpSignal, NextSignal
    <3> QED
      BY <1>0, <2>1, <3>1
  <2> QED
    BY <1>b, <2>1, <2>2, NoHandler DEF PlaceInv, Scans
<1>13. CASE SignalsEnd
  <2>1. /\ phase = "signals" /\ k = 0 /\ UNCHANGED <<back, running, pending>>
        /\ \/ phase' = back /\ k' = 0
           \/ phase' = "watches" /\ k' = 1
    BY <1>13 DEF SignalsEnd, AfterSignals, PassEnds, DrainEvents, Go
  <2> QED
    BY <1>b, <2>1, NoHandler DEF PlaceInv, Scans, TypeOK
<1>14. CASE ScanEnds
  <2>1. running' = 0 /\ UNCHANGED <<back, sig, pending>>
    BY <1>14 DEF ScanEnds, Scanning
  <2>2. k > 0 => phase \in Scans
    BY DEF PlaceInv
  <2>3. back \in {"loop", "main"}
    BY DEF TypeOK
  <2> QED
    BY <1>14, <1>b, <2>1, <2>2, <2>3, ScanEndsPhase DEF PlaceInv, Scans
<1>15. CASE UNCHANGED vars
  BY <1>15, <1>a DEF vars
<1> QED
  BY <1>1, <1>2, <1>3, <1>4, <1>5, <1>6, <1>7, <1>8, <1>9, <1>10, <1>11, <1>12,
     <1>13, <1>14, <1>15
  DEF Next, Step

-----------------------------------------------------------------------------
(* What a failure stops. *)

LEMMA AbortInit == Init => AbortInv
  BY DEF Init, AbortInv

LEMMA AbortStep == TypeOK /\ PlaceInv /\ AbortInv /\ [Next]_vars => AbortInv'
<1> SUFFICES ASSUME TypeOK, PlaceInv, AbortInv, [Next]_vars PROVE AbortInv'
  OBVIOUS
<1> USE DEF entries, outside, place, outcome
<1>0. k \in Nat /\ running \in 0..Len(table) /\ Len(table) \in Nat
  BY Shape, Bounds DEF TypeOK
<1>a. ASSUME UNCHANGED <<phase, k, running, aborted>>, Len(table') = Len(table)
      PROVE  AbortInv'
  BY <1>a DEF AbortInv
<1>1. CASE Tick \/ CountError
  BY <1>1, <1>a DEF Tick, CountError
<1>2. ASSUME NEW q \in 1..Len(Signals), Signal(Signals[q]) PROVE AbortInv'
  BY <1>2, <1>a DEF Signal
<1>3. ASSUME NEW j \in Indices, FileChange(j) PROVE AbortInv'
  BY <1>3, <1>a DEF FileChange
<1>4. ASSUME NEW d \in Decorators, Register(d) PROVE AbortInv'
  <2>1. Busy /\ UNCHANGED <<phase, k, running, aborted>>
    BY <1>4 DEF Register
  <2> QED
    BY <2>1 DEF AbortInv, Busy
<1>5. CASE Call
  <2>1. running' \in Ahead
    BY <1>5, CallEffect
  <2>2. Ahead # {} /\ running' \in 1..Len(table) /\ running' >= k
    BY <2>1 DEF Ahead, Indices
  <2>3. k > 0 /\ UNCHANGED <<phase, k, aborted>>
    BY <1>5 DEF Call, Scanning
  <2> QED
    BY <1>0, <2>2, <2>3 DEF AbortInv, PlaceInv, Scans
<1>6. CASE Return
  <2>1. running # 0 /\ UNCHANGED <<phase, aborted>>
    BY <1>6 DEF Return
  <2> QED
    BY <2>1 DEF AbortInv
<1>7. CASE Fail
  <2>1. running # 0 /\ UNCHANGED <<phase, table>> /\ running' = 0 /\ k' = Len(table) + 1
    BY <1>7 DEF Fail
  <2>2. phase \in Scans
    BY <2>1 DEF PlaceInv
  <2> QED
    BY <1>0, <2>1, <2>2 DEF AbortInv, Scans
<1>8. CASE Exit
  BY <1>8 DEF Exit, AbortInv
<1>9. CASE EndScript
  BY <1>9 DEF EndScript, Go, AbortInv
<1>10. CASE EndMain
  BY <1>10 DEF EndMain, AbortInv
<1>11. CASE LoopTop \/ PumpDue
  BY <1>11 DEF LoopTop, PumpDue, Schedule, AbortInv
<1>12. CASE LoopEnds
  BY <1>12 DEF LoopEnds, Go, AbortInv
<1>13. CASE PumpSignal
  BY <1>13 DEF PumpSignal, AbortInv
<1>14. CASE SignalsEnd
  <2>1. \/ phase' = back
        \/ ~aborted /\ phase' = "watches"
    BY <1>14 DEF SignalsEnd, AfterSignals, PassEnds, DrainEvents, Go
  <2>2. back \in {"loop", "main"} /\ aborted' = aborted
    BY <1>14 DEF SignalsEnd, TypeOK
  <2> QED
    BY <2>1, <2>2 DEF AbortInv
<1>15. CASE ScanEnds
  <2>1. k > 0 => phase \in Scans
    BY DEF PlaceInv
  <2>2. back \in {"loop", "main"} /\ aborted' = aborted
    BY <1>15 DEF ScanEnds, TypeOK
  <2> QED
    BY <1>15, <2>1, <2>2, ScanEndsPhase DEF AbortInv
<1>16. CASE UNCHANGED vars
  BY <1>16, <1>a DEF vars
<1> QED
  BY <1>1, <1>2, <1>3, <1>4, <1>5, <1>6, <1>7, <1>8, <1>9, <1>10, <1>11, <1>12,
     <1>13, <1>14, <1>15, <1>16
  DEF Next, Step

(* After a failure no handler of a timer, of a file or of the start begins: a
   failure puts the scan at its end, and the next one does not begin.        *)
LEMMA FailureStep ==
  ASSUME TypeOK, PlaceInv, AbortInv, [Next]_vars,
         aborted, running = 0, running' # 0
  PROVE  phase \in {"signals", "on_panic", "on_exit"}
<1> USE DEF entries, outside, place, outcome
<1>1. Call
  BY DEF Next, Step, vars, Tick, CountError, Exit, PumpDue, LoopTop, Schedule, Return, Fail,
         EndScript, EndMain, LoopEnds, PumpSignal, SignalsEnd, ScanEnds, Signal, FileChange, Register
<1>2. running' \in Ahead
  BY <1>1, CallEffect
<1>3. running' \in 1..Len(table) /\ running' >= k
  BY <1>2 DEF Ahead, Indices
<1>4. k \in Nat /\ Len(table) \in Nat
  BY Shape, Bounds DEF TypeOK
<1>5. phase \in Scans
  BY <1>1 DEF Call, Scanning, PlaceInv
<1> QED
  BY <1>3, <1>4, <1>5 DEF AbortInv, Scans

(* A failure stops the timers and the files for good. *)
THEOREM TriggersFailureStops == Spec => FailureStops
<1>1. TypeOK /\ PlaceInv /\ AbortInv /\ [Next]_vars =>
        [aborted /\ running = 0 /\ running' # 0 =>
           phase \in {"signals", "on_panic", "on_exit"}]_vars
  BY FailureStep
<1> QED
  BY <1>1, TypeInit, TypeStep, PlaceInit, PlaceStep, AbortInit, AbortStep, PTL
  DEF Spec, FailureStops

-----------------------------------------------------------------------------
(* Once is once. *)

LEMMA Counts ==
  ASSUME TypeOK, NEW j \in Indices
  PROVE  /\ log[j].calls \in 0..MaxCount /\ log[j].lost \in 0..MaxCount
         /\ table[j].fired \in BOOLEAN /\ table[j].dec \in Decorators
         /\ log[j].calls \in Nat /\ log[j].lost \in Nat
  BY Shape, Bounds DEF Entry, Record

(* The parser's rule, on the table. *)
LEMMA OnceRepeats ==
  ASSUME TypeOK, NEW j \in Indices, table[j].dec.once \/ Name(j) = "delayed"
  PROVE  Name(j) \in {"every", "cron", "on_signal", "watch", "delayed"}
  BY Counts, TriggersAssumption DEF Name, Repeating

(* The way to the end is not taken back. *)
LEMMA EndIsEnd ==
  ASSUME TypeOK, PlaceInv, [Next]_vars
  PROVE  /\ phase \in {"on_exit", "gone"} => phase' \in {"on_exit", "gone"}
         /\ phase \in Ending => phase' \in Ending
<1> USE DEF entries, outside, place, outcome, Ending
<1>1. CASE ScanEnds
  <2>1. k > 0 => phase \in Scans
    BY DEF PlaceInv
  <2> QED
    BY <1>1, <2>1, ScanEndsPhase
<1>2. CASE SignalsEnd
  BY <1>2 DEF SignalsEnd
<1>3. CASE ~ScanEnds /\ ~SignalsEnd
  BY <1>3 DEF Next, Step, vars, Tick, CountError, Exit, PumpDue, LoopTop, Schedule, Return, Fail,
         EndScript, EndMain, MainSkipped, LoopEnds, PumpSignal, Signal, FileChange, Register,
         Call, Go
<1> QED
  BY <1>1, <1>2, <1>3

LEMMA OnceInit == Init => OnceInv
<1> SUFFICES ASSUME Init PROVE OnceInv
  OBVIOUS
<1>1. Indices = {}
  BY DEF Init, Indices
<1> QED
  BY <1>1 DEF OnceInv

LEMMA OnceStep == TypeOK /\ PlaceInv /\ OnceInv /\ [Next]_vars => OnceInv'
<1> SUFFICES ASSUME TypeOK, PlaceInv, OnceInv, [Next]_vars PROVE OnceInv'
  OBVIOUS
<1> USE DEF entries, outside, place, outcome
<1>0. Len(table) \in Nat /\ Indices = 1..Len(table)
  BY Shape DEF Indices
<1>n. running # 0 => running \in Indices
  BY <1>0 DEF TypeOK
<1>e. phase' \notin {"on_exit", "gone"} => phase \notin {"on_exit", "gone"}
  BY EndIsEnd
(* Steps that neither begin nor end a call. *)
<1>a. ASSUME NEW j \in Indices,
             table'[j].dec = table[j].dec, table'[j].fired = table[j].fired,
             log'[j].calls = log[j].calls, log'[j].lost = log[j].lost,
             UNCHANGED <<running, pending>> \/ (running # j /\ running' # j)
      PROVE  OnceAt(j)'
  <2>1. OnceAt(j)
    BY DEF OnceInv
  <2> QED
    BY <1>a, <1>e, <2>1 DEF OnceAt, Name, Bit
<1>b. ASSUME Len(table') = Len(table),
             \A j \in Indices : /\ table'[j].dec = table[j].dec
                                /\ table'[j].fired = table[j].fired
                                /\ log'[j].calls = log[j].calls
                                /\ log'[j].lost = log[j].lost,
             UNCHANGED <<running, pending>> \/ (running = 0 /\ running' = 0)
      PROVE  OnceInv'
  <2>1. ASSUME NEW j \in Indices PROVE OnceAt(j)'
    <3>1. j # 0
      BY <1>0
    <3> QED
      BY <1>a, <1>b, <2>1, <3>1
  <2> QED
    BY <1>b, <2>1 DEF OnceInv, Indices
<1>1. CASE Tick \/ CountError
  BY <1>1, <1>b DEF Tick, CountError
<1>2. ASSUME NEW q \in 1..Len(Signals), Signal(Signals[q]) PROVE OnceInv'
  <2>1. UNCHANGED <<table, running, pending>>
    BY <1>2 DEF Signal
  <2> QED
    BY <1>2, <1>b, <2>1, SignalEffect
<1>3. ASSUME NEW j \in Indices, FileChange(j) PROVE OnceInv'
  <2>1. UNCHANGED <<table, running, pending>>
    BY <1>3 DEF FileChange
  <2> QED
    BY <1>3, <1>b, <2>1, FileChangeEffect
<1>4. ASSUME NEW d \in Decorators, Register(d) PROVE OnceInv'
  <2>1. UNCHANGED <<running, pending>>
    BY <1>4 DEF Register
  <2>2. ASSUME NEW j \in Indices PROVE OnceAt(j)'
    BY <1>4, <1>a, <2>1, <2>2, RegisterEffect
  <2>3. ASSUME NEW j \in Indices', j \notin Indices PROVE OnceAt(j)'
    <3>1. log'[j].calls = 0 /\ log'[j].lost = 0
      BY <1>4, <2>3, RegisterNew
    <3> QED
      BY <3>1 DEF OnceAt, Bit
  <2> QED
    BY <2>2, <2>3 DEF OnceInv
<1>5. CASE Call
  <2>1. running = 0 /\ UNCHANGED <<phase, pending>>
    BY <1>5 DEF Call, Scanning
  <2>2. /\ SameSize /\ running' \in Indices /\ Wanted(running')
        /\ \A i \in Indices : Keeps(i) /\ log'[i].lost = log[i].lost
        /\ \A i \in Indices : i # running' => log'[i] = log[i]
        /\ log'[running'].calls = IF pending # "none" THEN log[running'].calls
                                  ELSE OneMore(log[running'].calls)
    BY <1>5, CallEffect DEF Ahead
  <2>3. PICK j \in Indices : j = running'
    BY <2>2
  <2>4. ASSUME NEW i \in Indices, i # j PROVE OnceAt(i)'
    <3>1. running # i
      BY <1>0, <2>1, <2>4
    <3> QED
      BY <1>a, <2>2, <2>3, <2>4, <3>1 DEF Keeps
  <2>5. OnceAt(j)'
    <3> SUFFICES ASSUME table[j].dec.once \/ Name(j) = "delayed" PROVE OnceAt(j)'
      BY <2>2, <2>3 DEF OnceAt, Keeps, Name
    <3>1. phase \in Scans /\ phase # "on_exit"
      <4>1. phase \in Scans
        BY <1>5 DEF Call, Scanning, PlaceInv
      <4>2. Wanted(j)
        BY <2>2, <2>3
      <4> QED
        BY <4>1, <4>2, OnceRepeats DEF Wanted
    <3>2. phase \notin {"on_exit", "gone"}
      BY <3>1 DEF Scans
    <3>3. table[j].fired = FALSE
      <4>1. Wanted(j)
        BY <2>2, <2>3
      <4>2. CASE table[j].dec.once
        BY <4>1, <4>2, Counts, Zenon DEF Wanted, Spent
      <4>3. CASE Name(j) = "delayed"
        <5>1. phase = "due" /\ ~table[j].fired
          BY <3>1, <4>1, <4>3 DEF Wanted, Scans
        <5> QED
          BY <5>1, Counts, Zenon
      <4> QED
        BY <4>2, <4>3
    <3>4. log[j].calls <= log[j].lost
      <4>1. OnceAt(j) /\ running # j
        BY <1>0, <2>1 DEF OnceInv
      <4> QED
        BY <3>2, <3>3, <4>1, Counts DEF OnceAt, Bit
    <3>5. log'[j].calls <= log[j].calls + Bit(pending = "none") /\ log'[j].lost = log[j].lost
          /\ log'[j].calls \in Nat
      BY <2>2, <2>3, Counts, Bounds DEF OneMore, Bit
    <3>6. log'[j].calls <= log'[j].lost + Bit(running' = j /\ pending' = "none")
      BY <2>1, <2>3, <3>4, <3>5, Counts DEF Bit
    <3>7. table'[j].fired = FALSE /\ log'[j].lost \in Nat
      BY <2>2, <3>3, <3>5, Counts DEF Keeps
    <3> QED
      BY <3>5, <3>6, <3>7 DEF OnceAt, Bit
  <2>6. ASSUME NEW i \in Indices PROVE OnceAt(i)'
    BY <2>4, <2>5, <2>6
  <2> QED
    BY <2>2, <2>6 DEF SameSize, OnceInv, Indices
<1>6. CASE Return
  <2>1. running # 0 /\ pending = "none" /\ running' = 0 /\ UNCHANGED <<phase, pending>>
    BY <1>6 DEF Return
  <2>2. PICK j \in Indices : j = running
    BY <1>n, <2>1
  <2>3. /\ SameSize
        /\ \A i \in Indices : i # j => table'[i] = table[i] /\ log'[i] = log[i]
        /\ table'[j].dec = table[j].dec /\ log'[j].calls = log[j].calls
        /\ \/ table'[j].fired = TRUE /\ log'[j].lost = log[j].lost
           \/ table'[j].fired = table[j].fired /\ log'[j].lost = OneMore(log[j].lost)
    BY <1>6, <2>2, ReturnEffect
  <2>4. ASSUME NEW i \in Indices, i # j PROVE OnceAt(i)'
    <3>1. running # i /\ running' # i
      BY <1>0, <2>1, <2>2, <2>4
    <3> QED
      BY <1>a, <2>3, <2>4, <3>1
  <2>5. OnceAt(j)'
    <3> SUFFICES ASSUME table[j].dec.once \/ Name(j) = "delayed" PROVE OnceAt(j)'
      BY <2>3 DEF OnceAt, Name
    <3>1. table[j].fired = FALSE /\ phase \notin {"on_exit", "gone"}
      <4>1. Fits(j) /\ phase \in Scans
        BY <2>1, <2>2 DEF PlaceInv
      <4>2. phase # "on_exit"
        BY <4>1, OnceRepeats DEF Fits
      <4>3. CASE table[j].dec.once
        BY <4>1, <4>2, <4>3, Counts, Zenon DEF Fits, Spent, Scans
      <4>4. CASE Name(j) = "delayed"
        <5>1. phase = "due" /\ ~table[j].fired
          BY <4>1, <4>4 DEF Fits, Scans
        <5> QED
          BY <5>1, Counts, Zenon
      <4>5. phase # "gone"
        BY <4>1 DEF Scans
      <4> QED
        BY <4>2, <4>3, <4>4, <4>5
    <3>2. log[j].calls <= log[j].lost + 1
      <4>1. OnceAt(j)
        BY DEF OnceInv
      <4> QED
        BY <3>1, <4>1, Counts DEF OnceAt, Bit
    <3>3. CASE table'[j].fired = TRUE /\ log'[j].lost = log[j].lost
      BY <2>3, <3>2, <3>3, Counts DEF OnceAt, Bit
    <3>4. CASE table'[j].fired = table[j].fired /\ log'[j].lost = OneMore(log[j].lost)
      <4>1. log'[j].calls <= log'[j].lost /\ log'[j].lost \in Nat
        BY <2>3, <3>2, <3>4, Counts, Bounds DEF OneMore
      <4> QED
        BY <2>3, <4>1, Counts DEF OnceAt, Bit
    <3> QED
      BY <2>3, <3>3, <3>4
  <2>6. ASSUME NEW i \in Indices PROVE OnceAt(i)'
    BY <2>4, <2>5, <2>6
  <2> QED
    BY <2>3, <2>6 DEF SameSize, OnceInv, Indices
<1>7. CASE Fail
  <2>1. running # 0 /\ running' = 0 /\ UNCHANGED phase
    BY <1>7 DEF Fail
  <2>2. PICK j \in Indices : j = running
    BY <1>n, <2>1
  <2>3. /\ SameSize /\ table' = table
        /\ \A i \in Indices : i # j => log'[i] = log[i]
        /\ log'[j].calls = log[j].calls
        /\ log'[j].lost = IF pending # "none" THEN log[j].lost ELSE OneMore(log[j].lost)
    BY <1>7, <2>2, FailEffect
  <2>4. ASSUME NEW i \in Indices, i # j PROVE OnceAt(i)'
    <3>1. running # i /\ running' # i
      BY <1>0, <2>1, <2>2, <2>4
    <3> QED
      BY <1>a, <2>3, <2>4, <3>1
  <2>5. OnceAt(j)'
    <3>1. OnceAt(j) /\ running' # j
      BY <1>0, <2>1 DEF OnceInv
    <3>2. CASE pending # "none"
      BY <2>1, <2>3, <3>1, <3>2, Counts DEF OnceAt, Bit, Name
    <3>3. CASE pending = "none"
      BY <2>1, <2>3, <3>1, <3>3, Counts, Bounds DEF OnceAt, Bit, Name, OneMore
    <3> QED
      BY <3>2, <3>3
  <2>6. ASSUME NEW i \in Indices PROVE OnceAt(i)'
    BY <2>4, <2>5, <2>6
  <2> QED
    BY <2>3, <2>6 DEF SameSize, OnceInv, Indices
<1>8. CASE Exit
  <2>1. UNCHANGED <<table, log>> /\ phase' = "on_exit"
    BY <1>8 DEF Exit
  <2> QED
    BY <2>1 DEF OnceInv, OnceAt, Indices, Name
<1>9. CASE LoopEnds \/ PumpSignal
  BY <1>9, <1>b DEF LoopEnds, PumpSignal
<1>10. CASE EndScript \/ EndMain
  <2>1. running = 0 /\ running' = 0 /\ UNCHANGED <<table, log>>
    BY <1>10, NoHandler DEF EndScript, EndMain, MainSkipped, Scanning, Scans
  <2> QED
    BY <1>b, <2>1
<1>11. CASE Schedule
  <2>1. UNCHANGED <<running, pending>>
    BY <1>11 DEF Schedule
  <2> QED
    BY <1>11, <1>b, <2>1, ScheduleEffect DEF SameSize, KeepsRecord
<1>12. CASE SignalsEnd
  <2>1. UNCHANGED <<running, pending, log>>
    BY <1>12 DEF SignalsEnd
  <2>2. DrainEvents \/ UNCHANGED table
    BY <1>12 DEF SignalsEnd, AfterSignals, PassEnds
  <2> QED
    BY <1>b, <2>1, <2>2, DrainEffect
<1>13. CASE ScanEnds
  <2>1. UNCHANGED <<running, pending, log>>
    BY <1>13 DEF ScanEnds
  <2> QED
    BY <1>13, <1>b, <2>1, SetUpEffect DEF ScanEnds, Keeps
<1>14. CASE UNCHANGED vars
  BY <1>14, <1>b DEF vars
<1> QED
  BY <1>1, <1>2, <1>3, <1>4, <1>5, <1>6, <1>7, <1>8, <1>9, <1>10, <1>11, <1>12,
     <1>13, <1>14
  DEF Next, Step, LoopTop, PumpDue

(* @once and @delayed mean once: a handler is called again only after a call that
   failed or whose end was written into a table that had moved; the table stays
   well typed and within its allocation.                                     *)
THEOREM TriggersOnce == Spec => []OnceIsOnce
<1>1. TypeOK /\ OnceInv => OnceIsOnce
  BY DEF OnceInv, OnceAt, OnceIsOnce
<1> QED
  BY <1>1, TypeInit, TypeStep, PlaceInit, PlaceStep, OnceInit, OnceStep, PTL DEF Spec

-----------------------------------------------------------------------------
(* Nothing that came is lost. *)

LEMMA OwedInit == Init => OwedInv
<1> SUFFICES ASSUME Init PROVE OwedInv
  OBVIOUS
<1>1. Indices = {}
  BY DEF Init, Indices
<1> QED
  BY <1>1 DEF OwedInv

LEMMA OwedStep == TypeOK /\ PlaceInv /\ OwedInv /\ [Next]_vars => OwedInv'
<1> SUFFICES ASSUME TypeOK, PlaceInv, OwedInv, [Next]_vars PROVE OwedInv'
  OBVIOUS
<1> USE DEF entries, outside, place, outcome
<1>0. Len(table) \in Nat /\ Indices = 1..Len(table) /\ k \in Nat /\ running \in Nat
  BY Shape, Bounds DEF Indices, TypeOK
<1>n. running # 0 => running \in Indices
  BY <1>0 DEF TypeOK
<1>e. phase' \notin Ending => phase \notin Ending
  BY EndIsEnd
<1>f. failed' = {} => failed = {}
  BY DEF Next, Step, vars, Tick, CountError, Exit, PumpDue, LoopTop, Schedule, Return, Fail,
         EndScript, EndMain, LoopEnds, PumpSignal, SignalsEnd, ScanEnds, Signal, FileChange, Register, Call
(* What is owed after a step was owed before it, if the step owes nothing new. *)
<1>a. ASSUME NEW j \in Indices,
             table'[j].dec = table[j].dec, Spent(j) => Spent(j)', log'[j].owed => log[j].owed,
             Remembered(j) => Remembered(j)'
      PROVE  OwedAt(j)'
  <2>1. OwedAt(j)
    BY DEF OwedInv
  <2> QED
    BY <1>a, <1>e, <1>f, <2>1 DEF OwedAt
<1>b. ASSUME NEW j \in Indices,
             table'[j].dec = table[j].dec, Name(j) = "watch" => table'[j].next = table[j].next,
             UNCHANGED <<flags, phase, sig, k, running>>, j \in changed => j \in changed'
      PROVE  Remembered(j) => Remembered(j)'
  BY <1>b DEF Remembered, Name, Arg
<1>c. ASSUME Len(table') = Len(table), \A j \in Indices : OwedAt(j)' PROVE OwedInv'
  BY <1>c DEF OwedInv, Indices
<1>s. ASSUME NEW j, table'[j].dec = table[j].dec, table'[j].fired = table[j].fired
      PROVE  Spent(j) => Spent(j)'
  BY <1>s DEF Spent
(* Steps outside the scan for a signal, or that leave it where it is. *)
<1>d. ASSUME Len(table') = Len(table), UNCHANGED <<log, flags, running>>,
             k = 0 \/ (running = 0 /\ phase # "signals"),
             \A j \in Indices :
               /\ table'[j].dec = table[j].dec /\ table'[j].fired = table[j].fired
               /\ Name(j) = "watch" /\ j \notin changed' =>
                    table'[j].next = -1 \/ (j \notin changed /\ table'[j].next = table[j].next)
      PROVE  OwedInv'
  <2>1. ASSUME NEW j \in Indices PROVE OwedAt(j)'
    <3>1. Remembered(j) => Remembered(j)'
      <4>1. running = 0 /\ j # 0
        BY <1>0, <1>d, NoHandler
      <4> QED
        BY <1>d, <4>1 DEF Remembered, Name, Arg
    <3> QED
      BY <1>a, <1>d, <1>s, <3>1
  <2> QED
    BY <1>c, <1>d, <2>1
<1>1. CASE Tick \/ CountError
  <2>1. ASSUME NEW j \in Indices PROVE OwedAt(j)'
    BY <1>1, <1>a, <1>b, <1>s DEF Tick, CountError
  <2> QED
    BY <1>1, <1>c, <2>1 DEF Tick, CountError
<1>2. ASSUME NEW q \in 1..Len(Signals), Signal(Signals[q]) PROVE OwedInv'
  <2>1. UNCHANGED <<table, place, changed>> /\ flags' = flags \cup {Signals[q]}
    BY <1>2 DEF Signal
  <2>2. ASSUME NEW j \in Indices PROVE OwedAt(j)'
    <3>1. CASE Name(j) = "on_signal" /\ Arg(j) = Signals[q]
      BY <2>1, <3>1 DEF OwedAt, Remembered, Name, Arg
    <3>2. CASE ~(Name(j) = "on_signal" /\ Arg(j) = Signals[q])
      <4>1. log'[j].owed => log[j].owed
        BY <1>2, <3>2, SignalEffect
      <4>2. Remembered(j) => Remembered(j)'
        BY <2>1 DEF Remembered, Name, Arg
      <4> QED
        BY <1>a, <1>s, <2>1, <4>1, <4>2
    <3> QED
      BY <3>1, <3>2
  <2> QED
    BY <1>c, <2>1, <2>2
<1>3. ASSUME NEW i \in Indices, FileChange(i) PROVE OwedInv'
  <2>1. /\ UNCHANGED <<table, place, flags>> /\ changed' = changed \cup {i}
        /\ Name(i) = "watch"
    BY <1>3 DEF FileChange
  <2>2. ASSUME NEW j \in Indices PROVE OwedAt(j)'
    <3>1. CASE j = i
      BY <2>1, <3>1 DEF OwedAt, Remembered, Name
    <3>2. CASE j # i
      <4>1. log'[j] = log[j]
        BY <1>3, <3>2, FileChangeEffect
      <4> QED
        BY <1>a, <1>b, <1>s, <2>1, <4>1
    <3> QED
      BY <3>1, <3>2
  <2> QED
    BY <1>c, <2>1, <2>2
<1>4. ASSUME NEW d \in Decorators, Register(d) PROVE OwedInv'
  <2>1. UNCHANGED <<flags, changed, phase, sig, k, running>>
    BY <1>4 DEF Register
  <2>2. ASSUME NEW j \in Indices PROVE OwedAt(j)'
    <3>1. table'[j] = table[j] /\ log'[j] = log[j]
      BY <1>4, RegisterEffect
    <3> QED
      BY <1>a, <1>b, <1>s, <2>1, <3>1
  <2>3. ASSUME NEW j \in Indices', j \notin Indices PROVE OwedAt(j)'
    <3>1. log'[j].owed = FALSE
      BY <1>4, <2>3, RegisterNew
    <3> QED
      BY <3>1 DEF OwedAt
  <2> QED
    BY <2>2, <2>3 DEF OwedInv
<1>5. CASE Call
  <2>1. running = 0 /\ k > 0 /\ UNCHANGED <<flags, changed, phase, sig, k>>
    BY <1>5 DEF Call, Scanning
  <2>2. /\ SameSize /\ running' \in Ahead /\ (\A i \in Ahead : running' <= i)
        /\ \A i \in Indices : Keeps(i)
        /\ \A i \in Indices : i # running' => log'[i] = log[i]
        /\ log'[running'].owed = FALSE
    BY <1>5, CallEffect
  <2>3. ASSUME NEW j \in Indices PROVE OwedAt(j)'
    <3>1. CASE j = running'
      BY <2>2, <3>1 DEF OwedAt
    <3>2. CASE j # running'
      <4>1. log[j].owed /\ ~Spent(j) /\ Remembered(j) => Remembered(j)'
        <5> SUFFICES ASSUME ~Spent(j), Remembered(j) PROVE Remembered(j)'
          OBVIOUS
        <5>1. CASE /\ Name(j) = "on_signal" /\ phase = "signals"
                   /\ sig > 0 /\ Arg(j) = Signals[sig]
                   /\ k > 0 /\ j >= k /\ j > running
          <6>1. j \in Ahead
            BY <5>1 DEF Ahead, Wanted
          <6>2. running' <= j /\ running' \in Nat
            BY <1>0, <2>2, <6>1 DEF Ahead
          <6>3. j > running'
            BY <1>0, <3>2, <6>2
          <6> QED
            BY <2>1, <2>2, <5>1, <6>3 DEF Remembered, Keeps, Name, Arg
        <5>2. CASE ~(/\ Name(j) = "on_signal" /\ phase = "signals"
                     /\ sig > 0 /\ Arg(j) = Signals[sig]
                     /\ k > 0 /\ j >= k /\ j > running)
          BY <2>1, <2>2, <3>2, <5>2 DEF Remembered, Keeps, Name, Arg
        <5> QED
          BY <5>1, <5>2
      <4>2. log'[j] = log[j] /\ table'[j].dec = table[j].dec /\ table'[j].fired = table[j].fired
        BY <2>2, <3>2 DEF Keeps
      <4>3. Spent(j)' = Spent(j)
        BY <4>2 DEF Spent
      <4>4. OwedAt(j)
        BY DEF OwedInv
      <4> QED
        BY <1>e, <1>f, <4>1, <4>2, <4>3, <4>4 DEF OwedAt
    <3> QED
      BY <3>1, <3>2
  <2> QED
    BY <1>c, <2>2, <2>3 DEF SameSize
<1>6. CASE Return
  <2>1. /\ running # 0 /\ k' = running + 1 /\ running' = 0
        /\ UNCHANGED <<flags, changed, phase, sig>>
    BY <1>6 DEF Return
  <2>2. /\ SameSize /\ running \in Indices
        /\ \A i \in Indices : i # running => table'[i] = table[i] /\ log'[i] = log[i]
        /\ table'[running].dec = table[running].dec
        /\ log'[running].owed = log[running].owed
        /\ table[running].fired => table'[running].fired
    BY <1>6, ReturnEffect
  <2>3. ASSUME NEW j \in Indices PROVE OwedAt(j)'
    <3>1. /\ table'[j].dec = table[j].dec /\ log'[j].owed = log[j].owed
          /\ table[j].fired => table'[j].fired
      BY <2>2
    <3>2. Spent(j) => Spent(j)'
      BY <3>1 DEF Spent
    <3>3. Remembered(j) => Remembered(j)'
      <4>1. CASE j = running
        BY <1>0, <2>1, <3>1, <4>1 DEF Remembered, Name, Arg
      <4>2. CASE j # running
        <5>1. j # running' /\ (j > running => j >= k' /\ j > running' /\ k' > 0)
          BY <1>0, <2>1
        <5> QED
          BY <2>1, <2>2, <4>2, <5>1 DEF Remembered, Name, Arg
      <4> QED
        BY <4>1, <4>2
    <3> QED
      BY <1>a, <3>1, <3>2, <3>3
  <2> QED
    BY <1>c, <2>2, <2>3 DEF SameSize
<1>7. CASE Fail
  <2>1. failed' # {} /\ Len(table') = Len(table)
    BY <1>7 DEF Fail
  <2> QED
    BY <1>c, <2>1 DEF OwedAt
<1>8. CASE Exit \/ LoopEnds
  <2>1. phase' \in Ending /\ Len(table') = Len(table)
    BY <1>8 DEF Exit, LoopEnds, Go, Ending
  <2> QED
    BY <1>c, <2>1 DEF OwedAt
<1>9. CASE EndScript \/ EndMain
  <2>1. running = 0 /\ phase # "signals"
    BY <1>9, NoHandler DEF EndScript, EndMain, MainSkipped, Scanning, Scans
  <2> QED
    BY <1>9, <1>d, <2>1 DEF EndScript, EndMain
<1>10. CASE LoopTop \/ PumpDue
  <2>1. k = 0 /\ Schedule
    BY <1>10, NoHandler DEF LoopTop, PumpDue, Scans
  <2>2. running = 0 /\ running' = 0 /\ UNCHANGED <<flags, changed>>
    BY <2>1, NoHandler DEF Schedule
  <2>3. ASSUME NEW j \in Indices PROVE OwedAt(j)'
    <3>1. /\ table'[j].dec = table[j].dec /\ table'[j].fired = table[j].fired
          /\ Name(j) \notin Timed => table'[j].next = table[j].next
          /\ log'[j].owed = log[j].owed
      BY <2>1, ScheduleEffect DEF KeepsRecord
    <3>2. Name(j) = "watch" => table'[j].next = table[j].next
      BY <3>1 DEF Timed
    <3>3. Remembered(j) => Remembered(j)'
      <4>1. j # 0
        BY <1>0
      <4> QED
        BY <2>1, <2>2, <3>1, <3>2, <4>1 DEF Remembered, Name, Arg
    <3> QED
      BY <1>a, <1>s, <3>1, <3>3
  <2> QED
    BY <1>c, <2>1, <2>3, ScheduleEffect DEF SameSize
<1>11. CASE PumpSignal
  <2>1. /\ phase = "signals" /\ k = 0 /\ running = 0
        /\ UNCHANGED <<table, log, changed, phase, running>>
    BY <1>11, NoHandler DEF PumpSignal
  <2>2. PICK q \in 1..Len(Signals) :
          /\ sig' = q /\ flags' = flags \ {Signals[q]} /\ k' = 1 /\ q > 0
    <3>1. PICK q \in 1..Len(Signals) : NextSignal(q)
      BY <1>11 DEF PumpSignal
    <3>2. q > 0
      BY TriggersAssumption, LenProperties
    <3> QED
      BY <3>1, <3>2 DEF NextSignal
  <2>3. ASSUME NEW j \in Indices PROVE OwedAt(j)'
    <3>1. j >= 1 /\ j > 0 /\ j # 0
      BY <1>0
    <3>2. Remembered(j) => Remembered(j)'
      <4>1. CASE Name(j) = "on_signal" /\ Arg(j) = Signals[q]
        BY <2>1, <2>2, <3>1, <4>1 DEF Remembered, Name, Arg
      <4>2. CASE ~(Name(j) = "on_signal" /\ Arg(j) = Signals[q])
        BY <2>1, <2>2, <3>1, <4>2 DEF Remembered, Name, Arg
      <4> QED
        BY <4>1, <4>2
    <3> QED
      BY <1>a, <1>s, <2>1, <3>2
  <2> QED
    BY <1>c, <2>1, <2>3
<1>12. CASE SignalsEnd
  <2>1. k = 0 /\ UNCHANGED <<log, flags, running>>
    BY <1>12 DEF SignalsEnd
  <2>2. CASE UNCHANGED <<table, changed>>
    BY <1>d, <2>1, <2>2
  <2>3. CASE DrainEvents
    BY <1>d, <2>1, <2>3, DrainEffect
  <2> QED
    BY <1>12, <2>2, <2>3 DEF SignalsEnd, AfterSignals, PassEnds
<1>13. CASE ScanEnds
  <2>1. running = 0 /\ k > 0 /\ Ahead = {} /\ UNCHANGED <<log, flags, changed, running>>
    BY <1>13 DEF ScanEnds, Scanning
  <2>2. table' \in Seq(Entry) /\ Len(table') = Len(table) /\ \A i \in Indices : Keeps(i)
    BY <1>13, SetUpEffect DEF ScanEnds
  <2>3. ASSUME NEW j \in Indices PROVE OwedAt(j)'
    <3>1. ~Spent(j) /\ Remembered(j) => Remembered(j)'
      <4> SUFFICES ASSUME ~Spent(j), Remembered(j) PROVE Remembered(j)'
        OBVIOUS
      <4>1. ~(/\ Name(j) = "on_signal" /\ phase = "signals"
              /\ sig > 0 /\ Arg(j) = Signals[sig]
              /\ k > 0 /\ j >= k /\ j > running)
        BY <2>1 DEF Ahead, Wanted
      <4> QED
        BY <2>1, <2>2, <4>1 DEF Remembered, Keeps, Name, Arg
    <3>2. Spent(j)' = Spent(j)
      BY <2>2 DEF Spent, Keeps
    <3>3. OwedAt(j)
      BY DEF OwedInv
    <3> QED
      BY <1>e, <1>f, <2>1, <3>1, <3>2, <3>3 DEF OwedAt
  <2> QED
    BY <1>c, <2>2, <2>3
<1>14. CASE UNCHANGED vars
  <2>1. ASSUME NEW j \in Indices PROVE OwedAt(j)'
    BY <1>14, <1>a, <1>b, <1>s DEF vars
  <2> QED
    BY <1>14, <1>c, <2>1 DEF vars
<1> QED
  BY <1>1, <1>2, <1>3, <1>4, <1>5, <1>6, <1>7, <1>8, <1>9, <1>10, <1>11, <1>12,
     <1>13, <1>14
  DEF Next, Step

(* Until a handler fails, a signal or a change of a file that came after the last
   call of its handler is in a flag, in the queue, in the table or ahead of the
   scan under way, whichever handler runs when it comes.                     *)
THEOREM TriggersNothingLost == Spec => []NothingLost
<1>1. TypeOK /\ OwedInv => NothingLost
  <2> SUFFICES ASSUME TypeOK, OwedInv, NEW j \in Indices,
                      log[j].owed, ~Spent(j), failed = {},
                      phase \notin {"on_panic", "on_exit", "gone"}
               PROVE  \/ Name(j) = "watch" /\ (j \in changed \/ table[j].next = -1)
                      \/ Name(j) = "on_signal" /\ Arg(j) \in flags
                      \/ /\ Name(j) = "on_signal" /\ phase = "signals"
                         /\ sig > 0 /\ Arg(j) = Signals[sig]
                         /\ j >= k /\ j # running
    BY DEF NothingLost
  <2>1. Remembered(j)
    BY DEF OwedInv, OwedAt, Ending
  <2>2. j \in Nat /\ running \in Nat
    BY Shape DEF TypeOK
  <2> QED
    BY <2>1, <2>2 DEF Remembered
<1> QED
  BY <1>1, TypeInit, TypeStep, PlaceInit, PlaceStep, OwedInit, OwedStep, PTL DEF Spec

-----------------------------------------------------------------------------
(* Every @on_exit handler runs. *)

LEMMA ExitNeverSpent ==
  ASSUME TypeOK, NEW j \in Indices, Name(j) = "on_exit"
  PROVE  ~Spent(j)
  BY OnceRepeats DEF Spent

LEMMA ExitInit == Init => ExitInv
<1> SUFFICES ASSUME Init PROVE ExitInv
  OBVIOUS
<1>1. Indices = {}
  BY DEF Init, Indices
<1> QED
  BY <1>1 DEF ExitInv

LEMMA ExitStep == TypeOK /\ PlaceInv /\ ExitInv /\ [Next]_vars => ExitInv'
<1> SUFFICES ASSUME TypeOK, PlaceInv, ExitInv, [Next]_vars PROVE ExitInv'
  OBVIOUS
<1> USE DEF entries, outside, place, outcome
<1>0. Len(table) \in Nat /\ Indices = 1..Len(table) /\ k \in Nat /\ running \in Nat
  BY Shape, Bounds DEF Indices, TypeOK
<1>n. running # 0 => running \in Indices
  BY <1>0 DEF TypeOK
<1>c. ASSUME Len(table') = Len(table), \A j \in Indices : ExitAt(j)' PROVE ExitInv'
  BY <1>c DEF ExitInv, Indices
(* Steps that leave the calls and the scan as they are. *)
<1>a. ASSUME NEW j \in Indices, table'[j].dec = table[j].dec, log'[j].calls = log[j].calls,
             UNCHANGED <<phase, k, running, pending, depth, failed>>
      PROVE  ExitAt(j)'
  <2>1. ExitAt(j)
    BY DEF ExitInv
  <2> QED
    BY <1>a, <2>1 DEF ExitAt, Name
(* Steps before the end of the program. *)
<1>b. ASSUME Len(table') = Len(table),
             \A j \in Indices : table'[j].dec = table[j].dec /\ log'[j].calls = log[j].calls,
             phase \notin {"on_exit", "gone"},
             \/ phase' \notin {"on_exit", "gone"}
             \/ phase' = "on_exit" /\ k' = 1 /\ running' = 0
      PROVE  ExitInv'
  <2>1. ASSUME NEW j \in Indices PROVE ExitAt(j)'
    <3>1. Name(j) = "on_exit" => log'[j].calls = 0
      BY <1>b, <2>1 DEF ExitInv, ExitAt
    <3>2. Name(j)' = Name(j)
      BY <1>b DEF Name
    <3>3. CASE phase' \notin {"on_exit", "gone"}
      BY <3>1, <3>2, <3>3 DEF ExitAt
    <3>4. CASE phase' = "on_exit" /\ k' = 1 /\ running' = 0
      <4>1. ~(j < k') /\ j # running'
        BY <1>0, <3>4
      <4> QED
        BY <3>1, <3>2, <3>4, <4>1 DEF ExitAt
    <3> QED
      BY <1>b, <3>3, <3>4
  <2> QED
    BY <1>b, <1>c, <2>1
<1>1. CASE Tick \/ CountError
  <2>1. ASSUME NEW j \in Indices PROVE ExitAt(j)'
    BY <1>1, <1>a DEF Tick, CountError
  <2> QED
    BY <1>1, <1>c, <2>1 DEF Tick, CountError
<1>2. ASSUME NEW q \in 1..Len(Signals), Signal(Signals[q]) PROVE ExitInv'
  <2>1. UNCHANGED <<table, place, outcome>>
    BY <1>2 DEF Signal
  <2>2. ASSUME NEW j \in Indices PROVE ExitAt(j)'
    BY <1>2, <1>a, <2>1, SignalEffect
  <2> QED
    BY <1>c, <2>1, <2>2
<1>3. ASSUME NEW i \in Indices, FileChange(i) PROVE ExitInv'
  <2>1. UNCHANGED <<table, place, outcome>>
    BY <1>3 DEF FileChange
  <2>2. ASSUME NEW j \in Indices PROVE ExitAt(j)'
    BY <1>3, <1>a, <2>1, FileChangeEffect
  <2> QED
    BY <1>c, <2>1, <2>2
<1>4. ASSUME NEW d \in Decorators, Register(d) PROVE ExitInv'
  <2>1. Busy /\ UNCHANGED <<phase, k, running, outcome>>
    BY <1>4 DEF Register
  <2>2. ASSUME NEW j \in Indices PROVE ExitAt(j)'
    BY <1>4, <1>a, <2>1, RegisterEffect
  <2>3. ASSUME NEW j \in Indices', j \notin Indices PROVE ExitAt(j)'
    <3>1. log'[j].calls = 0 /\ j > Len(table) /\ j \in Nat
      <4>1. log'[j].calls = 0 /\ j > Len(table)
        BY <1>4, <2>3, RegisterNew
      <4>2. j \in 1..(Len(table) + 1)
        BY <1>4, <2>3, RegisterNew
      <4> QED
        BY <1>0, <4>1, <4>2
    <3>2. CASE phase \notin {"on_exit", "gone"}
      BY <2>1, <3>1, <3>2 DEF ExitAt
    <3>3. CASE phase = "on_exit"
      <4>1. running # 0 /\ running \in 1..Len(table) /\ k <= running
        BY <1>0, <1>n, <2>1, <3>3 DEF Busy, PlaceInv
      <4>2. ~(j < k) /\ j # running /\ j >= running
        BY <1>0, <3>1, <4>1
      <4> QED
        BY <2>1, <3>1, <3>3, <4>2 DEF ExitAt
    <3>4. phase # "gone"
      BY <2>1, NoHandler DEF Busy, Scans
    <3> QED
      BY <3>2, <3>3, <3>4
  <2> QED
    BY <2>2, <2>3 DEF ExitInv
<1>5. CASE Call
  <2>1. running = 0 /\ k > 0 /\ UNCHANGED <<phase, k, outcome>>
    BY <1>5 DEF Call, Scanning
  <2>2. /\ SameSize /\ running' \in Ahead /\ (\A i \in Ahead : running' <= i)
        /\ \A i \in Indices : Keeps(i)
        /\ \A i \in Indices : i # running' => log'[i] = log[i]
        /\ log'[running'].calls = IF pending # "none" THEN log[running'].calls
                                  ELSE OneMore(log[running'].calls)
    BY <1>5, CallEffect
  <2>3. running' \in Indices /\ running' >= k /\ Wanted(running') /\ running' # 0
    BY <1>0, <2>2 DEF Ahead
  <2>4. phase \in Scans
    BY <2>1 DEF PlaceInv
  <2>5. CASE phase # "on_exit"
    <3>1. ASSUME NEW j \in Indices PROVE ExitAt(j)'
      <4>1. CASE j = running'
        <5>1. Name(j) # "on_exit"
          BY <2>3, <2>4, <2>5, <4>1 DEF Wanted, Scans, Timed
        <5> QED
          BY <2>2, <5>1 DEF ExitAt, Keeps, Name
      <4>2. CASE j # running'
        <5>1. ExitAt(j) /\ log'[j] = log[j] /\ phase \notin {"on_exit", "gone"}
          BY <2>2, <2>4, <2>5, <4>2 DEF ExitInv, Scans
        <5> QED
          BY <2>1, <2>2, <5>1 DEF ExitAt, Keeps, Name
      <4> QED
        BY <4>1, <4>2
    <3> QED
      BY <1>c, <2>2, <3>1 DEF SameSize
  <2>6. CASE phase = "on_exit"
    <3>1. ASSUME NEW j \in Indices, Name(j) = "on_exit" PROVE ExitAt(j)'
      <4>1. j >= k => j >= running'
        <5>1. j >= k => j \in Ahead
          BY <2>6, <3>1, ExitNeverSpent DEF Ahead, Wanted
        <5> QED
          BY <1>0, <2>2, <2>3, <5>1
      <4>2. ExitAt(j) /\ log[j].calls \in 0..MaxCount
        BY Counts DEF ExitInv
      <4>3. CASE j = running'
        <5>1. ~(j < k) /\ j # running
          BY <1>0, <2>1, <2>3, <4>3
        <5>2. /\ pending = "none" => log'[j].calls = OneMore(log[j].calls)
              /\ pending # "none" => log'[j].calls = log[j].calls
          BY <2>2, <4>3
        <5>3. pending = "none" => log'[j].calls >= 1 /\ (log[j].calls = 0 => log'[j].calls = 1)
          BY <4>2, <5>2, Bounds DEF OneMore
        <5>4. depth = 0 /\ "on_exit" \notin failed => log[j].calls = 0
          BY <2>6, <3>1, <4>2, <5>1, <1>0 DEF ExitAt
        <5>5. j >= k /\ j >= running'
          BY <1>0, <4>1, <5>1
        <5> QED
          BY <2>1, <2>6, <3>1, <4>3, <5>1, <5>2, <5>3, <5>4, <5>5 DEF ExitAt
      <4>4. CASE j # running'
        <5>1. log'[j] = log[j]
          BY <2>2, <4>4
        <5>2. j < k \/ j >= running'
          BY <1>0, <4>1
        <5>3. j # running
          BY <1>0, <2>1
        <5> QED
          BY <2>1, <2>6, <3>1, <4>2, <4>4, <5>1, <5>2, <5>3 DEF ExitAt
      <4> QED
        BY <4>3, <4>4
    <3>2. ASSUME NEW j \in Indices, Name(j) # "on_exit" PROVE ExitAt(j)'
      BY <2>2, <3>2 DEF ExitAt, Keeps, Name
    <3>3. ASSUME NEW j \in Indices PROVE ExitAt(j)'
      BY <3>1, <3>2, <3>3
    <3> QED
      BY <1>c, <2>2, <3>3 DEF SameSize
  <2> QED
    BY <2>5, <2>6
<1>6. CASE Return
  <2>1. /\ running # 0 /\ pending = "none" /\ k' = running + 1 /\ running' = 0
        /\ UNCHANGED <<phase, outcome>>
    BY <1>6 DEF Return
  <2>2. /\ SameSize /\ running \in Indices
        /\ \A i \in Indices : /\ table'[i].dec = table[i].dec
                              /\ log'[i].calls = log[i].calls
    BY <1>6, ReturnEffect
  <2>3. phase \in Scans /\ k <= running
    BY <2>1 DEF PlaceInv
  <2>4. ASSUME NEW j \in Indices PROVE ExitAt(j)'
    <3>1. ExitAt(j) /\ Name(j)' = Name(j) /\ log'[j].calls = log[j].calls
      BY <2>2 DEF ExitInv, Name
    <3>2. CASE phase # "on_exit"
      BY <2>1, <2>3, <3>1, <3>2 DEF ExitAt, Scans
    <3>3. CASE phase = "on_exit"
      <4> SUFFICES ASSUME Name(j) = "on_exit" PROVE ExitAt(j)'
        BY <3>1 DEF ExitAt
      <4>1. j < k \/ j >= running
        BY <2>1, <3>1, <3>3 DEF ExitAt
      <4>2. j < k' => j < k \/ j = running
        BY <1>0, <2>1, <4>1
      <4>3. (j >= k' => j >= k /\ j # running) /\ j # running' /\ running' = 0
        BY <1>0, <2>1, <2>3
      <4> QED
        BY <2>1, <3>1, <3>3, <4>2, <4>3 DEF ExitAt
    <3> QED
      BY <3>2, <3>3
  <2> QED
    BY <1>c, <2>2, <2>4 DEF SameSize
<1>7. CASE Fail
  <2>1. /\ running # 0 /\ running' = 0 /\ failed' = failed \cup {phase}
        /\ UNCHANGED <<phase, table>>
    BY <1>7 DEF Fail
  <2>2. \A i \in Indices : log'[i].calls = log[i].calls
    BY <1>7, FailEffect
  <2>3. phase \in Scans
    BY <2>1 DEF PlaceInv
  <2>4. ASSUME NEW j \in Indices PROVE ExitAt(j)'
    <3>1. ExitAt(j)
      BY DEF ExitInv
    <3> QED
      BY <2>1, <2>2, <2>3, <3>1 DEF ExitAt, Name, Scans
  <2> QED
    BY <1>c, <2>1, <2>4
<1>8. CASE Exit
  <2>1. /\ UNCHANGED <<table, log, pending, failed>>
        /\ phase' = "on_exit" /\ k' = 1 /\ running' = 0
        /\ depth' = IF phase = "on_exit" THEN depth + 1 ELSE depth
    BY <1>8 DEF Exit
  <2>2. phase # "gone"
    BY <1>8, NoHandler DEF Exit, Busy, Scans
  <2>3. CASE phase # "on_exit"
    BY <1>b, <2>1, <2>2, <2>3
  <2>4. CASE phase = "on_exit"
    <3>1. depth' # 0
      BY <2>1, <2>4, Bounds DEF TypeOK
    <3>2. ASSUME NEW j \in Indices PROVE ExitAt(j)'
      <4>1. ~(j < k') /\ j # running'
        BY <1>0, <2>1
      <4> QED
        BY <2>1, <3>1, <4>1 DEF ExitAt
    <3> QED
      BY <1>c, <2>1, <3>2
  <2> QED
    BY <2>3, <2>4
<1>9. CASE EndScript \/ EndMain \/ LoopEnds
  <2>1. /\ UNCHANGED <<table, log, running>> /\ phase \in {"script", "on_start", "main", "loop"}
        /\ phase' \in {"on_start", "loop", "on_panic"} \/ (phase' = "on_exit" /\ k' = 1)
    BY <1>9 DEF EndScript, EndMain, MainSkipped, LoopEnds, Go
  <2>2. running = 0
    BY <1>9, NoHandler DEF EndScript, EndMain, MainSkipped, Scanning, LoopEnds, Scans
  <2> QED
    BY <1>b, <2>1, <2>2
<1>10. CASE LoopTop \/ PumpDue
  <2>1. Schedule /\ phase \in {"loop", "main"} /\ phase' = "signals"
    BY <1>10 DEF LoopTop, PumpDue, Schedule
  <2> QED
    BY <1>b, <2>1, ScheduleEffect DEF SameSize, KeepsRecord
<1>11. CASE PumpSignal
  <2>1. UNCHANGED <<table, log, phase>> /\ phase = "signals"
    BY <1>11 DEF PumpSignal
  <2> QED
    BY <1>b, <2>1
<1>12. CASE SignalsEnd
  <2>1. phase = "signals" /\ UNCHANGED log
    BY <1>12 DEF SignalsEnd
  <2>2. CASE UNCHANGED table /\ phase' = back
    BY <1>b, <2>1, <2>2 DEF TypeOK
  <2>3. CASE DrainEvents
    <3>1. phase' = "watches"
      BY <2>3 DEF DrainEvents, Go
    <3> QED
      BY <1>b, <2>1, <2>3, <3>1, DrainEffect
  <2> QED
    BY <1>12, <2>2, <2>3 DEF SignalsEnd, AfterSignals, PassEnds
<1>13. CASE ScanEnds
  <2>1. running = 0 /\ k > 0 /\ Ahead = {} /\ UNCHANGED <<log, running, outcome>>
    BY <1>13 DEF ScanEnds, Scanning
  <2>2. Len(table') = Len(table) /\ \A i \in Indices : Keeps(i)
    BY <1>13, SetUpEffect DEF ScanEnds
  <2>3. phase \in Scans
    BY <2>1 DEF PlaceInv
  <2>4. CASE phase # "on_exit"
    <3>1. phase' \notin {"on_exit", "gone"} \/ (phase' = "on_exit" /\ k' = 1)
      BY <1>13, <2>3, <2>4, ScanEndsPhase DEF TypeOK
    <3> QED
      BY <1>b, <2>1, <2>2, <2>3, <2>4, <3>1 DEF Keeps, Scans
  <2>5. CASE phase = "on_exit"
    <3>1. phase' = "gone"
      BY <1>13, <2>3, <2>5, ScanEndsPhase
    <3>2. ASSUME NEW j \in Indices PROVE ExitAt(j)'
      <4> SUFFICES ASSUME Name(j) = "on_exit" PROVE ExitAt(j)'
        BY <2>2 DEF ExitAt, Keeps, Name
      <4>1. ~(j >= k)
        BY <2>1, <2>5, ExitNeverSpent DEF Ahead, Wanted
      <4>2. j < k /\ ExitAt(j)
        BY <1>0, <4>1 DEF ExitInv
      <4> QED
        BY <2>1, <2>5, <3>1, <4>2 DEF ExitAt
    <3> QED
      BY <1>c, <2>2, <3>2
  <2> QED
    BY <2>4, <2>5
<1>14. CASE UNCHANGED vars
  <2>1. ASSUME NEW j \in Indices PROVE ExitAt(j)'
    BY <1>14, <1>a DEF vars
  <2> QED
    BY <1>14, <1>c, <2>1 DEF vars
<1> QED
  BY <1>1, <1>2, <1>3, <1>4, <1>5, <1>6, <1>7, <1>8, <1>9, <1>10, <1>11, <1>12,
     <1>13, <1>14
  DEF Next, Step

(* When the process ends every @on_exit handler has run, also one that another of
   them registered, and once unless a handler called os.exit - or one of them has
   failed.                                                                   *)
THEOREM TriggersExitHandlers == Spec => []ExitHandlersRan
<1>1. ExitInv => ExitHandlersRan
  BY DEF ExitInv, ExitAt, ExitHandlersRan
<1> QED
  BY <1>1, TypeInit, TypeStep, PlaceInit, PlaceStep, ExitInit, ExitStep, PTL DEF Spec

-----------------------------------------------------------------------------
(* No timer is ahead of its schedule. *)

LEMMA DivBounds ==
  ASSUME NEW t \in Nat, NEW a \in Nat \ {0}
  PROVE  t \div a \in Nat /\ (t \div a) * a <= t /\ t < (t \div a + 1) * a
  OBVIOUS

LEMMA DivMonotone ==
  ASSUME NEW s \in Nat, NEW t \in Nat, s <= t, NEW a \in Nat \ {0}
  PROVE  s \div a <= t \div a
<1>1. (s \div a) * a < (t \div a + 1) * a
  BY DivBounds
<1>2. ASSUME NEW p \in Nat, NEW q \in Nat, p * a < (q + 1) * a PROVE p <= q
  BY <1>2
<1> QED
  BY <1>1, <1>2, DivBounds

LEMMA DivAtLeast ==
  ASSUME NEW c \in Nat, NEW t \in Nat, NEW a \in Nat \ {0}, c * a <= t
  PROVE  c <= t \div a
<1>1. c * a < (t \div a + 1) * a
  BY DivBounds
<1>2. ASSUME NEW p \in Nat, NEW q \in Nat, p * a < (q + 1) * a PROVE p <= q
  BY <1>2
<1> QED
  BY <1>1, <1>2, DivBounds

LEMMA DivNext ==
  ASSUME NEW t \in Nat, NEW a \in Nat \ {0}
  PROVE  /\ (t \div a + 1) * a \in Nat /\ (t \div a + 1) * a > 0
         /\ ((t \div a + 1) * a) \div a = t \div a + 1
<1>1. PICK q \in Nat : q = t \div a + 1
  BY DivBounds
<1>2. q > 0
  BY <1>1, DivBounds
<1>3. q * a \in Nat /\ q * a > 0
  BY <1>2
<1>4. q <= (q * a) \div a
  BY <1>3, DivAtLeast
<1>5. (q * a) \div a <= q
  <2>1. ((q * a) \div a) * a <= q * a /\ (q * a) \div a \in Nat
    BY <1>3, DivBounds
  <2>2. ASSUME NEW p \in Nat, p * a <= q * a PROVE p <= q
    BY <2>2
  <2> QED
    BY <2>1, <2>2
<1>6. (q * a) \div a = q
  BY <1>3, <1>4, <1>5, DivBounds
<1> QED
  BY <1>1, <1>3, <1>6

LEMMA Distributes ==
  ASSUME NEW c \in Nat, NEW a \in Nat
  PROVE  (c + 1) * a = c * a + a /\ c * a \in Nat /\ 0 * a = 0
  OBVIOUS

LEMMA TimerNumbers ==
  ASSUME TypeOK, NEW j \in Indices
  PROVE  /\ log[j].calls \in Nat /\ log[j].since \in Nat /\ log[j].lost \in Nat
         /\ table[j].next \in Int /\ table[j].gap \in Nat
         /\ Name(j) \in Timed => Arg(j) \in Nat \ {0}
         /\ now \in Nat /\ now > 0 /\ at \in Nat
<1>1. log[j] \in Record /\ table[j] \in Entry
  BY Shape
<1>2. Name(j) \in Timed => Arg(j) \in Nat \ {0}
  BY Counts, TriggersAssumption DEF Name, Arg
<1>3. now \in Nat /\ now > 0 /\ at \in Nat
  BY Bounds DEF TypeOK
<1>4. log[j].calls \in Nat /\ log[j].since \in Nat /\ log[j].lost \in Nat
  BY <1>1, Bounds DEF Record
<1>5. table[j].next \in Int /\ table[j].gap \in Nat
  BY <1>1 DEF Entry
<1> QED
  BY <1>2, <1>3, <1>4, <1>5

LEMMA BookedTimer ==
  ASSUME TypeOK, NEW j \in Indices
  PROVE  /\ Booked(j).gap = table[j].gap
         /\ Name(j) = "every" =>
              Booked(j).next = IF table[j].next + table[j].gap > at
                               THEN table[j].next + table[j].gap ELSE at + table[j].gap
         /\ Name(j) = "cron" /\ table[j].gap # 0 =>
              Booked(j).next = at + CronAfter(j, now) - now
         /\ Name(j) = "delayed" => Booked(j).next = table[j].next
<1> DEFINE e == table[j]
           next == CASE Name(j) = "watch" -> 0
                     [] Name(j) = "every" -> IF e.next + e.gap > at THEN e.next + e.gap
                                             ELSE at + e.gap
                     [] Name(j) = "cron" /\ e.gap # 0 -> at + CronAfter(j, now) - now
                     [] Name(j) = "cron" /\ e.gap = 0 -> at + Far
                     [] OTHER -> e.next
<1>1. e \in Entry
  BY Shape
<1>2. Booked(j) = [e EXCEPT !.fired = TRUE, !.next = next]
  BY DEF Booked, Marked
<1>3. Booked(j).next = next /\ Booked(j).gap = e.gap
  <2> HIDE DEF next
  <2> QED
    BY <1>1, <1>2 DEF Entry
<1>4. CASE Name(j) = "every"
  BY <1>3, <1>4
<1>5. CASE Name(j) = "cron"
  BY <1>3, <1>5
<1>6. CASE Name(j) = "delayed"
  BY <1>3, <1>6
<1> QED
  BY <1>3, <1>4, <1>5, <1>6

LEMMA ScheduledTimer ==
  ASSUME TypeOK, NEW j \in Indices, Name(j) \in Timed
  PROVE  /\ table[j].next # 0 \/ Spent(j) => Scheduled(j) = table[j]
         /\ table[j].next = 0 /\ ~Spent(j) =>
              /\ Name(j) = "every" => Scheduled(j).gap = Arg(j) /\ Scheduled(j).next = now + Arg(j)
              /\ Name(j) = "cron" =>
                   Scheduled(j).gap = Arg(j) /\ Scheduled(j).next = CronAfter(j, now)
              /\ Name(j) = "delayed" => Scheduled(j).next = now + Arg(j)
<1>1. table[j] \in Entry
  BY Shape
<1>2. CASE table[j].next # 0 \/ Spent(j)
  BY <1>2 DEF Scheduled
<1>3. CASE table[j].next = 0 /\ ~Spent(j) /\ Name(j) = "every"
  <2>1. Scheduled(j) = [table[j] EXCEPT !.gap = Arg(j), !.next = now + Arg(j)]
    BY <1>3 DEF Scheduled
  <2> QED
    BY <1>1, <1>3, <2>1 DEF Entry
<1>4. CASE table[j].next = 0 /\ ~Spent(j) /\ Name(j) = "cron"
  <2>1. Scheduled(j) = [table[j] EXCEPT !.gap = Arg(j), !.next = CronAfter(j, now)]
    BY <1>4 DEF Scheduled
  <2> QED
    BY <1>1, <1>4, <2>1 DEF Entry
<1>5. CASE table[j].next = 0 /\ ~Spent(j) /\ Name(j) = "delayed"
  <2>1. Scheduled(j) = [table[j] EXCEPT !.next = now + Arg(j)]
    BY <1>5 DEF Scheduled
  <2> QED
    BY <1>1, <1>5, <2>1 DEF Entry
<1> QED
  BY <1>2, <1>3, <1>4, <1>5 DEF Timed

LEMMA DueInit == Init => DueInv
  BY DEF Init, DueInv

LEMMA DueStep == TypeOK /\ PlaceInv /\ DueInv /\ [Next]_vars => DueInv'
<1> SUFFICES ASSUME TypeOK, PlaceInv, DueInv, [Next]_vars PROVE DueInv'
  OBVIOUS
<1> USE DEF entries, outside, place, outcome
<1>0. /\ Len(table) \in Nat /\ Indices = 1..Len(table) /\ now \in Nat /\ at \in Nat
      /\ changed \subseteq Indices
  BY Shape, Bounds DEF Indices, TypeOK
<1>n. running # 0 => running \in Indices
  BY <1>0 DEF TypeOK
(* Steps during which the same handler, or none, runs. *)
<1>a. ASSUME at' <= now', running' # 0 => running' = running /\ at' = at /\ phase' = phase,
             \A j \in Indices : table'[j].dec = table[j].dec,
             running' # 0 => table'[running].next = table[running].next,
             changed' \subseteq changed
      PROVE  DueInv'
  <2>1. \A j \in changed' : Name(j)' = "watch"
    BY <1>0, <1>a DEF DueInv, Name
  <2>2. running' # 0 /\ phase' = "due" => table'[running'].next <= at'
    BY <1>a DEF DueInv
  <2> QED
    BY <1>a, <2>1, <2>2 DEF DueInv
<1>1. CASE Tick \/ CountError
  <2>1. at' <= now'
    BY <1>0, <1>1 DEF Tick, CountError, DueInv
  <2> QED
    BY <1>1, <1>a, <2>1 DEF Tick, CountError
<1>2. ASSUME NEW q \in 1..Len(Signals), Signal(Signals[q]) PROVE DueInv'
  BY <1>2, <1>a DEF Signal, DueInv
<1>3. ASSUME NEW i \in Indices, FileChange(i) PROVE DueInv'
  <2>1. /\ UNCHANGED <<table, now, place>> /\ changed' = changed \cup {i}
        /\ Name(i) = "watch"
    BY <1>3 DEF FileChange
  <2> QED
    BY <2>1 DEF DueInv, Name
<1>4. ASSUME NEW d \in Decorators, Register(d) PROVE DueInv'
  <2>1. UNCHANGED <<phase, running, at, now, changed>>
    BY <1>4 DEF Register
  <2>2. \A j \in Indices : table'[j] = table[j]
    BY <1>4, RegisterEffect
  <2> QED
    BY <1>a, <1>n, <2>1, <2>2 DEF DueInv
<1>5. CASE Call
  <2>1. UNCHANGED <<phase, at, now, changed>>
    BY <1>5 DEF Call
  <2>2. running' \in Ahead /\ \A i \in Indices : Keeps(i)
    BY <1>5, CallEffect
  <2>3. running' \in Indices /\ Wanted(running')
    BY <2>2 DEF Ahead
  <2>4. phase = "due" => table'[running'].next <= at
    <3>1. phase = "due" => table[running'].next <= at
      BY <2>3 DEF Wanted
    <3>2. table'[running'].next = table[running'].next
      BY <2>2, <2>3 DEF Keeps
    <3> QED
      BY <3>1, <3>2
  <2>5. \A j \in changed' : Name(j)' = "watch"
    BY <1>0, <2>1, <2>2 DEF DueInv, Name, Keeps
  <2> QED
    BY <2>1, <2>4, <2>5 DEF DueInv
<1>6. CASE Return
  <2>1. running' = 0 /\ UNCHANGED <<at, now, changed>>
    BY <1>6 DEF Return
  <2>2. \A j \in Indices : table'[j].dec = table[j].dec
    BY <1>6, ReturnEffect
  <2> QED
    BY <1>a, <2>1, <2>2 DEF DueInv
<1>7. CASE Fail \/ Exit
  <2>1. running' = 0 /\ UNCHANGED <<table, at, now, changed>>
    BY <1>7 DEF Fail, Exit
  <2> QED
    BY <1>a, <2>1 DEF DueInv
<1>8. CASE EndScript \/ EndMain \/ LoopEnds
  <2>1. UNCHANGED <<table, at, now, changed, running>> /\ running = 0
    BY <1>8, NoHandler DEF EndScript, EndMain, MainSkipped, Scanning, LoopEnds, Scans
  <2> QED
    BY <1>a, <2>1 DEF DueInv
<1>9. CASE LoopTop \/ PumpDue
  <2>1. Schedule /\ running = 0
    BY <1>9, NoHandler DEF LoopTop, PumpDue, Scans
  <2>2. running' = 0 /\ UNCHANGED <<at, now, changed>>
    BY <2>1 DEF Schedule
  <2> QED
    BY <1>a, <2>1, <2>2, ScheduleEffect DEF DueInv
<1>10. CASE PumpSignal
  <2>1. running' = 0 /\ UNCHANGED <<table, at, now, changed>>
    BY <1>10, NoHandler DEF PumpSignal
  <2> QED
    BY <1>a, <2>1 DEF DueInv
<1>11. CASE SignalsEnd
  <2>1. running' = 0 /\ UNCHANGED now
    BY <1>11, NoHandler DEF SignalsEnd
  <2>2. CASE UNCHANGED <<table, changed>> /\ at' = 0
    <3>1. at' <= now'
      BY <1>0, <2>1, <2>2
    <3> QED
      BY <1>a, <2>1, <2>2, <3>1
  <2>3. CASE DrainEvents
    <3>1. changed' = {} /\ at' = at
      BY <2>3 DEF DrainEvents
    <3> QED
      BY <1>a, <2>1, <2>3, <3>1, DrainEffect DEF DueInv
  <2> QED
    BY <1>11, <2>2, <2>3 DEF SignalsEnd, AfterSignals, PassEnds
<1>12. CASE ScanEnds
  <2>1. running' = 0 /\ UNCHANGED <<now, changed>>
    BY <1>12 DEF ScanEnds, Scanning
  <2>2. \A j \in Indices : table'[j].dec = table[j].dec
    BY <1>12, SetUpEffect DEF ScanEnds, Keeps
  <2>3. at' \in {at, now, 0}
    <3>1. k > 0 => phase \in Scans
      BY DEF PlaceInv
    <3> QED
      BY <1>12, <3>1, ScanEndsPhase
  <2>4. at' <= now'
    BY <1>0, <2>1, <2>3 DEF DueInv
  <2> QED
    BY <1>a, <2>1, <2>2, <2>4
<1>13. CASE UNCHANGED vars
  BY <1>13, <1>a DEF vars, DueInv
<1> QED
  BY <1>1, <1>2, <1>3, <1>4, <1>5, <1>6, <1>7, <1>8, <1>9, <1>10, <1>11, <1>12, <1>13
  DEF Next, Step

LEMMA TimerInit == Init => TimerInv
<1> SUFFICES ASSUME Init PROVE TimerInv
  OBVIOUS
<1>1. Indices = {}
  BY DEF Init, Indices
<1> QED
  BY <1>1 DEF TimerInv

(* A step that does not concern the timer: time goes on, nothing else. *)
LEMMA TimerKept ==
  ASSUME TypeOK, NEW j \in Indices, TimerAt(j),
         table'[j].dec = table[j].dec, table'[j].fired = table[j].fired,
         Name(j) \in Timed => table'[j].next = table[j].next /\ table'[j].gap = table[j].gap,
         log'[j].calls = log[j].calls, log'[j].since = log[j].since,
         log'[j].late = log[j].late, log'[j].lost = 0 => log[j].lost = 0,
         log[j].slow => log'[j].slow,
         now' \in Nat, now' >= now, Live' => Live, Live' => (Waits(j)' => Waits(j)),
         \/ phase' \notin {"signals", "watches", "due"}
         \/ phase \in {"signals", "watches", "due"}
         \/ Name(j) \in Timed => table[j].next # 0 \/ Spent(j)
  PROVE  TimerAt(j)'
<1> SUFFICES ASSUME InSchedule(j)' PROVE TimerAt(j)'
  BY DEF TimerAt
<1>1. Name(j)' = Name(j) /\ Arg(j)' = Arg(j) /\ (Spent(j)' <=> Spent(j))
  BY DEF Name, Arg, Spent
<1>2. InSchedule(j)
  BY <1>1 DEF InSchedule
<1>3. Name(j) \in Timed /\ table'[j].next = table[j].next /\ table'[j].gap = table[j].gap
  BY <1>2 DEF InSchedule
<1>4. /\ log[j].since \in Nat /\ log[j].calls \in Nat /\ now \in Nat /\ Arg(j) \in Nat \ {0}
      /\ log[j].since <= now
  BY <1>2, <1>3, TimerNumbers DEF TimerAt
<1>5. log'[j].since <= now'
  BY <1>4
<1>6. CASE table[j].next = 0
  BY <1>1, <1>2, <1>3, <1>5, <1>6 DEF TimerAt
<1>7. CASE table[j].next # 0
  <2>1. Paced(j)
    BY <1>2, <1>7 DEF TimerAt
  <2>2. now \div Arg(j) <= now' \div Arg(j)
    BY <1>4, DivMonotone
  <2>3. now \div Arg(j) \in Nat /\ now' \div Arg(j) \in Nat /\ log[j].since \div Arg(j) \in Nat
        /\ log[j].calls * Arg(j) \in Nat
    BY <1>4, DivBounds, Distributes
  <2>4. Paced(j)'
    <3> DEFINE a == Arg(j)  s == log[j].since  c == log[j].calls  n == table[j].next
    <3>1. Name(j) = "every" =>
            /\ table[j].gap = a /\ s + c * a <= now'
            /\ Live' => s + c * a <= n /\ (Waits(j)' => s + c * a + a <= n)
      BY <1>4, <2>1, <2>3 DEF Paced
    <3>2. Name(j) = "cron" =>
            /\ table[j].gap = a /\ s \div a + c <= now' \div a
            /\ Live' => s \div a + c <= n \div a /\ (Waits(j)' => s \div a + c + 1 <= n \div a)
      BY <1>4, <2>1, <2>2, <2>3 DEF Paced
    <3>3. Name(j) = "delayed" => n = s + a /\ (c >= 1 => s + a <= now')
      BY <1>4, <2>1 DEF Paced
    <3>4. n > 0
      BY <2>1 DEF Paced
    <3> QED
      BY <1>1, <1>3, <3>1, <3>2, <3>3, <3>4 DEF Paced
  <2> QED
    BY <1>3, <1>5, <1>7, <2>4 DEF TimerAt
<1> QED
  BY <1>6, <1>7

(* A deadline is computed. *)
LEMMA TimerScheduled ==
  ASSUME TypeOK, NEW j \in Indices, TimerAt(j), Schedule, phase \in {"loop", "main"},
         running = 0
  PROVE  TimerAt(j)'
<1>1. /\ table'[j].dec = table[j].dec /\ table'[j].fired = table[j].fired
      /\ table'[j] = Scheduled(j) /\ KeepsRecord(j)
      /\ log'[j].late = log[j].late /\ log'[j].slow = log[j].slow
      /\ log'[j].since = IF table[j].next = 0 /\ Scheduled(j).next # 0 THEN now
                         ELSE log[j].since
  BY ScheduleEffect
<1>2. phase' = "signals" /\ UNCHANGED <<now, running, pending>>
  BY DEF Schedule, outcome
<1>3. /\ log[j].since \in Nat /\ log[j].calls \in Nat /\ now \in Nat /\ now > 0
      /\ Name(j) \in Timed => Arg(j) \in Nat \ {0}
  BY TimerNumbers
<1>4. CASE Name(j) \in Timed /\ table[j].next = 0 /\ ~Spent(j)
  <2> DEFINE a == Arg(j)
  <2>1. Name(j)' = Name(j) /\ Arg(j)' = Arg(j)
    BY <1>1 DEF Name, Arg
  <2>2. a \in Nat \ {0}
    BY <1>3, <1>4
  <2>3. /\ Name(j) = "every" => table'[j].gap = a /\ table'[j].next = now + a
        /\ Name(j) = "cron" => table'[j].gap = a /\ table'[j].next = (now \div a + 1) * a
        /\ Name(j) = "delayed" => table'[j].next = now + a
    BY <1>1, <1>4, ScheduledTimer DEF CronAfter
  <2>4. /\ (now \div a + 1) * a \in Nat /\ (now \div a + 1) * a > 0
        /\ ((now \div a + 1) * a) \div a = now \div a + 1
    BY <1>3, <2>2, DivNext
  <2>5. table'[j].next > 0 /\ table'[j].next # 0
    <3>1. CASE Name(j) \in {"every", "delayed"}
      BY <1>3, <2>2, <2>3, <3>1
    <3>2. CASE Name(j) = "cron"
      BY <2>3, <2>4, <3>2
    <3> QED
      BY <1>4, <3>1, <3>2 DEF Timed
  <2>6. log'[j].since = now
    BY <1>1, <1>4, <2>5
  <2> SUFFICES ASSUME InSchedule(j)' PROVE TimerAt(j)'
    BY DEF TimerAt
  <2>7. InSchedule(j)
    BY <1>1, <2>1 DEF InSchedule, KeepsRecord
  <2>8. log[j].calls = 0 /\ log'[j].calls = 0
    BY <1>1, <1>4, <2>7 DEF TimerAt, KeepsRecord
  <2>9. Paced(j)'
    <3>1. 0 * a = 0 /\ now \div a \in Nat
      BY <1>3, <2>2, DivBounds, Distributes
    <3>2. Name(j) = "every" =>
            /\ table'[j].gap = a /\ now + 0 * a <= now
            /\ now + 0 * a <= table'[j].next /\ now + 0 * a + a <= table'[j].next
      BY <1>3, <2>2, <2>3, <3>1
    <3>3. Name(j) = "cron" =>
            /\ table'[j].gap = a /\ now \div a + 0 <= now \div a
            /\ now \div a + 0 <= table'[j].next \div a
            /\ now \div a + 0 + 1 <= table'[j].next \div a
      <4>1. now \div a + 0 <= now \div a + 1 /\ now \div a + 0 + 1 <= now \div a + 1
            /\ now \div a + 0 <= now \div a
        BY <3>1
      <4> QED
        BY <2>3, <2>4, <4>1
    <3>4. Name(j) = "delayed" => table'[j].next = now + a /\ ~(0 >= 1)
      BY <2>3
    <3> QED
      BY <1>2, <2>1, <2>5, <2>6, <2>8, <3>2, <3>3, <3>4 DEF Paced
  <2> QED
    BY <1>2, <1>3, <2>5, <2>6, <2>9 DEF TimerAt
<1>5. CASE ~(Name(j) \in Timed /\ table[j].next = 0 /\ ~Spent(j))
  <2>1. Name(j) \in Timed => Scheduled(j) = table[j]
    BY <1>5, ScheduledTimer
  <2>2. CASE Name(j) \in Timed
    <3>1. log'[j].since = log[j].since
      BY <1>1, <2>1, <2>2
    <3>2. Live' => Live
      BY DEF Live
    <3>3. Waits(j)' => Waits(j)
      BY <1>2 DEF Waits
    <3> QED
      BY <1>1, <1>2, <1>3, <1>5, <2>1, <2>2, <3>1, <3>2, <3>3, TimerKept DEF KeepsRecord
  <2>3. CASE Name(j) \notin Timed
    BY <1>1, <2>3 DEF TimerAt, InSchedule, Name
  <2> QED
    BY <2>2, <2>3
<1> QED
  BY <1>4, <1>5


(* Whose handler runs, if it is a timer's. *)
LEMMA TimerRuns ==
  ASSUME TypeOK, PlaceInv, NEW j \in Indices, Name(j) \in Timed, phase \in Scans,
         Fits(j) \/ Wanted(j)
  PROVE  phase = "due" /\ ~Spent(j)
  BY DEF Fits, Wanted, Timed, Scans

(* The handler of a timer begins. *)
LEMMA TimerCalled ==
  ASSUME TypeOK, PlaceInv, DueInv, NEW j \in Indices, TimerAt(j), Call, running' = j
  PROVE  TimerAt(j)'
<1>1. /\ running = 0 /\ k > 0 /\ UNCHANGED <<phase, at, now, pending>>
  BY DEF Call, Scanning, outcome
<1>2. /\ Wanted(j) /\ Keeps(j) /\ SameTimes(j) /\ log'[j].lost = log[j].lost
      /\ log'[j].calls = IF pending # "none" THEN log[j].calls ELSE OneMore(log[j].calls)
  BY CallEffect DEF Ahead
<1>3. /\ log[j].since \in Nat /\ log[j].calls \in Nat /\ now \in Nat /\ at \in Nat
      /\ table[j].next \in Int
      /\ Name(j) \in Timed => Arg(j) \in Nat \ {0}
  BY TimerNumbers
<1>4. CASE pending # "none"
  <2>1. Waits(j)
    BY <1>4 DEF Waits
  <2> QED
    BY <1>1, <1>2, <1>3, <1>4, <2>1, TimerKept DEF Keeps, SameTimes, Live
<1>5. CASE pending = "none"
  <2> SUFFICES ASSUME InSchedule(j)' PROVE TimerAt(j)'
    BY DEF TimerAt
  <2>1. Name(j)' = Name(j) /\ Arg(j)' = Arg(j)
    BY <1>2 DEF Keeps, Name, Arg
  <2>2. InSchedule(j)
    BY <1>2, <2>1 DEF InSchedule, SameTimes
  <2>3. Name(j) \in Timed /\ Arg(j) \in Nat \ {0}
    BY <1>3, <2>2 DEF InSchedule
  <2>4. phase = "due" /\ ~Spent(j)
    BY <1>1, <1>2, <2>3, TimerRuns DEF PlaceInv
  <2>5. table[j].next <= now
    <3>1. table[j].next <= at
      BY <1>2, <2>4 DEF Wanted
    <3> QED
      BY <1>3, <3>1 DEF DueInv
  <2>6. table[j].next # 0 /\ Paced(j)
    BY <2>2, <2>4 DEF TimerAt
  <2>7. Live /\ Waits(j) /\ ~Waits(j)'
    <3>1. j # 0
      BY Shape
    <3> QED
      BY <1>1, <1>5, <2>4, <3>1 DEF Live, Waits
  <2> DEFINE a == Arg(j)  s == log[j].since  c == log[j].calls  n == table[j].next
             d == log'[j].calls
  <2>8. d \in Nat /\ (d = c \/ d = c + 1)
    BY <1>2, <1>3, <1>5 DEF OneMore
  <2>9. a \in Nat \ {0} /\ s \in Nat /\ c \in Nat /\ n \in Int /\ n <= now
    BY <1>3, <2>3, <2>5
  <2>10. c * a \in Nat /\ (c + 1) * a = c * a + a
    BY <2>9, Distributes
  <2>11. Name(j) = "every" => table[j].gap = a /\ s + d * a <= now /\ s + d * a <= n
    <3> SUFFICES ASSUME Name(j) = "every"
                 PROVE  table[j].gap = a /\ s + d * a <= now /\ s + d * a <= n
      OBVIOUS
    <3>1. table[j].gap = a /\ s + c * a + a <= n
      BY <2>6, <2>7 DEF Paced
    <3>2. d * a \in Nat /\ d * a <= c * a + a
      <4>1. CASE d = c
        BY <2>9, <2>10, <4>1
      <4>2. CASE d = c + 1
        BY <2>9, <2>10, <4>2
      <4> QED
        BY <2>8, <4>1, <4>2
    <3> HIDE DEF a, s, c, n, d
    <3> QED
      BY <1>3, <2>9, <2>10, <3>1, <3>2
  <2>12. Name(j) = "cron" =>
           table[j].gap = a /\ s \div a + d <= now \div a /\ s \div a + d <= n \div a
    <3> SUFFICES ASSUME Name(j) = "cron"
                 PROVE  table[j].gap = a /\ s \div a + d <= now \div a /\ s \div a + d <= n \div a
      OBVIOUS
    <3>1. table[j].gap = a /\ s \div a + c + 1 <= n \div a /\ n > 0
      BY <2>6, <2>7 DEF Paced
    <3> HIDE DEF a, s, c, n, d
    <3>2. n \in Nat /\ s \div a \in Nat
      BY <2>9, <3>1, DivBounds
    <3>3. n \div a <= now \div a /\ n \div a \in Nat /\ now \div a \in Nat
      BY <1>3, <2>9, <3>2, DivMonotone, DivBounds
    <3> QED
      BY <2>8, <2>9, <3>1, <3>2, <3>3
  <2>13. Name(j) = "delayed" => n = s + a /\ s + a <= now
    BY <2>6, <2>9 DEF Paced
  <2>14. n > 0
    BY <2>6 DEF Paced
  <2>15. Paced(j)'
    BY <1>1, <1>2, <2>1, <2>7, <2>11, <2>12, <2>13, <2>14 DEF Paced, Keeps, SameTimes
  <2>16. log'[j].since <= now'
    BY <1>1, <1>2, <2>2 DEF TimerAt, SameTimes
  <2> QED
    BY <1>2, <2>6, <2>15, <2>16 DEF TimerAt, Keeps
<1> QED
  BY <1>4, <1>5

(* The handler of a timer returns, and the next deadline is booked. *)
LEMMA TimerReturned ==
  ASSUME TypeOK, PlaceInv, DueInv, NEW j \in Indices, TimerAt(j), Return, running = j
  PROVE  TimerAt(j)'
<1> SUFFICES ASSUME InSchedule(j)' PROVE TimerAt(j)'
  BY DEF TimerAt
<1>1. running' = 0 /\ pending = "none" /\ running # 0 /\ UNCHANGED <<phase, at, now>>
  BY DEF Return
<1>2. /\ table'[j].dec = table[j].dec /\ log'[j].calls = log[j].calls
      /\ log'[j].since = log[j].since /\ log'[j].late = log[j].late
  BY ReturnEffect
<1>3. /\ log[j].since \in Nat /\ log[j].calls \in Nat /\ log[j].lost \in Nat
      /\ now \in Nat /\ at \in Nat /\ table[j].next \in Int /\ table[j].gap \in Nat
      /\ Name(j) \in Timed => Arg(j) \in Nat \ {0}
  BY TimerNumbers
<1>4. Name(j)' = Name(j) /\ Arg(j)' = Arg(j)
  BY <1>2 DEF Name, Arg
<1>5. OneMore(log[j].lost) # 0
  BY <1>3, Bounds DEF OneMore
<1>6. /\ table'[j] = Booked(j) /\ log'[j].lost = log[j].lost
      /\ log'[j].slow = (log[j].slow \/ (phase = "due" /\ now # at))
  BY <1>5, ReturnEffect DEF InSchedule
<1>7. InSchedule(j) /\ Name(j) \in Timed
  BY <1>2, <1>4, <1>6 DEF InSchedule
<1>8. phase = "due" /\ ~Spent(j)
  BY <1>1, <1>7, TimerRuns DEF PlaceInv
<1>9. table[j].next # 0 /\ Paced(j) /\ log[j].since <= now
  BY <1>7, <1>8 DEF TimerAt
<1>10. table[j].next <= at /\ at <= now
  BY <1>1, <1>8 DEF DueInv
<1>11. Live
  BY <1>8 DEF Live
<1> DEFINE a == Arg(j)  s == log[j].since  c == log[j].calls  n == table[j].next
           m == table'[j].next
<1>12. a \in Nat \ {0} /\ s \in Nat /\ c \in Nat /\ n \in Int /\ n <= at /\ n > 0
  BY <1>3, <1>7, <1>9, <1>10 DEF Paced
<1>13. c * a \in Nat
  BY <1>12, Distributes
<1>14. Name(j) = "every" =>
         table'[j].gap = a /\ m > 0 /\ s + c * a <= now /\ s + c * a <= m /\ s + c * a + a <= m
  <2> SUFFICES ASSUME Name(j) = "every"
               PROVE  /\ table'[j].gap = a /\ m > 0
                      /\ s + c * a <= now /\ s + c * a <= m /\ s + c * a + a <= m
    OBVIOUS
  <2>1. table[j].gap = a /\ s + c * a <= now /\ s + c * a <= n
    BY <1>9, <1>11 DEF Paced
  <2>2. table'[j].gap = a /\ m = IF n + a > at THEN n + a ELSE at + a
    BY <1>6, <2>1, BookedTimer
  <2> HIDE DEF a, s, c, n, m
  <2>3. m \in Int /\ m >= n + a
    BY <1>3, <1>12, <2>2
  <2> QED
    BY <1>12, <1>13, <2>1, <2>2, <2>3
<1>15. Name(j) = "cron" =>
         /\ table'[j].gap = a /\ m > 0 /\ s \div a + c <= now \div a
         /\ s \div a + c <= m \div a /\ s \div a + c + 1 <= m \div a
  <2> SUFFICES ASSUME Name(j) = "cron"
               PROVE  /\ table'[j].gap = a /\ m > 0 /\ s \div a + c <= now \div a
                      /\ s \div a + c <= m \div a /\ s \div a + c + 1 <= m \div a
    OBVIOUS
  <2>1. table[j].gap = a /\ s \div a + c <= now \div a
    BY <1>9 DEF Paced
  <2>2. now = at
    BY <1>4, <1>6, <1>8 DEF InSchedule
  <2>3. table'[j].gap = a /\ m = at + (now \div a + 1) * a - now
    BY <1>6, <1>12, <2>1, BookedTimer DEF CronAfter
  <2> HIDE DEF a, s, c, n, m
  <2>4. /\ (now \div a + 1) * a \in Nat /\ (now \div a + 1) * a > 0
        /\ ((now \div a + 1) * a) \div a = now \div a + 1
    BY <1>3, <1>12, DivNext
  <2>5. m = (now \div a + 1) * a
    BY <1>3, <2>2, <2>3, <2>4
  <2>6. m > 0 /\ m \div a = now \div a + 1
    BY <2>4, <2>5
  <2>7. s \div a \in Nat /\ now \div a \in Nat
    BY <1>3, <1>12, DivBounds
  <2> QED
    BY <1>12, <2>1, <2>3, <2>6, <2>7
<1>16. Name(j) = "delayed" => m = s + a /\ m > 0 /\ (c >= 1 => s + a <= now)
  BY <1>6, <1>9, <1>12, BookedTimer DEF Paced
<1>17. m > 0 /\ m # 0
  BY <1>7, <1>14, <1>15, <1>16 DEF Timed
<1>18. Paced(j)'
  BY <1>1, <1>2, <1>4, <1>14, <1>15, <1>16, <1>17 DEF Paced
<1> QED
  BY <1>1, <1>2, <1>9, <1>17, <1>18 DEF TimerAt

LEMMA TimerStep == TypeOK /\ PlaceInv /\ DueInv /\ TimerInv /\ [Next]_vars => TimerInv'
<1> SUFFICES ASSUME TypeOK, PlaceInv, DueInv, TimerInv, [Next]_vars PROVE TimerInv'
  OBVIOUS
<1> USE DEF entries, outside, place, outcome
<1>0. Len(table) \in Nat /\ Indices = 1..Len(table) /\ now \in Nat
  BY Shape, Bounds DEF Indices, TypeOK
<1>e. Live' => Live
  BY EndIsEnd DEF Live
<1>n. k > 0 => phase \in Scans
  BY DEF PlaceInv
(* A timer the step does not touch. *)
<1>a. ASSUME NEW j \in Indices,
             table'[j].dec = table[j].dec, table'[j].fired = table[j].fired,
             Name(j) \in Timed => table'[j].next = table[j].next /\ table'[j].gap = table[j].gap,
             log'[j].calls = log[j].calls, log'[j].lost = 0 => log[j].lost = 0, SameTimes(j),
             now' \in Nat, now' >= now,
             Waits(j) \/ UNCHANGED <<running, pending>>,
             \/ phase' \notin {"signals", "watches", "due"}
             \/ phase \in {"signals", "watches", "due"}
      PROVE  TimerAt(j)'
  <2>1. TimerAt(j)
    BY DEF TimerInv
  <2>2. Live' => (Waits(j)' => Waits(j))
    BY <1>a DEF Waits
  <2> QED
    BY <1>a, <1>e, <2>1, <2>2, TimerKept DEF SameTimes
(* Steps that touch none. *)
<1>b. ASSUME Len(table') = Len(table),
             \A j \in Indices :
               /\ table'[j].dec = table[j].dec /\ table'[j].fired = table[j].fired
               /\ Name(j) \in Timed =>
                    table'[j].next = table[j].next /\ table'[j].gap = table[j].gap
               /\ log'[j].calls = log[j].calls /\ log'[j].lost = log[j].lost /\ SameTimes(j),
             now' \in Nat, now' >= now,
             UNCHANGED <<running, pending>> \/ running = 0 \/ ~Live',
             \/ phase' \notin {"signals", "watches", "due"}
             \/ phase \in {"signals", "watches", "due"}
      PROVE  TimerInv'
  <2>1. ASSUME NEW j \in Indices PROVE TimerAt(j)'
    <3>1. TimerAt(j)
      BY DEF TimerInv
    <3>2. Live' => (Waits(j)' => Waits(j))
      BY <1>0, <1>b DEF Waits
    <3> QED
      BY <1>b, <1>e, <2>1, <3>1, <3>2, TimerKept DEF SameTimes
  <2> QED
    BY <1>b, <2>1 DEF TimerInv, Indices
<1>1. CASE Tick \/ CountError
  <2>1. now' \in Nat /\ now' >= now
    BY <1>0, <1>1 DEF Tick, CountError
  <2> QED
    BY <1>1, <1>b, <2>1 DEF Tick, CountError, SameTimes
<1>2. ASSUME NEW q \in 1..Len(Signals), Signal(Signals[q]) PROVE TimerInv'
  <2>1. UNCHANGED <<table, now, running, pending, phase>>
    BY <1>2 DEF Signal
  <2> QED
    BY <1>0, <1>2, <1>b, <2>1, SignalEffect
<1>3. ASSUME NEW i \in Indices, FileChange(i) PROVE TimerInv'
  <2>1. UNCHANGED <<table, now, running, pending, phase>>
    BY <1>3 DEF FileChange
  <2> QED
    BY <1>0, <1>3, <1>b, <2>1, FileChangeEffect
<1>4. ASSUME NEW d \in Decorators, Register(d) PROVE TimerInv'
  <2>1. UNCHANGED <<now, running, pending, phase>>
    BY <1>4 DEF Register
  <2>2. ASSUME NEW j \in Indices PROVE TimerAt(j)'
    <3>1. table'[j] = table[j] /\ log'[j] = log[j]
      BY <1>4, <2>2, RegisterEffect
    <3> QED
      BY <1>0, <1>a, <2>1, <2>2, <3>1 DEF SameTimes
  <2>3. ASSUME NEW j \in Indices', j \notin Indices PROVE TimerAt(j)'
    <3>1. /\ table'[j].next = 0 /\ log'[j].since = 0 /\ log'[j].late = (running # 0)
          /\ log'[j].calls = 0
      BY <1>4, <2>3, RegisterNew
    <3>2. log'[j].late \/ phase' \notin {"signals", "watches", "due"}
      BY <1>4, <2>1, <3>1 DEF Register, Busy
    <3> QED
      BY <1>0, <2>1, <3>1, <3>2 DEF TimerAt, InSchedule
  <2> QED
    BY <2>2, <2>3 DEF TimerInv
<1>5. CASE Call
  <2>1. running = 0 /\ UNCHANGED <<now, phase, pending>>
    BY <1>5 DEF Call, Scanning
  <2>2. /\ SameSize /\ running' \in Indices
        /\ \A i \in Indices : /\ Keeps(i) /\ SameTimes(i) /\ log'[i].lost = log[i].lost
                              /\ i # running' => log'[i] = log[i]
    BY <1>5, CallEffect DEF Ahead
  <2>3. ASSUME NEW j \in Indices, j # running' PROVE TimerAt(j)'
    <3>1. Waits(j)
      BY <1>0, <2>1, <2>3 DEF Waits
    <3> QED
      BY <1>0, <1>a, <2>1, <2>2, <2>3, <3>1 DEF Keeps
  <2>4. ASSUME NEW j \in Indices, j = running' PROVE TimerAt(j)'
    BY <1>5, <2>4, TimerCalled DEF TimerInv
  <2> QED
    BY <2>2, <2>3, <2>4 DEF TimerInv, SameSize, Indices
<1>6. CASE Return
  <2>1. running # 0 /\ UNCHANGED <<now, phase, pending>>
    BY <1>6 DEF Return
  <2>2. /\ SameSize /\ running \in Indices
        /\ \A i \in Indices : i # running => table'[i] = table[i] /\ log'[i] = log[i]
    BY <1>6, ReturnEffect
  <2>3. ASSUME NEW j \in Indices, j # running PROVE TimerAt(j)'
    <3>1. Waits(j)
      BY <2>3 DEF Waits
    <3> QED
      BY <1>0, <1>a, <2>1, <2>2, <2>3, <3>1 DEF SameTimes
  <2>4. ASSUME NEW j \in Indices, j = running PROVE TimerAt(j)'
    BY <1>6, <2>4, TimerReturned DEF TimerInv
  <2> QED
    BY <2>2, <2>3, <2>4 DEF TimerInv, SameSize, Indices
<1>7. CASE Fail
  <2>1. UNCHANGED <<now, phase, table>>
    BY <1>7 DEF Fail
  <2>2. /\ SameSize /\ running \in Indices
        /\ \A i \in Indices : /\ log'[i].calls = log[i].calls /\ SameTimes(i)
                              /\ i # running => log'[i] = log[i]
        /\ log'[running].lost = IF pending # "none" THEN log[running].lost
                                ELSE OneMore(log[running].lost)
    BY <1>7, FailEffect
  <2>3. ASSUME NEW j \in Indices, Waits(j), log'[j].lost = log[j].lost PROVE TimerAt(j)'
    BY <1>0, <1>a, <2>1, <2>2, <2>3
  <2>4. ASSUME NEW j \in Indices, ~Waits(j) PROVE TimerAt(j)'
    <3>1. log'[j].lost = OneMore(log[j].lost)
      BY <2>2, <2>4 DEF Waits
    <3>2. log'[j].lost # 0
      BY <3>1, Counts, Bounds DEF OneMore
    <3> QED
      BY <3>2 DEF TimerAt, InSchedule
  <2>5. \A j \in Indices : Waits(j) => log'[j].lost = log[j].lost
    BY <2>2 DEF Waits
  <2> QED
    BY <2>2, <2>3, <2>4, <2>5 DEF TimerInv, SameSize, Indices
<1>8. CASE EndScript \/ EndMain \/ LoopEnds
  <2>1. /\ UNCHANGED <<table, log, now>> /\ running = 0
        /\ phase' \in {"on_start", "loop", "on_panic", "on_exit"}
    BY <1>8, NoHandler DEF EndScript, EndMain, MainSkipped, Scanning, LoopEnds, Go, Scans
  <2> QED
    BY <1>0, <1>b, <2>1 DEF SameTimes
<1>9. CASE LoopTop \/ PumpDue
  <2>1. Schedule /\ running = 0 /\ phase \in {"loop", "main"}
    BY <1>9, NoHandler DEF LoopTop, PumpDue, Scans
  <2>2. ASSUME NEW j \in Indices PROVE TimerAt(j)'
    BY <2>1, TimerScheduled DEF TimerInv
  <2> QED
    BY <2>1, <2>2, ScheduleEffect DEF TimerInv, SameSize, Indices
<1>10. CASE PumpSignal
  <2>1. UNCHANGED <<table, log, now, phase>> /\ running = 0
    BY <1>10, NoHandler DEF PumpSignal
  <2> QED
    BY <1>0, <1>b, <2>1 DEF SameTimes
<1>11. CASE SignalsEnd
  <2>1. UNCHANGED <<log, now>> /\ running = 0 /\ phase = "signals"
    BY <1>11, NoHandler DEF SignalsEnd
  <2>2. CASE UNCHANGED table
    BY <1>0, <1>b, <2>1, <2>2 DEF SameTimes
  <2>3. CASE DrainEvents
    <3>1. \A j \in Indices :
            /\ table'[j].dec = table[j].dec /\ table'[j].fired = table[j].fired
            /\ Name(j) \in Timed => table'[j].next = table[j].next /\ table'[j].gap = table[j].gap
      BY <2>3, DrainEffect DEF DueInv, Timed
    <3>2. Len(table') = Len(table)
      BY <2>3, DrainEffect
    <3> QED
      BY <1>0, <1>b, <2>1, <3>1, <3>2 DEF SameTimes
  <2> QED
    BY <1>11, <2>2, <2>3 DEF SignalsEnd, AfterSignals, PassEnds
<1>12. CASE ScanEnds
  <2>1. running = 0 /\ UNCHANGED <<log, now>>
    BY <1>12 DEF ScanEnds, Scanning
  <2>2. Len(table') = Len(table) /\ \A i \in Indices : Keeps(i)
    BY <1>12, SetUpEffect DEF ScanEnds
  <2>3. phase' \notin {"signals", "watches", "due"} \/ phase \in {"signals", "watches", "due"}
    BY <1>12, <1>n, ScanEndsPhase
  <2> QED
    BY <1>0, <1>b, <2>1, <2>2, <2>3 DEF Keeps, SameTimes
<1>13. CASE Exit
  <2>1. UNCHANGED <<table, log, now>> /\ phase' = "on_exit"
    BY <1>13 DEF Exit
  <2> QED
    BY <1>0, <1>b, <2>1 DEF SameTimes, Live
<1>14. CASE UNCHANGED vars
  BY <1>0, <1>14, <1>b DEF vars, SameTimes
<1> QED
  BY <1>1, <1>2, <1>3, <1>4, <1>5, <1>6, <1>7, <1>8, <1>9, <1>10, <1>11, <1>12, <1>13, <1>14
  DEF Next, Step

(* What is kept of a timer's past bounds its calls. *)
LEMMA TimerBound == TypeOK /\ OnceInv /\ TimerInv => NeverAhead
<1> SUFFICES ASSUME TypeOK, OnceInv, TimerInv, NEW j \in Indices, InSchedule(j)
             PROVE  log[j].calls <= Turns(j)
  BY DEF NeverAhead, InSchedule
<1> DEFINE a == Arg(j)  s == log[j].since  c == log[j].calls
<1>1. Name(j) \in Timed /\ a \in Nat \ {0} /\ s \in Nat /\ c \in Nat /\ now \in Nat
  BY TimerNumbers DEF InSchedule
<1>2. s <= now /\ (table[j].next = 0 => c = 0) /\ (table[j].next # 0 => Paced(j))
  BY DEF TimerInv, TimerAt
<1>3. c * a \in Nat /\ 0 * a = 0
  BY <1>1, Distributes
<1>4. CASE Name(j) = "every"
  <2>1. s + c * a <= now
    <3>1. CASE table[j].next = 0
      BY <1>1, <1>2, <1>3, <3>1
    <3>2. CASE table[j].next # 0
      BY <1>2, <1>4, <3>2 DEF Paced
    <3> QED
      BY <3>1, <3>2
  <2> HIDE DEF a, s, c
  <2>2. now - s \in Nat /\ c * a <= now - s
    BY <1>1, <1>2, <1>3, <2>1
  <2>3. c <= (now - s) \div a
    BY <1>1, <2>2, DivAtLeast
  <2> QED
    BY <1>4, <2>3 DEF Turns, a, s, c
<1>5. CASE Name(j) = "cron"
  <2>1. s \div a \in Nat /\ now \div a \in Nat /\ s \div a <= now \div a
    BY <1>1, <1>2, DivBounds, DivMonotone
  <2>2. s \div a + c <= now \div a
    <3>1. CASE table[j].next = 0
      BY <1>2, <2>1, <3>1
    <3>2. CASE table[j].next # 0
      BY <1>2, <1>5, <3>2 DEF Paced
    <3> QED
      BY <3>1, <3>2
  <2> HIDE DEF a, s, c
  <2>3. c <= now \div a - s \div a
    BY <1>1, <2>1, <2>2
  <2> QED
    BY <1>5, <2>3 DEF Turns, a, s, c
<1>6. CASE Name(j) = "delayed"
  <2>1. c <= 1
    BY <1>1, <1>6 DEF OnceInv, OnceAt, InSchedule
  <2>2. c >= 1 => s + a <= now
    BY <1>1, <1>2, <1>6 DEF Paced
  <2>3. c <= IF now >= s + a THEN 1 ELSE 0
    BY <1>1, <2>1, <2>2
  <2> QED
    BY <1>6, <2>3 DEF Turns
<1> QED
  BY <1>1, <1>4, <1>5, <1>6 DEF Timed

(* However late the loop comes to it, a timer that was registered before its pass
   began, and whose returns were all entered in the table, has been called at most
   as often as its schedule allows; a @cron also needs handlers that take no time. *)
THEOREM TriggersNeverAhead == Spec => []NeverAhead
<1>1. Init => TypeOK /\ PlaceInv /\ OnceInv /\ DueInv /\ TimerInv
  BY TypeInit, PlaceInit, OnceInit, DueInit, TimerInit
<1>2. TypeOK /\ PlaceInv /\ OnceInv /\ DueInv /\ TimerInv /\ [Next]_vars
        => (TypeOK /\ PlaceInv /\ OnceInv /\ DueInv /\ TimerInv)'
  BY TypeStep, PlaceStep, OnceStep, DueStep, TimerStep
<1> QED
  BY <1>1, <1>2, TimerBound, PTL DEF Spec

=============================================================================
