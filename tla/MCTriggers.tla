----------------------------- MODULE MCTriggers -----------------------------
(* Small instances of Triggers for TLC. *)
EXTENDS Triggers

D(name, arg, once) == [name |-> name, arg |-> arg, once |-> once]

(* What the loop serves, and @on_exit; @once on one of the signals. *)
Kinds ==
  { D("on_exit", 0, FALSE), D("on_signal", "INT", FALSE), D("on_signal", "TERM", TRUE),
    D("watch", 0, FALSE), D("every", 1, FALSE), D("cron", 2, FALSE), D("delayed", 1, FALSE) }

IntTerm == <<"INT", "TERM">>
=============================================================================
