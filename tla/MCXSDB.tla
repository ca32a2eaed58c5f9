------------------------------- MODULE MCXSDB -------------------------------
(* Small instances of XSDB for TLC. *)
EXTENDS XSDB, TLC

CONSTANTS t1, a, b

(* A column that refuses the NULL its default would have replaced. *)
StrictColumn == {<<TRUE, TRUE, a>>}

TwoRows == t1 :> 2
=============================================================================
