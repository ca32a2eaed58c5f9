--------------------------- MODULE MCInterpTasks ---------------------------
(* Small instances of InterpTasks for TLC. *)
EXTENDS InterpTasks
=============================================================================
