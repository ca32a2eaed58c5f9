----------------------------- MODULE MCVMTasks -----------------------------
(* Small instances of VMTasks for TLC. *)
EXTENDS VMTasks
=============================================================================
