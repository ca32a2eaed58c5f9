---------------------------- MODULE MCGenerator -----------------------------
(* Two generators; g2 is consumed by the main program and by g1. *)
EXTENDS Generator

CONSTANTS g1, g2

SharedInner == {<<main, g1>>, <<main, g2>>, <<g1, g2>>}
=============================================================================
