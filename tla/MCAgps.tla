------------------------------- MODULE MCAgps -------------------------------
(* Small instances of Agps.                                                *)
EXTENDS Agps

CONSTANTS h1, h2
TwoHandles == {h1, h2}
=============================================================================
