--------------------------- MODULE MCDynamicWipe ---------------------------
(* DynamicWipe for TLC.  The constants are given in the configurations.    *)
EXTENDS DynamicWipe
============================================================================
