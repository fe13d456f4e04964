---------------------------- MODULE MCPrintStart ----------------------------
(* PrintStart for TLC: two of the settings sent after the loops stand for all. *)
EXTENDS PrintStart

MCLate == {"heating", "interval"}
=============================================================================
