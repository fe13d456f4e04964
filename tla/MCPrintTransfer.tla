-------------------------- MODULE MCPrintTransfer --------------------------
(* PrintTransfer for TLC.  The constants are given in the configurations.  *)
EXTENDS PrintTransfer
============================================================================
