--------------------------- MODULE MCComm3DPCall ---------------------------
(* Comm3DPCall for TLC: one command of each way to read an answer.         *)
EXTENDS Comm3DPCall

MCCommands == {"pausePrintJob", "printerStatus", "sendSCICommand", "jobCompletedPages"}
============================================================================
