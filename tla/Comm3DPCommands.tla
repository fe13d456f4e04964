-------------------------- MODULE Comm3DPCommands --------------------------
(***************************************************************************)
(* The vocabulary of the protocol of comm3DP.cpp: the methods of Comm3DP,  *)
(* grouped as the printer sees them, and how each turns the answer of the  *)
(* printer process into success or failure.                                *)
(*                                                                         *)
(* An answer is abstracted to what the methods distinguish: FEEDBACK_OK,   *)
(* FEEDBACK_ERR, a well-formed value of the kind the command asks for, and *)
(* any other text.                                                         *)
(***************************************************************************)
Replies == {"OK", "ERR", "value", "other"}

(* Commands answered by OK or ERR (comm3DP.h:40-122).                      *)
CloseProcess == {"closeProc"}
Power        == {"wakeUp", "sleep", "poweroff"}
ErrorReset   == {"clearSiriusError", "clearISSError"}
HeadRecovery == {"lightPHRecover", "heavyPHRecover"}
HeadExchange == {"removePH", "installPH", "installPHApproval", "installPHRegret"}
TestPages    == {"printTestPage", "printIPQCPage"}
JobBounds    == {"sendPrintjobHeader", "cancelPrintJob"}
JobControl   == {"pausePrintJob", "resumePrintJob", "OKtoINKerror"}
Sirius       == {"SendSiriusOntoFPGA", "SiriusShutDown"}
Service      == {"ReleaseLatch", "SetPrimeStatusOnly"}
Midjob       == {"setDynamicMidjob_Page", "setDynamicMidjob_PageInterval",
                 "setDynamicMidjob_Mode"}
Doors        == {"DoorEN", "DoorDIS", "sendFPGAcommand"}
WiperSet     == {"setWiperCount", "setWiperOK"}
JobLabels    == {"setPrintLeftTime", "setWiperSN", "setPrintfilename"}
Estimate     == {"ETtofpga", "BinderRecovery", "PreHeatedTimes"}
Heating      == {"PreAndPrintingHeated", "PostHeated", "PrePHin"}
PrintQuality == {"PrintMode"}
WiperPlan    == {"WiperIndex", "WiperClick"}
DirectSend   == {"SendJSONCmd", "SendDMCmd", "SendDMCmdTest"}
NVMSend      == {"sendNVM"}
Lift         == {"LIFT_intoDEVMODE", "LIFT_up", "LIFT_down", "LIFT_backONLINE"}
NVMRead      == {"GetNVMValue"} \* reports success only for OK, even when it read a value

Feedback ==
  CloseProcess \cup Power \cup ErrorReset \cup HeadRecovery \cup HeadExchange
    \cup TestPages \cup JobBounds \cup JobControl \cup Sirius \cup Service
    \cup Midjob \cup Doors \cup WiperSet \cup JobLabels \cup Estimate \cup Heating
    \cup PrintQuality \cup WiperPlan \cup DirectSend \cup NVMSend \cup Lift
    \cup NVMRead

(* Any text is a success, ERR included: the caller reads the text itself.  *)
StatusText  == {"printerStatus", "siriusError"}
Versions    == {"appVersion", "firmwareVersion"}
ErrorTexts  == {"fpgaError", "getServiceProgress"}
AnyText     == StatusText \cup Versions \cup ErrorTexts

(* Any text but ERR is a success.                                          *)
SystemText  == {"systemStatus", "sendSCICommand"}
WiperSN     == {"getWiperSN"}
BinderText  == {"getBinderINKLevel"}
ActiveIds   == {"Getactive_ids"}
PartVersion == {"GetFWversion", "GetFanversion", "GetISSversion"}
NVMText     == {"getNVM"}
TextOrErr   == SystemText \cup WiperSN \cup BinderText \cup ActiveIds
                 \cup PartVersion \cup NVMText

(* The text has to parse: everything else is a failure, -1 for a number.   *)
Axes        == {"zAxis", "DoorSt"}
CancelFlag  == {"CheckCancel"}
PageCounts  == {"jobCompletedPages", "jobCompletedPages2", "getNowPrintedpage"}
Header      == {"getHeader"}
Interval    == {"getDynamicMidjob_PageInterval"}
WiperCount  == {"getWiperCount"}
Shutdown    == {"CheckShutdown"}
DryPages    == {"GetDryConut", "GetTotalPage"}
ModeNumber  == {"GetPrintMode"}
JobNumbers  == {"Getnowmidjob", "GetTimeleft"}
NVMChecked  == {"NVMsendcheck"}
Parsed      == Axes \cup CancelFlag \cup PageCounts \cup Header \cup Interval
                 \cup WiperCount \cup Shutdown \cup DryPages \cup ModeNumber
                 \cup JobNumbers \cup NVMChecked

AllCommands == Feedback \cup AnyText \cup TextOrErr \cup Parsed

(* What the method reports for an answer it has received completely.       *)
Succeeds(cmd, reply) ==
  \/ cmd \in Feedback  /\ reply = "OK"
  \/ cmd \in AnyText
  \/ cmd \in TextOrErr /\ reply # "ERR"
  \/ cmd \in Parsed    /\ reply = "value"
============================================================================
