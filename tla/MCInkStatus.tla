---------------------------- MODULE MCInkStatus ----------------------------
(* InkStatus for TLC: level and tank size of two colours, one other field. *)
EXTENDS InkStatus

MCKnown == {"CyanLevel", "BlackLevel", "CyanTankSize", "BlackTankSize"}
MCUnknown == {"Other"}
============================================================================
