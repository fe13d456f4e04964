--------------------------- MODULE MCUndoDocument ---------------------------
(* UndoDocument for TLC. *)
EXTENDS UndoDocument, TLC

FileSymmetry == Permutations(Files)
(* States after a fault are checked, and not explored further.              *)
NoFault == faults = {} /\ Len(clipboard) =< 2
=============================================================================
