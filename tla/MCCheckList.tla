---------------------------- MODULE MCCheckList ----------------------------
(* CheckList for TLC: the dialog has no parameters and finitely many states. *)
EXTENDS CheckList
============================================================================
