-------------------------- MODULE TransferService --------------------------
(***************************************************************************)
(* What a print filter promises the main window (executeFilter), without   *)
(* batches, polls or queues: the layers of the range leave the program in  *)
(* portions of any size, in order, none twice and none taken back; the     *)
(* filter reports true exactly when the last one has left, may report      *)
(* false at any time before, and does nothing after its report.            *)
(***************************************************************************)
EXTENDS Integers, Sequences

VARIABLES first, last,  \* the range: first up to, and without, last
          out,          \* the layers that have left the program
          outcome       \* "running", "true" or "false"

tvars == <<first, last, out, outcome>>

ToGo == last - first - Len(out)

Init ==
  /\ first \in Nat /\ last \in Nat
  /\ out = <<>> /\ outcome = "running"

(* The next n layers leave the program.                                    *)
HandOver(n) ==
  /\ outcome = "running"
  /\ out' = out \o [k \in 1..n |-> first + Len(out) + k - 1]
  /\ outcome' = IF n = ToGo THEN "true" ELSE "running"
  /\ UNCHANGED <<first, last>>

NothingToDo ==
  /\ outcome = "running" /\ first >= last
  /\ outcome' = "true"
  /\ UNCHANGED <<first, last, out>>

BreakOff ==
  /\ outcome = "running"
  /\ outcome' = "false"
  /\ UNCHANGED <<first, last, out>>

Next == (\E n \in 1..ToGo : HandOver(n)) \/ NothingToDo \/ BreakOff

Spec == Init /\ [][Next]_tvars
============================================================================
