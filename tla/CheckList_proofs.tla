-------------------------- MODULE CheckList_proofs --------------------------
(***************************************************************************)
(* Proofs about the checklist dialog.  Each invariant is inductive by      *)
(* itself: every handler re-establishes it from its own assignments, in    *)
(* whatever order clicks and polls come.                                   *)
(***************************************************************************)
EXTENDS CheckList, TLAPS

(* Every variable keeps its type, and after the first answer of the axes   *)
(* the flag builderFeederReady repeats the last answer: updatePrintStatus  *)
(* never leaves it from an earlier poll.                                   *)
THEOREM TypeCorrect == Spec => []TypeOK
<1>1. Init => TypeOK
  BY DEF Init, TypeOK
<1>2. TypeOK /\ [Next]_vars => TypeOK'
  <2> SUFFICES ASSUME TypeOK, [Next]_vars PROVE TypeOK'
    OBVIOUS
  <2> USE DEF TypeOK
  <2>1. ASSUME NEW b \in Boxes, Click(b) PROVE TypeOK'
    <3>1. checked' \subseteq Boxes
      BY <2>1 DEF Click, Toggled
    <3>2. startEnabled' \in BOOLEAN /\ skipped' \in BOOLEAN
      BY <2>1 DEF Click, Evaluate, IsReady
    <3> QED
      BY <2>1, <3>1, <3>2 DEF Click
  <2>2. CASE Skip
    BY <2>2 DEF Skip
  <2>3. CASE Start
    BY <2>3 DEF Start
  <2>4. CASE Close
    BY <2>4 DEF Close
  <2>5. ASSUME NEW inkOk \in BOOLEAN, NEW a \in Axes, Poll(inkOk, a) PROVE TypeOK'
    <3>1. checked' \subseteq Boxes
      BY <2>5 DEF Poll, BoxesAfter, AfterInk, Boxes
    <3>2. startEnabled' \in BOOLEAN /\ skipped' \in BOOLEAN
      BY <2>5 DEF Poll, Evaluate, IsReady
    <3>3. skipEnabled' \in BOOLEAN
      BY <2>5 DEF Poll, SkipAfter, Axes
    <3>4. ready' \in BOOLEAN /\ ready' = (axes' = "room") /\ dialog' = dialog
      BY <2>5 DEF Poll
    <3>5. axes' \in Axes \cup {"none"} /\ judged' \in {"room", "noroom", "none"}
      BY <2>5 DEF Poll, Axes
    <3> QED
      BY <3>1, <3>2, <3>3, <3>4, <3>5
  <2>6. CASE UNCHANGED vars
    BY <2>6 DEF vars
  <2> QED
    BY <2>1, <2>2, <2>3, <2>4, <2>5, <2>6 DEF Next
<1> QED
  BY <1>1, <1>2, PTL DEF Spec

(* A poll takes ticks away from the ink box and the space box only.        *)
LEMMA PollLeavesHand ==
  ASSUME NEW inkOk, NEW a, Poll(inkOk, a), Hand \subseteq checked
  PROVE  Hand \subseteq checked'
BY DEF Poll, BoxesAfter, AfterInk, Hand

(* Start is enabled only when the user ticked all three boxes that no poll *)
(* can tick, or pressed Skip (checkListIsReady, updateZAxis).              *)
THEOREM HandCheckedCorrect == Spec => []HandChecked
<1>1. Init => HandChecked
  BY DEF Init, HandChecked
<1>2. HandChecked /\ [Next]_vars => HandChecked'
  <2> SUFFICES ASSUME HandChecked, [Next]_vars PROVE HandChecked'
    OBVIOUS
  <2> USE DEF HandChecked
  <2>1. ASSUME NEW b \in Boxes, Click(b) PROVE HandChecked'
    BY <2>1 DEF Click, Evaluate, IsReady
  <2>2. CASE Skip \/ Start \/ Close \/ UNCHANGED vars
    BY <2>2 DEF Skip, Start, Close, vars
  <2>3. ASSUME NEW inkOk \in BOOLEAN, NEW a \in Axes, Poll(inkOk, a) PROVE HandChecked'
    <3>1. CASE UNCHANGED <<startEnabled, skipped>>
      BY <2>3, <3>1, PollLeavesHand
    <3>2. CASE Evaluate(checked', ready)
      BY <3>2 DEF Evaluate, IsReady
    <3> QED
      BY <2>3, <3>1, <3>2 DEF Poll
  <2> QED
    BY <2>1, <2>2, <2>3 DEF Next
<1> QED
  BY <1>1, <1>2, PTL DEF Spec

(* Skip is enabled only while the last judged answer of the axes left room *)
(* (updateZAxis, skip_checking): missing answers keep what was judged.     *)
THEOREM SkipHasRoomCorrect == Spec => []SkipHasRoom
<1>1. Init => SkipHasRoom
  BY DEF Init, SkipHasRoom
<1>2. SkipHasRoom /\ [Next]_vars => SkipHasRoom'
  <2> SUFFICES ASSUME SkipHasRoom, [Next]_vars PROVE SkipHasRoom'
    OBVIOUS
  <2> USE DEF SkipHasRoom
  <2>1. ASSUME NEW inkOk \in BOOLEAN, NEW a \in Axes, Poll(inkOk, a) PROVE SkipHasRoom'
    <3>1. CASE a = "room"
      BY <2>1, <3>1 DEF Poll
    <3>2. CASE a = "noroom"
      BY <2>1, <3>2 DEF Poll, SkipAfter
    <3>3. CASE a = "silent"
      BY <2>1, <3>3 DEF Poll, SkipAfter
    <3> QED
      BY <3>1, <3>2, <3>3 DEF Axes
  <2>2. ASSUME NEW b \in Boxes, Click(b) PROVE SkipHasRoom'
    BY <2>2 DEF Click
  <2>3. CASE Skip \/ Start \/ Close \/ UNCHANGED vars
    BY <2>3 DEF Skip, Start, Close, vars
  <2> QED
    BY <2>1, <2>2, <2>3 DEF Next
<1> QED
  BY <1>1, <1>2, PTL DEF Spec

(* No step of the dialog enables Start without a tick in the ink box,      *)
(* unless the step is Skip (checkListIsReady).                             *)
THEOREM EnabledWithInkCorrect == Spec => EnabledWithInk
<1> DEFINE WithInk == startEnabled' /\ ~startEnabled => skipped' \/ "ink" \in checked'
<1>1. [Next]_vars => [WithInk]_vars
  <2> SUFFICES ASSUME [Next]_vars PROVE WithInk \/ UNCHANGED vars
    OBVIOUS
  <2>1. ASSUME NEW b \in Boxes, Click(b) PROVE WithInk
    BY <2>1 DEF Click, Evaluate, IsReady
  <2>2. CASE Skip \/ Start \/ Close
    BY <2>2 DEF Skip, Start, Close
  <2>3. ASSUME NEW inkOk \in BOOLEAN, NEW a \in Axes, Poll(inkOk, a) PROVE WithInk
    <3>1. CASE UNCHANGED <<startEnabled, skipped>>
      BY <3>1
    <3>2. CASE Evaluate(checked', ready)
      BY <3>2 DEF Evaluate, IsReady
    <3> QED
      BY <2>3, <3>1, <3>2 DEF Poll
  <2> QED
    BY <2>1, <2>2, <2>3 DEF Next
<1> QED
  BY <1>1, PTL DEF Spec, EnabledWithInk
============================================================================
