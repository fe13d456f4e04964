----------------------------- MODULE CheckList -----------------------------
(***************************************************************************)
(* The checklist dialog before a print (CheckListWidget.cpp).  It has five *)
(* boxes and two buttons, Skip and Start.  A timer polls the printer every *)
(* 500 ms while the user clicks; both run on the GUI thread, so each poll  *)
(* and each click is one step, in any order.                               *)
(*                                                                         *)
(* checkListIsReady() decides whether Start is enabled.  It runs when a    *)
(* box is clicked and when the space box changes, and nowhere else.        *)
(***************************************************************************)

Boxes == {"ink", "powder", "waste", "wiper", "space"}
Hand  == {"powder", "waste", "wiper"}  \* only the user can tell

(* The answer to zAxis as updateZAxis judges it; "silent": no answer.      *)
Axes == {"room", "noroom", "silent"}

VARIABLES
  dialog,        \* "open", "accepted" or "rejected"
  checked,       \* the ticked boxes
  ready,         \* builderFeederReady
  startEnabled, skipEnabled,
  \* history: how Start got its state, and the last answers of the printer
  skipped,       \* by Skip, and checkListIsReady has not run since
  axes,          \* the last answer to zAxis, "none" before the first
  judged         \* the last answer to zAxis that was not silence, or "none"

vars == <<dialog, checked, ready, startEnabled, skipEnabled, skipped, axes, judged>>

(* checkListIsReady() on the boxes b with the flag r.                      *)
IsReady(b, r) == Hand \cup {"ink"} \subseteq b /\ r

-----------------------------------------------------------------------------
(* The constructor disables Start; builderFeederReady is not initialised.  *)
Init ==
  /\ dialog = "open"
  /\ checked = {}
  /\ ready \in BOOLEAN
  /\ startEnabled = FALSE /\ skipEnabled = TRUE
  /\ skipped = FALSE /\ axes = "none" /\ judged = "none"

Evaluate(b, r) == startEnabled' = IsReady(b, r) /\ skipped' = FALSE

Toggled(b) == IF b \in checked THEN checked \ {b} ELSE checked \cup {b}

(* Faulty variant of Click: checkListIsReady is not connected to the boxes *)
(* that the user ticks.                                                    *)
ClickSilently(b) ==
  /\ dialog = "open"
  /\ checked' = Toggled(b)
  /\ IF b \in {"ink", "space"} THEN Evaluate(Toggled(b), ready)
                               ELSE UNCHANGED <<startEnabled, skipped>>
  /\ UNCHANGED <<dialog, ready, skipEnabled, axes, judged>>

(* A click on a box toggles it and evaluates the list.                     *)
Click(b) ==
  /\ dialog = "open"
  /\ checked' = Toggled(b)
  /\ Evaluate(Toggled(b), ready)
  /\ UNCHANGED <<dialog, ready, skipEnabled, axes, judged>>

(* skip_checking().                                                        *)
Skip ==
  /\ dialog = "open" /\ skipEnabled
  /\ startEnabled' = TRUE /\ skipped' = TRUE
  /\ UNCHANGED <<dialog, checked, ready, skipEnabled, axes, judged>>

(* startPrint_accepted().                                                  *)
Start ==
  /\ dialog = "open" /\ startEnabled
  /\ dialog' = "accepted"
  /\ UNCHANGED <<checked, ready, startEnabled, skipEnabled, skipped, axes, judged>>

Close ==
  /\ dialog = "open"
  /\ dialog' = "rejected"
  /\ UNCHANGED <<checked, ready, startEnabled, skipEnabled, skipped, axes, judged>>

(* Without an ink status Skip is disabled and the ink box loses its tick:  *)
(* the boxes a poll has left when it goes on to the axes.                  *)
AfterInk(inkOk) == IF inkOk THEN checked ELSE checked \ {"ink"}

SkipAfter(inkOk, a) ==
  CASE a = "room"   -> TRUE
    [] a = "noroom" -> FALSE
    [] a = "silent" -> inkOk /\ skipEnabled

BoxesAfter(inkOk, a) ==
  IF a = "room" THEN AfterInk(inkOk) \cup {"space"} ELSE AfterInk(inkOk) \ {"space"}

(* Faulty variants of Poll: the missing answer leaves the flag alone; Skip *)
(* is enabled again by the ink status; the axes are read before the ink.   *)
PollKeepsFlag(inkOk, a) ==
  /\ dialog = "open"
  /\ checked' = BoxesAfter(inkOk, a)
  /\ IF "space" \in checked <=> "space" \in checked'
       THEN UNCHANGED <<startEnabled, skipped>>
       ELSE Evaluate(checked', ready)
  /\ ready' = IF a = "silent" THEN ready ELSE a = "room"
  /\ skipEnabled' = SkipAfter(inkOk, a)
  /\ axes' = a /\ judged' = (IF a = "silent" THEN judged ELSE a)
  /\ UNCHANGED dialog

PollInkSkips(inkOk, a) ==
  /\ dialog = "open"
  /\ checked' = BoxesAfter(inkOk, a)
  /\ IF "space" \in checked <=> "space" \in checked'
       THEN UNCHANGED <<startEnabled, skipped>>
       ELSE Evaluate(checked', ready)
  /\ ready' = (a = "room")
  /\ skipEnabled' = inkOk
  /\ axes' = a /\ judged' = (IF a = "silent" THEN judged ELSE a)
  /\ UNCHANGED dialog

PollAxesFirst(inkOk, a) ==
  /\ dialog = "open"
  /\ checked' = BoxesAfter(inkOk, a)
  /\ IF "space" \in checked <=> "space" \in checked'
       THEN UNCHANGED <<startEnabled, skipped>>
       ELSE Evaluate(checked, ready)
  /\ ready' = (a = "room")
  /\ skipEnabled' = SkipAfter(inkOk, a)
  /\ axes' = a /\ judged' = (IF a = "silent" THEN judged ELSE a)
  /\ UNCHANGED dialog

(* updatePrintStatus() outside PanelControl: read the ink status, read the *)
(* axes, and only then store what they say.  A change of the space box     *)
(* evaluates the list inside updateZAxis(), with the old flag.             *)
Poll(inkOk, a) ==
  /\ dialog = "open"
  /\ checked' = BoxesAfter(inkOk, a)
  /\ IF "space" \in checked <=> "space" \in checked'
       THEN UNCHANGED <<startEnabled, skipped>>
       ELSE Evaluate(checked', ready)
  /\ ready' = (a = "room")
  /\ skipEnabled' = SkipAfter(inkOk, a)
  /\ axes' = a /\ judged' = (IF a = "silent" THEN judged ELSE a)
  /\ UNCHANGED dialog

(* Under PanelControl a poll reads nothing, and so changes nothing.        *)
Next == \/ \E b \in Boxes : Click(b)
        \/ Skip \/ Start \/ Close
        \/ \E inkOk \in BOOLEAN, a \in Axes : Poll(inkOk, a)

Spec == Init /\ [][Next]_vars
-----------------------------------------------------------------------------
(* Every variable has its type.  Once the axes were asked the flag repeats *)
(* the answer: silence is not taken for room.                              *)
TypeOK ==
  /\ dialog \in {"open", "accepted", "rejected"}
  /\ checked \subseteq Boxes
  /\ ready \in BOOLEAN /\ startEnabled \in BOOLEAN /\ skipEnabled \in BOOLEAN
  /\ skipped \in BOOLEAN
  /\ axes \in Axes \cup {"none"} /\ judged \in {"room", "noroom", "none"}
  /\ axes # "none" => ready = (axes = "room")

(* Start can be pressed only if the user ticked all three boxes that only  *)
(* a human can check, or skipped them: no poll and no click on another box *)
(* enables it around them (checkListIsReady).                              *)
HandChecked == startEnabled /\ ~skipped => Hand \subseteq checked

(* Skip can be pressed only while the last judgement of the axes was that  *)
(* there is room; silence and ink answers in between do not enable it.     *)
SkipHasRoom == skipEnabled => judged \in {"room", "none"}

(* Start is enabled only with ink ticked at that moment: later an unknown  *)
(* ink status takes the tick away, but no step enables Start without it.   *)
EnabledWithInk ==
  [][(startEnabled' /\ ~startEnabled) => (skipped' \/ "ink" \in checked')]_vars

(* "Check all item before printing." (checklist.ui:467): a print that was  *)
(* not skipped into starts only with every box ticked.                     *)
StartChecksAll == dialog = "accepted" /\ ~skipped => checked = Boxes
============================================================================
