----------------------------- MODULE PrintStart -----------------------------
(***************************************************************************)
(* The start of a print: MainWindow::printFunction                         *)
(* (mainwindow_RunTime.cpp) and its option dialog (printOption.cpp), from  *)
(* the menu item to the transfer, with every place where the GUI thread    *)
(* goes back to the event loop in between.                                 *)
(*                                                                         *)
(* Two such places leave the main window usable: two event loops of 500 ms *)
(* around the infrared command, and processEvents() inside the filters.    *)
(* There the user may print again, and a second call of printFunction runs *)
(* to its end on top of the first.  The filters disable the menu item by   *)
(* MeshDocument::busy, the loops do not.                                   *)
(*                                                                         *)
(* A call to the printer process is one step (see Comm3DPService).  The    *)
(* checklist is its outcome (see CheckList), the layer loop its duration   *)
(* (see PrintTransfer).  DSP_TEST_MODE is off.                             *)
(***************************************************************************)
EXTENDS Integers, Sequences, SequencesExt

CONSTANTS MaxPrints,  \* bound on the number of calls of printFunction
          MaxPolls,   \* polls after which the wait gives up, 1200 in the code
          Late        \* the settings sent between the loops and the checklist:
                      \* heating, midjob mode and interval, wiper, print mode

ASSUME StartAssumption == MaxPrints \in Nat /\ MaxPolls \in Nat

VARIABLES
  prints,   \* number of calls so far; the last one has this number
  running,  \* the calls that have not returned, the innermost last
  busy,     \* MeshDocument::busy; Print is disabled while it is set
  prepare,  \* Prepare of the option dialog is enabled
  link,     \* the printer process answers
  held,     \* the call whose value of a setting the printer holds, 0: another
  job,      \* the call whose header the printer accepted last, or 0
  \* history
  sent,      \* calls whose transfer has begun
  gaveUp,    \* calls that waited in vain for Printing
  released   \* busy was cleared while a filter was running

vars == <<prints, running, busy, prepare, link, held, job, sent, gaveUp, released>>

Early    == {"pump", "infrared"}
Settings == Early \cup Late
Answers  == {"Online", "Printing", "other", "unknown"}  \* "unknown": not in printerStatusmap

Filters == {"detecting", "estimating", "snapshot", "printing"}  \* executeFilter()
Loops   == {"before infrared", "after infrared"}
Dialogs == {"overlap", "estimate", "option", "checklist", "refused", "timeout"}
Places  == Filters \cup Loops \cup Dialogs \cup {"wait"}
(* From the checklist on a call has the printer to itself.                 *)
Owning  == {"checklist", "wait", "snapshot", "printing"}

(* A call: where it is, the settings the printer did not take, and how     *)
(* often it has asked for Printing.                                        *)
Call(i) == [id |-> i, at |-> "detecting", missed |-> {}, polls |-> 0]

Top      == Last(running)
TopAt(a) == running # <<>> /\ Top.at = a
Moved(call)   == [running EXCEPT ![Len(running)] = call]
GoTo(a)       == running' = Moved([Top EXCEPT !.at = a])
Return        == running' = Front(running)

-----------------------------------------------------------------------------
Init ==
  /\ prints = 0 /\ running = <<>> /\ busy = FALSE /\ prepare = FALSE
  /\ link \in BOOLEAN
  /\ held = [c \in Settings |-> 0] /\ job = 0
  /\ sent = {} /\ gaveUp = {} /\ released = FALSE

(* Faulty variant of Active: the checklist is shown but not modal.        *)
ActiveInChecklist ==
  running = <<>> \/ \E a \in Loops \cup Filters \cup {"checklist"} : TopAt(a)

(* The main window takes clicks.                                           *)
Active == running = <<>> \/ \E a \in Loops \cup Filters : TopAt(a)

(* The printer takes the settings of C but those of missed; the results of *)
(* the calls are not looked at.                                            *)
Send(C, missed) ==
  /\ missed \in SUBSET C /\ (~link => missed = C)
  /\ held' = [c \in Settings |-> IF c \in C \ missed THEN Top.id ELSE held[c]]

Sending(C, missed, a) ==
  /\ Send(C, missed)
  /\ running' = Moved([Top EXCEPT !.at = a, !.missed = @ \cup missed])

(* Faulty variant: the menu item stays enabled.                            *)
PrintAlways ==
  /\ Active /\ prints < MaxPrints
  /\ prints' = prints + 1
  /\ running' = Append(running, Call(prints + 1))
  /\ busy' = TRUE
  /\ UNCHANGED <<prepare, link, held, job, sent, gaveUp, released>>

(* Print in the menu: the test for overlapping meshes begins.              *)
PrintClicked ==
  /\ Active /\ ~busy /\ prints < MaxPrints
  /\ prints' = prints + 1
  /\ running' = Append(running, Call(prints + 1))
  /\ busy' = TRUE
  /\ UNCHANGED <<prepare, link, held, job, sent, gaveUp, released>>

(* Another filter, or an import, runs to its end inside processEvents():   *)
(* it clears the flag of the filter around it and enables Print.           *)
Release ==
  /\ Active /\ busy
  /\ busy' = FALSE /\ released' = TRUE
  /\ UNCHANGED <<prints, running, prepare, link, held, job, sent, gaveUp>>

(* The test is over: without an overlap it goes on with the question       *)
(* whether to estimate.                                                    *)
Detected(overlap) ==
  /\ TopAt("detecting")
  /\ GoTo(IF overlap THEN "overlap" ELSE "estimate")
  /\ busy' = FALSE
  /\ UNCHANGED <<prints, prepare, link, held, job, sent, gaveUp, released>>

PrintAnyway(yes) ==
  /\ TopAt("overlap")
  /\ IF yes THEN GoTo("estimate") ELSE Return
  /\ UNCHANGED <<prints, busy, prepare, link, held, job, sent, gaveUp, released>>

(* The option dialog opens.  Its first look at the printer disables        *)
(* Prepare if the status is known and not Online; the poll every second    *)
(* disables it unless the status is Online.                                *)
Open(a) ==
  /\ a \in Answers /\ (~link => a = "unknown")
  /\ GoTo("option")
  /\ prepare' = (a \in {"Online", "unknown"})

Estimate ==
  /\ TopAt("estimate")
  /\ GoTo("estimating") /\ busy' = TRUE
  /\ UNCHANGED <<prints, prepare, link, held, job, sent, gaveUp, released>>

NoEstimate(a) ==
  /\ TopAt("estimate") /\ Open(a)
  /\ UNCHANGED <<prints, busy, link, held, job, sent, gaveUp, released>>

Estimated(a) ==
  /\ TopAt("estimating") /\ Open(a)
  /\ busy' = FALSE
  /\ UNCHANGED <<prints, link, held, job, sent, gaveUp, released>>

PollOption(a) ==
  /\ TopAt("option")
  /\ a \in Answers /\ (~link => a = "unknown")
  /\ prepare' = (a = "Online")
  /\ UNCHANGED <<prints, running, busy, link, held, job, sent, gaveUp, released>>

(* The dialog closes.  The pump is set before its result is looked at.     *)
Prepared(accepted, missed) ==
  /\ TopAt("option")
  /\ accepted => prepare
  /\ Send({"pump"}, missed)
  /\ IF accepted
       THEN running' = Moved([Top EXCEPT !.at = "before infrared", !.missed = missed])
       ELSE Return
  /\ UNCHANGED <<prints, busy, prepare, link, job, sent, gaveUp, released>>

(* The loops end.  From the end of the second one on nothing else runs     *)
(* before the checklist is on the screen.                                  *)
Infrared(missed) ==
  /\ TopAt("before infrared")
  /\ Sending({"infrared"}, missed, "after infrared")
  /\ UNCHANGED <<prints, busy, prepare, link, job, sent, gaveUp, released>>

Checklist(missed) ==
  /\ TopAt("after infrared")
  /\ Sending(Late, missed, "checklist")
  /\ UNCHANGED <<prints, busy, prepare, link, job, sent, gaveUp, released>>

Cancelled ==
  /\ TopAt("checklist")
  /\ Return
  /\ UNCHANGED <<prints, busy, prepare, link, held, job, sent, gaveUp, released>>

(* Faulty variant: the result of the header is not looked at.              *)
HeaderIgnored ==
  /\ TopAt("checklist")
  /\ GoTo("wait")
  /\ UNCHANGED <<prints, busy, prepare, link, held, job, sent, gaveUp, released>>

(* The header: accepted, refused, or accepted by a printer process that is *)
(* lost before its answer arrives.                                         *)
Header ==
  /\ TopAt("checklist") /\ link
  /\ GoTo("wait")
  /\ job' = Top.id
  /\ UNCHANGED <<prints, busy, prepare, link, held, sent, gaveUp, released>>

HeaderRefused ==
  /\ TopAt("checklist")
  /\ GoTo("refused")
  /\ UNCHANGED <<prints, busy, prepare, link, held, job, sent, gaveUp, released>>

HeaderUnheard ==
  /\ TopAt("checklist") /\ link
  /\ GoTo("refused")
  /\ job' = Top.id /\ link' = FALSE
  /\ UNCHANGED <<prints, busy, prepare, held, sent, gaveUp, released>>

(* Faulty variants: the wait has no end; a failed call does not count; any *)
(* other status ends the call.                                             *)
NotPrintingUncounted ==
  /\ TopAt("wait")
  /\ running' = Moved([Top EXCEPT !.polls = @ + 1])
  /\ UNCHANGED <<prints, busy, prepare, link, held, job, sent, gaveUp, released>>

NotPrintingUnheard ==
  /\ TopAt("wait")
  /\ IF Top.polls < MaxPolls
       THEN /\ running' = IF link THEN Moved([Top EXCEPT !.polls = @ + 1]) ELSE running
            /\ UNCHANGED gaveUp
       ELSE /\ GoTo("timeout")
            /\ gaveUp' = gaveUp \cup {Top.id}
  /\ UNCHANGED <<prints, busy, prepare, link, held, job, sent, released>>

NotPrintingReturns ==
  /\ TopAt("wait")
  /\ Return
  /\ UNCHANGED <<prints, busy, prepare, link, held, job, sent, gaveUp, released>>

(* The status is read every 500 ms; a failed call counts like any other.   *)
Printing ==
  /\ TopAt("wait") /\ link
  /\ GoTo("snapshot") /\ busy' = TRUE
  /\ UNCHANGED <<prints, prepare, link, held, job, sent, gaveUp, released>>

NotPrinting ==
  /\ TopAt("wait")
  /\ IF Top.polls < MaxPolls
       THEN /\ running' = Moved([Top EXCEPT !.polls = @ + 1])
            /\ UNCHANGED gaveUp
       ELSE /\ GoTo("timeout")
            /\ gaveUp' = gaveUp \cup {Top.id}
  /\ UNCHANGED <<prints, busy, prepare, link, held, job, sent, released>>

(* The message boxes are closed: the call returns, with no command to the  *)
(* printer.                                                                *)
BoxClosed ==
  /\ TopAt("refused") \/ TopAt("timeout")
  /\ Return
  /\ UNCHANGED <<prints, busy, prepare, link, held, job, sent, gaveUp, released>>

(* The picture for the history is done, and the print filter begins.       *)
Transfer ==
  /\ TopAt("snapshot")
  /\ GoTo("printing") /\ busy' = TRUE
  /\ sent' = sent \cup {Top.id}
  /\ UNCHANGED <<prints, prepare, link, held, job, gaveUp, released>>

Transferred ==
  /\ TopAt("printing")
  /\ Return
  /\ busy' = FALSE
  /\ UNCHANGED <<prints, prepare, link, held, job, sent, gaveUp, released>>

LoseLink ==
  /\ link /\ link' = FALSE
  /\ UNCHANGED <<prints, running, busy, prepare, held, job, sent, gaveUp, released>>

Poll == Printing \/ NotPrinting

Next ==
  \/ PrintClicked \/ Release
  \/ \E overlap \in BOOLEAN : Detected(overlap)
  \/ \E yes \in BOOLEAN : PrintAnyway(yes)
  \/ Estimate
  \/ \E a \in Answers : NoEstimate(a) \/ Estimated(a) \/ PollOption(a)
  \/ \E accepted \in BOOLEAN, missed \in SUBSET {"pump"} : Prepared(accepted, missed)
  \/ \E missed \in SUBSET {"infrared"} : Infrared(missed)
  \/ \E missed \in SUBSET Late : Checklist(missed)
  \/ Cancelled \/ Header \/ HeaderRefused \/ HeaderUnheard
  \/ Poll \/ BoxClosed \/ Transfer \/ Transferred
  \/ LoseLink

Spec == Init /\ [][Next]_vars

(* The wait is a loop of the program: nothing else runs on its thread.     *)
FairSpec == Spec /\ WF_vars(Poll)
-----------------------------------------------------------------------------
TypeOK ==
  /\ prints \in 0..MaxPrints
  /\ running \in Seq([id : 1..prints, at : Places, missed : SUBSET Settings,
                      polls : 0..MaxPolls])
  /\ busy \in BOOLEAN /\ prepare \in BOOLEAN /\ link \in BOOLEAN /\ released \in BOOLEAN
  /\ held \in [Settings -> 0..prints]
  /\ job \in 0..prints /\ sent \subseteq 1..prints /\ gaveUp \subseteq 1..prints

(* However often the user prints again while the loops run, the settings   *)
(* at the printer when its own checklist is open or its own header was     *)
(* accepted are those of this call, unless the printer did not take one.   *)
(* The pump and the infrared lamp are set before the loops, and there they *)
(* may also be those of a later call, never of an earlier one.             *)
OwnSettings ==
  \A k \in 1..Len(running) :
    LET call == running[k] IN
    call.at \in {"checklist", "wait"} =>
      /\ \A c \in Late \ call.missed : held[c] = call.id
      /\ \A c \in Early \ call.missed : held[c] >= call.id

(* Unless another filter has cleared the flag, a call that still has to    *)
(* hear from its user, or owns the printer, is the innermost one: two      *)
(* prints never wait for the printer or transfer at once.                  *)
OneAtATime ==
  ~released => \A k \in 1..(Len(running) - 1) : running[k].at \in Loops

(* ... and the layers go to the job whose header this call sent: no call   *)
(* that came in between has left its own header behind.                    *)
OwnJob ==
  ~released => \A k \in 1..Len(running) :
    running[k].at \in {"wait", "snapshot", "printing"} => job = running[k].id

(* A header that the printer accepted is followed by its transfer: every   *)
(* way out of printFunction leaves the printer without a job, but for the  *)
(* wait that gave up and a printer process that is lost.                   *)
JobIsFollowed ==
  job # 0 /\ link => \/ job \in sent \cup gaveUp
                     \/ \E k \in 1..Len(running) :
                          running[k].id = job /\ running[k].at \in {"wait", "snapshot"}

(* How many steps the wait of the innermost call can still take: the polls *)
(* to come, and one loss of the printer process.                           *)
WaitLeft == (MaxPolls - Top.polls) + (IF link THEN 1 ELSE 0)

(* While a call waits, the window takes no click and no other call moves:  *)
(* every step that does not end the wait is one of the steps it had left,  *)
(* so that it is over after MaxPolls + 2 of them, answered or not.         *)
WaitAdvances ==
  [][TopAt("wait") /\ TopAt("wait")' => WaitLeft' \in 0..(WaitLeft - 1)]_vars

(* The wait, during which the window is dead, ends whatever the printer    *)
(* answers, or whether it answers at all.                                  *)
WaitEnds == TopAt("wait") ~> ~TopAt("wait")
=============================================================================
