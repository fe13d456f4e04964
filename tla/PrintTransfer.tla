--------------------------- MODULE PrintTransfer ---------------------------
(***************************************************************************)
(* The layer loop of the filter FP_PRINT_FLOW_2_V3, with the callback that *)
(* the main window gives it (MainWindow::QCallBack2) and what the main     *)
(* window makes of its return value (MainWindow::executeFilter).           *)
(*                                                                         *)
(* For each layer the loop asks the callback whether to go on, slices the  *)
(* layer, queues its page, and after every BatchSize layers hands the      *)
(* queue to the print job (ZxGen_SKT), which writes it to the printer over *)
(* USB or to a .zx file.  With STIFF_PRIN_V2 a layer has two pages, queued *)
(* and handed over together; here a layer's pages are one element.  Left   *)
(* out are the blank pages before the first layer, and the second job that *)
(* the loop opens after per_zx_job (10000) layers: MaxLayers is below it.  *)
(* generate_zx is always set by the callers.                               *)
(***************************************************************************)
EXTENDS Integers, Sequences, SequencesExt

CONSTANTS MaxLayers,  \* bound on the number of layers (boxy_dim)
          BatchSize,  \* send_page_num
          DoorPolls   \* 1800000 ms / 500 ms: status polls while a door is open

ASSUME TransferAssumption ==
  /\ MaxLayers \in Nat \ {0}
  /\ BatchSize \in Nat \ {0}
  /\ DoorPolls \in Nat

VARIABLES
  job,      \* what the parameters fix: see Jobs
  pc,       \* "start", "callback", "slice", "returned", "reported"
  i,        \* the layer of the loop
  queue,    \* outlineCTemp/capCTemp: sliced layers not yet handed over
  handed,   \* layers handed to sendData2(), in order
  lost,     \* layers of handed whose write to the device failed
  zx,       \* zx_skt: "open" or "closed"
  waited,   \* timeout of QCallBack2, in polls
  status,   \* the printer status the last callback read, or "none"
  asked,    \* the user chose to stop
  ret,      \* "running", "true" or "false": the filter's return value
  recorded  \* executeFilter added the job to the print history

vars == <<job, pc, i, queue, handed, lost, zx, waited, status, asked, ret, recorded>>

(* start_page, end_page and boxy_dim as the loop uses them.                *)
Jobs == [print : BOOLEAN, continue : BOOLEAN, first : 0..MaxLayers,
         last : 0..MaxLayers, box : 0..MaxLayers]

(* The entries of printerStatusmap as QCallBack2 tells them apart; "Other" *)
(* is any other status, a text it does not know, or no answer at all.      *)
Stopping == {"Online", "PostPrinting", "GettingError"}
Statuses == Stopping \cup {"DoorOpened", "Printing", "Paused", "Other"}

Closed == zx' = "closed"
Return(r) == pc' = "returned" /\ ret' = r

-----------------------------------------------------------------------------
Init ==
  /\ job \in Jobs
  /\ job.box > 0 /\ (~job.continue => job.first = 0 /\ job.last = job.box)
  /\ pc = "start" /\ i = 0 /\ ret = "running" /\ recorded = FALSE
  /\ queue = <<>> /\ handed = <<>> /\ lost = {} /\ zx = "open"
  /\ waited = 0 /\ status = "none" /\ asked = FALSE

(* Continuing after the top of the box is refused.                         *)
Refuse ==
  /\ pc = "start"
  /\ job.continue /\ job.first > job.box
  /\ Closed
  /\ Return("false")
  /\ UNCHANGED <<job, i, queue, handed, lost, waited, status, asked, recorded>>

(* Continuing sets boxy_dim to end_page.  An empty range runs no layer.    *)
Begin ==
  /\ pc = "start"
  /\ ~(job.continue /\ job.first > job.box)
  /\ job' = [job EXCEPT !.box = job.last]
  /\ i' = job.first
  /\ IF job.first < job.last
       THEN pc' = "callback" /\ ret' = ret
       ELSE Return("true")
  /\ UNCHANGED <<queue, handed, lost, zx, waited, status, asked, recorded>>

(* The callback returned false: close the job and leave the filter.        *)
Stop ==
  /\ Closed
  /\ Return("false")
  /\ UNCHANGED <<job, i, queue, handed, lost, recorded>>

GoOn ==
  /\ pc' = "slice"
  /\ UNCHANGED <<job, i, queue, handed, lost, zx, ret, recorded>>

(* "start_printing_slice_process": poll the printer until it prints.       *)
PollStops(s) ==
  /\ pc = "callback" /\ job.print /\ s \in Stopping
  /\ status' = s
  /\ Stop
  /\ UNCHANGED <<waited, asked>>

PollGoesOn(s) ==
  /\ pc = "callback" /\ job.print /\ s \in Statuses \ (Stopping \cup {"DoorOpened"})
  /\ status' = s /\ waited' = 0
  /\ GoOn
  /\ UNCHANGED asked

(* Faulty variants of PollWaits: the wait starts again at its limit; there *)
(* is no wait.                                                             *)
PollWaitsAgain ==
  /\ pc = "callback" /\ job.print
  /\ status' = "DoorOpened"
  /\ waited' = IF waited + 1 > DoorPolls THEN 0 ELSE waited + 1
  /\ UNCHANGED <<job, pc, i, queue, handed, lost, zx, asked, ret, recorded>>

PollIgnoresDoor ==
  /\ pc = "callback" /\ job.print
  /\ status' = "DoorOpened"
  /\ GoOn
  /\ UNCHANGED <<waited, asked>>

(* A door is open: sleep 500 ms and poll again, for half an hour at most.  *)
PollWaits ==
  /\ pc = "callback" /\ job.print
  /\ status' = "DoorOpened"
  /\ waited' = waited + 1
  /\ IF waited + 1 > DoorPolls
       THEN Stop
       ELSE UNCHANGED <<job, pc, i, queue, handed, lost, zx, ret, recorded>>
  /\ UNCHANGED asked

(* "slice_process": the user may press pause or cancel.  A box that was    *)
(* not shown leaves result or result2 uninitialised, and the function      *)
(* compares both: unless the user chose to stop, it may return either.     *)
FileCallbackStops ==
  /\ pc = "callback" /\ ~job.print
  /\ asked' \in BOOLEAN
  /\ Stop
  /\ UNCHANGED <<waited, status>>

FileCallbackGoesOn ==
  /\ pc = "callback" /\ ~job.print
  /\ GoOn
  /\ UNCHANGED <<waited, status, asked>>

(* The end of the loop body: the next layer, or out of the loop.           *)
NextLayer ==
  /\ i' = i + 1
  /\ IF i + 1 < job.last
       THEN pc' = "callback" /\ ret' = ret
       ELSE Return("true")
  /\ UNCHANGED <<job, waited, status, asked, recorded>>

Full == (i + 1) % BatchSize = 0
Top  == i + 1 = job.box

(* sendData2(): the queue and the layer's pages go to the print job.       *)
SendData ==
  /\ handed' = handed \o Append(queue, i)
  /\ queue' = <<>>

(* Layers of the batch whose write to the device may fail.                 *)
WriteFails(failed) ==
  /\ failed \subseteq ToSet(queue) \cup {i}
  /\ failed # {} => job.print

(* Faulty variants of LayerKept and LayerSent: the last, smaller batch     *)
(* stays in the queue; the queue is not cleared; close() comes one layer   *)
(* early.                                                                  *)
LayerKeptAtTop ==
  /\ pc = "slice"
  /\ ~Full
  /\ queue' = Append(queue, i)
  /\ NextLayer
  /\ UNCHANGED <<handed, lost, zx>>

LayerSentTwice(failed) ==
  /\ pc = "slice"
  /\ Full \/ Top
  /\ WriteFails(failed)
  /\ handed' = handed \o Append(queue, i)
  /\ queue' = Append(queue, i)
  /\ lost' = lost \cup failed
  /\ IF Top THEN Closed ELSE UNCHANGED zx
  /\ NextLayer

LayerSentClosesEarly(failed) ==
  /\ pc = "slice"
  /\ Full \/ Top
  /\ WriteFails(failed)
  /\ SendData
  /\ lost' = lost \cup failed
  /\ IF i + 1 >= job.box - 1 THEN Closed ELSE UNCHANGED zx
  /\ NextLayer

(* The layer is sliced and queued; its batch is not complete.              *)
LayerKept ==
  /\ pc = "slice"
  /\ ~Full /\ ~Top
  /\ queue' = Append(queue, i)
  /\ NextLayer
  /\ UNCHANGED <<handed, lost, zx>>

(* The batch is complete, or the layer is the last one: hand the queue to  *)
(* the print job, and close the job after the last layer.  A failed write  *)
(* to the device only sets sendSuccessful, and nobody acts on it.          *)
LayerSent(failed) ==
  /\ pc = "slice"
  /\ Full \/ Top
  /\ WriteFails(failed)
  /\ SendData
  /\ lost' = lost \cup failed
  /\ IF Top THEN Closed ELSE UNCHANGED zx
  /\ NextLayer

(* executeFilter warns "Transfer not complete", or records the job.        *)
Report ==
  /\ pc = "returned"
  /\ pc' = "reported"
  /\ recorded' = (ret = "true")
  /\ UNCHANGED <<job, i, queue, handed, lost, zx, waited, status, asked, ret>>

Poll  == \E s \in Statuses : PollStops(s) \/ PollGoesOn(s)
Layer == LayerKept \/ \E failed \in SUBSET (ToSet(queue) \cup {i}) : LayerSent(failed)

Next == \/ Refuse \/ Begin \/ Report
        \/ Poll \/ PollWaits
        \/ FileCallbackStops \/ FileCallbackGoesOn
        \/ Layer

Spec == Init /\ [][Next]_vars

(* The filter runs on the GUI thread and nothing else does: it goes on as  *)
(* long as it can.  Nothing is assumed of the printer: a door may stay     *)
(* open for ever.  A call to the printer process returns, see              *)
(* EveryCallReturns of Comm3DPCall.                                        *)
FairSpec == Spec /\ WF_vars(Next)
-----------------------------------------------------------------------------
(* Every variable has its type; the queue is never longer than a batch.    *)
TypeOK ==
  /\ job \in Jobs
  /\ pc \in {"start", "callback", "slice", "returned", "reported"}
  /\ i \in 0..MaxLayers
  /\ queue \in Seq(0..MaxLayers) /\ Len(queue) < BatchSize
  /\ handed \in Seq(0..MaxLayers)
  /\ lost \subseteq 0..MaxLayers
  /\ zx \in {"open", "closed"}
  /\ waited \in 0..(DoorPolls + 1)
  /\ status \in Statuses \cup {"none"}
  /\ asked \in BOOLEAN
  /\ ret \in {"running", "true", "false"}
  /\ recorded \in BOOLEAN

(* What was handed over followed by what is queued is every layer sliced   *)
(* so far, once and in order: batches neither drop nor repeat nor reorder  *)
(* a layer, whatever the first layer and the batch size.                   *)
InOrder ==
  /\ handed \o queue = [k \in 1..(Len(handed) + Len(queue)) |-> job.first + k - 1]
  /\ pc \in {"callback", "slice"} => Len(handed) + Len(queue) = i - job.first

(* The filter returns true only after it has handed over every layer of    *)
(* the job and closed it: the last batch is not forgotten.  (An empty      *)
(* range has no layer to hand over; see ClosedAtEnd.)                      *)
CompleteIsAll ==
  (ret = "true" /\ job.first < job.last) =>
    /\ handed = [k \in 1..(job.last - job.first) |-> job.first + k - 1]
    /\ queue = <<>> /\ zx = "closed"

(* The job is open as long as the filter runs, so that no layer is handed  *)
(* to a closed one, and closed when it returns.  One way out leaves it     *)
(* open: an empty range (end_page not after start_page, as both are 0      *)
(* before they are set) runs no round of the loop, where close() is, and   *)
(* the filter returns true.                                                *)
ClosedAtEnd ==
  (zx = "open") <=> (ret = "running" \/ (ret = "true" /\ job.first >= job.last))

(* No layer goes to a printer that was last seen idle, finished, in error  *)
(* or with a door open: between two layers the status is read again.       *)
NeverPastStop ==
  [][(handed' # handed /\ job.print) =>
       status \notin Stopping \cup {"DoorOpened", "none"}]_vars

(* How many steps the filter can still take.  A layer takes at most        *)
(* LayerSteps of them: the polls at an open door, one that lets it go on,  *)
(* and the layer itself.                                                   *)
LayerSteps == DoorPolls + 2
StepsLeft ==
  CASE pc = "start"    -> MaxLayers * LayerSteps + 2
    [] pc = "callback" -> (job.last - i) * LayerSteps + 1 - waited
    [] pc = "slice"    -> (job.last - i - 1) * LayerSteps + 2
    [] pc = "returned" -> 1
    [] pc = "reported" -> 0

(* Whatever the printer answers, every step brings the filter closer to    *)
(* its return: the GUI thread is held for a number of steps known when the *)
(* job starts, as no wait at a door starts again.                          *)
LoopAdvances == [][StepsLeft' \in 0..(StepsLeft - 1)]_vars

(* The filter always returns, even if the door stays open for ever.        *)
AlwaysReturns == <>(pc = "reported")

(* The contract of a filter towards the main window, see TransferService.   *)
Service == INSTANCE TransferService WITH
  first <- job.first, last <- job.last, out <- handed, outcome <- ret

ImplementsTransfer == Service!Spec

(* assert(bRetVal>0) in transportToUSBDevice (winapi_io.cpp:552), and the  *)
(* comment "print not complete" on the other branch of executeFilter       *)
(* (mainwindow_RunTime.cpp:2289): a job that is recorded was transferred.  *)
RecordedIsTransferred == recorded => lost = {}

(* "callback2 return cancel" (generate_print_func.cpp): writing a .zx file *)
(* ends early only when the user cancelled it.                             *)
CancelIsTheUsers ==
  (ret = "false" /\ ~job.print /\ ~(job.continue /\ job.first > job.box)) => asked
============================================================================
