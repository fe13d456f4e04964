# BCPware in TLA+

BCPware (`src/bcpware/src/bcpware`) is a Windows desktop program, built with
Qt and OpenGL, that loads coloured meshes, places them in the build box of a
powder and ink 3D printer, slices them, and sends the layers to the printer.
This directory holds TLA+ models of the parts of the program in which control
rather than geometry decides whether a print comes out right: the protocol
spoken with the printer process, the start of a print, the checklist that lets
it go on, the loop that slices and hands over layers, the announcement of the
wiping interval, the reading of the ink status, and the list of meshes under
its undo stack.

Contents

1. The system
2. The components and what makes each correct
3. The models
4. What the runs check
5. Fairness
6. What is proved, and how
7. Where the code and its own words disagree
8. What is not modelled
9. Plan

## 1. The system

Two processes make a print.

* **BCPware**, one GUI thread that also slices and transfers. Timers and
  nested event loops (`QEventLoop::exec`, `qApp->processEvents`) interleave
  slots, but there is never a second thread of control inside the models'
  scope.
* **The printer process** `chip3dpcomm.exe`, which talks to the printer's
  electronics. BCPware reaches it over a TCP socket on the local machine
  through one object of class `Comm3DP` (`main.cpp`). Page data do not take
  that way: they go from the plugin straight to a USB device, or to a `.zx`
  file (`zxgen.h`, `winapi_io.cpp`).

How a print goes, in the order of the code:

    printOption          chooses mode, heating, wiping; enables "Prepare"
      printFunction      (mainwindow_RunTime.cpp 7689-8072)
        -> Comm3DP       heating, midjob mode and interval, wiper, print mode
        CheckListWidget  dialog; polls ink and axes through Comm3DP
        -> Comm3DP       job header; then wait until the status is "Printing"
        executeFilter("FP_PRINT_FLOW_2_V3")          generate_print_func.cpp
          for each layer:
            QCallBack2   status through Comm3DP, go on, wait or stop
                         + announce a changed wiping interval
            QCallBackdata  enter the wiping interval of the layer before
            slice the layer, queue it
            sendData2    every send_page_num layers, and at the end
        executeFilter    warns, or adds the job to the print history

| shared state | written by | read by |
|---|---|---|
| the socket and `recvstr` of `Comm3DP` | every method of `Comm3DP` | the same method, before it returns |
| `MainWindow::dynamicWipe` | `QCallBackdata` | `QCallBack2`, `countJobWipe` |
| `MainWindow::finalDynamicPage` | `QCallBack2` | `countJobWipe` |
| `quickWipe` | the slicing of a layer | the callback of the next round |
| the boxes and `builderFeederReady` of the checklist | the user's clicks, the timer's poll | `checkListIsReady` |
| the filter's return value | the layer loop | `executeFilter` |
| `MeshDocument::busy` | every filter and import, when it begins and ends | the menu: Print is disabled while it is set |
| `meshList`, `multiSelectID`, `resetMeshList` | the user's operations, the commands of the undo stack | each other: commands hold ids, never pointers |

What is hard about it:

* The protocol has **no request numbers**: an answer belongs to a command by
  position alone, over a byte stream that `recv` cuts anywhere.
* `recv` has **no timeout**; the GUI thread waits inside it.
* The printer process can **die** between the two halves of a call.
* The layer loop keeps several counters that have to agree (layer, batch,
  first and last layer of a continued job, top of the box), and **closes the
  job at four places**.
* The wiping interval is decided **one round late and announced four pages
  ahead**, with special cases for the first entries.
* The checklist mixes **a timer and a user**, and a flag that is stored after
  the decision it enters.
* `printFunction` **runs the event loop between its commands** to the printer,
  and filters call `processEvents()`: a second print can run on top of the
  first. What keeps them apart is a flag, `busy`, not a count.
* A command of the undo stack **finds its meshes again by id** in whatever the
  document holds by then, and repeats an import by **reading the file again**,
  which may be refused the second time.

## 2. The components and what makes each correct

**Comm3DP call protocol** (`comm3DP.cpp`, `comm3DP.h`, `commProtocol.h`).
State: socket, `_initFail`, `recvstr`. Operations: some eighty methods, all
of one shape: `send` a command that ends with ENDCHAR, `catchResponse`, turn
the text into a return value. Correct if each method reports the printer's
own verdict on its own command, leaves nothing behind in the stream for the
next one, and returns.

**Layer loop and transfer** (`generate_print_func.cpp`, `zxgen.h`,
`sirius_print_job.h`, `winapi_io.cpp`). State: layer index, queues of sliced
pages, print job. Operations: check of the range, one round of the loop,
batch hand-over, close. Correct if every layer is handed over once and in
order, a job that ends well is whole, no layer goes to a closed job and the job
is closed when the filter returns (which fails for an empty continued range, see
section 7), and nothing is handed over after the printer stopped.

**Transfer callback and job record** (`mainwindow_RunTime.cpp`). State: the
polls waited for a door, the history. Operations: `QCallBack2` in its printer
and its file branch, `executeFilter`. Correct if it stops only on what the
printer or the user said, always answers, and records what was transferred.

**Dynamic wiping** (`mainwindow_RunTime.cpp`, `generate_print_func.cpp`).
State: the table of intervals, the plan that was announced. Operations: one
round of fill, compare, announce and insert; the count at the end. Correct if
the printer, following the plan, wipes as the table says, hears of a change
in time, and the count is the number of wipes.

**Checklist before a print** (`CheckListWidget.cpp`, `checklist.ui`). State:
five boxes, two buttons, one flag. Operations: click, skip, start, close,
poll. Correct if neither button is enabled unless what it stands for was
checked.

**Reading the ink status** (`inkStatus`, `inkStatus2`, `inkLevel`). State:
eight values. Operations: one token of the answer. Correct if every field gets
its own value or the method fails.

**Connection to the printer process.** Opened once by the constructor;
`reset()` exists and is never called. Only its outcome is in the model.

**Start of a print** (`printFunction` in `mainwindow_RunTime.cpp`,
`printOption.cpp`). State: the calls of `printFunction` that have not returned,
one inside the other; `busy`; Prepare; what the printer was sent. Operations:
one per stretch between two places where something else can happen. Correct if
each print uses its own settings and its own job, one at a time, leaves no job
behind at the printer, and its wait ends.

**Mesh document and undo** (`meshmodel.cpp`, `command.cpp`, `threemf_manip.cpp`,
`mainwindow_RunTime.cpp`, `glarea.cpp`). State: list, next id, current mesh,
selection, clipboard, entries for a reset, stack. Operations: import, import of
a project, select, copy, paste, delete, edit, reset, save, undo, redo. Correct
if undo and redo bring back what was there, and no id or pointer is followed
that names nothing.

**Settings and NVM**, **Monitor and history**, **Packing**, **Slicing and
imaging**, **Web service and login**, **Import and export**: see 8.

## 3. The models

### Comm3DPCommands, Comm3DPCall, Comm3DPService

`Comm3DPCommands` is the vocabulary: each method of `Comm3DP`, in groups that
follow the source, and `Succeeds(cmd, reply)`, which is how the method turns
an answer into success. There are four such ways: `OK` only; any text; any
text but `ERR`; a text that parses. An answer is abstracted to `"OK"`,
`"ERR"`, `"value"` (well formed for this command) and `"other"`.

`Comm3DPCall` is the protocol at the level of the byte stream.

| model | code |
|---|---|
| `link` | `_initFail`, and whether the peer is alive |
| `requests`, `stream` | the two directions of the socket, in tokens |
| `recvstr` | the member of that name |
| `call`, `calls`, `result` | which method is running, how many ran, what the last one returned |
| `SendFails`, `Send` | the early returns, and `send` followed by the `recvstr.clear()` of `catchResponse` |
| `RecvMore`, `RecvEnd`, `RecvClosed` | the three ways one `recv` in the loop of `catchResponse` ends |
| `Serve`, `LoseLink` | the printer process (not part of this repository) |

An answer to call *i* is `AnswerLen` tokens *i* and an `End`. `recv` takes any
non-empty prefix of what has arrived, at most `RecvLen` tokens, and what
follows an ENDCHAR in the same chunk is dropped, as in the code. When the
printer process dies, unread commands are gone and any prefix of its output
still arrives; the first `send` after that may still succeed.

`Comm3DPService` is the same thing as callers see it: ask, be carried out at
most once, return the printer's verdict; give up only when the connection is
broken. `Comm3DPCall` implements it by the mapping at the end of the module.

### PrintTransfer, TransferService

The layer loop with its callback and its caller. `job` holds what the
parameters fix (print or file, continued or not, first and last layer, top of
the box). `Refuse` and `Begin` are the checks before the loop; `PollStops`,
`PollGoesOn` and `PollWaits` are the `start_printing_slice_process` branch of
`QCallBack2`, `FileCallbackStops` and `FileCallbackGoesOn` its `slice_process`
branch; `LayerKept` and `LayerSent` are the rest of the loop body; `Report` is
`executeFilter`. The uninitialised `result` and `result2` of the file branch
are a free choice. A write that fails is a free choice of the layers lost.

`TransferService` is what the main window may rely on, without batches, polls or
queues: the layers of the range leave the program in portions of any size, in
order; the filter reports true exactly with the last of them, may report false
before, and does nothing after its report. `PrintTransfer` implements it with
`handed` as what left and `ret` as the report.

Simplified: a layer is a number, without its image and pages. Left out: the
blank pages before the first layer, and the second job that the loop opens
after `per_zx_job` (10000) pages.

### DynamicWipe

`Round` is one round of the loop as wiping sees it: fill in pages 6 and 7 when
there are three entries, announce the newest entry if it differs from the one
before, enter the interval of the layer before this one at `i - 1 + 5`, slice.
`countJobWipe` is the function of that name. `AtPage` and `Wiping` say what a
printer does with the plan: it uses the last interval announced for a page not
after this one, counts pages, and wipes at a change as well. `CountIsWipes`
compares the two in the states that are `Settled`: something was announced, or
the newest entry is the normal interval. In the others `countJobWipe` is wrong
(section 7).

### CheckList

`Click`, `Skip`, `Start`, `Close` and `Poll` are the slots of the dialog. The
poll keeps the order of the code: ink first, then the axes, whose change of the
space box runs `checkListIsReady` through `stateChanged`, and only then the
flag. The tick of the ink box is taken away by `setChecked(false)`, which emits
no `clicked`, so nothing is evaluated. `builderFeederReady` has no initial
value in the code and starts free. Three variables are history: `skipped`,
`axes`, `judged`.

### PrintStart

`running` is the C++ stack as far as it matters: the calls of `printFunction`
that have not returned. Only the innermost one moves; a click on Print adds one
in the places where the main window takes clicks (`Active`): the two event loops
of 500 ms around the infrared command, and inside a filter. Everywhere else a
modal dialog or the sleeping wait has the thread.

| model | code (`mainwindow_RunTime.cpp`, `printOption.cpp`) |
|---|---|
| `PrintClicked`, `Detected`, `PrintAnyway` | the menu item, the filter that tests for overlapping meshes, its question |
| `Estimate`, `NoEstimate`, `Estimated`, `PollOption`, `Prepared` | the question whether to estimate the ink, and the option dialog with its poll |
| `Infrared`, `Checklist` | the end of each event loop and the commands up to the next place |
| `Cancelled`, `Header`, `HeaderRefused`, `HeaderUnheard` | the checklist's outcome and the job header; the last: accepted, but the answer is lost |
| `Printing`, `NotPrinting`, `BoxClosed` | the wait for the status Printing, 1200 polls in the code, and the message boxes |
| `Transfer`, `Transferred` | picture for the history, then the print filter |
| `Release` | another filter or import that ends inside `processEvents()` and clears `busy` |
| `held`, `missed` | which call a setting at the printer comes from, and which settings a call failed to send (results are not looked at) |
| `sent`, `gaveUp`, `released` | history |

### UndoDocument

| model | code |
|---|---|
| `meshes`, `counter`, `current` | `MeshDocument::meshList`, its counter of ids, `currentMesh` (as a place in the list) |
| `selected`, `clipboard`, `resetList` | `multiSelectID`, `copiedMeshList`, `resetMeshList` |
| `stack`, `cursor` | `undoStack` and its index |
| `Made`, `Without`, `Kept`, `Found` | `addNewMesh`, `delMesh`, the current mesh after it, `getMesh` |
| `Import`, `ImportRefused`, `ImportProject` | `importMesh`, and `open_3mf` with its command at the end |
| `Select`, `Toggle`, `SelectAll`, `SelectNone`, `Copy`, `Paste`, `Delete`, `Edit`, `Save` | the operations of that name |
| `Reset` and the steps `ResetCopy`, `ResetObject`, `ResetFile`, `ResetRefused`, `ResetDone` | `reload()`: delete the selection, bring back mesh after mesh, push the command |
| `Undo`, `Redo...` and the steps `ReimportObject`, `ReimportFile`, `ReimportRefused` | `undo()` and `redo()` of the commands |
| `crash` | a null pointer, or an index past the end, was followed |
| `views`, `faults` | history: the list before and after each command; what went wrong that the commands do not provide for |

A mesh is its id, where it came from, and whether it is a 3mf object; ids are
given as the code gives them, so that a redo under an old id is visible. A
*fault* is a file that is refused at a reset or a redo, another file chosen in
place of a name that is missing, a project that was read in part, or a paste
whose redo exchanges two copies.

### InkStatus

The loop over tokens in `inkStatus`, `inkStatus2` and `inkLevel`: `Skip` a token
that names no field, `Read` the value after a name, `Refuse` a value that is
missing or no number, `Report`. An answer is a set of fields in any order with
any values, possibly cut off before the last one.

### Faulty variants

Some modules define variants of an action, marked *Faulty variant*, that no
specification uses. Each is a plausible mistake in the code and stands next to
the right action; put in its place it makes the property it belongs to fail.
They document what each property is there to catch.

### How they fit together

The models meet at `Comm3DPService`: the other modules use a call to the
printer process as one step that returns the printer's answer or fails, which
is what `Comm3DPService` allows and `Comm3DPCall` is proved to implement. In
`PrintStart` the checklist is its outcome, which `CheckList` details, and the
transfer its duration, which `PrintTransfer` details; of the mesh document only
`busy` is in it. For the polls of `PrintTransfer` a failed call is the status `"Other"`, for those of
`CheckList` it is `"silent"`. `DynamicWipe` and `PrintTransfer` look at the same
loop; neither changes what the other reads, so they are kept apart.

## 4. What the runs check

| run | bounds | distinct states | shows |
|---|---|---|---|
| `comm_call` | 3 calls, one command of each of the four ways to read an answer, 2 tokens and `End` per answer, `recv` of up to 4 | 18964 | `TypeOK`, `OwnAnswer`, `PrintersVerdict`, `NothingInFlight`, `NeverBothWait`, `ImplementsService`, `CallAdvances`, `EveryCallReturns` |
| `transfer` | up to 5 layers, every range, batches of 2, 2 polls at a door | 5578 | `TypeOK`, `InOrder`, `CompleteIsAll`, `ClosedAtEnd`, `NeverPastStop`, `LoopAdvances`, `ImplementsTransfer`, `AlwaysReturns` |
| `wipe` | 10 rounds from layer 0, 1 or 2, intervals 4 and 6 | 2770 | `TypeOK`, `PlanReplaysTable`, `CountIsWipes`, `AnnouncedAhead` |
| `checklist` | none needed, the dialog is finite | 1233 | `TypeOK`, `HandChecked`, `SkipHasRoom`, `EnabledWithInk` |
| `ink` | 4 known fields and 1 other, numbers 0 and 7 | 164657 | `FailsOnUnreadable`, `OwnValue` |
| `print_start` | 2 calls of `printFunction`, 2 polls, 2 settings sent after the loops | 136252 | `TypeOK`, `OwnSettings`, `OneAtATime`, `OwnJob`, `JobIsFollowed`, `WaitAdvances`, `WaitEnds` |
| `undo` | 2 files and project objects, 4 ids, 3 commands, no step after a fault | 81210 | `TypeOK`, `SelectionLive`, `CurrentListed`, `HistoryMatches`, `OneMeshPerId`, `MovedMeshesLive`, `EntriesKept` |
| `transfer_usb`, `transfer_cancel`, `wipe_continue`, `checklist_all`, `undo_unique` | small | | violations, see 7 |

Why the bounds are enough.

* **comm_call**: an error in pairing needs one call to leave something behind
  and one to find it; the third lets that one leave something too. With
  `RecvLen` above the length of an answer, a chunk can hold a whole answer and
  more; as `recv` may return fewer tokens, every cut occurs too. Within one group of commands, `Succeeds` does
  not depend on the command.
* **transfer**: five layers with batches of two give a full batch, a last batch
  that is not full, ranges that start inside a batch, the empty range and the
  refused one. Two polls reach the limit of the wait at a door (3600 in the
  code). The proofs of section 6 hold for every value of all three.
* **wipe**: ten rounds fill the table to page 13 at least, which passes through all
  special cases (fewer than three entries, exactly three, more), and leave room
  for two intervals after the first change. Two values are enough to be equal
  or not; 4 is the normal interval and the 4 that is filled in.
* **ink**: two colours with level and tank size; the code treats all eight
  fields alike, and percentages are not in the model.
* **print_start**: two calls are enough for one inside the other, in every place
  where that can happen; two settings after the loops for one that is taken and
  one that is not; two polls for a wait that ends before, at and after the limit.
  The proofs hold for any number of calls, polls and settings.
* **undo**: three commands are one that makes a mesh, one that changes or deletes
  it, and one that meets what undo or redo left; four ids let a reset or a paste
  give a second id to two meshes. Files are alike, which the symmetry uses.
  States after a fault are checked but not explored further (`NoFault`), as the
  properties that need more than one command say nothing of them; it also keeps
  the clipboard at two copies. A redo that asks for a file because the mesh has
  no name (`MayRead` of the object) needs more commands than the run has. The
  proofs have neither the bounds nor `NoFault`.

Deadlock is not checked in any run, because each of these systems really stops:
the calls are used up, the job is reported, the dialog is closed, the answer is
read, the prints or the commands of the bound are used up, or a null pointer
ended the program. That nothing stops too early is the business of
`EveryCallReturns`, `AlwaysReturns` and `WaitEnds`, and of the properties beside
them that need no fairness: `NeverBothWait` (while a method is in `recv`, either
bytes, or a command to serve, or the end of the connection is there), and
`CallAdvances`, `LoopAdvances` and `WaitAdvances` (each step uses up one of a
number of steps that is fixed when the call, the job or the wait begins).

## 5. Fairness

`Comm3DPCall!FairSpec` assumes weak fairness of `Receive`: a thread inside a
blocking `recv` goes on when there is something to receive. It also assumes
that the printer process, while it lives, answers a command it was sent. That
is an assumption about another program, and it is needed: `recv` has no
timeout, and a printer process that lives and stays silent blocks the GUI
thread for good. No fairness is assumed of calls being made or of the
connection being lost.

`PrintTransfer!FairSpec` assumes only that the program goes on when it can, as
the filter owns the GUI thread until it returns. Nothing is assumed of the
printer: a door may stay open for ever, and the count of the polls ends it.

`PrintStart!FairSpec` assumes weak fairness of `Poll` alone: the wait for
Printing is a loop with a sleep on the GUI thread, so nothing of the program can
keep it from its next round, and a call to the printer process returns
(`EveryCallReturns`). Nothing is assumed of the user, of the printer's status or
of the connection.

## 6. What is proved, and how

The proofs hold for every value of the constants, under the named assumptions
in the modules (`CallAssumption`, `TransferAssumption`, `StartAssumption`,
`WipeAssumption`, `InkAssumption`, `ObjectIsNoFile`, `BoundsAreNat`), which say no
more than that bounds are numbers, lengths and intervals are positive, commands
are known ones, the fields of an answer are finitely many, and what a project
holds is no file.

**Comm3DPCall_proofs.** `OwnAnswer` is not inductive: it says nothing of a call
that is half done. The invariant `IInv` adds what is between the two halves.
`InTransit(calls)`: what is in `recvstr` followed by what is in `stream` is a
beginning of one answer, the one to the call in progress, with its `End` in the
right place. `Alive(calls)`: while the connection lives, either the command
waits for the printer process and nothing has been answered, or the whole
answer is on its way. With these, a chunk that contains an `End` must end with
it, so `RecvEnd` drops nothing (`RecvEndText`), and `NothingInFlight` holds
when the call is over. From `IInv` follow `TypeCorrect`, `OwnAnswerCorrect`,
`PrintersVerdictCorrect` and `NothingInFlightCorrect`. `Refinement` states
that the protocol implements `Comm3DPService`, by the same invariant and one
step per action (`ServiceStep`). What can be said of the return of a call
without fairness is proved too. `NeverBothWaitCorrect`: by `Alive`, either the
command is still to be read, or what `recvstr` lacks of the answer is in the
stream, and it lacks at least the `End`. `CallAdvancesCorrect` and `CallBounded`:
`StepsLeft`, the bytes in the stream, the answer to an unread command and one
loss of the link, falls with every step inside a call and starts at no more than
`AnswerLen + 3`.

**PrintTransfer_proofs.** The batches are the difficulty: they end where
`(i + 1) % BatchSize` is 0, counted from the bottom of the box, while the queue
of a continued job starts at its own first layer. `IInv` says that `handed` and `queue` together hold the layers
from the first one on (`Batches`), that inside the loop their lengths add up to
the layers done and that the queue is no longer than `i % BatchSize`
(`InLoop`), and what holds before the loop, after it, and on each way out
(`BeforeLoop`, `AfterLoop`, `Exits`). The arithmetic is in two lemmas,
`QuotientUnique` and `RemainderGrows`. From it follow `TypeCorrect`,
`InOrderCorrect`, `CompleteIsAllCorrect` and `ClosedAtEndCorrect`;
`NeverPastStopCorrect` uses one more invariant: whenever a layer is being
sliced for the printer, the last status allowed it (`Allowed`).
`LoopAdvancesCorrect` is the bound on the running time: a layer takes at most
`LayerSteps = DoorPolls + 2` steps, so that `StepsLeft` starts at
`MaxLayers * LayerSteps + 2`, is a natural number everywhere (`StepsLeftIsNat`)
and falls with every step, also while a door is open (`WaitAdvances`).
`Refinement` states that the loop implements `TransferService`: `LayerKept`, the
polls and the report are steps that the abstract filter does not see, and
`LayerSent` hands over exactly the next `Len(queue) + 1` layers
(`SentIsHandOver`), which are the last ones if and only if the loop ends.

**CheckList_proofs.** `TypeCorrect`, `HandCheckedCorrect`,
`SkipHasRoomCorrect` and the action property `EnabledWithInkCorrect`. The
invariants are inductive once types are known; the content is in the order of
effects inside `Poll`, for every order of clicks and polls.

**PrintStart_proofs.** `OwnSettings` and `OwnJob` say something of calls deep
in the stack, which move only when everything above them has returned. `IInv`
adds that the calls are numbered in the order they were made (`Ordered`), that
every call but the innermost is where the main window is usable (`Under`), what
the printer holds for each place a call can be at (`Kept`), and that `busy` is
set exactly while a filter is on top, until another filter clears it (`Flag`).
Every action is an instance of `StepMoved` (the innermost call moves) or
`StepReturn` (it returns), two lemmas that say what a step owes the invariant.
`WaitAdvancesCorrect` adds that while a call waits nothing but its own polls and
the loss of the printer process can happen (`WaitSteps`), and that each of them
is counted.

**UndoDocument_proofs.** `SelectionLive` is inductive by itself and holds with
faults. The others hold while `faults` is empty, from `IInv`, whose part `Good`
says: every view of the stack is the one before it with the command applied
(`History`); an id that has been given names the same mesh in the list and in
every view (`KnownIds`); no two meshes of the list share an id; the 3mf objects
of the views have entries (`Entries`); and, between operations, the list is the
view at the cursor, or, inside a reset or a redo, what that loop has brought back
so far (`Looping`). From it follow
`HistoryMatchesCorrect`, `OneMeshPerIdCorrect`, `MovedMeshesLiveCorrect` and
`EntriesKeptCorrect`.

**UndoPlaces_proofs.** `TypeCorrect` and `CurrentListedCorrect` hold with faults,
and speak of places in the list. Their invariant `PInv` says that the places of
the meshes are 1 to their number, each taken once (`Places`), that the current
one is 0 or among them, that the tables and the stack have their types, and
that a reset under way leaves enough ids for what it has still to read
(`ToDo`). The work is in `Without`, which closes the gaps: the deleted meshes
before a place are at most the places before it (`Between`, an injection into
an interval), so a mesh that stays moves to a place from 1 to the number that
stays, and two of them keep their order (`NewPlaces`); `PlacesWithout` and
`KeptListed` follow. That `getMesh` has a first mesh to find is the smallest
element of a set of numbers (`Smallest`).

**DynamicWipe_proofs.** `TypeCorrect` and `AnnouncedAheadCorrect` hold for every
first layer: the table's last page `Top` moves on by one in every round, the
plan stays below it, and filling in pages 6 and 7 cannot touch it, since three
entries reach page 8 at least (`FilledFacts`). `PlanReplaysTableCorrect` is
stated for `FirstLayers \subseteq 0..2` and `Normal = 4`, as it is false
otherwise (section 7): then the table has no gap (`Dense`; for any first layer
`TypeOK` says where the gap may be, by `Entries`), so the new entry is
compared with that of the page before it, where the printer's interval is right
already (`LaterEntry`); `ThirdEntry` is the case where the first two are filled
in. `Latest` says that of the announcements up to a page there is a last one,
so that `Max` is one of them. `CountIsWipesCorrect` compares two countings:
`Wiping` counts page by page, by recursion, what a printer with this plan does;
`countJobWipe` adds one quotient per announced change. That the recursive
definition satisfies its equation is proved (`WipingRecursion`), by iterating
its step (`Iterates`) and induction over a set of numbers, which needs no
theorem with an operator parameter: a set of counterexamples has a smallest
element (`Smallest`, `Inducts`). That the sum does not depend on the order of the
summands is `SumOfOne`. Between two announced changes the printer wipes as often
as the quotient says (`Stretch`, from `SameQuotient` and `NextQuotient`);
`WipesUpTo` adds up the stretches, by induction over the announced pages. This
theorem holds for every first layer, gaps in the table or not, in the `Settled`
states. With nothing announced it is one quotient (`CountIsFirst`). Otherwise it
needs an invariant of its own, `CInv`: once anything is announced, page 6 is filled in with
4, the interval that the count starts with, and stays so (`FirstFilled`,
`FirstStays`), and nothing is announced for a page before 8. It needs `Normal = 4`
for the pages before the first change, where the printer uses what it started
with.

**InkStatus_proofs.** `OwnValue` speaks of the answer and the end of the loop
only. `IInv` remembers an order of the fields (`Order`) and how far it was read
(`Position`): the tokens left are its end, names at odd places and values at
even ones, the known fields passed hold their values and the others nothing. A
value is never taken for a name, because a known name is dropped together with
its value. `FailsOnUnreadableCorrect` and `OwnValueCorrect` follow for any
fields, numbers and order.

**Only model-checked**: the three liveness properties `EveryCallReturns`,
`AlwaysReturns` and `WaitEnds`, since the prover handles no ENABLED and so no
fairness, though not the bounds they rest on, which are proved; and the
violations. Every invariant and every action property of a passing run, and both
refinements, are theorems.

## 7. Where the code and its own words disagree

Five runs end in a violation, each of a property that states words found in the
repository.

* `transfer_usb`, `RecordedIsTransferred`. A write to the USB device that fails
  is noted in `sendSuccessful`, which becomes part of a text that nobody uses
  (`generate_print_func.cpp` 17707). The loop goes on, the filter returns true,
  and the job is recorded with a layer missing. `winapi_io.cpp:552` asserts that
  writes succeed, in debug builds only.
* `transfer_cancel`, `CancelIsTheUsers`. `result` and `result2` of `QCallBack2`
  have no initial value and are both compared, even if a box was never shown
  (`mainwindow_RunTime.cpp` 6005-6024). Writing a `.zx` file can end as
  cancelled by a user who pressed nothing.
* `wipe_continue`, `PlanReplaysTable`. Pages 6 and 7 are filled in with the
  normal interval whatever the first layer is (`mainwindow_RunTime.cpp` 5866).
  A job continued at layer 3 or later has its first entries elsewhere, so its
  first interval is compared with itself and never announced.
* `checklist_all`, `StartChecksAll`. `checklist.ui:467` says "Check all item
  before printing." `checkListIsReady` looks at a stored flag in place of the
  space box (`CheckListWidget.cpp` 134). The flag has no value before the first
  poll (the trace of the run); each poll stores it after the list was evaluated
  with the flag of the poll before (405); and the ink box is unticked by
  `setChecked(false)` (389), while only its `clicked()` is connected to the
  evaluation. Each leaves Start enabled with a box unticked.
* `undo_unique`, `UniqueIds`. When a reset cannot read its file again, the mesh
  that is current then is selected in its place (`mainwindow_RunTime.cpp` 4996)
  and becomes part of the command, whose redo adds it a second time under its
  id. `meshmodel.h:706` speaks of "the mesh with the given unique id".

Other behaviour met while modelling, with no words in the repository that it
contradicts: the redo of a paste that was cut short reads past the end of its
ids (`command.cpp`, `paste_command::redo`); a project that fails half way leaves
its first objects without a command (`threemf_manip.cpp` 1533); the ids of a
paste are taken in the order of a hash set (`command.cpp` 548); the redo of an
import does not look whether the file was read (641); a reset of a pasted mesh
dereferences an entry it does not have (`mainwindow_RunTime.cpp` 4986);
`importMesh` returns with `busy` set when its dialog is cancelled (4753);
`printOption.cpp` 508 compares the mode with the value of a disjunction.

Two more of this kind are exceptions that properties name. With nothing announced
`countJobWipe` divides all pages by the newest entry of the table
(`mainwindow_RunTime.cpp` 11714), of which the printer does not know: after the
entries 4, 4 and 6 for the pages 6 to 8 it records 8 / 6 / 2 = 0 where the printer
wipes twice, halved 1, and a first change in the last layer of a long job is taken
for the interval of the whole job. `CountIsWipes` and its theorem leave out these
states (`Settled`). And a continued job whose `end_page` is not after its
`start_page` (both are 0 before they are set) opens a print job, runs no round
and returns true with the job open (`generate_print_func.cpp` 15863, 15952,
15969); `ClosedAtEnd` names this as the only way out that leaves it open.

## 8. What is not modelled

* **Slicing and imaging**: meshes, OpenGL, OpenCV, colour. Numbers and pixels,
  with no control beyond the loop that is modelled.
* **Web service and login**, **Import and export**: requests, dialogs and file
  formats, pure input and output.
* **Packing**: placing of boxes in real coordinates.
* **Settings and NVM**: tables of values, and one list of commands sent one after
  the other (`CMD_Value.cpp` 921-979) whose results are dropped, with one check at
  the end.
* **Monitor and history**: the monitor is never opened, as every place that did
  is commented out; the history is a list of files.
* **The other variants of a print** (`printFunctionMono`, the `.zx` and test
  pages), which have the parts of `printFunction` in the same order, and the
  modes of the option dialog that only they use.
* In `DynamicWipe`: that an interval is announced also for a job that goes to a
  file (5862), and that the call may fail (5880, logged only).
* In `PrintTransfer`: the blank pages before the first layer, and a second job
  after `per_zx_job` (10000) pages.
* In `UndoDocument`: geometry, the command that changes colours (it looks up its
  meshes like an edit), and new or opened documents, which start a new stack.
* The document while a job is sliced: every layer reads the list of meshes
  anew, so an edit between two layers changes those that follow.
* **The other print filters** (`FP_PRINT_FOUR_IN_ONE` and older flows), which
  repeat the loop of `FP_PRINT_FLOW_2_V3`.
* In `comm3DP.cpp`: `rawSend()`, which nothing calls, the digits of numbers and what `std::stoi` does with a text
  that has none, percentages of ink, the state of `tokenJSON` when two texts are
  read alternately (nothing does so), `reset()` (nothing calls it).
* Vendored code (`vcglib`, `IccProfLib`, the parsers).

## 9. Plan

The order follows what a print depends on: first the protocol that everything
uses, then the layers that leave the program, then what surrounds them.

Done, each with proofs: `Comm3DPCall` with its abstract specification;
`PrintTransfer`; `CheckList`; `DynamicWipe`; `InkStatus`; `PrintStart`;
`UndoDocument`.

What could follow:

1. **PrintTransfer with `per_zx_job`**: the second job, with a small limit, and
   the exception of `sendData2` above it.
2. **NVM** (`CMD_Value.cpp` 921-979): does the one check at the end tell a printer
   that holds some new groups and some old ones?
3. **Readers of numbers** in `comm3DP.cpp` (2307, 2510, 2764): for which answers
   does the test for digits let `std::stoi` throw?
4. **Transforms**: the undo of a rotation of several meshes turns about the
   centre of the box they have after it (`command.cpp` 336-536), which needs
   geometry in integers.
