---------------------------- MODULE DynamicWipe ----------------------------
(***************************************************************************)
(* Dynamic wiping (DYNAMIC_WIPE): how often the printer wipes its head is  *)
(* decided per layer while the job is transferred, and announced to the    *)
(* printer a few pages ahead.                                              *)
(*                                                                         *)
(* In each round of the layer loop of FP_PRINT_FLOW_2_V3 the callback      *)
(* QCallBack2 looks at the newest entry of MainWindow::dynamicWipe and     *)
(* announces it if it differs from the entry before; then QCallBackdata    *)
(* inserts the interval of the layer before this one; then the layer is    *)
(* sliced, which computes its interval quickWipe.  countJobWipe adds up    *)
(* the wipes of the job afterwards.                                        *)
(***************************************************************************)
EXTENDS Integers, FiniteSetsExt

CONSTANTS FirstLayers,  \* where a job may start: 0, or CONTINUE_PRINTING_PAGE
          MaxRounds,    \* bound on the number of layers of a job
          Intervals,    \* the values of quickWipe
          Normal        \* the interval the printer is taken to start with

ASSUME WipeAssumption ==
  /\ FirstLayers \subseteq Nat
  /\ MaxRounds \in Nat
  /\ Intervals \subseteq Nat \ {0}
  /\ Normal \in Nat \ {0}

VARIABLES
  first,      \* start_page
  i,          \* the layer of the loop
  quickWipe,  \* the interval of the last sliced layer, 1 before there is one
  table,      \* MainWindow::dynamicWipe: page -> interval
  plan,       \* MainWindow::finalDynamicPage: what was announced
  running     \* the callback has not returned false

vars == <<first, i, quickWipe, table, plan, running>>

Insert(map, key, value) ==
  [k \in DOMAIN map \cup {key} |-> IF k = key THEN value ELSE map[k]]

LastKey(map)   == Max(DOMAIN map)
LastValue(map) == map[LastKey(map)]
BeforeLast(map) == map[Max(DOMAIN map \ {LastKey(map)})]

-----------------------------------------------------------------------------
Init ==
  /\ first \in FirstLayers
  /\ i = first /\ quickWipe = 1 /\ running = TRUE
  /\ table = [k \in {} |-> 0] /\ plan = [k \in {} |-> 0]

(* Faulty variants: the first two entries are not made the normal ones;    *)
(* the newest entry is compared with what was announced last.              *)
FilledWithout(map) == map

(* With three entries, pages 6 and 7 are given the interval 4.             *)
Filled(map) ==
  IF Cardinality(DOMAIN map) = 3 THEN Insert(Insert(map, 6, 4), 7, 4) ELSE map

(* setDynamicMidjob_Page is called when the newest entry is a change; its  *)
(* result is only logged.                                                  *)
Announced(map) ==
  IF Cardinality(DOMAIN map) > 2 /\ LastValue(map) # BeforeLast(map)
    THEN Insert(plan, LastKey(map), LastValue(map)) ELSE plan

(* Faulty variant of Ahead: the entry is made for the layer itself.         *)
AheadNot(layer) == layer - 1

(* sb(i - 1 + 5, quickWipe): the entry made in the round of a layer.       *)
Ahead(layer) == layer - 1 + 5

(* One round of the loop.                                                  *)
Round(goesOn, interval) ==
  /\ running /\ i < first + MaxRounds
  /\ LET map == Filled(table)
     IN  /\ plan' = Announced(map)
         /\ table' = IF i > 1 THEN Insert(map, Ahead(i), quickWipe) ELSE map
  /\ IF goesOn THEN i' = i + 1 /\ quickWipe' = interval
               ELSE UNCHANGED <<i, quickWipe>>
  /\ running' = goesOn
  /\ UNCHANGED first

Next == \E goesOn \in BOOLEAN, interval \in Intervals : Round(goesOn, interval)

Spec == Init /\ [][Next]_vars
-----------------------------------------------------------------------------
Keys(map) == DOMAIN map

(* The next plan entry after page k, if any.                               *)
Following(k) == Min({p \in Keys(plan) : p > k})

(* Faulty variant of countJobWipe: the wipe at the last change is missing. *)
countJobWipeShort(wipeStep) ==
  LET start == Min(Keys(plan)) \div table[Min(Keys(table))]
      stretch(k) == IF k = LastKey(plan)
                      THEN (LastKey(table) - k) \div plan[k]
                      ELSE (Following(k) - k) \div plan[k] + 1
  IN  IF Keys(plan) # {}
        THEN (start + MapThenSumSet(stretch, Keys(plan))) \div wipeStep
        ELSE IF Keys(table) # {} THEN (LastKey(table) \div LastValue(table)) \div wipeStep
        ELSE 0

(* MainWindow::countJobWipe: from page 0 to the first change in steps of   *)
(* the first entry, then from change to change; every change is a wipe.    *)
(* (The code steps over a plan entry that repeats the one before; entries  *)
(* are announced only when they differ, so there is none.)                 *)
countJobWipe(wipeStep) ==
  LET start == Min(Keys(plan)) \div table[Min(Keys(table))]
      stretch(k) == IF k = LastKey(plan)
                      THEN (LastKey(table) - k) \div plan[k] + 1
                      ELSE (Following(k) - k) \div plan[k] + 1
  IN  IF Keys(plan) # {}
        THEN (start + MapThenSumSet(stretch, Keys(plan))) \div wipeStep
        ELSE IF Keys(table) # {} THEN (LastKey(table) \div LastValue(table)) \div wipeStep
        ELSE 0

(* The interval a printer that starts with the normal one uses at page p   *)
(* after what was announced to it.                                         *)
AtPage(p) ==
  LET known == {k \in Keys(plan) : k <= p}
  IN  IF known = {} THEN Normal ELSE plan[Max(known)]

(* Pages since the last wipe and number of wipes after page p: a printer   *)
(* that counts pages and wipes at every change.                            *)
Wiping[p \in Nat] ==
  IF p = 0 THEN [since |-> 0, wipes |-> 0]
  ELSE LET before == Wiping[p - 1]
           due == before.since + 1 = AtPage(p - 1)
           w == before.wipes + (IF due THEN 1 ELSE 0)
       IN  IF p \in Keys(plan) THEN [since |-> 0, wipes |-> w + 1]
           ELSE [since |-> IF due THEN 0 ELSE before.since + 1, wipes |-> w]

(* The entries the callback has looked at: all but the newest.             *)
Seen == IF Cardinality(Keys(table)) < 4 THEN {}
        ELSE Keys(table) \ {LastKey(table)}

-----------------------------------------------------------------------------
(* Every variable has its type; the table reaches up to four pages beyond  *)
(* the layer.  It has an entry for every page from the first one that the  *)
(* job entered, first + 4; below that there are only pages 6 and 7, filled *)
(* in: a job that starts at layer 4 or later has a gap after them.         *)
TypeOK ==
  /\ first \in FirstLayers
  /\ i \in first..(first + MaxRounds)
  /\ quickWipe \in Intervals \cup {1}
  /\ \A k \in Keys(table) : table[k] \in Intervals \cup {1, 4}
  /\ \A k \in Keys(plan) : plan[k] \in Intervals
  /\ Keys(plan) \subseteq Keys(table)
  /\ \A k \in Keys(table) : k >= first + 4 \/ k \in {6, 7}
  /\ Keys(table) # {} =>
       /\ LastKey(table) \in {i + 3, i + 4}
       /\ \A k \in 6..LastKey(table) : k >= first + 4 => k \in Keys(table)
  /\ running \in BOOLEAN

(* What was announced makes the printer use, at every page the callback    *)
(* has looked at, the interval of the table: no change is lost, none is    *)
(* announced for the wrong page.                                           *)
(* It is also what the comments of QCallBack2 say (mainwindow_RunTime.cpp, *)
(* 5853-5858): compare with the normal wipe, if different send it.         *)
PlanReplaysTable == \A p \in Seen : AtPage(p) = table[p]

(* Announcements are made for pages that are not sliced yet, in ascending  *)
(* order, and none is taken back: the printer never hears of a page that   *)
(* it may already have printed.                                            *)
AnnouncedAhead ==
  [][/\ \A k \in Keys(plan) : k \in Keys(plan') /\ plan'[k] = plan[k]
     /\ \A k \in Keys(plan') \ Keys(plan) :
          k > i /\ \A old \in Keys(plan) : k > old]_vars

(* Something was announced, or there was nothing to announce: the newest   *)
(* entry, which no callback has looked at yet, is the normal interval.     *)
Settled == Keys(plan) # {} \/ LastValue(table) = Normal

(* The recorded number of wipes is the number of wipes a printer makes     *)
(* that counts pages, halved (countJobWipe(2)).  Not so in a state that is *)
(* not Settled: there countJobWipe divides all pages by the newest         *)
(* interval, which the printer has never heard of.  With 4, 4 and 6 for    *)
(* the pages 6 to 8 it records 0, and the printer's number, halved, is 1.  *)
CountIsWipes ==
  Keys(table) # {} /\ Settled =>
    countJobWipe(2) = Wiping[LastKey(table)].wipes \div 2
============================================================================
