-------------------------- MODULE PrintStart_proofs --------------------------
(***************************************************************************)
(* Proofs about PrintStart, for any number of calls of printFunction, one  *)
(* inside the other.                                                       *)
(*                                                                         *)
(* A step changes the innermost call (Moved), takes it off (Return), adds  *)
(* one (PrintClicked) or leaves the calls alone.  The first two have a     *)
(* lemma each, StepMoved and StepReturn, that says what a step has to give *)
(* for the invariant to survive; every action is an instance of one.       *)
(***************************************************************************)
EXTENDS PrintStart, SequenceTheorems, TLAPS

Calls(n) == [id : 1..n, at : Places, missed : SUBSET Settings, polls : 0..MaxPolls]

(* The calls are numbered in the order they were made.                     *)
Ordered ==
  \A j, k \in 1..Len(running) : j < k => running[j].id < running[k].id

(* A call that is not the innermost is where the main window is usable.    *)
Under == \A k \in 1..(Len(running) - 1) : running[k].at \in Loops \cup Filters

(* What the printer holds once a call has sent a setting.                  *)
KeptBy(call, h) ==
  /\ call.at \in Loops \cup {"checklist", "wait"} /\ "pump" \notin call.missed
       => h["pump"] >= call.id
  /\ call.at \in {"after infrared", "checklist", "wait"} /\ "infrared" \notin call.missed
       => h["infrared"] >= call.id
  /\ call.at \in {"checklist", "wait"}
       => \A c \in Late \ call.missed : h[c] = call.id
Kept == \A k \in 1..Len(running) : KeptBy(running[k], held)

(* The flag says what it is meant to say until another filter clears it.   *)
Flag == ~released => (busy <=> running # <<>> /\ Top.at \in Filters)

IInv == TypeOK /\ Ordered /\ Under /\ Kept /\ Flag /\ OneAtATime /\ OwnJob /\ JobIsFollowed

-----------------------------------------------------------------------------
(* The calls after the innermost one was replaced.                         *)
LEMMA MovedCalls ==
  ASSUME NEW T, running \in Seq(T), running # <<>>, NEW call \in T
  PROVE  /\ Moved(call) \in Seq(T) /\ Moved(call) # <<>>
         /\ Len(Moved(call)) = Len(running)
         /\ Len(running) \in Nat \ {0}
         /\ Top = running[Len(running)] /\ Top \in T
         /\ \A k \in 1..Len(running) :
              Moved(call)[k] = IF k = Len(running) THEN call ELSE running[k]
         /\ Last(Moved(call)) = call
<1>1. Len(running) \in Nat \ {0} /\ Top = running[Len(running)] /\ Top \in T
  BY ElementOfSeq, EmptySeq DEF Top, Last
<1>2. /\ Moved(call) \in Seq(T) /\ Len(Moved(call)) = Len(running)
      /\ \A k \in 1..Len(running) :
           Moved(call)[k] = IF k = Len(running) THEN call ELSE running[k]
  BY <1>1, ExceptSeq DEF Moved
<1>3. Moved(call) # <<>> /\ Last(Moved(call)) = call
  BY <1>1, <1>2 DEF Last
<1> QED
  BY <1>1, <1>2, <1>3

(* The calls after the innermost one returned.                             *)
LEMMA FrontCalls ==
  ASSUME NEW T, running \in Seq(T), running # <<>>
  PROVE  /\ Front(running) \in Seq(T)
         /\ Len(running) \in Nat \ {0}
         /\ Len(Front(running)) = Len(running) - 1
         /\ Top = running[Len(running)] /\ Top \in T
         /\ \A k \in 1..(Len(running) - 1) : Front(running)[k] = running[k]
<1>1. Len(running) \in Nat \ {0} /\ Top = running[Len(running)] /\ Top \in T
  BY ElementOfSeq, EmptySeq DEF Top, Last
<1>2. Front(running) = SubSeq(running, 1, Len(running) - 1)
  BY <1>1 DEF Front
<1>3. \A k \in 1..(Len(running) - 1) : running[k] \in T
  BY <1>1, ElementOfSeq
<1>4. Len(running) - 1 \in Int
  BY <1>1
<1>5. /\ SubSeq(running, 1, Len(running) - 1) \in Seq(T)
      /\ Len(SubSeq(running, 1, Len(running) - 1))
           = IF 1 <= Len(running) - 1 THEN Len(running) - 1 - 1 + 1 ELSE 0
      /\ \A k \in 1..(Len(running) - 1 - 1 + 1) :
           SubSeq(running, 1, Len(running) - 1)[k] = running[1 + k - 1]
  <2>1. 1 \in Int
    OBVIOUS
  <2> QED
    BY <1>3, <1>4, <2>1, SubSeqProperties
<1>6. Len(Front(running)) = Len(running) - 1
  <2> DEFINE n == Len(running)
             front == SubSeq(running, 1, n - 1)
  <2>1. n \in Nat \ {0} /\ Len(front) = IF 1 <= n - 1 THEN n - 1 - 1 + 1 ELSE 0
    BY <1>1, <1>5
  <2>2. Front(running) = front
    BY <1>2
  <2> HIDE DEF n, front
  <2>3. Len(front) = n - 1
    BY <2>1
  <2> QED
    BY <2>2, <2>3 DEF n
<1>7. ASSUME NEW k \in 1..(Len(running) - 1)
      PROVE  Front(running)[k] = running[k]
  <2>1. k \in 1..(Len(running) - 1 - 1 + 1) /\ 1 + k - 1 = k
    BY <1>1
  <2> QED
    BY <1>2, <1>5, <2>1
<1> QED
  BY <1>1, <1>2, <1>5, <1>6, <1>7

(* A later call that sends its own settings takes nothing from a call that *)
(* is still in its loops.                                                  *)
LEMMA KeptUnder ==
  ASSUME NEW call, NEW h, NEW g, NEW i \in Nat,
         call.at \in Loops \cup Filters, call.id \in Nat, call.id < i,
         h["pump"] \in Nat, h["infrared"] \in Nat,
         g["pump"] \in {h["pump"], i}, g["infrared"] \in {h["infrared"], i},
         KeptBy(call, h)
  PROVE  KeptBy(call, g)
<1>1. call.at \notin {"checklist", "wait"}
  BY DEF Loops, Filters
<1>2. h["pump"] >= call.id => g["pump"] >= call.id
  OBVIOUS
<1>3. h["infrared"] >= call.id => g["infrared"] >= call.id
  OBVIOUS
<1> QED
  BY <1>1, <1>2, <1>3 DEF KeptBy

-----------------------------------------------------------------------------
(* A step that replaces the innermost call and gives the printer nothing   *)
(* but settings and a header of this call.                                 *)
LEMMA StepMoved ==
  ASSUME IInv, running # <<>>, NEW call \in Calls(prints), call.id = Top.id,
         running' = Moved(call), prints' = prints,
         busy' \in BOOLEAN, prepare' \in BOOLEAN, link' \in BOOLEAN,
         held' \in [Settings -> 0..prints],
         \A c \in Settings : held'[c] \in {held[c], Top.id},
         job' \in {job, Top.id}, released' = released,
         sent \subseteq sent', sent' \subseteq 1..prints,
         gaveUp \subseteq gaveUp', gaveUp' \subseteq 1..prints,
         KeptBy(call, held'),
         released \/ (busy' <=> call.at \in Filters),
         call.at \in {"wait", "snapshot", "printing"} => job' = call.id \/ released,
         link' => link,
         job' # job /\ link' => call.at = "wait",
         Top.at \in {"wait", "snapshot"} =>
           call.at \in {"wait", "snapshot"} \/ Top.id \in sent' \cup gaveUp'
  PROVE  IInv'
<1> DEFINE n == Len(running)
<1>1. running \in Seq(Calls(prints))
  BY DEF IInv, TypeOK, Calls
<1>2. /\ running' \in Seq(Calls(prints)) /\ running' # <<>> /\ Len(running') = n
      /\ n \in Nat \ {0} /\ Top = running[n] /\ Top \in Calls(prints)
      /\ \A k \in 1..n : running'[k] = IF k = n THEN call ELSE running[k]
      /\ Last(running') = call
  BY <1>1, MovedCalls
<1>3. \A k \in 1..n : running[k] \in Calls(prints)
  BY <1>1, ElementOfSeq
<1> HIDE DEF n
<1>4. TypeOK'
  <2>1. Top.id \in 1..prints
    BY <1>2 DEF Calls
  <2>2. /\ prints' \in 0..MaxPrints
        /\ busy' \in BOOLEAN /\ prepare' \in BOOLEAN /\ link' \in BOOLEAN
        /\ released' \in BOOLEAN /\ held' \in [Settings -> 0..prints']
        /\ sent' \subseteq 1..prints' /\ gaveUp' \subseteq 1..prints'
    BY DEF IInv, TypeOK
  <2>3. job' \in 0..prints'
    BY <2>1 DEF IInv, TypeOK
  <2>4. running' \in Seq(Calls(prints'))
    BY <1>2
  <2> QED
    BY <2>2, <2>3, <2>4 DEF TypeOK, Calls
<1>5. Ordered'
  BY <1>2 DEF IInv, Ordered, n
<1>6. Under'
  BY <1>2 DEF IInv, Under, n
<1>7. ASSUME NEW k \in 1..(n - 1)
      PROVE  /\ running[k].at \in Loops \cup Filters
             /\ running[k].id < Top.id /\ running[k].id \in Nat
  <2>1. k \in 1..n /\ n \in 1..n /\ k < n
    BY <1>2
  <2>2. running[k].at \in Loops \cup Filters
    BY DEF IInv, Under, n
  <2>3. running[k].id < running[n].id
    BY <2>1 DEF IInv, Ordered, n
  <2>4. running[k].id \in Nat
    BY <1>3, <2>1 DEF Calls
  <2> QED
    BY <1>2, <2>2, <2>3, <2>4
<1>8. Kept'
  <2> SUFFICES ASSUME NEW k \in 1..n, k # n PROVE KeptBy(running[k], held')
    BY <1>2 DEF Kept, n
  <2>1. KeptBy(running[k], held)
    BY DEF IInv, Kept, n
  <2>2. running[k].at \in Loops \cup Filters /\ running[k].id < Top.id
        /\ running[k].id \in Nat
    BY <1>2, <1>7
  <2>3. Top.id \in Nat
    BY <1>2 DEF Calls
  <2>4. "pump" \in Settings /\ "infrared" \in Settings
    BY DEF Settings, Early
  <2>5. /\ held["pump"] \in Nat /\ held["infrared"] \in Nat
    BY <2>4 DEF IInv, TypeOK
  <2>6. /\ held'["pump"] \in {held["pump"], Top.id}
        /\ held'["infrared"] \in {held["infrared"], Top.id}
    BY <2>4
  <2> QED
    BY <2>1, <2>2, <2>3, <2>5, <2>6, KeptUnder
<1>9. Flag'
  BY <1>2 DEF Flag, Top
<1>10. OneAtATime'
  BY <1>2 DEF IInv, OneAtATime, n
<1>11. OwnJob'
  <2> SUFFICES ASSUME ~released, NEW k \in 1..n,
                      running'[k].at \in {"wait", "snapshot", "printing"}
               PROVE  job' = running'[k].id
    BY <1>2 DEF OwnJob
  <2>1. CASE k = n
    BY <1>2, <2>1
  <2>2. CASE k # n
    <3>1. running[k].at \in Loops
      BY <1>2, <2>2 DEF IInv, OneAtATime, n
    <3> QED
      BY <1>2, <2>2, <3>1 DEF Loops
  <2> QED
    BY <2>1, <2>2
<1>12. JobIsFollowed'
  <2> SUFFICES ASSUME job' # 0, link'
               PROVE  \/ job' \in sent' \cup gaveUp'
                      \/ \E k \in 1..n : /\ running'[k].id = job'
                                         /\ running'[k].at \in {"wait", "snapshot"}
    BY <1>2 DEF JobIsFollowed
  <2>1. CASE job' # job
    <3>1. n \in 1..n /\ running'[n] = call
      BY <1>2
    <3> QED
      BY <2>1, <3>1
  <2>2. CASE job' = job /\ job \in sent \cup gaveUp
    BY <2>2
  <2>3. CASE job' = job /\ job \notin sent \cup gaveUp
    <3>1. PICK k \in 1..n : /\ running[k].id = job
                            /\ running[k].at \in {"wait", "snapshot"}
      BY <2>3 DEF IInv, JobIsFollowed, n
    <3>2. CASE k = n
      BY <1>2, <2>3, <3>1, <3>2
    <3>3. CASE k # n
      BY <1>2, <2>3, <3>1, <3>3
    <3> QED
      BY <3>2, <3>3
  <2> QED
    BY <2>1, <2>2, <2>3
<1> QED
  BY <1>4, <1>5, <1>6, <1>8, <1>9, <1>10, <1>11, <1>12 DEF IInv

(* A step in which the innermost call returns, at most with the pump set.  *)
LEMMA StepReturn ==
  ASSUME IInv, running # <<>>, Top.at \notin {"wait", "snapshot"},
         running' = Front(running), prints' = prints,
         prepare' \in BOOLEAN, held' \in [Settings -> 0..prints],
         \A c \in Settings : held'[c] \in {held[c], Top.id},
         busy' = busy \/ busy' = FALSE, Top.at \in Filters => busy' = FALSE,
         UNCHANGED <<link, job, released, sent, gaveUp>>
  PROVE  IInv'
<1> DEFINE n == Len(running)
<1>1. running \in Seq(Calls(prints))
  BY DEF IInv, TypeOK, Calls
<1>2. /\ running' \in Seq(Calls(prints)) /\ Len(running') = n - 1
      /\ n \in Nat \ {0} /\ Top = running[n] /\ Top \in Calls(prints)
      /\ \A k \in 1..(n - 1) : running'[k] = running[k]
  BY <1>1, FrontCalls
<1>3. \A k \in 1..n : running[k] \in Calls(prints)
  BY <1>1, ElementOfSeq
<1>4. running' # <<>> => n > 1 /\ Top' = running[n - 1]
  <2> SUFFICES ASSUME running' # <<>> PROVE n > 1 /\ Top' = running[n - 1]
    OBVIOUS
  <2>1. Len(running') \in Nat \ {0}
    BY <1>2, EmptySeq
  <2> QED
    BY <1>2, <2>1 DEF Top, Last
<1> HIDE DEF n
<1>5. TypeOK'
  BY <1>2 DEF IInv, TypeOK, Calls
<1>6. Ordered'
  BY <1>2 DEF IInv, Ordered, n
<1>7. Under'
  BY <1>2 DEF IInv, Under, n
<1>8. ASSUME NEW k \in 1..(n - 1)
      PROVE  /\ running[k].at \in Loops \cup Filters
             /\ running[k].id < Top.id /\ running[k].id \in Nat
  <2>1. k \in 1..n /\ n \in 1..n /\ k < n
    BY <1>2
  <2>2. running[k].at \in Loops \cup Filters
    BY DEF IInv, Under, n
  <2>3. running[k].id < running[n].id
    BY <2>1 DEF IInv, Ordered, n
  <2>4. running[k].id \in Nat
    BY <1>3, <2>1 DEF Calls
  <2> QED
    BY <1>2, <2>2, <2>3, <2>4
<1>9. Kept'
  <2> SUFFICES ASSUME NEW k \in 1..(n - 1) PROVE KeptBy(running[k], held')
    BY <1>2 DEF Kept
  <2>1. KeptBy(running[k], held)
    BY <1>2 DEF IInv, Kept, n
  <2>2. running[k].at \in Loops \cup Filters /\ running[k].id < Top.id
        /\ running[k].id \in Nat
    BY <1>8
  <2>3. Top.id \in Nat
    BY <1>2 DEF Calls
  <2>4. "pump" \in Settings /\ "infrared" \in Settings
    BY DEF Settings, Early
  <2>5. /\ held["pump"] \in Nat /\ held["infrared"] \in Nat
    BY <2>4 DEF IInv, TypeOK
  <2>6. /\ held'["pump"] \in {held["pump"], Top.id}
        /\ held'["infrared"] \in {held["infrared"], Top.id}
    BY <2>4
  <2> QED
    BY <2>1, <2>2, <2>3, <2>5, <2>6, KeptUnder
<1>10. Flag'
  <2> SUFFICES ASSUME ~released PROVE busy' <=> (running' # <<>> /\ Top'.at \in Filters)
    BY DEF Flag
  <2>1. busy' = FALSE
    BY DEF IInv, Flag, TypeOK
  <2>2. running' # <<>> => Top'.at \in Loops
    BY <1>2, <1>4 DEF IInv, OneAtATime, n
  <2> QED
    BY <2>1, <2>2 DEF Loops, Filters
<1>11. OneAtATime'
  <2> SUFFICES ASSUME ~released, NEW k \in 1..(n - 1 - 1)
               PROVE  running'[k].at \in Loops
    BY <1>2 DEF OneAtATime
  <2>1. k \in 1..(n - 1)
    BY <1>2
  <2> QED
    BY <1>2, <2>1 DEF IInv, OneAtATime, n
<1>12. OwnJob'
  BY <1>2 DEF IInv, OwnJob, n
<1>13. JobIsFollowed'
  <2> SUFFICES ASSUME job # 0, link, job \notin sent \cup gaveUp
               PROVE  \E k \in 1..(n - 1) : /\ running'[k].id = job
                                           /\ running'[k].at \in {"wait", "snapshot"}
    BY <1>2 DEF JobIsFollowed
  <2>1. PICK k \in 1..n : /\ running[k].id = job
                          /\ running[k].at \in {"wait", "snapshot"}
    BY DEF IInv, JobIsFollowed, n
  <2>2. k \in 1..(n - 1)
    BY <1>2, <2>1
  <2> QED
    BY <1>2, <2>1, <2>2
<1> QED
  BY <1>5, <1>6, <1>7, <1>9, <1>10, <1>11, <1>12, <1>13 DEF IInv

(* What the invariant says of the innermost call.                          *)
LEMMA TopFacts ==
  ASSUME IInv, running # <<>>
  PROVE  /\ Top \in Calls(prints) /\ prints \in Nat /\ Top.id \in Nat
         /\ KeptBy(Top, held)
         /\ released \/ (busy <=> Top.at \in Filters)
         /\ Top.at \in {"wait", "snapshot", "printing"} => job = Top.id \/ released
<1>1. running \in Seq(Calls(prints)) /\ prints \in Nat
  BY StartAssumption DEF IInv, TypeOK, Calls
<1>2. /\ Len(running) \in Nat \ {0}
      /\ Top = running[Len(running)] /\ Top \in Calls(prints)
  BY <1>1, ElementOfSeq, EmptySeq DEF Top, Last
<1>3. Len(running) \in 1..Len(running)
  BY <1>2
<1>4. KeptBy(Top, held)
  BY <1>2, <1>3 DEF IInv, Kept
<1>5. released \/ (busy <=> Top.at \in Filters)
  BY DEF IInv, Flag
<1>6. Top.at \in {"wait", "snapshot", "printing"} => job = Top.id \/ released
  BY <1>2, <1>3 DEF IInv, OwnJob
<1>7. Top.id \in Nat
  <2>1. Top.id \in 1..prints
    BY <1>2 DEF Calls
  <2> QED
    BY <1>1, <2>1
<1> QED
  BY <1>1, <1>2, <1>4, <1>5, <1>6, <1>7

(* A step that only moves the innermost call on, with no setting sent.     *)
LEMMA StepGoTo ==
  ASSUME IInv, running # <<>>,
         NEW a \in Places \ (Loops \cup {"checklist"}), GoTo(a),
         a = "wait" => Top.at = "checklist",
         UNCHANGED <<prints, held, released>>,
         busy' \in BOOLEAN, prepare' \in BOOLEAN, link' \in BOOLEAN, link' => link,
         released \/ (busy' <=> a \in Filters),
         job' \in {job, Top.id},
         a \in {"wait", "snapshot", "printing"} => job' = Top.id \/ released,
         job' # job /\ link' => a = "wait",
         sent \subseteq sent', sent' \subseteq 1..prints,
         gaveUp \subseteq gaveUp', gaveUp' \subseteq 1..prints,
         Top.at \in {"wait", "snapshot"} =>
           a \in {"wait", "snapshot"} \/ Top.id \in sent' \cup gaveUp'
  PROVE  IInv'
<1> DEFINE call == [Top EXCEPT !.at = a]
<1>1. Top \in Calls(prints) /\ KeptBy(Top, held)
  BY TopFacts
<1>2. /\ call \in Calls(prints) /\ call.at = a
      /\ call.id = Top.id /\ call.missed = Top.missed
  BY <1>1 DEF Calls
<1>3. running' = Moved(call)
  BY DEF GoTo
<1> HIDE DEF call
<1>4. KeptBy(call, held')
  <2>1. a \notin {"before infrared", "after infrared", "checklist"} /\ held' = held
    BY DEF Loops
  <2> QED
    BY <1>1, <1>2, <2>1 DEF KeptBy, Loops
<1>5. /\ held' \in [Settings -> 0..prints]
      /\ \A c \in Settings : held'[c] \in {held[c], Top.id}
  BY DEF IInv, TypeOK
<1> QED
  BY <1>2, <1>3, <1>4, <1>5, StepMoved

(* Sending the settings of C changes only those, to the sender's.          *)
LEMMA SendFacts ==
  ASSUME IInv, running # <<>>, NEW C \in SUBSET Settings, NEW missed, Send(C, missed)
  PROVE  /\ missed \in SUBSET C
         /\ held' \in [Settings -> 0..prints]
         /\ \A c \in Settings : held'[c] \in {held[c], Top.id}
         /\ \A c \in C \ missed : held'[c] = Top.id
<1>1. Top.id \in 0..prints
  BY TopFacts DEF Calls
<1>2. held \in [Settings -> 0..prints]
  BY DEF IInv, TypeOK
<1> QED
  BY <1>1, <1>2 DEF Send

-----------------------------------------------------------------------------
LEMMA InitIInv == Init => IInv
<1> SUFFICES ASSUME Init PROVE IInv
  OBVIOUS
<1>1. Len(running) = 0 /\ running = <<>>
  BY DEF Init
<1>2. TypeOK
  <2>1. running \in Seq(Calls(prints))
    BY <1>1, EmptySeq
  <2>2. held \in [Settings -> 0..prints]
    BY DEF Init
  <2>3. prints \in 0..MaxPrints /\ job \in 0..prints
    BY StartAssumption DEF Init
  <2> QED
    BY <2>1, <2>2, <2>3 DEF Init, TypeOK, Calls
<1> QED
  BY <1>1, <1>2 DEF Init, IInv, Ordered, Under, Kept, Flag, OneAtATime, OwnJob, JobIsFollowed

LEMMA StepPrintClicked == IInv /\ PrintClicked => IInv'
<1> SUFFICES ASSUME IInv, PrintClicked PROVE IInv'
  OBVIOUS
<1> DEFINE n == Len(running)
           new == Call(prints + 1)
<1>1. /\ running \in Seq(Calls(prints)) /\ prints \in Nat /\ prints' = prints + 1
      /\ prints < MaxPrints
  BY StartAssumption DEF IInv, TypeOK, Calls, PrintClicked
<1>2. n \in Nat /\ \A k \in 1..n : running[k] \in Calls(prints)
  BY <1>1, ElementOfSeq, LenProperties
<1>3. running \in Seq(Calls(prints'))
  <2>1. running = [k \in 1..n |-> running[k]]
    BY <1>1, LenProperties
  <2>2. \A k \in 1..n : running[k] \in Calls(prints')
    BY <1>1, <1>2 DEF Calls
  <2> QED
    BY <1>2, <2>1, <2>2
<1>4. /\ new \in Calls(prints') /\ new.at = "detecting" /\ new.id = prints + 1
  BY <1>1, StartAssumption DEF Call, Calls, Places, Filters
<1>5. running' = Append(running, new)
  BY DEF PrintClicked
<1> HIDE DEF new
<1>6. /\ running' \in Seq(Calls(prints')) /\ Len(running') = n + 1
      /\ running'[n + 1] = new /\ \A k \in 1..n : running'[k] = running[k]
  BY <1>3, <1>4, <1>5, AppendProperties
<1>7. running' # <<>> /\ Top' = new
  BY <1>2, <1>6 DEF Top, Last
<1>8. n # 0 => /\ running # <<>> /\ Top = running[n] /\ Top.at \in Loops \cup Filters
               /\ ~released => Top.at \in Loops
  <2> SUFFICES ASSUME n # 0 PROVE /\ running # <<>> /\ Top = running[n]
                                  /\ Top.at \in Loops \cup Filters
                                  /\ ~released => Top.at \in Loops
    OBVIOUS
  <2>1. running # <<>> /\ Top = running[n]
    BY DEF Top, Last
  <2>2. Top.at \in Loops \cup Filters
    BY <2>1 DEF PrintClicked, Active, TopAt
  <2>3. ~released => Top.at \notin Filters
    BY <2>1 DEF IInv, Flag, PrintClicked
  <2> QED
    BY <2>1, <2>2, <2>3
<1> HIDE DEF n
<1>9. TypeOK'
  <2>1. running' \in Seq(Calls(prints'))
    BY <1>6
  <2>2. /\ prints' \in 0..MaxPrints /\ 0..prints \subseteq 0..prints'
        /\ 1..prints \subseteq 1..prints'
    BY <1>1, StartAssumption
  <2>3. /\ busy' \in BOOLEAN /\ prepare' \in BOOLEAN /\ link' \in BOOLEAN
        /\ released' \in BOOLEAN
    BY DEF IInv, TypeOK, PrintClicked
  <2>4. held' \in [Settings -> 0..prints']
    BY <2>2 DEF IInv, TypeOK, PrintClicked
  <2>5. job' \in 0..prints' /\ sent' \subseteq 1..prints' /\ gaveUp' \subseteq 1..prints'
    BY <2>2 DEF IInv, TypeOK, PrintClicked
  <2> QED
    BY <2>1, <2>2, <2>3, <2>4, <2>5 DEF TypeOK, Calls
<1>10. Ordered'
  <2> SUFFICES ASSUME NEW j \in 1..(n + 1), NEW k \in 1..(n + 1), j < k
               PROVE  running'[j].id < running'[k].id
    BY <1>6 DEF Ordered
  <2>1. j \in 1..n /\ running'[j] = running[j] /\ running[j] \in Calls(prints)
    BY <1>2, <1>6
  <2>2. CASE k = n + 1
    <3>1. running[j].id \in 1..prints
      BY <2>1 DEF Calls
    <3> QED
      BY <1>1, <1>4, <1>6, <2>1, <2>2, <3>1
  <2>3. CASE k # n + 1
    <3>1. k \in 1..n /\ running'[k] = running[k]
      BY <1>2, <1>6, <2>3
    <3> QED
      BY <2>1, <3>1 DEF IInv, Ordered, n
  <2> QED
    BY <2>2, <2>3
<1>11. Under' /\ OneAtATime'
  <2> SUFFICES ASSUME NEW k \in 1..n
               PROVE  /\ running'[k].at \in Loops \cup Filters
                      /\ ~released' => running'[k].at \in Loops
    BY <1>2, <1>6 DEF Under, OneAtATime
  <2>1. running'[k] = running[k] /\ n # 0 /\ released' = released
    BY <1>2, <1>6 DEF PrintClicked
  <2>2. CASE k = n
    BY <1>8, <2>1, <2>2
  <2>3. CASE k # n
    <3>1. k \in 1..(n - 1)
      BY <1>2, <2>3
    <3> QED
      BY <2>1, <3>1 DEF IInv, Under, OneAtATime, n
  <2> QED
    BY <2>2, <2>3
<1>12. Kept'
  <2> SUFFICES ASSUME NEW k \in 1..(n + 1) PROVE KeptBy(running'[k], held)
    BY <1>6 DEF Kept, PrintClicked
  <2>1. CASE k = n + 1
    BY <1>4, <1>6, <2>1 DEF KeptBy, Loops
  <2>2. CASE k # n + 1
    <3>1. k \in 1..n /\ running'[k] = running[k]
      BY <1>2, <1>6, <2>2
    <3> QED
      BY <3>1 DEF IInv, Kept, n
  <2> QED
    BY <2>1, <2>2
<1>13. Flag'
  BY <1>4, <1>7 DEF Flag, PrintClicked, Filters
<1>14. OwnJob'
  <2> SUFFICES ASSUME ~released, NEW k \in 1..(n + 1),
                      running'[k].at \in {"wait", "snapshot", "printing"}
               PROVE  job = running'[k].id
    BY <1>6 DEF OwnJob, PrintClicked
  <2>1. k # n + 1
    BY <1>4, <1>6
  <2>2. k \in 1..n /\ running'[k] = running[k]
    BY <1>2, <1>6, <2>1
  <2> QED
    BY <2>2 DEF IInv, OwnJob, n
<1>15. JobIsFollowed'
  <2> SUFFICES ASSUME job # 0, link, job \notin sent \cup gaveUp
               PROVE  \E k \in 1..(n + 1) : /\ running'[k].id = job
                                           /\ running'[k].at \in {"wait", "snapshot"}
    BY <1>6 DEF JobIsFollowed, PrintClicked
  <2>1. PICK k \in 1..n : /\ running[k].id = job
                          /\ running[k].at \in {"wait", "snapshot"}
    BY DEF IInv, JobIsFollowed, n
  <2>2. k \in 1..(n + 1) /\ running'[k] = running[k]
    BY <1>2, <1>6
  <2> QED
    BY <2>1, <2>2
<1> QED
  BY <1>9, <1>10, <1>11, <1>12, <1>13, <1>14, <1>15 DEF IInv

LEMMA StepRelease == IInv /\ Release => IInv'
<1> SUFFICES ASSUME IInv, Release PROVE IInv'
  OBVIOUS
<1>1. TypeOK'
  BY DEF IInv, TypeOK, Release
<1>2. Ordered' /\ Under' /\ Kept' /\ JobIsFollowed'
  BY DEF IInv, Ordered, Under, Kept, JobIsFollowed, Release
<1>3. Flag' /\ OneAtATime' /\ OwnJob'
  BY DEF Flag, OneAtATime, OwnJob, Release
<1> QED
  BY <1>1, <1>2, <1>3 DEF IInv

(* Steps that leave the calls and what they share alone.                   *)
LEMMA StepBeside ==
  ASSUME IInv, UNCHANGED <<prints, running, busy, held, job, sent, gaveUp, released>>,
         prepare' \in BOOLEAN, link' \in BOOLEAN, link' => link
  PROVE  IInv'
<1>1. TypeOK'
  BY DEF IInv, TypeOK
<1>2. Ordered' /\ Under' /\ Kept' /\ JobIsFollowed'
  BY DEF IInv, Ordered, Under, Kept, JobIsFollowed
<1>3. Flag' /\ OneAtATime' /\ OwnJob'
  BY DEF IInv, Flag, Top, OneAtATime, OwnJob
<1> QED
  BY <1>1, <1>2, <1>3 DEF IInv

(* The steps of the questions and of the option dialog.                    *)
LEMMA StepOptions ==
  ASSUME IInv,
         \/ \E overlap \in BOOLEAN : Detected(overlap)
         \/ \E yes \in BOOLEAN : PrintAnyway(yes)
         \/ Estimate
         \/ \E a \in Answers : NoEstimate(a) \/ Estimated(a) \/ PollOption(a)
  PROVE  IInv'
<1>1. /\ busy \in BOOLEAN /\ prepare \in BOOLEAN /\ link \in BOOLEAN
      /\ sent \subseteq 1..prints /\ gaveUp \subseteq 1..prints
  BY DEF IInv, TypeOK
<1>2. ASSUME NEW overlap \in BOOLEAN, Detected(overlap) PROVE IInv'
  <2> DEFINE a == IF overlap THEN "overlap" ELSE "estimate"
  <2>1. a \in Places \ (Loops \cup {"checklist", "wait", "snapshot", "printing"}) /\ a \notin Filters
    BY DEF Places, Dialogs, Loops, Filters
  <2>2. /\ running # <<>> /\ Top.at = "detecting" /\ GoTo(a) /\ busy' = FALSE
        /\ UNCHANGED <<prints, prepare, link, held, job, sent, gaveUp, released>>
    BY <1>2 DEF Detected, TopAt
  <2> HIDE DEF a
  <2> QED
    BY <1>1, <2>1, <2>2, StepGoTo
<1>3. ASSUME PrintAnyway(TRUE) PROVE IInv'
  <2>1. "estimate" \in Places \ (Loops \cup {"checklist", "wait", "snapshot", "printing"})
        /\ "estimate" \notin Filters /\ "overlap" \notin Filters
    BY DEF Places, Dialogs, Loops, Filters
  <2>2. /\ running # <<>> /\ Top.at = "overlap" /\ GoTo("estimate")
        /\ UNCHANGED <<prints, busy, prepare, link, held, job, sent, gaveUp, released>>
    BY <1>3 DEF PrintAnyway, TopAt
  <2>3. released \/ ~busy
    BY <2>1, <2>2, TopFacts
  <2> QED
    BY <1>1, <2>1, <2>2, <2>3, StepGoTo
<1>4. ASSUME PrintAnyway(FALSE) PROVE IInv'
  <2>1. /\ running # <<>> /\ Top.at = "overlap" /\ running' = Front(running)
        /\ UNCHANGED <<prints, busy, prepare, link, held, job, sent, gaveUp, released>>
    BY <1>4 DEF PrintAnyway, TopAt, Return
  <2>2. Top.at \notin Filters
    BY <2>1 DEF Filters
  <2>3. held \in [Settings -> 0..prints]
    BY DEF IInv, TypeOK
  <2> QED
    BY <1>1, <2>1, <2>2, <2>3, StepReturn
<1>5. ASSUME Estimate PROVE IInv'
  <2>1. "estimating" \in Places \ (Loops \cup {"checklist", "wait", "snapshot", "printing"})
        /\ "estimating" \in Filters
    BY DEF Places, Dialogs, Loops, Filters
  <2>2. /\ running # <<>> /\ Top.at = "estimate" /\ GoTo("estimating") /\ busy' = TRUE
        /\ UNCHANGED <<prints, prepare, link, held, job, sent, gaveUp, released>>
    BY <1>5 DEF Estimate, TopAt
  <2> QED
    BY <1>1, <2>1, <2>2, StepGoTo
<1>6. /\ "option" \in Places \ (Loops \cup {"checklist", "wait", "snapshot", "printing"})
      /\ "option" \notin Filters /\ "estimate" \notin Filters
  BY DEF Places, Dialogs, Loops, Filters
<1>7. ASSUME NEW a \in Answers, NoEstimate(a) PROVE IInv'
  <2>1. /\ running # <<>> /\ Top.at = "estimate" /\ GoTo("option") /\ prepare' \in BOOLEAN
        /\ UNCHANGED <<prints, busy, link, held, job, sent, gaveUp, released>>
    BY <1>7 DEF NoEstimate, Open, TopAt
  <2>2. released \/ ~busy
    BY <1>6, <2>1, TopFacts
  <2> QED
    BY <1>1, <1>6, <2>1, <2>2, StepGoTo
<1>8. ASSUME NEW a \in Answers, Estimated(a) PROVE IInv'
  <2>1. /\ running # <<>> /\ Top.at = "estimating" /\ GoTo("option") /\ prepare' \in BOOLEAN
        /\ busy' = FALSE
        /\ UNCHANGED <<prints, link, held, job, sent, gaveUp, released>>
    BY <1>8 DEF Estimated, Open, TopAt
  <2> QED
    BY <1>1, <1>6, <2>1, StepGoTo
<1>9. ASSUME NEW a \in Answers, PollOption(a) PROVE IInv'
  <2>1. /\ prepare' \in BOOLEAN
        /\ UNCHANGED <<prints, running, busy, link, held, job, sent, gaveUp, released>>
    BY <1>9 DEF PollOption
  <2> QED
    BY <1>1, <2>1, StepBeside
<1> QED
  BY <1>2, <1>3, <1>4, <1>5, <1>7, <1>8, <1>9

(* The steps that send settings.                                           *)
LEMMA StepSettings ==
  ASSUME IInv,
         \/ \E accepted \in BOOLEAN, missed \in SUBSET {"pump"} : Prepared(accepted, missed)
         \/ \E missed \in SUBSET {"infrared"} : Infrared(missed)
         \/ \E missed \in SUBSET Late : Checklist(missed)
  PROVE  IInv'
<1>1. /\ busy \in BOOLEAN /\ prepare \in BOOLEAN /\ link \in BOOLEAN
      /\ sent \subseteq 1..prints /\ gaveUp \subseteq 1..prints
  BY DEF IInv, TypeOK
<1>2. /\ {"pump"} \in SUBSET Settings /\ {"infrared"} \in SUBSET Settings
      /\ Late \in SUBSET Settings
  BY DEF Settings, Early
<1>3. /\ {"before infrared", "after infrared", "checklist"} \subseteq Places \ Filters
      /\ "option" \notin Filters
  BY DEF Places, Loops, Dialogs, Filters
<1>4. ASSUME NEW missed \in SUBSET {"pump"}, Prepared(TRUE, missed) PROVE IInv'
  <2> DEFINE call == [Top EXCEPT !.at = "before infrared", !.missed = missed]
  <2>1. /\ running # <<>> /\ Top.at = "option" /\ running' = Moved(call)
        /\ Send({"pump"}, missed)
        /\ UNCHANGED <<prints, busy, prepare, link, job, sent, gaveUp, released>>
    BY <1>4 DEF Prepared, TopAt
  <2>2. /\ Top \in Calls(prints) /\ Top.id \in Nat
        /\ released \/ ~busy
    BY <1>3, <2>1, TopFacts
  <2>3. /\ call \in Calls(prints) /\ call.at = "before infrared" /\ call.id = Top.id
        /\ call.missed = missed
    <3>1. missed \in SUBSET Settings /\ "before infrared" \in Places
      BY <1>2, <1>3
    <3> QED
      BY <2>2, <3>1 DEF Calls
  <2> HIDE DEF call
  <2>4. /\ held' \in [Settings -> 0..prints]
        /\ \A c \in Settings : held'[c] \in {held[c], Top.id}
        /\ \A c \in {"pump"} \ missed : held'[c] = Top.id
    BY <1>2, <2>1, SendFacts
  <2>5. KeptBy(call, held')
    <3>1. ASSUME "pump" \notin missed PROVE held'["pump"] >= Top.id
      <4>1. held'["pump"] = Top.id
        BY <2>4, <3>1
      <4> QED
        BY <2>2, <4>1
    <3> QED
      BY <2>3, <3>1 DEF KeptBy
  <2>6. call.at \notin Filters \cup {"wait", "snapshot", "printing"}
    BY <1>3, <2>3
  <2> QED
    BY <1>1, <2>1, <2>2, <2>3, <2>4, <2>5, <2>6, StepMoved
<1>5. ASSUME NEW missed \in SUBSET {"pump"}, Prepared(FALSE, missed) PROVE IInv'
  <2>1. /\ running # <<>> /\ Top.at = "option" /\ running' = Front(running)
        /\ Send({"pump"}, missed)
        /\ UNCHANGED <<prints, busy, prepare, link, job, sent, gaveUp, released>>
    BY <1>5 DEF Prepared, TopAt, Return
  <2>2. /\ held' \in [Settings -> 0..prints]
        /\ \A c \in Settings : held'[c] \in {held[c], Top.id}
    BY <1>2, <2>1, SendFacts
  <2> QED
    BY <1>1, <1>3, <2>1, <2>2, StepReturn
<1>6. ASSUME NEW missed \in SUBSET {"infrared"}, Infrared(missed) PROVE IInv'
  <2> DEFINE call == [Top EXCEPT !.at = "after infrared", !.missed = @ \cup missed]
  <2>1. /\ running # <<>> /\ Top.at = "before infrared" /\ running' = Moved(call)
        /\ Send({"infrared"}, missed)
        /\ UNCHANGED <<prints, busy, prepare, link, job, sent, gaveUp, released>>
    BY <1>6 DEF Infrared, Sending, TopAt
  <2>2. /\ Top \in Calls(prints) /\ Top.id \in Nat
        /\ released \/ ~busy
        /\ KeptBy(Top, held)
    BY <1>3, <2>1, TopFacts
  <2>3. /\ call \in Calls(prints) /\ call.at = "after infrared" /\ call.id = Top.id
        /\ call.missed = Top.missed \cup missed
    <3>1. missed \in SUBSET Settings /\ "after infrared" \in Places
      BY <1>2, <1>3
    <3> QED
      BY <2>2, <3>1 DEF Calls
  <2> HIDE DEF call
  <2>4. /\ held' \in [Settings -> 0..prints]
        /\ \A c \in Settings : held'[c] \in {held[c], Top.id}
        /\ \A c \in {"infrared"} \ missed : held'[c] = Top.id
    BY <1>2, <2>1, SendFacts
  <2>5. KeptBy(call, held')
    <3>1. ASSUME "infrared" \notin missed PROVE held'["infrared"] >= Top.id
      <4>1. held'["infrared"] = Top.id
        BY <2>4, <3>1
      <4> QED
        BY <2>2, <4>1
    <3>2. "pump" \notin Top.missed => held["pump"] >= Top.id
      BY <2>1, <2>2 DEF KeptBy, Loops
    <3>3. held'["pump"] \in {held["pump"], Top.id}
      BY <1>2, <2>4
    <3>4. ASSUME "pump" \notin Top.missed PROVE held'["pump"] >= Top.id
      <4>1. held["pump"] >= Top.id
        BY <3>2, <3>4
      <4> QED
        BY <2>2, <3>3, <4>1
    <3> QED
      BY <2>3, <3>1, <3>4 DEF KeptBy
  <2>6. call.at \notin Filters \cup {"wait", "snapshot", "printing"}
    BY <1>3, <2>3
  <2> QED
    BY <1>1, <2>1, <2>2, <2>3, <2>4, <2>5, <2>6, StepMoved
<1>7. ASSUME NEW missed \in SUBSET Late, Checklist(missed) PROVE IInv'
  <2> DEFINE call == [Top EXCEPT !.at = "checklist", !.missed = @ \cup missed]
  <2>1. /\ running # <<>> /\ Top.at = "after infrared" /\ running' = Moved(call)
        /\ Send(Late, missed)
        /\ UNCHANGED <<prints, busy, prepare, link, job, sent, gaveUp, released>>
    BY <1>7 DEF Checklist, Sending, TopAt
  <2>2. /\ Top \in Calls(prints) /\ Top.id \in Nat
        /\ released \/ ~busy
        /\ KeptBy(Top, held) /\ Top.at \notin Filters
    <3>1. Top.at \notin Filters
      BY <1>3, <2>1
    <3> QED
      BY <2>1, <3>1, TopFacts
  <2>3. /\ call \in Calls(prints) /\ call.at = "checklist" /\ call.id = Top.id
        /\ call.missed = Top.missed \cup missed
    <3>1. missed \in SUBSET Settings /\ "checklist" \in Places
      BY <1>2, <1>3
    <3> QED
      BY <2>2, <3>1 DEF Calls
  <2> HIDE DEF call
  <2>4. /\ held' \in [Settings -> 0..prints]
        /\ \A c \in Settings : held'[c] \in {held[c], Top.id}
        /\ \A c \in Late \ missed : held'[c] = Top.id
    BY <1>2, <2>1, SendFacts
  <2>5. KeptBy(call, held')
    <3>1. "pump" \notin Top.missed => held["pump"] >= Top.id
      BY <2>1, <2>2 DEF KeptBy, Loops
    <3>2. "infrared" \notin Top.missed => held["infrared"] >= Top.id
      BY <2>1, <2>2 DEF KeptBy, Loops
    <3>3. /\ held'["pump"] \in {held["pump"], Top.id}
          /\ held'["infrared"] \in {held["infrared"], Top.id}
      BY <1>2, <2>4
    <3>4. /\ "pump" \notin Top.missed => held'["pump"] >= Top.id
          /\ "infrared" \notin Top.missed => held'["infrared"] >= Top.id
      BY <2>2, <3>1, <3>2, <3>3
    <3> QED
      BY <2>3, <2>4, <3>4 DEF KeptBy
  <2>6. call.at \notin Filters \cup {"wait", "snapshot", "printing"}
    BY <1>3, <2>3
  <2> QED
    BY <1>1, <2>1, <2>2, <2>3, <2>4, <2>5, <2>6, StepMoved
<1> QED
  BY <1>4, <1>5, <1>6, <1>7

(* The steps of the header, the wait and the transfer.                     *)
LEMMA StepJob ==
  ASSUME IInv,
         \/ Cancelled \/ Header \/ HeaderRefused \/ HeaderUnheard
         \/ Poll \/ BoxClosed \/ Transfer \/ Transferred
  PROVE  IInv'
<1>1. /\ busy \in BOOLEAN /\ prepare \in BOOLEAN /\ link \in BOOLEAN
      /\ sent \subseteq 1..prints /\ gaveUp \subseteq 1..prints
      /\ held \in [Settings -> 0..prints]
  BY DEF IInv, TypeOK
<1>2. /\ {"wait", "refused", "timeout"} \subseteq Places \ (Loops \cup {"checklist"} \cup Filters)
      /\ {"snapshot", "printing"} \subseteq Places \ (Loops \cup {"checklist"})
      /\ {"snapshot", "printing"} \subseteq Filters
      /\ "checklist" \notin Filters
  BY DEF Places, Loops, Dialogs, Filters
<1>3. ASSUME Cancelled \/ BoxClosed PROVE IInv'
  <2>1. /\ running # <<>> /\ Top.at \in {"checklist", "refused", "timeout"}
        /\ running' = Front(running)
        /\ UNCHANGED <<prints, busy, prepare, link, held, job, sent, gaveUp, released>>
    BY <1>3 DEF Cancelled, BoxClosed, TopAt, Return
  <2>2. Top.at \notin Filters /\ Top.at \notin {"wait", "snapshot"}
    BY <1>2, <2>1
  <2> QED
    BY <1>1, <2>1, <2>2, StepReturn
<1>4. ASSUME Header PROVE IInv'
  <2>1. /\ running # <<>> /\ Top.at = "checklist" /\ GoTo("wait") /\ job' = Top.id
        /\ UNCHANGED <<prints, busy, prepare, link, held, sent, gaveUp, released>>
    BY <1>4 DEF Header, TopAt
  <2>2. released \/ ~busy
    BY <1>2, <2>1, TopFacts
  <2> QED
    BY <1>1, <1>2, <2>1, <2>2, StepGoTo
<1>5. ASSUME HeaderRefused PROVE IInv'
  <2>1. /\ running # <<>> /\ Top.at = "checklist" /\ GoTo("refused")
        /\ UNCHANGED <<prints, busy, prepare, link, held, job, sent, gaveUp, released>>
    BY <1>5 DEF HeaderRefused, TopAt
  <2>2. released \/ ~busy
    BY <1>2, <2>1, TopFacts
  <2> QED
    BY <1>1, <1>2, <2>1, <2>2, StepGoTo
<1>6. ASSUME HeaderUnheard PROVE IInv'
  <2>1. /\ running # <<>> /\ Top.at = "checklist" /\ GoTo("refused")
        /\ job' = Top.id /\ link' = FALSE
        /\ UNCHANGED <<prints, busy, prepare, held, sent, gaveUp, released>>
    BY <1>6 DEF HeaderUnheard, TopAt
  <2>2. released \/ ~busy
    BY <1>2, <2>1, TopFacts
  <2> QED
    BY <1>1, <1>2, <2>1, <2>2, StepGoTo
<1>7. ASSUME Printing PROVE IInv'
  <2>1. /\ running # <<>> /\ Top.at = "wait" /\ GoTo("snapshot") /\ busy' = TRUE
        /\ UNCHANGED <<prints, prepare, link, held, job, sent, gaveUp, released>>
    BY <1>7 DEF Printing, TopAt
  <2>2. job = Top.id \/ released
    BY <2>1, TopFacts
  <2> QED
    BY <1>1, <1>2, <2>1, <2>2, StepGoTo
<1>8. ASSUME NotPrinting PROVE IInv'
  <2>1. /\ running # <<>> /\ Top.at = "wait"
        /\ UNCHANGED <<prints, busy, prepare, link, held, job, sent, released>>
    BY <1>8 DEF NotPrinting, TopAt
  <2>2. /\ Top \in Calls(prints) /\ KeptBy(Top, held)
        /\ released \/ ~busy
        /\ job = Top.id \/ released
    BY <1>2, <2>1, TopFacts
  <2>3. CASE Top.polls < MaxPolls
    <3> DEFINE call == [Top EXCEPT !.polls = @ + 1]
    <3>1. running' = Moved(call) /\ gaveUp' = gaveUp
      BY <1>8, <2>3 DEF NotPrinting
    <3>2. /\ call \in Calls(prints) /\ call.at = "wait" /\ call.id = Top.id
          /\ call.missed = Top.missed
      BY <2>1, <2>2, <2>3, StartAssumption DEF Calls
    <3> HIDE DEF call
    <3>3. KeptBy(call, held')
      BY <2>1, <2>2, <3>2 DEF KeptBy
    <3>4. \A c \in Settings : held'[c] \in {held[c], Top.id}
      BY <2>1
    <3> QED
      BY <1>1, <1>2, <2>1, <2>2, <3>1, <3>2, <3>3, <3>4, StepMoved
  <2>4. CASE ~(Top.polls < MaxPolls)
    <3>1. GoTo("timeout") /\ gaveUp' = gaveUp \cup {Top.id}
      BY <1>8, <2>4 DEF NotPrinting
    <3>2. Top.id \in 1..prints
      BY <2>2 DEF Calls
    <3> QED
      BY <1>1, <1>2, <2>1, <2>2, <3>1, <3>2, StepGoTo
  <2> QED
    BY <2>3, <2>4
<1>9. ASSUME Transfer PROVE IInv'
  <2>1. /\ running # <<>> /\ Top.at = "snapshot" /\ GoTo("printing") /\ busy' = TRUE
        /\ sent' = sent \cup {Top.id}
        /\ UNCHANGED <<prints, prepare, link, held, job, gaveUp, released>>
    BY <1>9 DEF Transfer, TopAt
  <2>2. /\ Top.id \in 1..prints
        /\ job = Top.id \/ released
    BY <2>1, TopFacts DEF Calls
  <2> QED
    BY <1>1, <1>2, <2>1, <2>2, StepGoTo
<1>10. ASSUME Transferred PROVE IInv'
  <2>1. /\ running # <<>> /\ Top.at = "printing" /\ running' = Front(running)
        /\ busy' = FALSE
        /\ UNCHANGED <<prints, prepare, link, held, job, sent, gaveUp, released>>
    BY <1>10 DEF Transferred, TopAt, Return
  <2> QED
    BY <1>1, <2>1, StepReturn
<1> QED
  BY <1>3, <1>4, <1>5, <1>6, <1>7, <1>8, <1>9, <1>10 DEF Poll

LEMMA Invariance == Spec => []IInv
<1>1. Init => IInv
  BY InitIInv
<1>2. IInv /\ [Next]_vars => IInv'
  <2> SUFFICES ASSUME IInv, [Next]_vars PROVE IInv'
    OBVIOUS
  <2>1. CASE PrintClicked
    BY <2>1, StepPrintClicked
  <2>2. CASE Release
    BY <2>2, StepRelease
  <2>3. CASE \/ \E overlap \in BOOLEAN : Detected(overlap)
             \/ \E yes \in BOOLEAN : PrintAnyway(yes)
             \/ Estimate
             \/ \E a \in Answers : NoEstimate(a) \/ Estimated(a) \/ PollOption(a)
    BY <2>3, StepOptions
  <2>4. CASE \/ \E accepted \in BOOLEAN, missed \in SUBSET {"pump"} : Prepared(accepted, missed)
             \/ \E missed \in SUBSET {"infrared"} : Infrared(missed)
             \/ \E missed \in SUBSET Late : Checklist(missed)
    BY <2>4, StepSettings
  <2>5. CASE \/ Cancelled \/ Header \/ HeaderRefused \/ HeaderUnheard
             \/ Poll \/ BoxClosed \/ Transfer \/ Transferred
    BY <2>5, StepJob
  <2>6. CASE LoseLink \/ UNCHANGED vars
    <3>1. UNCHANGED <<prints, running, busy, held, job, sent, gaveUp, released>>
      BY <2>6 DEF LoseLink, vars
    <3>2. prepare' \in BOOLEAN /\ link' \in BOOLEAN
      BY <2>6 DEF LoseLink, vars, IInv, TypeOK
    <3>3. link' => link
      BY <2>6 DEF LoseLink, vars
    <3> QED
      BY <3>1, <3>2, <3>3, StepBeside
  <2> QED
    BY <2>1, <2>2, <2>3, <2>4, <2>5, <2>6 DEF Next
<1> QED
  BY <1>1, <1>2, PTL DEF Spec

-----------------------------------------------------------------------------
(* The calls, the settings at the printer and the jobs have their types,   *)
(* and the wait of mainwindow_RunTime.cpp:7990 never asks more often than  *)
(* it may.                                                                 *)
THEOREM TypeCorrect == Spec => []TypeOK
<1>1. IInv => TypeOK
  BY DEF IInv
<1> QED
  BY <1>1, Invariance, PTL

(* The settings at the printer are the caller's own when its checklist     *)
(* opens and while it waits, however many prints were started in the event *)
(* loops around the infrared command (mainwindow_RunTime.cpp:7942).        *)
THEOREM OwnSettingsCorrect == Spec => []OwnSettings
<1>1. IInv => OwnSettings
  <2> SUFFICES ASSUME IInv, NEW k \in 1..Len(running),
                      running[k].at \in {"checklist", "wait"}
               PROVE  /\ \A c \in Late \ running[k].missed : held[c] = running[k].id
                      /\ \A c \in Early \ running[k].missed : held[c] >= running[k].id
    BY DEF OwnSettings
  <2>1. KeptBy(running[k], held)
    BY DEF IInv, Kept
  <2> QED
    BY <2>1 DEF KeptBy, Early
<1> QED
  BY <1>1, Invariance, PTL

(* Two prints are at the printer at once only after some other filter has  *)
(* cleared MeshDocument::busy (meshmodel.h:833).                           *)
THEOREM OneAtATimeCorrect == Spec => []OneAtATime
<1>1. IInv => OneAtATime
  BY DEF IInv
<1> QED
  BY <1>1, Invariance, PTL

(* The printer's job is the one of the call that waits for it or sends it  *)
(* its layers (mainwindow_RunTime.cpp:7984, 8022).                         *)
THEOREM OwnJobCorrect == Spec => []OwnJob
<1>1. IInv => OwnJob
  BY DEF IInv
<1> QED
  BY <1>1, Invariance, PTL

(* A header that the printer accepted is followed by a transfer, unless    *)
(* the wait gave up (mainwindow_RunTime.cpp:8005).                         *)
THEOREM JobIsFollowedCorrect == Spec => []JobIsFollowed
<1>1. IInv => JobIsFollowed
  BY DEF IInv
<1> QED
  BY <1>1, Invariance, PTL

-----------------------------------------------------------------------------
(* What can happen while a call waits.                                     *)
LEMMA WaitSteps ==
  ASSUME TopAt("wait"), Next
  PROVE  Poll \/ LoseLink
<1>1. ~Active
  BY DEF Active, TopAt, Loops, Filters
<1>2. \A a : TopAt(a) => a = "wait"
  BY DEF TopAt
<1>3. ~(\/ PrintClicked \/ Release
        \/ \E overlap \in BOOLEAN : Detected(overlap)
        \/ \E yes \in BOOLEAN : PrintAnyway(yes)
        \/ Estimate
        \/ \E a \in Answers : NoEstimate(a) \/ Estimated(a) \/ PollOption(a))
  BY <1>1, <1>2 DEF PrintClicked, Release, Detected, PrintAnyway, Estimate,
                    NoEstimate, Estimated, PollOption
<1>4. ~(\/ \E accepted \in BOOLEAN, missed \in SUBSET {"pump"} : Prepared(accepted, missed)
        \/ \E missed \in SUBSET {"infrared"} : Infrared(missed)
        \/ \E missed \in SUBSET Late : Checklist(missed))
  BY <1>2 DEF Prepared, Infrared, Checklist
<1>5. ~(Cancelled \/ Header \/ HeaderRefused \/ HeaderUnheard
        \/ BoxClosed \/ Transfer \/ Transferred)
  BY <1>2 DEF Cancelled, Header, HeaderRefused, HeaderUnheard, BoxClosed, Transfer, Transferred
<1> QED
  BY <1>3, <1>4, <1>5 DEF Next

(* A poll that does not end the wait is counted.                           *)
LEMMA WaitCounts ==
  ASSUME IInv, Next, TopAt("wait"), TopAt("wait")'
  PROVE  WaitLeft' \in 0..(WaitLeft - 1)
<1>1. running \in Seq(Calls(prints)) /\ running # <<>> /\ Top \in Calls(prints)
  BY TopFacts DEF TopAt, IInv, TypeOK, Calls
<1>2. Top.polls \in 0..MaxPolls /\ MaxPolls \in Nat /\ link \in BOOLEAN
  BY <1>1, StartAssumption DEF Calls, IInv, TypeOK
<1>3. CASE LoseLink
  <2>1. link /\ ~link' /\ Top' = Top
    BY <1>3 DEF LoseLink, Top
  <2>2. WaitLeft = MaxPolls - Top.polls + 1 /\ WaitLeft' = MaxPolls - Top.polls + 0
    BY <2>1 DEF WaitLeft
  <2> QED
    BY <1>2, <2>2
<1>4. ASSUME NEW call \in Calls(prints), running' = Moved(call)
      PROVE  Top' = call
  <2>1. Last(Moved(call)) = call
    BY <1>1, MovedCalls
  <2> QED
    BY <1>4, <2>1 DEF Top
<1>5. ASSUME NEW a \in Places \ {"wait"}, GoTo(a) PROVE FALSE
  <2>1. [Top EXCEPT !.at = a] \in Calls(prints) /\ [Top EXCEPT !.at = a].at = a
    BY <1>1 DEF Calls
  <2>2. Top'.at = a
    BY <1>4, <1>5, <2>1 DEF GoTo
  <2> QED
    BY <2>2 DEF TopAt
<1>6. CASE Printing
  BY <1>5, <1>6 DEF Printing, Places, Filters
<1>7. CASE NotPrinting
  <2>1. Top.polls < MaxPolls
    BY <1>5, <1>7 DEF NotPrinting, Places, Dialogs
  <2> DEFINE call == [Top EXCEPT !.polls = @ + 1]
  <2>2. call \in Calls(prints) /\ call.polls = Top.polls + 1
    <3>1. Top.polls + 1 \in 0..MaxPolls
      BY <1>2, <2>1
    <3> QED
      BY <1>1, <3>1 DEF Calls
  <2>3. running' = Moved(call) /\ link' = link
    BY <1>7, <2>1 DEF NotPrinting
  <2> HIDE DEF call
  <2>4. Top' = call
    BY <1>4, <2>2, <2>3
  <2>5. WaitLeft' = MaxPolls - (Top.polls + 1) + (IF link THEN 1 ELSE 0)
    BY <2>2, <2>3, <2>4 DEF WaitLeft
  <2> QED
    BY <1>2, <2>1, <2>5 DEF WaitLeft
<1> QED
  BY <1>3, <1>6, <1>7, WaitSteps DEF Poll

(* The wait for Printing uses up its polls and nothing else happens in it, *)
(* whatever calls are below (mainwindow_RunTime.cpp:7989).                 *)
THEOREM WaitAdvancesCorrect == Spec => WaitAdvances
<1>1. IInv /\ [Next]_vars =>
        [TopAt("wait") /\ TopAt("wait")' => WaitLeft' \in 0..(WaitLeft - 1)]_vars
  BY WaitCounts
<1> QED
  BY <1>1, Invariance, PTL DEF Spec, WaitAdvances
=============================================================================
