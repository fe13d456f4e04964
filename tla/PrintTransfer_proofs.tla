------------------------ MODULE PrintTransfer_proofs ------------------------
(***************************************************************************)
(* Proofs about the layer loop: what is handed to the print job is every   *)
(* layer, once and in order, for any number of layers and any batch size.  *)
(***************************************************************************)
EXTENDS PrintTransfer, TLAPS

-----------------------------------------------------------------------------
(* Division by a positive number has one quotient.                         *)
LEMMA QuotientUnique ==
  ASSUME NEW n \in Nat \ {0},
         NEW q1 \in Nat, NEW r1 \in 0..(n - 1),
         NEW q2 \in Nat, NEW r2 \in 0..(n - 1),
         n * q1 + r1 = n * q2 + r2
  PROVE  q1 = q2
<1>1. CASE q1 < q2
  <2>1. q2 >= q1 + 1
    BY <1>1
  <2>2. n * q2 >= n * (q1 + 1)
    BY <2>1, SMT
  <2>3. n * (q1 + 1) = n * q1 + n
    BY SMT
  <2> QED
    BY <2>2, <2>3
<1>2. CASE q1 > q2
  <2>1. q1 >= q2 + 1
    BY <1>2
  <2>2. n * q1 >= n * (q2 + 1)
    BY <2>1, SMT
  <2>3. n * (q2 + 1) = n * q2 + n
    BY SMT
  <2> QED
    BY <2>2, <2>3
<1> QED
  BY <1>1, <1>2

(* Unless the next number is a multiple, the remainder grows by one.       *)
LEMMA RemainderGrows ==
  ASSUME NEW k \in Nat, NEW n \in Nat \ {0}, (k + 1) % n # 0
  PROVE  (k + 1) % n = (k % n) + 1
<1> DEFINE q == k \div n
           r == k % n
           q2 == (k + 1) \div n
           r2 == (k + 1) % n
<1>1. k = n * q + r /\ r \in 0..(n - 1) /\ q \in Nat
  OBVIOUS
<1>2. k + 1 = n * q2 + r2 /\ r2 \in 0..(n - 1) /\ q2 \in Nat
  OBVIOUS
<1>3. r2 - 1 \in 0..(n - 1)
  BY <1>2
<1> HIDE DEF q, r, q2, r2
<1>4. n * q \in Nat /\ n * q2 \in Nat
  BY <1>1, <1>2, SMT
<1>5. n * q + r = n * q2 + (r2 - 1)
  BY <1>1, <1>2, <1>4
<1>6. q = q2
  BY <1>1, <1>2, <1>3, <1>5, QuotientUnique
<1>7. r2 = r + 1
  BY <1>1, <1>2, <1>4, <1>5, <1>6
<1> QED
  BY <1>7 DEF r, r2

-----------------------------------------------------------------------------
(* The element of a sequence of layers is fixed by its position.           *)
From(s, layer) == \A k \in 1..Len(s) : s[k] = layer + k - 1

(* Where the loop is, and what it holds there.                             *)
Running == pc \in {"start", "callback", "slice"}

InLoop ==
  pc \in {"callback", "slice"} =>
    /\ job.first <= i /\ i < job.last /\ job.box = job.last
    /\ Len(handed) + Len(queue) = i - job.first
    /\ Len(queue) <= i % BatchSize

BeforeLoop ==
  pc = "start" => handed = <<>> /\ queue = <<>> /\ i = 0

AfterLoop ==
  (ret = "true" /\ job.first < job.last) =>
    /\ Len(handed) = job.last - job.first
    /\ queue = <<>> /\ zx = "closed"

Exits ==
  /\ Running <=> ret = "running"
  /\ Running => zx = "open"
  /\ ret = "false" => zx = "closed"
  /\ ret = "true" /\ job.first >= job.last => zx = "open"

Batches ==
  /\ From(handed, job.first)
  /\ From(queue, job.first + Len(handed))
  /\ Len(queue) < BatchSize

Types ==
  /\ job \in Jobs
  /\ pc \in {"start", "callback", "slice", "returned", "reported"}
  /\ i \in 0..MaxLayers
  /\ queue \in Seq(0..MaxLayers) /\ handed \in Seq(0..MaxLayers)
  /\ lost \subseteq 0..MaxLayers
  /\ zx \in {"open", "closed"}
  /\ waited \in 0..(DoorPolls + 1)
  /\ (Running => waited <= DoorPolls)
  /\ status \in Statuses \cup {"none"}
  /\ asked \in BOOLEAN
  /\ ret \in {"running", "true", "false"}
  /\ recorded \in BOOLEAN

(* The inductive invariant: the queue's length is bounded by the layers    *)
(* since the last full batch, and the loop knows how many layers are out.  *)
IInv == Types /\ Batches /\ BeforeLoop /\ InLoop /\ AfterLoop /\ Exits

LEMMA InitIInv == Init => IInv
<1> SUFFICES ASSUME Init PROVE IInv
  OBVIOUS
<1>1. job.box \in Nat /\ DoorPolls \in Nat /\ MaxLayers \in Nat /\ BatchSize \in Nat \ {0}
  BY TransferAssumption DEF Init, Jobs
<1>2. Types
  <2>1. <<>> \in Seq(0..MaxLayers) /\ 0 \in 0..MaxLayers /\ 0 \in 0..(DoorPolls + 1)
    BY <1>1
  <2> QED
    <3>1. queue \in Seq(0..MaxLayers) /\ handed \in Seq(0..MaxLayers)
      BY <2>1 DEF Init
    <3>2. i \in 0..MaxLayers /\ waited \in 0..(DoorPolls + 1) /\ waited <= DoorPolls
      BY <1>1 DEF Init
    <3>3. job \in Jobs /\ lost \subseteq 0..MaxLayers
      BY DEF Init
    <3> QED
      BY <3>1, <3>2, <3>3 DEF Init, Types
<1>3. Batches
  BY <1>1 DEF Init, Batches, From
<1>4. BeforeLoop /\ InLoop /\ AfterLoop /\ Exits
  BY DEF Init, BeforeLoop, InLoop, AfterLoop, Exits, Running
<1> QED
  BY <1>2, <1>3, <1>4 DEF IInv

(* Steps that leave the loop by closing the job and returning false.       *)
LEMMA StopIInv ==
  ASSUME IInv, Closed, Return("false"),
         UNCHANGED <<job, i, queue, handed, lost, recorded>>,
         waited' \in 0..(DoorPolls + 1), status' \in Statuses \cup {"none"},
         asked' \in BOOLEAN
  PROVE  IInv'
<1> USE DEF IInv, Closed, Return
<1>1. Types'
  BY DEF Types, Running
<1>2. Batches'
  BY DEF Batches, From
<1>3. BeforeLoop' /\ InLoop' /\ AfterLoop' /\ Exits'
  BY DEF BeforeLoop, InLoop, AfterLoop, Exits, Running
<1> QED
  BY <1>1, <1>2, <1>3

(* Steps that go on from the callback to the layer.                        *)
LEMMA GoOnIInv ==
  ASSUME IInv, pc = "callback", GoOn,
         waited' \in 0..DoorPolls, status' \in Statuses \cup {"none"},
         asked' \in BOOLEAN
  PROVE  IInv'
<1> USE DEF IInv, GoOn
<1>1. Types'
  <2>1. waited' \in 0..(DoorPolls + 1) /\ waited' <= DoorPolls
    BY TransferAssumption
  <2> QED
    BY <2>1 DEF Types, Running
<1>2. Batches'
  BY DEF Batches, From
<1>3. BeforeLoop' /\ InLoop' /\ AfterLoop' /\ Exits'
  BY DEF BeforeLoop, InLoop, AfterLoop, Exits, Running
<1> QED
  BY <1>1, <1>2, <1>3

LEMMA BeginIInv ==
  ASSUME IInv, Begin
  PROVE  IInv'
<1> USE DEF IInv, Begin, Return
<1>1. /\ job \in Jobs /\ job' = [job EXCEPT !.box = job.last]
      /\ job'.first = job.first /\ job'.last = job.last /\ job'.box = job.last
      /\ job.first \in 0..MaxLayers /\ job.last \in 0..MaxLayers
  BY DEF Types, Jobs
<1>2. job' \in Jobs
  BY <1>1 DEF Jobs
<1>3. MaxLayers \in Nat /\ BatchSize \in Nat \ {0} /\ DoorPolls \in Nat
  BY TransferAssumption
<1>4. handed = <<>> /\ queue = <<>> /\ zx = "open" /\ ret = "running" /\ pc = "start"
  BY DEF BeforeLoop, Exits, Running
<1>5. Batches'
  BY <1>1, <1>4 DEF Batches, From
<1>6. CASE job.first < job.last
  <2>1. pc' = "callback" /\ ret' = ret /\ i' = job.first
    BY <1>6
  <2>2. Types'
    BY <1>1, <1>2, <1>3, <1>4, <2>1 DEF Types, Running
  <2>3. 0 <= i' % BatchSize
    BY <1>1, <1>3, <2>1
  <2>4. InLoop'
    BY <1>1, <1>3, <1>4, <1>6, <2>1, <2>3 DEF InLoop
  <2>5. BeforeLoop' /\ AfterLoop' /\ Exits'
    BY <1>4, <2>1 DEF BeforeLoop, AfterLoop, Exits, Running
  <2> QED
    BY <1>5, <2>2, <2>4, <2>5
<1>7. CASE ~(job.first < job.last)
  <2>1. pc' = "returned" /\ ret' = "true" /\ i' = job.first
    BY <1>7
  <2>2. Types'
    BY <1>1, <1>2, <1>3, <1>4, <2>1 DEF Types, Running
  <2>3. BeforeLoop' /\ InLoop' /\ Exits'
    BY <2>1, <1>4 DEF BeforeLoop, InLoop, Exits, Running
  <2>4. AfterLoop'
    BY <1>1, <1>7 DEF AfterLoop
  <2> QED
    BY <1>5, <2>2, <2>3, <2>4
<1> QED
  BY <1>6, <1>7

LEMMA WaitIInv ==
  ASSUME IInv, PollWaits
  PROVE  IInv'
<1>1. DoorPolls \in Nat
  BY TransferAssumption
<1>2. waited' \in 0..(DoorPolls + 1) /\ status' \in Statuses \cup {"none"} /\ asked' \in BOOLEAN
  BY <1>1 DEF PollWaits, IInv, Types, Running, Statuses
<1>3. CASE waited + 1 > DoorPolls
  BY <1>2, <1>3, StopIInv DEF PollWaits, Stop
<1>4. CASE ~(waited + 1 > DoorPolls)
  <2> USE <1>4 DEF IInv, PollWaits
  <2>0. waited' <= DoorPolls
    BY <1>1 DEF Types
  <2>1. Types'
    BY <1>2, <2>0 DEF Types, Running
  <2>2. Batches'
    BY DEF Batches, From
  <2>3. BeforeLoop' /\ InLoop' /\ AfterLoop' /\ Exits'
    BY DEF BeforeLoop, InLoop, AfterLoop, Exits, Running
  <2> QED
    BY <2>1, <2>2, <2>3
<1> QED
  BY <1>3, <1>4

(* What the invariant says of the numbers and sequences while in the loop. *)
LEMMA Facts ==
  ASSUME IInv, pc \in {"callback", "slice"}
  PROVE  /\ MaxLayers \in Nat /\ BatchSize \in Nat \ {0}
         /\ i \in 0..MaxLayers /\ job.first \in 0..MaxLayers /\ job.last \in 0..MaxLayers
         /\ queue \in Seq(0..MaxLayers) /\ handed \in Seq(0..MaxLayers)
         /\ Len(queue) \in Nat /\ Len(handed) \in Nat
         /\ job.first <= i /\ i < job.last /\ job.box = job.last
         /\ i = job.first + Len(handed) + Len(queue)
         /\ zx = "open" /\ ret = "running"
<1>1. /\ MaxLayers \in Nat /\ BatchSize \in Nat \ {0}
      /\ i \in 0..MaxLayers /\ job.first \in 0..MaxLayers /\ job.last \in 0..MaxLayers
  BY TransferAssumption DEF IInv, Types, Jobs
<1>2. queue \in Seq(0..MaxLayers) /\ handed \in Seq(0..MaxLayers)
  BY DEF IInv, Types
<1>3. Len(queue) \in Nat /\ Len(handed) \in Nat
  BY <1>2
<1>4. /\ job.first <= i /\ i < job.last /\ job.box = job.last
      /\ Len(handed) + Len(queue) = i - job.first
  BY DEF IInv, InLoop
<1>5. i = job.first + Len(handed) + Len(queue)
  BY <1>1, <1>3, <1>4
<1>6. zx = "open" /\ ret = "running"
  BY DEF IInv, Exits, Running
<1> QED
  BY <1>1, <1>2, <1>3, <1>4, <1>5, <1>6

(* A layer that stays in the queue.                                        *)
LEMMA KeptIInv ==
  ASSUME IInv, LayerKept
  PROVE  IInv'
<1>1. /\ MaxLayers \in Nat /\ BatchSize \in Nat \ {0}
      /\ i \in 0..MaxLayers /\ job.first \in 0..MaxLayers /\ job.last \in 0..MaxLayers
      /\ Len(queue) \in Nat /\ Len(handed) \in Nat
      /\ job.first <= i /\ i < job.last /\ job.box = job.last
      /\ i = job.first + Len(handed) + Len(queue)
  BY Facts DEF LayerKept
<1>2. queue \in Seq(0..MaxLayers) /\ handed \in Seq(0..MaxLayers)
  BY Facts DEF LayerKept
<1>3. zx = "open" /\ ret = "running"
  BY Facts DEF LayerKept
<1>4. /\ queue' = Append(queue, i) /\ handed' = handed /\ job' = job /\ i' = i + 1
      /\ UNCHANGED <<lost, zx, waited, status, asked, recorded>>
  BY DEF LayerKept, NextLayer
<1>5. i + 1 # job.last
  BY <1>1 DEF LayerKept, Top
<1>6. i + 1 < job.last
  BY <1>1, <1>5
<1>7. pc' = "callback" /\ ret' = ret
  BY <1>6 DEF LayerKept, NextLayer
<1>8. queue' \in Seq(0..MaxLayers) /\ Len(queue') = Len(queue) + 1
  BY <1>1, <1>2, <1>4
<1>9. i + 1 \in 0..MaxLayers
  BY <1>1, <1>6
<1>10. Types'
  BY <1>2, <1>4, <1>7, <1>8, <1>9 DEF LayerKept, IInv, Types, Running
<1>11. (i + 1) % BatchSize = (i % BatchSize) + 1
  BY <1>1, RemainderGrows DEF LayerKept, Full
<1>12. (i + 1) % BatchSize \in 0..(BatchSize - 1) /\ i % BatchSize \in Nat
  BY <1>1
<1>13. Len(queue) <= i % BatchSize
  BY DEF LayerKept, IInv, InLoop
<1>14. Len(queue') <= i' % BatchSize /\ Len(queue') < BatchSize
  <2> DEFINE r == i % BatchSize
             r2 == (i + 1) % BatchSize
  <2>1. r \in Nat /\ r2 \in 0..(BatchSize - 1) /\ r2 = r + 1 /\ Len(queue) <= r
    BY <1>11, <1>12, <1>13
  <2> HIDE DEF r, r2
  <2>2. Len(queue') <= r2 /\ Len(queue') < BatchSize
    BY <1>1, <1>8, <2>1
  <2> QED
    BY <1>4, <2>2 DEF r2
<1>15. ASSUME NEW k \in 1..Len(queue') PROVE queue'[k] = job.first + Len(handed) + k - 1
  <2>1. CASE k = Len(queue) + 1
    <3>1. queue'[k] = i
      BY <1>2, <1>4, <2>1
    <3> QED
      BY <1>1, <2>1, <3>1
  <2>2. CASE k # Len(queue) + 1
    <3>1. k \in 1..Len(queue)
      BY <1>1, <1>8, <2>2
    <3>2. queue'[k] = queue[k]
      BY <1>2, <1>4, <3>1
    <3>3. queue[k] = job.first + Len(handed) + k - 1
      BY <3>1 DEF IInv, Batches, From
    <3> QED
      BY <3>2, <3>3
  <2> QED
    BY <2>1, <2>2
<1>16. From(queue', job'.first + Len(handed'))
  BY <1>4, <1>15 DEF From
<1>17. From(handed', job'.first)
  BY <1>4 DEF IInv, Batches, From
<1>18. Batches'
  BY <1>14, <1>16, <1>17 DEF Batches
<1>19. Len(handed') + Len(queue') = i' - job'.first
  BY <1>1, <1>4, <1>8
<1>20. job'.first <= i' /\ i' < job'.last /\ job'.box = job'.last
  BY <1>1, <1>4, <1>6
<1>21. InLoop'
  BY <1>14, <1>19, <1>20 DEF InLoop
<1>22. BeforeLoop' /\ AfterLoop' /\ Exits'
  BY <1>3, <1>4, <1>7 DEF BeforeLoop, AfterLoop, Exits, Running
<1> QED
  BY <1>10, <1>18, <1>21, <1>22 DEF IInv

(* A layer with which the queue is handed over.                            *)
LEMMA SentIInv ==
  ASSUME IInv, NEW failed, LayerSent(failed)
  PROVE  IInv'
<1>1. /\ MaxLayers \in Nat /\ BatchSize \in Nat \ {0}
      /\ i \in 0..MaxLayers /\ job.first \in 0..MaxLayers /\ job.last \in 0..MaxLayers
      /\ Len(queue) \in Nat /\ Len(handed) \in Nat
      /\ job.first <= i /\ i < job.last /\ job.box = job.last
      /\ i = job.first + Len(handed) + Len(queue)
  BY Facts DEF LayerSent
<1>2. queue \in Seq(0..MaxLayers) /\ handed \in Seq(0..MaxLayers)
  BY Facts DEF LayerSent
<1>3. zx = "open" /\ ret = "running"
  BY Facts DEF LayerSent
<1>4. /\ job' = job /\ i' = i + 1 /\ queue' = <<>>
      /\ handed' = handed \o Append(queue, i)
      /\ UNCHANGED <<waited, status, asked, recorded>>
  BY DEF LayerSent, SendData, NextLayer
<1>5. Append(queue, i) \in Seq(0..MaxLayers) /\ Len(Append(queue, i)) = Len(queue) + 1
  BY <1>1, <1>2
<1>6. handed' \in Seq(0..MaxLayers) /\ Len(handed') = Len(handed) + Len(queue) + 1
  BY <1>1, <1>2, <1>4, <1>5
<1>7. i + 1 \in 0..MaxLayers /\ i + 1 <= job.last
  BY <1>1
<1>8. \/ i + 1 < job.last /\ pc' = "callback" /\ ret' = "running" /\ zx' = "open"
      \/ i + 1 = job.last /\ pc' = "returned" /\ ret' = "true" /\ zx' = "closed"
  <2>1. CASE i + 1 < job.last
    <3>1. ~Top
      BY <1>1, <2>1 DEF Top
    <3> QED
      BY <1>3, <2>1, <3>1 DEF LayerSent, NextLayer
  <2>2. CASE i + 1 = job.last
    <3>1. Top /\ ~(i + 1 < job.last)
      BY <1>1, <2>2 DEF Top
    <3> QED
      BY <2>2, <3>1 DEF LayerSent, NextLayer, Return, Closed
  <2> QED
    BY <1>1, <1>7, <2>1, <2>2
<1>9. lost' \subseteq 0..MaxLayers
  <2>1. ToSet(queue) \cup {i} \subseteq 0..MaxLayers
    BY <1>1, <1>2 DEF ToSet
  <2> QED
    BY <2>1 DEF LayerSent, WriteFails, IInv, Types
<1>10. <<>> \in Seq(0..MaxLayers) /\ Len(<<>>) = 0
  OBVIOUS
<1>11. Types'
  BY <1>4, <1>6, <1>7, <1>8, <1>9, <1>10 DEF LayerSent, IInv, Types, Running
<1>12. ASSUME NEW k \in 1..Len(handed') PROVE handed'[k] = job.first + k - 1
  <2>1. CASE k <= Len(handed)
    <3>1. k \in 1..Len(handed)
      BY <1>1, <2>1
    <3>2. handed'[k] = handed[k]
      BY <1>2, <1>4, <1>5, <3>1
    <3> QED
      BY <3>1, <3>2 DEF IInv, Batches, From
  <2>2. CASE k > Len(handed)
    <3> DEFINE l == k - Len(handed)
    <3>1. l \in 1..(Len(queue) + 1)
      BY <1>1, <1>6, <2>2
    <3>2. handed'[k] = Append(queue, i)[l]
      <4>1. Len(handed) + 1 <= k /\ k <= Len(handed) + Len(Append(queue, i))
        BY <1>1, <1>5, <1>6, <2>2
      <4> QED
        BY <1>2, <1>4, <1>5, <4>1
    <3>3. CASE l = Len(queue) + 1
      <4>1. Append(queue, i)[l] = i
        BY <1>2, <3>3
      <4> QED
        BY <1>1, <3>2, <3>3, <4>1
    <3>4. CASE l # Len(queue) + 1
      <4>1. l \in 1..Len(queue)
        BY <1>1, <3>1, <3>4
      <4>2. Append(queue, i)[l] = queue[l]
        BY <1>2, <4>1
      <4>3. queue[l] = job.first + Len(handed) + l - 1
        BY <4>1 DEF IInv, Batches, From
      <4>4. job.first + Len(handed) + l - 1 = job.first + k - 1
        BY <1>1
      <4> QED
        BY <3>2, <4>2, <4>3, <4>4
    <3> QED
      BY <3>3, <3>4
  <2> QED
    BY <1>1, <2>1, <2>2
<1>13. From(handed', job'.first)
  BY <1>4, <1>12 DEF From
<1>14. From(queue', job'.first + Len(handed')) /\ Len(queue') < BatchSize
  BY <1>1, <1>4, <1>10 DEF From
<1>15. Batches'
  BY <1>13, <1>14 DEF Batches
<1>16. Len(queue') <= i' % BatchSize
  BY <1>1, <1>4, <1>10
<1>17. Len(handed') + Len(queue') = i' - job'.first /\ job'.first <= i'
  BY <1>1, <1>4, <1>6, <1>10
<1>18. job'.box = job'.last
  BY <1>1, <1>4
<1>19. InLoop'
  BY <1>4, <1>8, <1>16, <1>17, <1>18 DEF InLoop
<1>20. Len(handed') = i + 1 - job.first
  BY <1>1, <1>6
<1>21. AfterLoop'
  <2>1. CASE i + 1 < job.last
    <3>1. ret' = "running"
      BY <1>1, <1>8, <2>1
    <3> QED
      BY <3>1 DEF AfterLoop
  <2>2. CASE i + 1 = job.last
    BY <1>1, <1>4, <1>8, <1>20, <2>2 DEF AfterLoop
  <2> QED
    BY <1>8, <2>1, <2>2
<1>22. BeforeLoop' /\ Exits'
  BY <1>1, <1>4, <1>8 DEF BeforeLoop, Exits, Running
<1> QED
  BY <1>11, <1>15, <1>19, <1>21, <1>22 DEF IInv

LEMMA ReportIInv ==
  ASSUME IInv, Report
  PROVE  IInv'
<1> USE DEF IInv, Report
<1>1. Types'
  BY DEF Types, Running
<1>2. Batches'
  BY DEF Batches, From
<1>3. BeforeLoop' /\ InLoop' /\ AfterLoop' /\ Exits'
  BY DEF BeforeLoop, InLoop, AfterLoop, Exits, Running
<1> QED
  BY <1>1, <1>2, <1>3

LEMMA NextIInv == IInv /\ [Next]_vars => IInv'
<1> SUFFICES ASSUME IInv, [Next]_vars PROVE IInv'
  OBVIOUS
<1>1. /\ waited \in 0..(DoorPolls + 1) /\ asked \in BOOLEAN
      /\ status \in Statuses \cup {"none"} /\ 0 \in 0..(DoorPolls + 1)
  BY TransferAssumption DEF IInv, Types
<1>2. CASE Refuse
  BY <1>1, <1>2, StopIInv DEF Refuse
<1>3. CASE Begin
  BY <1>3, BeginIInv
<1>4. CASE Report
  BY <1>4, ReportIInv
<1>5. ASSUME NEW s \in Statuses, PollStops(s) PROVE IInv'
  BY <1>1, <1>5, StopIInv DEF PollStops, Stop
<1>6. ASSUME NEW s \in Statuses, PollGoesOn(s) PROVE IInv'
  <2>1. waited' \in 0..DoorPolls /\ status' \in Statuses \cup {"none"}
    BY <1>6, TransferAssumption DEF PollGoesOn
  <2> QED
    BY <1>1, <1>6, <2>1, GoOnIInv DEF PollGoesOn
<1>7. CASE PollWaits
  BY <1>7, WaitIInv
<1>8. CASE FileCallbackStops
  BY <1>1, <1>8, StopIInv DEF FileCallbackStops, Stop
<1>9. CASE FileCallbackGoesOn
  <2>1. waited' \in 0..DoorPolls
    BY <1>1, <1>9, TransferAssumption DEF FileCallbackGoesOn, IInv, Types, Running
  <2> QED
    BY <1>1, <1>9, <2>1, GoOnIInv DEF FileCallbackGoesOn
<1>10. CASE Layer
  BY <1>10, KeptIInv, SentIInv DEF Layer
<1>11. CASE UNCHANGED vars
  BY <1>11 DEF vars, IInv, Types, Batches, From, BeforeLoop, InLoop, AfterLoop, Exits, Running
<1> QED
  BY <1>2, <1>3, <1>4, <1>5, <1>6, <1>7, <1>8, <1>9, <1>10, <1>11 DEF Next, Poll

LEMMA Inductive == Spec => []IInv
BY InitIInv, NextIInv, PTL DEF Spec

-----------------------------------------------------------------------------
(* Every variable keeps its type, and the queue is always shorter than a   *)
(* batch: the loop hands it over no later than every BatchSize layers.     *)
THEOREM TypeCorrect == Spec => []TypeOK
<1>1. IInv => TypeOK
  BY DEF IInv, Types, Batches, TypeOK
<1> QED
  BY <1>1, Inductive, PTL

(* The layers handed to sendData2 and those waiting in the queue are, for  *)
(* any first layer and batch size, every layer so far, once and in order.  *)
THEOREM InOrderCorrect == Spec => []InOrder
<1>1. ASSUME IInv PROVE InOrder
  <2>1. /\ queue \in Seq(0..MaxLayers) /\ handed \in Seq(0..MaxLayers)
        /\ job.first \in Nat
    BY <1>1, TransferAssumption DEF IInv, Types, Jobs
  <2>2. /\ handed \o queue \in Seq(0..MaxLayers)
        /\ Len(handed \o queue) = Len(handed) + Len(queue)
    BY <2>1
  <2>3. ASSUME NEW k \in 1..(Len(handed) + Len(queue))
        PROVE  (handed \o queue)[k] = job.first + k - 1
    <3>1. CASE k <= Len(handed)
      <4>1. (handed \o queue)[k] = handed[k] /\ k \in 1..Len(handed)
        BY <2>1, <3>1
      <4> QED
        BY <1>1, <4>1 DEF IInv, Batches, From
    <3>2. CASE k > Len(handed)
      <4>1. k - Len(handed) \in 1..Len(queue)
        BY <2>1, <3>2
      <4>2. (handed \o queue)[k] = queue[k - Len(handed)]
        BY <2>1, <3>2
      <4>3. queue[k - Len(handed)] = job.first + Len(handed) + (k - Len(handed)) - 1
        BY <1>1, <4>1 DEF IInv, Batches, From
      <4> QED
        BY <2>1, <4>2, <4>3
    <3> QED
      BY <2>1, <3>1, <3>2
  <2>4. handed \o queue = [k \in 1..(Len(handed) + Len(queue)) |-> job.first + k - 1]
    <3> DEFINE whole == handed \o queue
               n == Len(handed) + Len(queue)
    <3>1. whole \in Seq(0..MaxLayers) /\ Len(whole) = n
      BY <2>2
    <3>2. \A k \in 1..n : whole[k] = job.first + k - 1
      BY <2>3
    <3> HIDE DEF whole, n
    <3>3. whole = [k \in 1..n |-> job.first + k - 1]
      BY <3>1, <3>2
    <3> QED
      BY <3>3 DEF whole, n
  <2>5. pc \in {"callback", "slice"} => Len(handed) + Len(queue) = i - job.first
    BY <1>1 DEF IInv, InLoop
  <2> QED
    BY <2>4, <2>5 DEF InOrder
<1> QED
  BY <1>1, Inductive, PTL

(* The filter returns true only when it has handed over every layer of the *)
(* range and closed the job, even if the last batch is not full.           *)
THEOREM CompleteIsAllCorrect == Spec => []CompleteIsAll
<1>1. ASSUME IInv, ret = "true", job.first < job.last
      PROVE  handed = [k \in 1..(job.last - job.first) |-> job.first + k - 1]
  <2>1. handed \in Seq(0..MaxLayers) /\ Len(handed) = job.last - job.first
    BY <1>1 DEF IInv, Types, AfterLoop
  <2>2. \A k \in 1..Len(handed) : handed[k] = job.first + k - 1
    BY <1>1 DEF IInv, Batches, From
  <2> QED
    BY <2>1, <2>2
<1>2. IInv => CompleteIsAll
  BY <1>1 DEF CompleteIsAll, IInv, AfterLoop
<1> QED
  BY <1>2, Inductive, PTL

(* The job is open as long as the filter runs and closed when it returns,  *)
(* except after an empty range, however long the job and its batches are.  *)
THEOREM ClosedAtEndCorrect == Spec => []ClosedAtEnd
<1>1. IInv => ClosedAtEnd
  <2> SUFFICES ASSUME IInv PROVE ClosedAtEnd
    OBVIOUS
  <2>1. job.first \in Int /\ job.last \in Int
    BY TransferAssumption DEF IInv, Types, Jobs
  <2>2. CASE job.first < job.last
    BY <2>1, <2>2 DEF IInv, AfterLoop, Exits, Types, Running, ClosedAtEnd
  <2>3. CASE ~ (job.first < job.last)
    BY <2>1, <2>3 DEF IInv, Exits, Types, Running, ClosedAtEnd
  <2> QED
    BY <2>2, <2>3
<1> QED
  BY <1>1, Inductive, PTL

(* A layer of a print is sliced only after a status that lets it go on.    *)
Allowed ==
  pc = "slice" /\ job.print => status \notin Stopping \cup {"DoorOpened", "none"}

LEMMA AlwaysAllowed == Spec => []Allowed
<1>1. Init => Allowed
  BY DEF Init, Allowed
<1>2. Allowed /\ [Next]_vars => Allowed'
  <2> SUFFICES ASSUME Allowed, [Next]_vars PROVE Allowed'
    OBVIOUS
  <2>1. CASE Refuse \/ Report \/ FileCallbackStops
    BY <2>1 DEF Refuse, Report, FileCallbackStops, Stop, Return, Allowed
  <2>2. CASE Begin
    BY <2>2 DEF Begin, Return, Allowed
  <2>3. ASSUME NEW s \in Statuses, PollStops(s) PROVE Allowed'
    BY <2>3 DEF PollStops, Stop, Return, Allowed
  <2>4. ASSUME NEW s \in Statuses, PollGoesOn(s) PROVE Allowed'
    <3>1. s # "none"
      BY DEF Statuses, Stopping
    <3> QED
      BY <2>4, <3>1 DEF PollGoesOn, Allowed
  <2>5. CASE PollWaits
    BY <2>5 DEF PollWaits, Stop, Return, Allowed
  <2>6. CASE FileCallbackGoesOn
    BY <2>6 DEF FileCallbackGoesOn, GoOn, Allowed
  <2>7. CASE Layer
    BY <2>7 DEF Layer, LayerKept, LayerSent, NextLayer, Return, Allowed
  <2>8. CASE UNCHANGED vars
    BY <2>8 DEF vars, Allowed
  <2> QED
    BY <2>1, <2>2, <2>3, <2>4, <2>5, <2>6, <2>7, <2>8 DEF Next, Poll
<1> QED
  BY <1>1, <1>2, PTL DEF Spec

(* No layer reaches a printer last seen idle, finished, in error or with a *)
(* door open: QCallBack2 has read its status since the layer before.       *)
THEOREM NeverPastStopCorrect == Spec => NeverPastStop
<1> DEFINE Step == handed' # handed /\ job.print =>
                     status \notin Stopping \cup {"DoorOpened", "none"}
<1>1. ASSUME Allowed, [Next]_vars PROVE Step \/ UNCHANGED vars
  <2>1. ASSUME NEW failed, LayerSent(failed) PROVE Step
    BY <1>1, <2>1 DEF LayerSent, Allowed
  <2>2. CASE Refuse \/ Begin \/ Report \/ PollWaits \/ FileCallbackStops
              \/ FileCallbackGoesOn \/ LayerKept
    BY <2>2 DEF Refuse, Begin, Report, PollWaits, Stop, FileCallbackStops,
                FileCallbackGoesOn, GoOn, LayerKept
  <2>3. ASSUME NEW s, PollStops(s) \/ PollGoesOn(s) PROVE Step
    BY <2>3 DEF PollStops, PollGoesOn, Stop, GoOn
  <2> QED
    BY <1>1, <2>1, <2>2, <2>3 DEF Next, Poll, Layer
<1>2. Allowed /\ [Next]_vars => [Step]_vars
  BY <1>1
<1> QED
  BY <1>2, AlwaysAllowed, PTL DEF Spec, NeverPastStop

-----------------------------------------------------------------------------
(* How long the filter runs.  LayerSteps is used as a number without its   *)
(* definition, so that the products below have one variable factor.        *)
LEMMA Products ==
  ASSUME NEW k \in Nat, NEW m \in Nat, k <= m, NEW w \in Nat
  PROVE  /\ k * w \in Nat /\ m * w \in Nat
         /\ k * w <= m * w
         /\ (k + 1) * w = k * w + w
<1>1. k * w \in Nat /\ m * w \in Nat /\ (m - k) * w \in Nat
  BY SMT
<1>2. (k + 1) * w = k * w + w
  BY SMT
<1>3. m * w = k * w + (m - k) * w
  BY SMT
<1> QED
  BY <1>1, <1>2, <1>3

(* StepsLeft, place by place.  In the loop k layers come after this one.   *)
LEMMA StepsLeftAt ==
  ASSUME IInv
  PROVE  /\ LayerSteps \in Nat /\ LayerSteps = DoorPolls + 2
         /\ pc = "start" => StepsLeft = MaxLayers * LayerSteps + 2
         /\ pc = "callback" =>
              /\ waited \in 0..DoorPolls
              /\ job.last - i - 1 \in Nat
              /\ (job.last - i - 1) * LayerSteps \in Nat
              /\ StepsLeft = (job.last - i - 1) * LayerSteps + LayerSteps + 1 - waited
         /\ pc = "slice" =>
              /\ job.last - i - 1 \in Nat
              /\ (job.last - i - 1) * LayerSteps \in Nat
              /\ StepsLeft = (job.last - i - 1) * LayerSteps + 2
         /\ pc = "returned" => StepsLeft = 1
         /\ pc = "reported" => StepsLeft = 0
<1>1. LayerSteps \in Nat /\ LayerSteps = DoorPolls + 2
  BY TransferAssumption DEF LayerSteps
<1>2. ASSUME pc \in {"callback", "slice"}
      PROVE  /\ job.last - i - 1 \in Nat
             /\ (job.last - i - 1) * LayerSteps \in Nat
             /\ (job.last - i) * LayerSteps = (job.last - i - 1) * LayerSteps + LayerSteps
  <2> DEFINE k == job.last - i - 1
  <2>1. k \in Nat /\ k <= k /\ job.last - i = k + 1
    BY <1>2, Facts
  <2> HIDE DEF k
  <2>2. k * LayerSteps \in Nat /\ (k + 1) * LayerSteps = k * LayerSteps + LayerSteps
    BY <1>1, <2>1, Products
  <2> QED
    BY <2>1, <2>2 DEF k
<1>3. pc = "callback" => waited \in 0..DoorPolls
  BY TransferAssumption DEF IInv, Types, Running
<1>4. ASSUME pc = "start" PROVE StepsLeft = MaxLayers * LayerSteps + 2
  BY <1>4 DEF StepsLeft
<1>5. ASSUME pc = "callback" PROVE StepsLeft = (job.last - i) * LayerSteps + 1 - waited
  BY <1>5 DEF StepsLeft
<1>6. ASSUME pc = "slice" PROVE StepsLeft = (job.last - i - 1) * LayerSteps + 2
  BY <1>6 DEF StepsLeft
<1>7. (pc = "returned" => StepsLeft = 1) /\ (pc = "reported" => StepsLeft = 0)
  BY DEF StepsLeft
<1> QED
  BY <1>1, <1>2, <1>3, <1>4, <1>5, <1>6, <1>7

(* At every place at least one step is left, but at the last one.          *)
LEMMA StepsLeftIsNat ==
  ASSUME IInv
  PROVE  StepsLeft \in Nat /\ (pc \in {"start", "callback", "slice"} => StepsLeft > 1)
<1>1. MaxLayers \in Nat /\ DoorPolls \in Nat
  BY TransferAssumption
<1>2. MaxLayers * LayerSteps \in Nat
  BY <1>1, StepsLeftAt, Products
<1>3. pc \in {"start", "callback", "slice", "returned", "reported"}
  BY DEF IInv, Types
<1> HIDE DEF IInv, StepsLeft, LayerSteps
<1>4. CASE pc = "start"
  BY <1>1, <1>2, <1>4, StepsLeftAt
<1>5. CASE pc = "callback"
  BY <1>1, <1>5, StepsLeftAt
<1>6. CASE pc = "slice"
  BY <1>1, <1>6, StepsLeftAt
<1> QED
  BY <1>3, <1>4, <1>5, <1>6, StepsLeftAt

(* The steps of the loop that do not leave it.                             *)
LEMMA BeginAdvances ==
  ASSUME IInv, Begin PROVE StepsLeft' < StepsLeft
<1>1. MaxLayers \in Nat /\ DoorPolls \in Nat
  BY TransferAssumption
<1>2. IInv'
  BY BeginIInv
<1>3. StepsLeft = MaxLayers * LayerSteps + 2 /\ LayerSteps \in Nat
  BY StepsLeftAt DEF Begin
<1>4. MaxLayers * LayerSteps \in Nat
  BY <1>1, <1>3, Products
<1>5. /\ job'.first = job.first /\ job'.last = job.last /\ i' = job.first
      /\ job.first \in 0..MaxLayers /\ job.last \in 0..MaxLayers
  BY DEF Begin, IInv, Types, Jobs
<1>6. CASE job.first < job.last
  <2>1. pc' = "callback"
    BY <1>6 DEF Begin
  <2>2. StepsLeft' = (job'.last - i') * LayerSteps + 1 - waited' /\ waited' \in Nat
    BY <1>1, <1>2, <2>1 DEF StepsLeft, LayerSteps, IInv, Types
  <2> DEFINE k == job.last - job.first
  <2>3. k \in Nat /\ k <= MaxLayers /\ job'.last - i' = k
    BY <1>1, <1>5, <1>6
  <2> HIDE DEF k
  <2>4. k * LayerSteps <= MaxLayers * LayerSteps /\ k * LayerSteps \in Nat
    BY <1>1, <1>3, <2>3, Products
  <2>5. StepsLeft' = k * LayerSteps + 1 - waited'
    BY <2>2, <2>3
  <2> QED
    BY <1>3, <1>4, <2>2, <2>4, <2>5
<1>7. CASE ~(job.first < job.last)
  <2>1. pc' = "returned"
    BY <1>7 DEF Begin, Return
  <2>2. StepsLeft' = 1
    BY <2>1 DEF StepsLeft
  <2> QED
    BY <1>3, <1>4, <2>2
<1> QED
  BY <1>6, <1>7

LEMMA GoOnAdvances ==
  ASSUME IInv, pc = "callback", GoOn PROVE StepsLeft' < StepsLeft
<1>1. DoorPolls \in Nat
  BY TransferAssumption
<1>2. StepsLeft' = (job.last - i - 1) * LayerSteps + 2
  BY DEF GoOn, StepsLeft, LayerSteps
<1> HIDE DEF LayerSteps, StepsLeft
<1> QED
  BY <1>1, <1>2, StepsLeftAt

LEMMA WaitAdvances ==
  ASSUME IInv, PollWaits PROVE StepsLeft' < StepsLeft
<1>1. DoorPolls \in Nat
  BY TransferAssumption
<1>2. CASE waited + 1 > DoorPolls
  <2>1. StepsLeft' = 1
    BY <1>2 DEF PollWaits, Stop, Return, StepsLeft
  <2> QED
    BY <2>1, StepsLeftIsNat DEF PollWaits
<1>3. CASE ~(waited + 1 > DoorPolls)
  <2>1. StepsLeft' = (job.last - i) * LayerSteps + 1 - waited' /\ waited' = waited + 1
    BY <1>3 DEF PollWaits, StepsLeft, LayerSteps
  <2>2. StepsLeft = (job.last - i) * LayerSteps + 1 - waited
    BY DEF PollWaits, StepsLeft
  <2> DEFINE rest == (job.last - i) * LayerSteps
  <2>3. rest \in Int /\ waited \in Nat
    <3>1. pc = "callback"
      BY DEF PollWaits
    <3>2. job.last - i \in Int /\ LayerSteps \in Int
      BY <3>1, Facts, StepsLeftAt
    <3>3. waited \in Nat
      BY <1>1 DEF IInv, Types
    <3> QED
      BY <3>2, <3>3, SMT
  <2>4. StepsLeft' = rest + 1 - (waited + 1) /\ StepsLeft = rest + 1 - waited
    BY <2>1, <2>2
  <2> HIDE DEF rest
  <2> QED
    BY <2>3, <2>4
<1> QED
  BY <1>2, <1>3

LEMMA LayerAdvances ==
  ASSUME IInv, IInv', Layer PROVE StepsLeft' < StepsLeft
<1>1. pc = "slice" /\ i' = i + 1 /\ job' = job /\ waited' = waited
  BY DEF Layer, LayerKept, LayerSent, NextLayer
<1>2. waited \in Nat /\ DoorPolls \in Nat
  BY TransferAssumption DEF IInv, Types
<1>3. /\ job.last \in Int /\ i \in Int
      /\ (job.last - i - 1) * LayerSteps \in Nat
      /\ StepsLeft = (job.last - i - 1) * LayerSteps + 2
  BY <1>1, Facts, StepsLeftAt
<1>4. CASE i + 1 < job.last
  <2>1. pc' = "callback"
    BY <1>4 DEF Layer, LayerKept, LayerSent, NextLayer
  <2>2. StepsLeft' = (job.last - (i + 1)) * LayerSteps + 1 - waited
    BY <1>1, <2>1 DEF StepsLeft, LayerSteps
  <2>3. job.last - (i + 1) = job.last - i - 1
    BY <1>3
  <2>4. StepsLeft' = (job.last - i - 1) * LayerSteps + 1 - waited
    BY <2>2, <2>3
  <2> DEFINE rest == (job.last - i - 1) * LayerSteps
  <2>5. rest \in Nat /\ StepsLeft = rest + 2 /\ StepsLeft' = rest + 1 - waited
    BY <1>3, <2>4
  <2> HIDE DEF rest
  <2> QED
    BY <1>2, <2>5
<1>5. CASE ~(i + 1 < job.last)
  <2>1. pc' = "returned"
    BY <1>5 DEF Layer, LayerKept, LayerSent, NextLayer, Return
  <2>2. StepsLeft' = 1
    BY <2>1 DEF StepsLeft
  <2> QED
    BY <1>3, <2>2
<1> QED
  BY <1>4, <1>5

(* Every step uses up one that was left, and there are none below zero.    *)
LEMMA StepAdvances ==
  ASSUME IInv, Next, StepsLeft \in Nat, StepsLeft' \in Nat
  PROVE  StepsLeft' \in 0..(StepsLeft - 1)
<1>1. IInv'
  BY NextIInv
<1>2. SUFFICES StepsLeft' < StepsLeft
  OBVIOUS
<1>3. ASSUME pc \in {"start", "callback"}, pc' = "returned" PROVE StepsLeft' < StepsLeft
  <2>1. StepsLeft' = 1
    BY <1>3 DEF StepsLeft
  <2> QED
    BY <1>3, <2>1, StepsLeftIsNat
<1>4. CASE Refuse \/ FileCallbackStops
  BY <1>3, <1>4 DEF Refuse, FileCallbackStops, Stop, Return
<1>5. CASE Begin
  BY <1>5, BeginAdvances
<1>6. CASE Report
  <2>1. StepsLeft = 1 /\ StepsLeft' = 0
    BY <1>6 DEF Report, StepsLeft
  <2> QED
    BY <2>1
<1>7. ASSUME NEW s \in Statuses, PollStops(s) PROVE StepsLeft' < StepsLeft
  BY <1>3, <1>7 DEF PollStops, Stop, Return
<1>8. ASSUME NEW s \in Statuses, PollGoesOn(s) PROVE StepsLeft' < StepsLeft
  BY <1>8, GoOnAdvances DEF PollGoesOn
<1>9. CASE PollWaits
  BY <1>9, WaitAdvances
<1>10. CASE FileCallbackGoesOn
  BY <1>10, GoOnAdvances DEF FileCallbackGoesOn
<1>11. CASE Layer
  BY <1>1, <1>11, LayerAdvances
<1> QED
  BY <1>4, <1>5, <1>6, <1>7, <1>8, <1>9, <1>10, <1>11 DEF Next, Poll

(* QCallBack2 and the loop cannot run on: whatever the printer answers,    *)
(* every step leaves fewer to come, from MaxLayers * (DoorPolls + 2) + 2.  *)
THEOREM LoopAdvancesCorrect == Spec => LoopAdvances
<1> DEFINE Some == StepsLeft \in Nat
<1>1. IInv => Some
  BY StepsLeftIsNat
<1>2. IInv /\ Some /\ Some' /\ [Next]_vars => [StepsLeft' \in 0..(StepsLeft - 1)]_vars
  BY StepAdvances
<1> QED
  BY <1>1, <1>2, Inductive, PTL DEF Spec, LoopAdvances

-----------------------------------------------------------------------------
(* The layer loop implements the contract of a print filter.               *)
LEMMA ServiceInit == Init => Service!Init
<1> SUFFICES ASSUME Init PROVE Service!Init
  OBVIOUS
<1>1. job.first \in Nat /\ job.last \in Nat
  BY TransferAssumption DEF Init, Jobs
<1> QED
  BY <1>1 DEF Init, Service!Init

(* A batch is the next layers to go.                                       *)
LEMMA SentIsHandOver ==
  ASSUME IInv, NEW failed, LayerSent(failed)
  PROVE  \E n \in 1..Service!ToGo : Service!HandOver(n)
<1> DEFINE n == Len(queue) + 1
           batch == Append(queue, i)
           next == [k \in 1..n |-> job.first + Len(handed) + k - 1]
<1>1. /\ i \in 0..MaxLayers /\ job.first \in 0..MaxLayers /\ job.last \in 0..MaxLayers
      /\ Len(queue) \in Nat /\ Len(handed) \in Nat
      /\ job.first <= i /\ i < job.last /\ job.box = job.last
      /\ i = job.first + Len(handed) + Len(queue) /\ ret = "running"
      /\ queue \in Seq(0..MaxLayers) /\ MaxLayers \in Nat
  BY Facts DEF LayerSent
<1>2. batch = next
  <2>1. batch \in Seq(0..MaxLayers) /\ Len(batch) = n
    BY <1>1
  <2>2. ASSUME NEW k \in 1..n PROVE batch[k] = job.first + Len(handed) + k - 1
    <3>1. CASE k = n
      BY <1>1, <3>1
    <3>2. CASE k # n
      <4>1. k \in 1..Len(queue)
        BY <1>1, <3>2
      <4>2. batch[k] = queue[k]
        BY <1>1, <4>1
      <4> QED
        BY <4>1, <4>2 DEF IInv, Batches, From
    <3> QED
      BY <3>1, <3>2
  <2> HIDE DEF batch, n
  <2>3. batch = [k \in 1..n |-> batch[k]]
    BY <2>1
  <2> QED
    BY <2>2, <2>3
<1>3. handed' = handed \o next /\ job' = job
  BY <1>2 DEF LayerSent, SendData, NextLayer
<1>4. Service!ToGo = job.last - job.first - Len(handed)
  BY DEF Service!ToGo
<1>5. n \in 1..Service!ToGo
  BY <1>1, <1>4
<1>6. ret' = IF n = Service!ToGo THEN "true" ELSE "running"
  <2>1. n = Service!ToGo <=> ~(i + 1 < job.last)
    <3>1. \A first, q, h, last \in Int :
             first + h + q < last =>
               (q + 1 = last - first - h <=> ~(first + h + q + 1 < last))
      OBVIOUS
    <3>2. job.first \in Int /\ Len(queue) \in Int /\ Len(handed) \in Int /\ job.last \in Int
      BY <1>1
    <3>3. job.first + Len(handed) + Len(queue) < job.last
      BY <1>1
    <3>4. Len(queue) + 1 = job.last - job.first - Len(handed)
            <=> ~(job.first + Len(handed) + Len(queue) + 1 < job.last)
      BY <3>1, <3>2, <3>3, Zenon
    <3>5. i = job.first + Len(handed) + Len(queue)
      BY <1>1
    <3> QED
      BY <1>4, <3>4, <3>5, Zenon
  <2>2. ret' = IF i + 1 < job.last THEN ret ELSE "true"
    BY DEF LayerSent, NextLayer, Return
  <2> QED
    BY <1>1, <2>1, <2>2
<1>7. Service!HandOver(n)
  BY <1>1, <1>3, <1>6 DEF Service!HandOver
<1> QED
  BY <1>5, <1>7

LEMMA ServiceStep == IInv /\ [Next]_vars => [Service!Next]_(Service!tvars)
<1> SUFFICES ASSUME IInv, [Next]_vars PROVE Service!Next \/ UNCHANGED Service!tvars
  OBVIOUS
<1> USE DEF Service!tvars
<1>1. CASE UNCHANGED vars
  BY <1>1 DEF vars
<1>2. ASSUME pc \in {"start", "callback"}, Return("false"), UNCHANGED <<job, handed>>
      PROVE  Service!Next
  <2>1. ret = "running"
    BY <1>2 DEF IInv, Exits, Running
  <2> QED
    BY <1>2, <2>1 DEF Return, Service!BreakOff, Service!Next
<1>3. CASE Refuse \/ FileCallbackStops
  BY <1>2, <1>3 DEF Refuse, FileCallbackStops, Stop
<1>4. CASE Begin
  <2>1. job'.first = job.first /\ job'.last = job.last /\ handed' = handed
        /\ job.first \in Int /\ job.last \in Int
    BY <1>4, TransferAssumption DEF Begin, IInv, Types, Jobs
  <2>2. ret = "running"
    BY <1>4 DEF Begin, IInv, Exits, Running
  <2>3. CASE job.first < job.last
    BY <1>4, <2>1, <2>3 DEF Begin
  <2>4. CASE ~(job.first < job.last)
    BY <1>4, <2>1, <2>2, <2>4 DEF Begin, Return, Service!NothingToDo, Service!Next
  <2> QED
    BY <2>3, <2>4
<1>5. CASE Report
  BY <1>5 DEF Report
<1>6. ASSUME NEW s \in Statuses, PollStops(s) PROVE Service!Next
  BY <1>2, <1>6 DEF PollStops, Stop
<1>7. ASSUME NEW s \in Statuses, PollGoesOn(s) PROVE UNCHANGED Service!tvars
  BY <1>7 DEF PollGoesOn, GoOn
<1>8. CASE PollWaits
  BY <1>2, <1>8 DEF PollWaits, Stop
<1>9. CASE FileCallbackGoesOn
  BY <1>9 DEF FileCallbackGoesOn, GoOn
<1>10. CASE LayerKept
  <2>1. i + 1 < job.last
    BY <1>10, Facts DEF LayerKept, Top
  <2> QED
    BY <1>10, <2>1 DEF LayerKept, NextLayer
<1>11. ASSUME NEW failed, LayerSent(failed) PROVE Service!Next
  BY <1>11, SentIsHandOver DEF Service!Next
<1> QED
  BY <1>1, <1>3, <1>4, <1>5, <1>6, <1>7, <1>8, <1>9, <1>10, <1>11 DEF Next, Poll, Layer

(* What leaves the program and what executeFilter is told are those of a   *)
(* filter that hands over layer after layer, whatever the batches do.      *)
THEOREM Refinement == Spec => ImplementsTransfer
BY ServiceInit, ServiceStep, Inductive, PTL DEF Spec, ImplementsTransfer, Service!Spec
============================================================================
