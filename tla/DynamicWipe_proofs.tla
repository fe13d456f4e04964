------------------------- MODULE DynamicWipe_proofs -------------------------
(***************************************************************************)
(* Proofs about DynamicWipe: whatever the intervals and the length of the  *)
(* job, changes are announced ahead of their page and in ascending order;  *)
(* with a printer that starts with the interval 4 the recorded count is    *)
(* the number of wipes; and for a job that starts at one of the first      *)
(* three layers the announced changes replay the table.                    *)
(***************************************************************************)
EXTENDS DynamicWipe, FiniteSetTheorems, WellFoundedInduction, TLAPS

(* The last page of the table, once it has one: every round moves it on.   *)
Top == IF running THEN i + 3 ELSE i + 4

Layers ==
  /\ first \in FirstLayers
  /\ i \in first..(first + MaxRounds)
  /\ quickWipe \in Intervals \cup {1}
  /\ running \in BOOLEAN
  /\ i # first => quickWipe \in Intervals

Tables ==
  /\ table \in [Keys(table) -> Intervals \cup {1, 4}]
  /\ Keys(table) \subseteq 6..Top
  /\ Keys(table) # {} => Top \in Keys(table)
  /\ running /\ i = first => Keys(table) = {}
  /\ Cardinality(Keys(table)) > 1 => table[Top] \in Intervals

Plans ==
  /\ plan \in [Keys(plan) -> Intervals]
  /\ Keys(plan) \subseteq Keys(table)
  /\ \A k \in Keys(plan) : k < Top

IInv == Layers /\ Tables /\ Plans

-----------------------------------------------------------------------------
(* The maximum of a set of integers is its largest element.                *)
LEMMA MaxIs ==
  ASSUME NEW S \in SUBSET Int, NEW m \in S, \A y \in S : m >= y
  PROVE  Max(S) = m
<1>1. \E x \in S : \A y \in S : x >= y
  OBVIOUS
<1>2. Max(S) \in S /\ \A y \in S : Max(S) >= y
  BY <1>1 DEF Max
<1>3. Max(S) \in Int /\ m \in Int /\ Max(S) >= m /\ m >= Max(S)
  BY <1>2
<1> QED
  BY <1>3

(* The layer and the last page are numbers, the page ahead of the layer.   *)
LEMMA Numbers ==
  Layers => /\ i \in Nat /\ first \in Nat /\ Top \in Nat /\ Top > i
            /\ running => Top = i + 3
            /\ \A x \in 6..Top : x \in Int
<1> SUFFICES ASSUME Layers
             PROVE  /\ i \in Nat /\ first \in Nat /\ Top \in Nat /\ Top > i
                    /\ running => Top = i + 3
                    /\ \A x \in 6..Top : x \in Int
  OBVIOUS
<1>1. first \in Nat /\ i \in Nat
  BY WipeAssumption DEF Layers
<1>2. Top \in Nat /\ Top > i /\ (running => Top = i + 3)
  BY <1>1 DEF Top
<1> QED
  BY <1>1, <1>2

(* Filling in pages 6 and 7 leaves the last page alone and goes not beyond *)
(* it; the last page is the newest entry.                                  *)
LEMMA FilledFacts ==
  ASSUME Layers, Tables
  PROVE  /\ Filled(table) \in [DOMAIN Filled(table) -> Intervals \cup {1, 4}]
         /\ DOMAIN Filled(table) \subseteq 6..Top
         /\ Keys(table) \subseteq DOMAIN Filled(table)
         /\ DOMAIN Filled(table) # {} =>
              /\ Top \in Keys(table) /\ LastKey(Filled(table)) = Top
              /\ Filled(table)[Top] = table[Top]
         /\ Cardinality(DOMAIN Filled(table)) > 2 =>
              Cardinality(Keys(table)) > 1 /\ DOMAIN Filled(table) # {}
<1>1. Top \in Nat
  BY Numbers
<1>2. Keys(table) \subseteq 6..Top /\ IsFiniteSet(6..Top)
  BY <1>1, FS_Interval DEF Tables
<1>3. CASE Cardinality(Keys(table)) = 3
  <2> DEFINE one == Insert(table, 6, 4)
             two == Insert(one, 7, 4)
  <2>1. Filled(table) = two
    BY <1>3 DEF Filled, Keys
  <2>2. Top >= 8
    <3>1. Cardinality(Keys(table)) <= Cardinality(6..Top)
      BY <1>2, FS_Subset
    <3>2. Cardinality(6..Top) = IF 6 > Top THEN 0 ELSE Top - 6 + 1
      BY <1>1, FS_Interval
    <3> QED
      BY <1>1, <1>3, <3>1, <3>2
  <2>3. Keys(table) # {}
    BY <1>3, FS_EmptySet
  <2>4. Top \in Keys(table)
    BY <2>3 DEF Tables
  <2>5. DOMAIN one = Keys(table) \cup {6} /\ DOMAIN two = Keys(table) \cup {6, 7}
    BY DEF Insert, Keys
  <2>6. \A k \in DOMAIN two : two[k] = IF k = 7 \/ k = 6 THEN 4 ELSE table[k]
    BY DEF Insert
  <2>6a. two = [k \in DOMAIN two |-> two[k]]
    BY DEF Insert
  <2> HIDE DEF two
  <2>7. two \in [DOMAIN two -> Intervals \cup {1, 4}]
    <3>1. \A k \in DOMAIN two : two[k] \in Intervals \cup {1, 4}
      BY <2>5, <2>6 DEF Tables
    <3> QED
      BY <2>6a, <3>1
  <2>8. DOMAIN two \subseteq 6..Top
    BY <1>1, <1>2, <2>2, <2>5
  <2>9. two[Top] = table[Top]
    BY <1>1, <2>2, <2>4, <2>5, <2>6
  <2>10. LastKey(two) = Top
    <3>1. DOMAIN two \in SUBSET Int /\ Top \in DOMAIN two /\ \A y \in DOMAIN two : Top >= y
      BY <1>1, <2>4, <2>5, <2>8
    <3> QED
      BY <3>1, MaxIs DEF LastKey
  <2> QED
    BY <1>3, <2>1, <2>4, <2>5, <2>7, <2>8, <2>9, <2>10
<1>4. CASE Cardinality(Keys(table)) # 3
  <2>1. Filled(table) = table
    BY <1>4 DEF Filled, Keys
  <2>2. ASSUME Keys(table) # {}
        PROVE  Top \in Keys(table) /\ LastKey(table) = Top
    <3>1. Top \in Keys(table)
      BY <2>2 DEF Tables
    <3>2. DOMAIN table \in SUBSET Int /\ \A y \in DOMAIN table : Top >= y
      BY <1>1, <1>2 DEF Keys
    <3> QED
      BY <3>1, <3>2, MaxIs DEF LastKey, Keys
  <2>3. Cardinality(DOMAIN table) > 2 => Cardinality(Keys(table)) > 1 /\ DOMAIN table # {}
    <3>1. IsFiniteSet(Keys(table))
      BY <1>2, FS_Subset
    <3>2. Cardinality(Keys(table)) \in Nat
      BY <3>1, FS_CardinalityType
    <3>3. Cardinality({}) = 0
      BY FS_EmptySet
    <3> QED
      BY <3>2, <3>3 DEF Keys
  <2> QED
    BY <1>2, <2>1, <2>2, <2>3 DEF Keys, Tables
<1> QED
  BY <1>3, <1>4

(* What a round may announce: at most the newest entry, beyond all earlier *)
(* announcements.                                                          *)
LEMMA AnnouncedFacts ==
  ASSUME IInv
  PROVE  \/ Announced(Filled(table)) = plan
         \/ /\ DOMAIN Filled(table) # {}
            /\ Announced(Filled(table)) = Insert(plan, Top, table[Top])
            /\ table[Top] \in Intervals
<1> DEFINE map == Filled(table)
<1>1. CASE Cardinality(DOMAIN map) > 2 /\ LastValue(map) # BeforeLast(map)
  <2>1. Cardinality(Keys(table)) > 1 /\ DOMAIN map # {}
    BY <1>1, FilledFacts DEF IInv
  <2>2. LastKey(map) = Top /\ map[Top] = table[Top]
    BY <2>1, FilledFacts DEF IInv
  <2>3. Announced(map) = Insert(plan, LastKey(map), LastValue(map))
    BY <1>1 DEF Announced
  <2>4. LastValue(map) = table[Top]
    BY <2>2 DEF LastValue
  <2>5. table[Top] \in Intervals
    BY <2>1 DEF IInv, Tables
  <2> QED
    BY <2>1, <2>2, <2>3, <2>4, <2>5
<1>2. CASE ~(Cardinality(DOMAIN map) > 2 /\ LastValue(map) # BeforeLast(map))
  BY <1>2 DEF Announced
<1> QED
  BY <1>1, <1>2

(* A round moves the last page on by one, and keeps the layer in its range.*)
LEMMA TopMoves ==
  ASSUME Layers, NEW goesOn \in BOOLEAN, NEW interval \in Intervals,
         Round(goesOn, interval)
  PROVE  Top' = Top + 1 /\ Top = i + 3 /\ Layers'
<1>1. i \in Nat /\ running
  BY Numbers DEF Round
<1>2. CASE goesOn
  <2>1. i' = i + 1 /\ running' /\ quickWipe' = interval /\ first' = first
    BY <1>2 DEF Round
  <2>2. Top' = Top + 1 /\ Top = i + 3
    BY <1>1, <2>1 DEF Top
  <2>3. i + 1 \in first..(first + MaxRounds)
    BY <1>1, Numbers, WipeAssumption DEF Layers, Round
  <2>4. Layers'
    BY <2>1, <2>3 DEF Layers
  <2> QED
    BY <2>2, <2>4
<1>3. CASE ~goesOn
  <2>1. i' = i /\ ~running' /\ quickWipe' = quickWipe /\ first' = first /\ running' \in BOOLEAN
    BY <1>3 DEF Round
  <2>2. Top' = Top + 1 /\ Top = i + 3
    BY <1>1, <2>1 DEF Top
  <2>3. Layers'
    BY <2>1 DEF Layers
  <2> QED
    BY <2>2, <2>3
<1> QED
  BY <1>2, <1>3

(* A round keeps the entries of the table and its last page.               *)
LEMMA RoundTables ==
  ASSUME IInv, NEW goesOn \in BOOLEAN, NEW interval \in Intervals,
         Round(goesOn, interval)
  PROVE  Tables' /\ Keys(table) \subseteq Keys(table')
<1> DEFINE map == Filled(table)
<1>0. Layers /\ Tables
  BY DEF IInv
<1>1. i \in Nat /\ first \in Nat /\ Top \in Nat /\ Top = i + 3 /\ Top' = Top + 1
  BY <1>0, Numbers, TopMoves
<1>2. map \in [DOMAIN map -> Intervals \cup {1, 4}] /\ DOMAIN map \subseteq 6..Top
  BY <1>0, FilledFacts
<1>3. Keys(table) \subseteq DOMAIN map
  BY <1>0, FilledFacts
<1>4. DOMAIN map # {} => Keys(table) # {}
  BY <1>0, FilledFacts
<1>5. quickWipe \in Intervals \cup {1}
  BY <1>0 DEF Layers
<1>6. table' = IF i > 1 THEN Insert(map, Ahead(i), quickWipe) ELSE map
  BY DEF Round
<1> HIDE DEF map
<1>7. CASE i > 1
  <2>1. Ahead(i) = Top' /\ Top' \in Int /\ Top' > Top /\ Top' >= 6
    BY <1>1, <1>7 DEF Ahead
  <2>2. table' = Insert(map, Top', quickWipe)
    BY <1>6, <1>7, <2>1
  <2>3. DOMAIN table' = DOMAIN map \cup {Top'} /\ table'[Top'] = quickWipe
    BY <2>2 DEF Insert
  <2>4. \A k \in DOMAIN map : table'[k] = map[k]
    BY <1>1, <1>2, <2>1, <2>2 DEF Insert
  <2>5. table' = [k \in DOMAIN table' |-> table'[k]]
    BY <2>2 DEF Insert
  <2>6. \A k \in DOMAIN table' : table'[k] \in Intervals \cup {1, 4}
    BY <1>2, <1>5, <2>3, <2>4
  <2>7. table' \in [Keys(table') -> Intervals \cup {1, 4}]
    BY <2>5, <2>6 DEF Keys
  <2>8. Keys(table') \subseteq 6..Top'
    BY <1>1, <1>2, <2>1, <2>3 DEF Keys
  <2>9. Top' \in Keys(table')
    BY <2>3 DEF Keys
  <2>10. ~(running' /\ i' = first')
    BY <1>0, <1>1 DEF Round, Layers
  <2>11. ASSUME Cardinality(Keys(table')) > 1
         PROVE  table'[Top'] \in Intervals
    <3>1. DOMAIN map # {}
      <4>1. ASSUME DOMAIN map = {} PROVE FALSE
        <5>1. Keys(table') = {Top'}
          BY <2>3, <4>1 DEF Keys
        <5>2. Cardinality(Keys(table')) = 1
          BY <5>1, FS_Singleton
        <5> QED
          BY <2>11, <5>2
      <4> QED
        BY <4>1
    <3>2. i # first
      BY <1>0, <1>4, <3>1 DEF Tables, Round
    <3> QED
      BY <1>0, <2>3, <3>2 DEF Layers
  <2>12. Keys(table) \subseteq Keys(table')
    BY <1>3, <2>3 DEF Keys
  <2> QED
    BY <2>7, <2>8, <2>9, <2>10, <2>11, <2>12 DEF Tables, Keys
<1>8. CASE ~(i > 1)
  <2>1. DOMAIN map = {}
    <3>1. Top < 6
      BY <1>1, <1>8
    <3>2. \A k \in 6..Top : FALSE
      BY <1>1, <3>1
    <3> QED
      BY <1>2, <3>2
  <2>2. table' = map
    BY <1>6, <1>8
  <2>3. Keys(table') = {} /\ Keys(table) = {}
    BY <1>3, <2>1, <2>2 DEF Keys
  <2>4. ~(Cardinality(Keys(table')) > 1)
    BY <2>3, FS_EmptySet
  <2>5. table' \in [Keys(table') -> Intervals \cup {1, 4}]
    BY <1>2, <2>2 DEF Keys
  <2> QED
    BY <2>3, <2>4, <2>5 DEF Tables, Keys
<1> QED
  BY <1>7, <1>8

(* A round announces nothing, or the newest entry.                         *)
LEMMA RoundPlans ==
  ASSUME IInv, NEW goesOn \in BOOLEAN, NEW interval \in Intervals,
         Round(goesOn, interval)
  PROVE  Plans' /\ (plan' = plan \/ plan' = Insert(plan, Top, table[Top]))
<1>0. Layers /\ Tables /\ Plans
  BY DEF IInv
<1>1. Top \in Nat /\ Top' = Top + 1
  BY <1>0, Numbers, TopMoves
<1>2. Keys(table) \subseteq Keys(table')
  BY RoundTables
<1>3. plan' = Announced(Filled(table))
  BY DEF Round
<1>4. Keys(plan) \subseteq 6..Top
  BY <1>0 DEF Plans, Tables
<1>5. CASE plan' = plan
  <2>1. \A k \in Keys(plan) : k < Top'
    BY <1>0, <1>1, <1>4 DEF Plans
  <2> QED
    BY <1>0, <1>2, <1>5, <2>1 DEF Plans, Keys
<1>6. CASE plan' # plan
  <2>1. /\ DOMAIN Filled(table) # {}
        /\ plan' = Insert(plan, Top, table[Top])
        /\ table[Top] \in Intervals
    BY <1>3, <1>6, AnnouncedFacts
  <2>2. Top \in Keys(table)
    BY <1>0, <2>1, FilledFacts
  <2>3. DOMAIN plan' = Keys(plan) \cup {Top} /\ plan'[Top] = table[Top]
    BY <2>1 DEF Insert, Keys
  <2>4. \A k \in Keys(plan) \ {Top} : plan'[k] = plan[k]
    BY <2>1 DEF Insert, Keys
  <2>5. plan' = [k \in DOMAIN plan' |-> plan'[k]]
    BY <2>1 DEF Insert
  <2>6. \A k \in DOMAIN plan' : plan'[k] \in Intervals
    BY <1>0, <2>1, <2>3, <2>4 DEF Plans
  <2>7. plan' \in [Keys(plan') -> Intervals]
    BY <2>5, <2>6 DEF Keys
  <2>8. Keys(plan') \subseteq Keys(table')
    BY <1>0, <1>2, <2>2, <2>3 DEF Plans, Keys
  <2>9. \A k \in Keys(plan') : k < Top'
    BY <1>0, <1>1, <1>4, <2>3 DEF Plans, Keys
  <2> QED
    BY <2>1, <2>7, <2>8, <2>9 DEF Plans, Keys
<1> QED
  BY <1>5, <1>6

(* Every round keeps the invariant.                                        *)
LEMMA Inductive == IInv /\ [Next]_vars => IInv'
<1> SUFFICES ASSUME IInv, [Next]_vars PROVE IInv'
  OBVIOUS
<1>1. CASE Next
  <2>1. PICK goesOn \in BOOLEAN, interval \in Intervals : Round(goesOn, interval)
    BY <1>1 DEF Next
  <2>2. Layers'
    BY <2>1, TopMoves DEF IInv
  <2>3. Tables'
    BY <2>1, RoundTables
  <2>4. Plans'
    BY <2>1, RoundPlans
  <2> QED
    BY <2>2, <2>3, <2>4 DEF IInv
<1>2. CASE UNCHANGED vars
  BY <1>2 DEF vars, IInv, Layers, Tables, Plans, Top, Keys
<1> QED
  BY <1>1, <1>2

(* The invariant holds initially.                                          *)
LEMMA InitInvariant == Init => IInv
<1> SUFFICES ASSUME Init PROVE IInv
  OBVIOUS
<1>1. Layers
  BY WipeAssumption DEF Init, Layers
<1>2. Keys(table) = {} /\ Keys(plan) = {}
  BY DEF Init, Keys
<1>3. ~(Cardinality(Keys(table)) > 1)
  BY <1>2, FS_EmptySet
<1>4. Tables
  BY <1>2, <1>3 DEF Init, Tables, Keys
<1>5. Plans
  BY <1>2 DEF Init, Plans, Keys
<1> QED
  BY <1>1, <1>4, <1>5 DEF IInv

(* The invariant that all that follows rests on.                           *)
LEMMA Invariant == Spec => []IInv
  BY InitInvariant, Inductive, PTL DEF Spec

(* From the first page that the job entered on the table has no gap, and   *)
(* before it only the two pages that are filled in.                        *)
Entries ==
  /\ \A k \in Keys(table) : k >= first + 4 \/ k \in {6, 7}
  /\ \A k \in 6..Top : k >= first + 4 => k \in Keys(table)

(* Every round enters the page after the last one.                         *)
LEMMA EntriesInductive == IInv /\ Entries /\ [Next]_vars => Entries'
<1> SUFFICES ASSUME IInv, Entries, [Next]_vars PROVE Entries'
  OBVIOUS
<1>1. CASE Next
  <2>1. PICK goesOn \in BOOLEAN, interval \in Intervals : Round(goesOn, interval)
    BY <1>1 DEF Next
  <2> DEFINE map == Filled(table)
  <2>2. i \in Nat /\ first \in Nat /\ i >= first /\ Top = i + 3 /\ Top' = Top + 1
    BY <2>1, Numbers, TopMoves DEF IInv, Layers
  <2>3. first' = first
    BY <2>1 DEF Round
  <2>4. Keys(table) \subseteq DOMAIN map /\ DOMAIN map \subseteq Keys(table) \cup {6, 7}
    BY FilledFacts DEF IInv, Filled, Insert, Keys
  <2>5. table' = IF i > 1 THEN Insert(map, Ahead(i), quickWipe) ELSE map
    BY <2>1 DEF Round
  <2> HIDE DEF map
  <2>6. CASE i > 1
    <3>1. Keys(table') = DOMAIN map \cup {Top + 1}
      BY <2>2, <2>5, <2>6 DEF Insert, Ahead, Keys
    <3>2. Top + 1 >= first + 4
      BY <2>2
    <3>3. \A k \in 6..(Top + 1) : k = Top + 1 \/ k \in 6..Top
      BY <2>2
    <3> QED
      BY <2>2, <2>3, <2>4, <3>1, <3>2, <3>3 DEF Entries, Keys
  <2>7. CASE ~ (i > 1)
    <3>1. Keys(table') = DOMAIN map
      BY <2>5, <2>7 DEF Keys
    <3>2. \A k \in 6..(Top + 1) : FALSE
      BY <2>2, <2>7
    <3> QED
      BY <2>2, <2>3, <2>4, <3>1, <3>2 DEF Entries, Keys
  <2> QED
    BY <2>6, <2>7
<1>2. CASE UNCHANGED vars
  BY <1>2 DEF vars, Entries, Top, Keys
<1> QED
  BY <1>1, <1>2

(* The table never reaches further than four pages beyond the layer, has   *)
(* no gap but the one after the pages filled in, and only intervals that a *)
(* layer was given are announced.                                          *)
THEOREM TypeCorrect == Spec => []TypeOK
<1>1. Init => Entries
  <2> SUFFICES ASSUME Init PROVE Entries
    OBVIOUS
  <2>1. Keys(table) = {} /\ first \in Nat /\ Top = first + 3
    BY WipeAssumption DEF Init, Keys, Top
  <2>2. \A k \in 6..Top : ~ (k >= first + 4)
    BY <2>1
  <2> QED
    BY <2>1, <2>2 DEF Entries
<1>2. IInv /\ Entries => TypeOK
  <2> SUFFICES ASSUME IInv, Entries PROVE TypeOK
    OBVIOUS
  <2>1. Top \in Nat /\ i \in Nat
    BY Numbers DEF IInv
  <2>2. ASSUME Keys(table) # {}
        PROVE  /\ LastKey(table) \in {i + 3, i + 4}
               /\ \A k \in 6..LastKey(table) : k >= first + 4 => k \in Keys(table)
    <3>1. Top \in Keys(table) /\ Keys(table) \subseteq 6..Top
      BY <2>2 DEF IInv, Tables
    <3>2. Keys(table) \in SUBSET Int /\ \A y \in Keys(table) : Top >= y
      BY <2>1, <3>1
    <3>3. LastKey(table) = Top
      BY <3>1, <3>2, MaxIs DEF LastKey, Keys
    <3>4. Top \in {i + 3, i + 4}
      BY DEF Top
    <3> QED
      BY <3>3, <3>4 DEF Entries
  <2>3. \A k \in Keys(table) : table[k] \in Intervals \cup {1, 4}
    BY DEF IInv, Tables
  <2>4. \A k \in Keys(plan) : plan[k] \in Intervals
    BY DEF IInv, Plans
  <2>5. Keys(plan) \subseteq Keys(table)
    BY DEF IInv, Plans
  <2>6. \A k \in Keys(table) : k >= first + 4 \/ k \in {6, 7}
    BY DEF Entries
  <2> QED
    BY <2>2, <2>3, <2>4, <2>5, <2>6 DEF IInv, Layers, TypeOK
<1> QED
  BY <1>1, <1>2, Invariant, EntriesInductive, PTL DEF Spec

(* Announcements are made ahead, in ascending order, and never taken back, *)
(* whatever layer the job starts at: the entry of QCallBack2 that is       *)
(* looked at is always three pages beyond the layer.                       *)
THEOREM AnnouncedAheadCorrect == Spec => AnnouncedAhead
<1> DEFINE Step ==
      /\ \A k \in Keys(plan) : k \in Keys(plan') /\ plan'[k] = plan[k]
      /\ \A k \in Keys(plan') \ Keys(plan) :
           k > i /\ \A old \in Keys(plan) : k > old
<1>1. IInv /\ [Next]_vars => [Step]_vars
  <2> SUFFICES ASSUME IInv, Next PROVE Step
    OBVIOUS
  <2>1. PICK goesOn \in BOOLEAN, interval \in Intervals : Round(goesOn, interval)
    BY DEF Next
  <2>2. Top \in Nat /\ Top > i
    BY Numbers DEF IInv
  <2>3. \A k \in Keys(plan) : k < Top /\ k \in Int
    BY <2>2 DEF IInv, Plans, Tables
  <2>4. CASE plan' = plan
    BY <2>4 DEF Keys
  <2>5. CASE plan' = Insert(plan, Top, table[Top])
    <3>1. DOMAIN plan' = Keys(plan) \cup {Top}
      BY <2>5 DEF Insert, Keys
    <3>2. \A k \in Keys(plan) : k # Top
      BY <2>2, <2>3
    <3>3. \A k \in Keys(plan) : plan'[k] = plan[k]
      BY <2>5, <3>2 DEF Insert, Keys
    <3>4. \A old \in Keys(plan) : Top > old
      BY <2>2, <2>3
    <3> QED
      BY <2>2, <3>1, <3>3, <3>4 DEF Keys
  <2> QED
    BY <2>1, <2>4, <2>5, RoundPlans
<1> QED
  BY <1>1, Invariant, PTL DEF Spec, AnnouncedAhead

-----------------------------------------------------------------------------
(* A job that starts at one of the first three layers: the table has no    *)
(* gap from page 6 on, so the entries filled in are pages 6 and 7, and a   *)
(* new entry is compared with that of the page before it.                  *)
Dense == Keys(table) = 6..Top

Announcements(p) == {k \in Keys(plan) : k <= p}

(* The printer knows which announcement counts at every page looked at.    *)
Latest ==
  \A p \in 6..(Top - 1) :
    Announcements(p) = {} \/ \E m \in Announcements(p) : \A k \in Announcements(p) : m >= k

Replays == \A p \in 6..(Top - 1) : AtPage(p) = table[p]

RInv ==
  /\ Dense
  /\ Top <= 8 => Keys(plan) = {}
  /\ Top >= 9 => Latest /\ Replays

(* A table without a gap has one entry for every page from 6 on.           *)
LEMMA Counted ==
  ASSUME Layers, Dense
  PROVE  Cardinality(Keys(table)) = IF Top < 6 THEN 0 ELSE Top - 5
<1>1. Top \in Nat
  BY Numbers
<1>2. Cardinality(6..Top) = IF 6 > Top THEN 0 ELSE Top - 6 + 1
  BY <1>1, FS_Interval
<1> QED
  BY <1>1, <1>2 DEF Dense

(* The interval in use at a page is the one announced last.                *)
LEMMA InUse ==
  ASSUME IInv, NEW p \in Int, NEW m \in Announcements(p),
         \A k \in Announcements(p) : m >= k
  PROVE  AtPage(p) = plan[m]
<1>1. Announcements(p) \in SUBSET Int
  <2>1. Top \in Nat
    BY Numbers DEF IInv
  <2>2. Keys(plan) \subseteq 6..Top
    BY DEF IInv, Plans, Tables
  <2> QED
    BY <2>1, <2>2 DEF Announcements
<1>2. Max(Announcements(p)) = m
  BY <1>1, MaxIs
<1> QED
  BY <1>2 DEF AtPage, Announcements

(* Without an announcement the printer keeps the interval it started with. *)
LEMMA NoneInUse ==
  ASSUME NEW p, Announcements(p) = {}
  PROVE  AtPage(p) = Normal
BY DEF AtPage, Announcements

(* The third entry fills in the first two and is compared with them.       *)
LEMMA ThirdEntry ==
  ASSUME IInv, Dense, Top = 8, Keys(plan) = {}, Normal = 4,
         NEW goesOn \in BOOLEAN, NEW interval \in Intervals,
         Round(goesOn, interval)
  PROVE  /\ Latest' /\ Replays'
<1> DEFINE map == Filled(table)
<1>1. Cardinality(Keys(table)) = 3
  BY Counted DEF IInv
<1>2. Top' = 9 /\ i = 5
  <2>1. Top' = Top + 1 /\ Top = i + 3
    BY TopMoves DEF IInv
  <2>2. i \in Nat
    BY Numbers DEF IInv
  <2> QED
    BY <2>1, <2>2
<1>3. DOMAIN table = {6, 7, 8}
  BY DEF Dense, Keys
<1>4. map = Insert(Insert(table, 6, 4), 7, 4)
  BY <1>1 DEF Filled, Keys
<1>5. DOMAIN map = {6, 7, 8} /\ map[6] = 4 /\ map[7] = 4
  BY <1>3, <1>4 DEF Insert
<1>6. table' = Insert(map, 9, quickWipe)
  BY <1>2 DEF Round, Ahead
<1> HIDE DEF map
<1>7. table'[6] = 4 /\ table'[7] = 4 /\ table'[8] = map[8]
  BY <1>5, <1>6 DEF Insert
<1>8. LastKey(map) = 8
  <2>1. DOMAIN map \in SUBSET Int /\ 8 \in DOMAIN map /\ \A y \in DOMAIN map : 8 >= y
    BY <1>5
  <2> QED
    BY <2>1, MaxIs DEF LastKey
<1>9. BeforeLast(map) = 4
  <2>1. DOMAIN map \ {8} = {6, 7}
    BY <1>5
  <2>2. Max({6, 7}) = 7
    <3>1. {6, 7} \in SUBSET Int /\ 7 \in {6, 7} /\ \A y \in {6, 7} : 7 >= y
      OBVIOUS
    <3> QED
      BY <3>1, MaxIs
  <2> QED
    BY <1>5, <1>8, <2>1, <2>2 DEF BeforeLast
<1>10. Cardinality(DOMAIN map) > 2
  <2>1. DOMAIN map = Keys(table)
    BY <1>3, <1>5 DEF Keys
  <2> QED
    BY <1>1, <2>1
<1>11. plan' = IF map[8] # 4 THEN Insert(plan, 8, map[8]) ELSE plan
  BY <1>8, <1>9, <1>10 DEF Round, Announced, LastValue, map
<1>12. Keys(plan)' = IF map[8] # 4 THEN {8} ELSE {}
  BY <1>11 DEF Insert, Keys
<1>13. IInv'
  BY RoundTables, RoundPlans, TopMoves DEF IInv
<1>14. \A p \in 6..(Top' - 1) : p = 6 \/ p = 7 \/ p = 8
  BY <1>2
<1>15. Announcements(6)' = {} /\ Announcements(7)' = {}
  BY <1>12 DEF Announcements
<1>16. AtPage(6)' = 4 /\ AtPage(7)' = 4
  BY <1>15 DEF AtPage, Announcements
<1>17. CASE map[8] # 4
  <2>1. Announcements(8)' = {8} /\ plan'[8] = map[8]
    BY <1>11, <1>12, <1>17 DEF Announcements, Insert
  <2>2. Max({8}) = 8
    <3>1. {8} \in SUBSET Int /\ 8 \in {8} /\ \A y \in {8} : 8 >= y
      OBVIOUS
    <3> QED
      BY <3>1, MaxIs
  <2>3. AtPage(8)' = map[8]
    BY <2>1, <2>2 DEF AtPage, Announcements
  <2>4. Latest'
    BY <1>14, <1>15, <2>1 DEF Latest
  <2>5. Replays'
    BY <1>7, <1>14, <1>16, <2>3 DEF Replays
  <2> QED
    BY <2>4, <2>5
<1>18. CASE map[8] = 4
  <2>1. Announcements(8)' = {}
    BY <1>12, <1>18 DEF Announcements
  <2>2. AtPage(8)' = 4
    BY <2>1 DEF AtPage, Announcements
  <2>3. Latest'
    BY <1>14, <1>15, <2>1 DEF Latest
  <2>4. Replays'
    BY <1>7, <1>14, <1>16, <1>18, <2>2 DEF Replays
  <2> QED
    BY <2>3, <2>4
<1> QED
  BY <1>17, <1>18

(* Every later entry is compared with that of the page before it, where    *)
(* the printer's interval is right already.                                *)
LEMMA LaterEntry ==
  ASSUME IInv, Dense, Top >= 9, Latest, Replays,
         NEW goesOn \in BOOLEAN, NEW interval \in Intervals,
         Round(goesOn, interval)
  PROVE  Latest' /\ Replays'
<1>1. Top \in Nat /\ Top' = Top + 1 /\ Top = i + 3 /\ i \in Nat
  BY Numbers, TopMoves DEF IInv
<1>2. Cardinality(Keys(table)) = Top - 5
  BY <1>1, Counted DEF IInv
<1>3. Filled(table) = table
  BY <1>1, <1>2 DEF Filled, Keys
<1>4. DOMAIN table = 6..Top
  BY DEF Dense, Keys
<1>5. LastKey(table) = Top
  <2>1. DOMAIN table \in SUBSET Int /\ Top \in DOMAIN table /\ \A y \in DOMAIN table : Top >= y
    BY <1>1, <1>4
  <2> QED
    BY <2>1, MaxIs DEF LastKey
<1>6. BeforeLast(table) = table[Top - 1]
  <2> DEFINE S == 6..(Top - 1)
  <2>1. DOMAIN table \ {Top} = S
    BY <1>1, <1>4
  <2>2. S \in SUBSET Int /\ Top - 1 \in S /\ \A y \in S : Top - 1 >= y
    BY <1>1
  <2> HIDE DEF S
  <2>3. Max(S) = Top - 1
    BY <2>2, MaxIs
  <2> QED
    BY <1>5, <2>1, <2>3 DEF BeforeLast
<1>7. plan' = IF table[Top] # table[Top - 1] THEN Insert(plan, Top, table[Top]) ELSE plan
  <2>1. Cardinality(DOMAIN table) > 2
    BY <1>1, <1>2 DEF Keys
  <2> QED
    BY <1>3, <1>5, <1>6, <2>1 DEF Round, Announced, LastValue
<1>8. table' = Insert(table, Top + 1, quickWipe)
  BY <1>1, <1>3 DEF Round, Ahead
<1>9. \A p \in 6..Top : table'[p] = table[p]
  BY <1>1, <1>4, <1>8 DEF Insert
<1>10. \A k \in Keys(plan) : k \in Int /\ k < Top
  BY <1>1 DEF IInv, Plans, Tables
<1>11. IInv'
  BY RoundTables, RoundPlans, TopMoves DEF IInv
<1>12. ASSUME NEW p \in 6..(Top - 1)
       PROVE  /\ Announcements(p)' = Announcements(p)
              /\ \A k \in Announcements(p) : plan'[k] = plan[k]
  <2>1. p \in Int /\ p < Top
    BY <1>1, <1>12
  <2>2. CASE table[Top] # table[Top - 1]
    <3>1. Keys(plan)' = Keys(plan) \cup {Top}
      BY <1>7, <2>2 DEF Insert, Keys
    <3>2. \A k \in Keys(plan) : plan'[k] = plan[k]
      BY <1>7, <1>10, <2>2 DEF Insert, Keys
    <3> QED
      BY <1>1, <2>1, <3>1, <3>2 DEF Announcements
  <2>3. CASE table[Top] = table[Top - 1]
    BY <1>7, <2>3 DEF Announcements, Keys
  <2> QED
    BY <2>2, <2>3
<1>13. ASSUME NEW p \in 6..(Top - 1)
       PROVE  AtPage(p)' = table'[p]
  <2>1. AtPage(p) = table[p] /\ table'[p] = table[p]
    <3>1. p \in 6..Top
      BY <1>1, <1>13
    <3> QED
      BY <1>9, <1>13, <3>1 DEF Replays
  <2>2. CASE Announcements(p) = {}
    BY <1>12, <1>13, <2>1, <2>2 DEF AtPage, Announcements
  <2>3. CASE Announcements(p) # {}
    <3>1. PICK m \in Announcements(p) : \A k \in Announcements(p) : m >= k
      BY <1>13, <2>3 DEF Latest
    <3>2. AtPage(p) = plan[m] /\ p \in Int
      BY <1>13, <3>1, InUse
    <3>3. Max(Announcements(p)) = m
      <4>1. Announcements(p) \in SUBSET Int
        BY <1>10 DEF Announcements
      <4> QED
        BY <3>1, <4>1, MaxIs
    <3>4. AtPage(p)' = plan'[Max(Announcements(p)')]
      BY <1>12, <1>13, <2>3 DEF AtPage, Announcements
    <3>5. AtPage(p)' = plan[m]
      BY <1>12, <1>13, <3>1, <3>3, <3>4
    <3> QED
      BY <2>1, <3>2, <3>5
  <2> QED
    BY <2>2, <2>3
<1>14. ASSUME NEW p \in 6..(Top - 1)
       PROVE  Announcements(p)' = {} \/
                \E m \in Announcements(p)' : \A k \in Announcements(p)' : m >= k
  BY <1>12, <1>14 DEF Latest
<1>15. ASSUME NEW p \in 6..Top, p = Top
       PROVE  /\ AtPage(p)' = table'[p]
              /\ \/ Announcements(p)' = {}
                 \/ \E m \in Announcements(p)' : \A k \in Announcements(p)' : m >= k
  <2>1. table'[p] = table[p] /\ p \in Int
    BY <1>9, <1>15
  <2>2. CASE table[p] # table[p - 1]
    <3>1. Keys(plan)' = Keys(plan) \cup {p} /\ plan'[p] = table[p]
      BY <1>7, <1>15, <2>2 DEF Insert, Keys
    <3>2. p \in Announcements(p)'
      BY <2>1, <3>1 DEF Announcements
    <3>3. \A k \in Announcements(p)' : k \in Int /\ p >= k
      BY <1>10, <1>15, <2>1, <3>1 DEF Announcements
    <3>4. Max(Announcements(p)') = p
      <4>1. Announcements(p)' \in SUBSET Int
        BY <3>3
      <4> HIDE DEF Announcements
      <4> QED
        BY <3>2, <3>3, <4>1, MaxIs
    <3>5. AtPage(p)' = plan'[p]
      BY <3>2, <3>4 DEF AtPage, Announcements
    <3> QED
      BY <2>1, <3>1, <3>2, <3>3, <3>5
  <2>3. CASE table[p] = table[p - 1]
    <3> DEFINE r == p - 1
    <3>1. r \in 6..(Top - 1)
      BY <1>1, <1>15
    <3>2. plan' = plan
      BY <1>7, <1>15, <2>3
    <3>3. Announcements(p)' = Announcements(r)'
      BY <1>10, <1>15, <2>1, <3>2 DEF Announcements, Keys
    <3>4. AtPage(r)' = table'[r] /\ table'[r] = table[r]
      <4>1. r \in 6..Top
        BY <1>1, <3>1
      <4>2. table'[r] = table[r]
        BY <1>9, <4>1
      <4>3. AtPage(r)' = table'[r]
        BY <1>13, <3>1
      <4> QED
        BY <4>2, <4>3
    <3>5. AtPage(p)' = AtPage(r)'
      BY <3>3 DEF AtPage, Announcements
    <3> QED
      BY <1>14, <2>1, <2>3, <3>1, <3>3, <3>4, <3>5
  <2> QED
    BY <2>2, <2>3
<1>16. \A p \in 6..(Top' - 1) : p \in 6..(Top - 1) \/ (p \in 6..Top /\ p = Top)
  BY <1>1
<1>17. Latest'
  BY <1>14, <1>15, <1>16 DEF Latest
<1>18. Replays'
  BY <1>13, <1>15, <1>16 DEF Replays
<1> QED
  BY <1>17, <1>18

(* The table stays without a gap.                                          *)
LEMMA DenseKept ==
  ASSUME IInv, Dense, FirstLayers \subseteq 0..2,
         NEW goesOn \in BOOLEAN, NEW interval \in Intervals,
         Round(goesOn, interval)
  PROVE  Dense'
<1>1. Top \in Nat /\ Top' = Top + 1 /\ Top = i + 3 /\ i \in Nat
  BY Numbers, TopMoves DEF IInv
<1>2. DOMAIN Filled(table) = 6..Top
  <2>1. DOMAIN Filled(table) \subseteq 6..Top /\ Keys(table) \subseteq DOMAIN Filled(table)
    BY FilledFacts DEF IInv
  <2> QED
    BY <2>1 DEF Dense
<1>3. CASE i > 1
  <2>1. DOMAIN table' = (6..Top) \cup {Top + 1}
    BY <1>1, <1>2, <1>3 DEF Round, Insert, Ahead
  <2>2. (6..Top) \cup {Top + 1} = 6..(Top + 1)
    BY <1>1, <1>3
  <2> QED
    BY <1>1, <2>1, <2>2 DEF Dense, Keys
<1>4. CASE ~(i > 1)
  <2>1. DOMAIN table' = 6..Top
    BY <1>2, <1>4 DEF Round
  <2>2. 6..Top = 6..(Top + 1)
    BY <1>1, <1>4
  <2> QED
    BY <1>1, <2>1, <2>2 DEF Dense, Keys
<1> QED
  BY <1>3, <1>4

(* Every round keeps the announcements in line with the table.             *)
LEMMA ReplayInductive ==
  ASSUME IInv, RInv, FirstLayers \subseteq 0..2, Normal = 4, [Next]_vars
  PROVE  RInv'
<1>1. CASE Next
  <2>1. PICK goesOn \in BOOLEAN, interval \in Intervals : Round(goesOn, interval)
    BY <1>1 DEF Next
  <2>2. Dense'
    BY <2>1, DenseKept DEF RInv
  <2>3. Top \in Nat /\ Top' = Top + 1
    BY <2>1, Numbers, TopMoves DEF IInv
  <2>4. CASE Top < 8
    <3>1. Keys(plan) = {}
      BY <2>3, <2>4 DEF RInv
    <3>2. Cardinality(Keys(table)) \in Nat /\ Cardinality(Keys(table)) <= 2
      BY <2>3, <2>4, Counted DEF IInv, RInv
    <3>3. Filled(table) = table
      BY <3>2 DEF Filled, Keys
    <3>4. plan' = plan
      BY <2>1, <3>2, <3>3 DEF Round, Announced, Keys
    <3> QED
      BY <2>2, <2>3, <2>4, <3>1, <3>4 DEF RInv, Keys
  <2>5. CASE Top = 8
    <3>1. Latest' /\ Replays'
      BY <2>1, <2>5, ThirdEntry DEF RInv
    <3> QED
      BY <2>2, <2>3, <2>5, <3>1 DEF RInv
  <2>6. CASE Top > 8
    <3>1. Top >= 9
      BY <2>3, <2>6
    <3>2. Latest' /\ Replays'
      BY <2>1, <3>1, LaterEntry DEF RInv
    <3> QED
      BY <2>2, <2>3, <3>1, <3>2 DEF RInv
  <2> QED
    BY <2>3, <2>4, <2>5, <2>6
<1>2. CASE UNCHANGED vars
  BY <1>2 DEF vars, RInv, Dense, Latest, Replays, Announcements, AtPage, Top, Keys
<1> QED
  BY <1>1, <1>2

(* In the initial states nothing is announced and the table is empty.      *)
LEMMA ReplayInit ==
  ASSUME Init, FirstLayers \subseteq 0..2
  PROVE  RInv
<1>1. i \in 0..2 /\ Top = i + 3
  BY DEF Init, Top
<1>2. Keys(table) = {} /\ Keys(plan) = {}
  BY DEF Init, Keys
<1>3. 6..Top = {}
  BY <1>1
<1> QED
  BY <1>1, <1>2, <1>3 DEF RInv, Dense

(* For a job that starts at layer 0, 1 or 2, with a printer that starts    *)
(* with the interval 4 (what the comments of QCallBack2 take for granted), *)
(* the announcements make the printer use the interval of the table at     *)
(* every page looked at, however long the job is.                          *)
THEOREM PlanReplaysTableCorrect ==
  ASSUME FirstLayers \subseteq 0..2, Normal = 4
  PROVE  Spec => []PlanReplaysTable
<1>1. IInv /\ RInv => PlanReplaysTable
  <2> SUFFICES ASSUME IInv, RInv, NEW p \in Seen PROVE AtPage(p) = table[p]
    BY DEF PlanReplaysTable
  <2>1. Top \in Nat
    BY Numbers DEF IInv
  <2>2. Cardinality(Keys(table)) = IF Top < 6 THEN 0 ELSE Top - 5
    BY Counted DEF IInv, RInv
  <2>3. ~(Cardinality(Keys(table)) < 4) /\ p \in Keys(table) \ {LastKey(table)}
    BY DEF Seen
  <2>4. Top >= 9
    BY <2>1, <2>2, <2>3
  <2>5. LastKey(table) = Top
    <3>1. DOMAIN table \in SUBSET Int /\ Top \in DOMAIN table /\ \A y \in DOMAIN table : Top >= y
      BY <2>1, <2>4 DEF RInv, Dense, Keys
    <3> QED
      BY <3>1, MaxIs DEF LastKey
  <2>6. p \in 6..(Top - 1)
    BY <2>1, <2>3, <2>5 DEF RInv, Dense
  <2> QED
    BY <2>4, <2>6 DEF RInv, Replays
<1>2. Init => RInv
  BY ReplayInit
<1>3. IInv /\ RInv /\ [Next]_vars => RInv'
  BY ReplayInductive
<1> QED
  BY <1>1, <1>2, <1>3, Invariant, PTL DEF Spec

-----------------------------------------------------------------------------
(* The recorded count.  It compares a function defined by recursion over   *)
(* the pages with a sum over the announced ones.  Induction is over sets   *)
(* of numbers, so that every lemma is first-order.                         *)
(* Induction over the naturals for a set: the smallest number outside of   *)
(* it would have a predecessor inside.                                     *)
LEMMA Smallest ==
  ASSUME NEW T, T \subseteq Nat, T # {}
  PROVE  \E k \in T : \A j \in T : k <= j
<1> DEFINE R == OpToRel(<, Nat)
<1>1. IsWellFoundedOn(R, Nat)
  BY NatLessThanWellFounded
<1>2. \A j, k \in Nat : j < k => <<j, k>> \in R
  BY DEF OpToRel
<1> HIDE DEF R
<1>3. PICK k \in T : \A j \in T : ~ (<<j, k>> \in R)
  BY <1>1, WFMin
<1>4. \A j \in T : ~ (j < k)
  BY <1>2, <1>3
<1> QED
  BY <1>4

(* A set with 0 and with every successor of its members has every number.  *)
LEMMA Inducts ==
  ASSUME NEW S, 0 \in S, \A n \in Nat : n \in S => n + 1 \in S
  PROVE  \A n \in Nat : n \in S
<1> SUFFICES ASSUME NEW n \in Nat, n \notin S PROVE FALSE
  OBVIOUS
<1> DEFINE T == Nat \ S
<1>1. PICK k \in T : \A j \in T : k <= j
  <2> HIDE DEF T
  <2> SUFFICES T \subseteq Nat /\ T # {}
    BY Smallest
  <2> QED
    BY DEF T
<1>2. k \in Nat /\ k \notin S /\ k # 0
  OBVIOUS
<1>3. k - 1 \in Nat /\ k - 1 \in S
  <2>1. k - 1 \in Nat /\ ~ (k <= k - 1)
    BY <1>2
  <2> QED
    BY <1>1, <2>1
<1>4. (k - 1) + 1 \in S
  BY <1>3
<1> QED
  BY <1>2, <1>4

(* A value and a step for each number define a function on the naturals.   *)
Steps(s, V) == s \in [Nat -> [V -> V]]
Iterated(f, b, s, V) == f \in [Nat -> V] /\ f[0] = b /\ \A n \in Nat : f[n + 1] = s[n][f[n]]

(* A sequence of functions can be applied one after the other.             *)
LEMMA Iterates ==
  ASSUME NEW V, NEW b \in V, NEW s, Steps(s, V)
  PROVE  \E f : Iterated(f, b, s, V)
<1>0. s \in [Nat -> [V -> V]]
  BY DEF Steps
<1> DEFINE Upto(n) == {f \in [0..n -> V] :
                         f[0] = b /\ \A k \in 0..(n - 1) : f[k + 1] = s[k][f[k]]}
           S == {n \in Nat : Upto(n) # {}}
<1>1. 0 \in S
  <2>1. [k \in 0..0 |-> b] \in Upto(0)
    OBVIOUS
  <2> QED
    BY <2>1
<1>2. ASSUME NEW n \in Nat, n \in S PROVE n + 1 \in S
  <2>1. PICK f : f \in Upto(n)
    BY <1>2
  <2> DEFINE v == s[n][f[n]]
             g == [k \in 0..(n + 1) |-> IF k = n + 1 THEN v ELSE f[k]]
  <2>2. v \in V
    <3>1. f[n] \in V /\ s[n] \in [V -> V]
      BY <1>0, <2>1
    <3> QED
      BY <3>1
  <2> HIDE DEF v
  <2>3. g \in [0..(n + 1) -> V]
    <3>1. \A k \in 0..(n + 1) : k = n + 1 \/ k \in 0..n
      OBVIOUS
    <3> QED
      BY <2>1, <2>2, <3>1
  <2>4. g[0] = b
    BY <2>1
  <2>5. ASSUME NEW k \in 0..((n + 1) - 1) PROVE g[k + 1] = s[k][g[k]]
    <3>1. k \in 0..n /\ k # n + 1 /\ g[k] = f[k]
      OBVIOUS
    <3>2. CASE k = n
      BY <3>1, <3>2 DEF v
    <3>3. CASE k # n
      <4>1. k \in 0..(n - 1) /\ k + 1 \in 0..(n + 1) /\ k + 1 # n + 1
        BY <3>1, <3>3
      <4>2. g[k + 1] = f[k + 1]
        BY <4>1
      <4> QED
        BY <2>1, <3>1, <4>1, <4>2
    <3> QED
      BY <3>2, <3>3
  <2>6. g \in Upto(n + 1)
    BY <2>3, <2>4, <2>5
  <2> HIDE DEF g, Upto
  <2>7. Upto(n + 1) # {} /\ n + 1 \in Nat
    BY <2>6
  <2> QED
    BY <2>7
<1>3. \A n \in Nat : n \in S
  <2> HIDE DEF S
  <2> QED
    BY <1>1, <1>2, Inducts
<1>4. ASSUME NEW n \in Nat, NEW m \in Nat, NEW f \in Upto(n), NEW g \in Upto(m)
      PROVE  \A k \in Nat : k <= n /\ k <= m => f[k] = g[k]
  <2> DEFINE E == {k \in Nat : k <= n /\ k <= m => f[k] = g[k]}
  <2>1. 0 \in E
    OBVIOUS
  <2>2. ASSUME NEW k \in Nat, k \in E PROVE k + 1 \in E
    <3> SUFFICES ASSUME k + 1 <= n, k + 1 <= m PROVE f[k + 1] = g[k + 1]
      OBVIOUS
    <3>1. k \in 0..(n - 1) /\ k \in 0..(m - 1) /\ k <= n /\ k <= m
      OBVIOUS
    <3>2. f[k] = g[k]
      BY <2>2, <3>1
    <3> QED
      BY <3>1, <3>2
  <2>3. \A k \in Nat : k \in E
    <3> HIDE DEF E
    <3> QED
      BY <2>1, <2>2, Inducts
  <2> QED
    BY <2>3
<1> DEFINE P(n) == CHOOSE f : f \in Upto(n)
           F == [n \in Nat |-> P(n)[n]]
<1>5. \A n \in Nat : P(n) \in Upto(n)
  <2> SUFFICES ASSUME NEW n \in Nat PROVE P(n) \in Upto(n)
    OBVIOUS
  <2>1. \E f : f \in Upto(n)
    BY <1>3
  <2> HIDE DEF Upto
  <2> QED
    BY <2>1
<1> HIDE DEF P
<1>6. F \in [Nat -> V]
  <2> SUFFICES ASSUME NEW n \in Nat PROVE P(n)[n] \in V
    OBVIOUS
  <2>1. P(n) \in [0..n -> V] /\ n \in 0..n
    BY <1>5
  <2> QED
    BY <2>1
<1>7. F[0] = b
  <2>1. P(0) \in Upto(0)
    BY <1>5
  <2> QED
    BY <2>1
<1>8. ASSUME NEW n \in Nat PROVE F[n + 1] = s[n][F[n]]
  <2>1. P(n) \in Upto(n) /\ P(n + 1) \in Upto(n + 1)
    BY <1>5
  <2>2. P(n + 1)[n + 1] = s[n][P(n + 1)[n]]
    <3>1. n \in 0..((n + 1) - 1)
      OBVIOUS
    <3> QED
      BY <2>1, <3>1
  <2>3. P(n)[n] = P(n + 1)[n]
    <3> HIDE DEF Upto
    <3>1. n + 1 \in Nat /\ n <= n /\ n <= n + 1
      OBVIOUS
    <3> QED
      BY <1>4, <2>1, <3>1
  <2> QED
    BY <2>2, <2>3
<1> HIDE DEF F
<1>9. Iterated(F, b, s, V)
  BY <1>6, <1>7, <1>8 DEF Iterated
<1> QED
  BY <1>9

(* A sum that takes the elements of a finite set in some order is a sum in *)
(* any order.  (MapThenSumSet of a function g on S.)                       *)
Some(s) == CHOOSE x \in s : TRUE

Sums(I, S, g) ==
  I = [s \in SUBSET S |-> IF s = {} THEN 0 ELSE g[Some(s)] + I[s \ {Some(s)}]]

(* The recursive definition of a sum over a finite set has a solution.     *)
LEMMA SumExists ==
  ASSUME NEW S, IsFiniteSet(S), NEW g \in [S -> Nat]
  PROVE  \E I : Sums(I, S, g)
<1> DEFINE V == [SUBSET S -> Nat]
           zero == [s \in SUBSET S |-> 0]
           Longer(h) == [s \in SUBSET S |-> IF s = {} THEN 0 ELSE g[Some(s)] + h[s \ {Some(s)}]]
           step == [n \in Nat |-> [h \in V |-> Longer(h)]]
<1>1. \A s \in SUBSET S : s # {} => Some(s) \in s
  BY DEF Some
<1>2. ASSUME NEW h \in V PROVE Longer(h) \in V
  <2> SUFFICES ASSUME NEW s \in SUBSET S, s # {}
               PROVE  g[Some(s)] + h[s \ {Some(s)}] \in Nat
    OBVIOUS
  <2>1. g[Some(s)] \in Nat
    BY <1>1
  <2>2. h[s \ {Some(s)}] \in Nat
    OBVIOUS
  <2> QED
    BY <2>1, <2>2
<1>3. zero \in V /\ step \in [Nat -> [V -> V]]
  <2>1. zero \in V
    OBVIOUS
  <2>2. [h \in V |-> Longer(h)] \in [V -> V]
    <3> HIDE DEF V, Longer
    <3> QED
      BY <1>2
  <2> HIDE DEF V, Longer
  <2> QED
    BY <2>1, <2>2
<1>4. PICK f : Iterated(f, zero, step, V)
  <2> HIDE DEF V, step, zero
  <2>1. zero \in V /\ Steps(step, V)
    BY <1>3 DEF Steps
  <2> QED
    BY <2>1, Iterates
<1>4a. f \in [Nat -> V] /\ f[0] = zero /\ \A n \in Nat : f[n + 1] = step[n][f[n]]
  <2> HIDE DEF V, step, zero
  <2> QED
    BY <1>4 DEF Iterated
<1>5. \A n \in Nat : f[n + 1] = Longer(f[n])
  <2> SUFFICES ASSUME NEW n \in Nat PROVE f[n + 1] = Longer(f[n])
    OBVIOUS
  <2>1. f[n] \in V
    BY <1>4a
  <2> HIDE DEF V, Longer
  <2> QED
    BY <1>4a, <2>1
<1> DEFINE H == [s \in SUBSET S |-> f[Cardinality(s)][s]]
<1>6. ASSUME NEW s \in SUBSET S
      PROVE  H[s] = IF s = {} THEN 0 ELSE g[Some(s)] + H[s \ {Some(s)}]
  <2>1. CASE s = {}
    BY <1>4a, <2>1, FS_EmptySet
  <2>2. CASE s # {}
    <3> DEFINE x == Some(s)
               r == s \ {x}
    <3>1. IsFiniteSet(s) /\ x \in s
      BY <1>1, <2>2, FS_Subset
    <3>2. IsFiniteSet(r) /\ Cardinality(r) = Cardinality(s) - 1
      BY <3>1, FS_RemoveElement
    <3>3. Cardinality(r) \in Nat /\ Cardinality(s) \in Nat
      BY <3>1, <3>2, FS_CardinalityType
    <3>4. Cardinality(s) = Cardinality(r) + 1
      BY <3>2, <3>3
    <3>5. f[Cardinality(s)] = Longer(f[Cardinality(r)])
      <4> HIDE DEF Longer, r
      <4> QED
        BY <1>5, <3>3, <3>4
    <3>6. f[Cardinality(s)][s] = g[x] + f[Cardinality(r)][r]
      BY <2>2, <3>5
    <3>7. r \in SUBSET S
      OBVIOUS
    <3> HIDE DEF x
    <3> QED
      BY <2>2, <3>6, <3>7 DEF x
  <2> QED
    BY <2>1, <2>2
<1>7. Sums(H, S, g)
  <2>1. H = [s \in SUBSET S |-> H[s]]
    OBVIOUS
  <2> HIDE DEF H
  <2> QED
    BY <1>6, <2>1 DEF Sums
<1> QED
  BY <1>7

(* A sum does not depend on the order: any element can be taken out first. *)
LEMMA SumOfOne ==
  ASSUME NEW S, IsFiniteSet(S), NEW g \in [S -> Nat], NEW I, Sums(I, S, g)
  PROVE  /\ I[{}] = 0
         /\ \A s \in SUBSET S : I[s] \in Nat
         /\ \A s \in SUBSET S : \A x \in s : I[s] = g[x] + I[s \ {x}]
<1> DEFINE Fine(s) == I[s] \in Nat /\ \A x \in s : I[s] = g[x] + I[s \ {x}]
           T == {n \in Nat : \A s \in SUBSET S : Cardinality(s) <= n => Fine(s)}
<1>0. \A s \in SUBSET S : IsFiniteSet(s) /\ Cardinality(s) \in Nat
  BY FS_Subset, FS_CardinalityType
<1>1. I[{}] = 0
  BY DEF Sums
<1>2. \A s \in SUBSET S : s # {} => Some(s) \in s /\ I[s] = g[Some(s)] + I[s \ {Some(s)}]
  BY DEF Sums, Some
<1>3. 0 \in T
  <2> SUFFICES ASSUME NEW s \in SUBSET S, Cardinality(s) <= 0 PROVE Fine(s)
    OBVIOUS
  <2>1. s = {}
    BY <1>0, FS_EmptySet
  <2> QED
    BY <1>1, <2>1
<1>4. ASSUME NEW n \in Nat, n \in T PROVE n + 1 \in T
  <2> SUFFICES ASSUME NEW s \in SUBSET S, Cardinality(s) <= n + 1, s # {} PROVE Fine(s)
    <3>1. Fine({})
      BY <1>1
    <3> QED
      BY <3>1
  <2>2. ASSUME NEW x \in s PROVE s \ {x} \in SUBSET S /\ Cardinality(s \ {x}) <= n
    <3>1. Cardinality(s \ {x}) = Cardinality(s) - 1
      BY <1>0, FS_RemoveElement
    <3> QED
      BY <1>0, <3>1
  <2>3. \A x \in s : Fine(s \ {x})
    BY <1>4, <2>2
  <2> DEFINE c == Some(s)
  <2>4. c \in s /\ I[s] = g[c] + I[s \ {c}]
    BY <1>2
  <2> HIDE DEF c
  <2>5. g[c] \in Nat /\ I[s \ {c}] \in Nat /\ I[s] \in Nat
    BY <2>3, <2>4
  <2>6. ASSUME NEW x \in s PROVE I[s] = g[x] + I[s \ {x}]
    <3>1. CASE x = c
      BY <2>4, <3>1
    <3>2. CASE x # c
      <4> DEFINE r == (s \ {c}) \ {x}
      <4>1. r = (s \ {x}) \ {c}
        OBVIOUS
      <4>2. x \in s \ {c} /\ c \in s \ {x}
        BY <2>4, <3>2
      <4>3. I[s \ {c}] = g[x] + I[r]
        BY <2>3, <2>4, <4>2
      <4>4. I[s \ {x}] = g[c] + I[r]
        BY <2>3, <4>1, <4>2
      <4>5. g[x] \in Nat /\ g[c] \in Nat /\ I[r] \in Nat
        <5>1. r \in SUBSET S /\ Cardinality(r) <= n
          <6>1. Cardinality(r) <= Cardinality(s \ {c})
            BY <1>0, <2>2, <2>4, FS_Subset
          <6> QED
            BY <1>0, <2>2, <2>4, <6>1
        <5> QED
          BY <1>4, <2>4, <5>1
      <4> HIDE DEF r
      <4> QED
        BY <2>4, <4>3, <4>4, <4>5
    <3> QED
      BY <3>1, <3>2
  <2> QED
    BY <2>5, <2>6
<1>5. \A n \in Nat : n \in T
  <2> HIDE DEF T
  <2> QED
    BY <1>3, <1>4, Inducts
<1> QED
  BY <1>0, <1>1, <1>5

-----------------------------------------------------------------------------
(* The printer that counts pages.                                          *)
Pages == [since : Nat, wipes : Nat]
Unwiped == [since |-> 0, wipes |-> 0]

After(before, p) ==
  LET due == before.since + 1 = AtPage(p - 1)
      w   == before.wipes + (IF due THEN 1 ELSE 0)
  IN  IF p \in Keys(plan) THEN [since |-> 0, wipes |-> w + 1]
      ELSE [since |-> IF due THEN 0 ELSE before.since + 1, wipes |-> w]

(* What a printer has counted after a page is a pair of numbers.           *)
LEMMA AfterType ==
  ASSUME NEW v \in Pages, NEW p
  PROVE  After(v, p) \in Pages
<1> DEFINE due == v.since + 1 = AtPage(p - 1)
           w == v.wipes + (IF due THEN 1 ELSE 0)
<1>1. v.since \in Nat /\ v.wipes \in Nat
  BY DEF Pages
<1>2. w \in Nat /\ w + 1 \in Nat /\ v.since + 1 \in Nat
  BY <1>1
<1>3. After(v, p) = IF p \in Keys(plan) THEN [since |-> 0, wipes |-> w + 1]
                    ELSE [since |-> IF due THEN 0 ELSE v.since + 1, wipes |-> w]
  BY DEF After
<1> HIDE DEF w, due
<1> QED
  BY <1>2, <1>3 DEF Pages

(* The number of wipes is what its definition says.                        *)
LEMMA WipingRecursion ==
  Wiping = [p \in Nat |-> IF p = 0 THEN Unwiped ELSE After(Wiping[p - 1], p)]
<1> DEFINE step == [n \in Nat |-> [v \in Pages |-> After(v, n + 1)]]
<1>1. Unwiped \in Pages
  BY DEF Unwiped, Pages
<1>2. Steps(step, Pages)
  <2>1. \A n \in Nat : [v \in Pages |-> After(v, n + 1)] \in [Pages -> Pages]
    BY AfterType
  <2> QED
    BY <2>1 DEF Steps
<1>3. PICK f : Iterated(f, Unwiped, step, Pages)
  <2> HIDE DEF step
  <2> QED
    BY <1>1, <1>2, Iterates
<1>4. f \in [Nat -> Pages] /\ f[0] = Unwiped
  BY <1>3 DEF Iterated
<1>5. \A n \in Nat : f[n + 1] = After(f[n], n + 1)
  <2> SUFFICES ASSUME NEW n \in Nat PROVE f[n + 1] = After(f[n], n + 1)
    OBVIOUS
  <2>1. f[n] \in Pages
    BY <1>4
  <2>2. f[n + 1] = step[n][f[n]]
    <3> HIDE DEF step
    <3> QED
      BY <1>3 DEF Iterated
  <2> QED
    BY <2>1, <2>2
<1>6. ASSUME NEW p \in Nat
      PROVE  f[p] = IF p = 0 THEN Unwiped ELSE After(f[p - 1], p)
  <2>1. CASE p = 0
    BY <1>4, <2>1
  <2>2. CASE p # 0
    <3>1. p - 1 \in Nat /\ (p - 1) + 1 = p
      BY <2>2
    <3>2. f[(p - 1) + 1] = After(f[p - 1], (p - 1) + 1)
      BY <1>5, <3>1
    <3> QED
      BY <2>2, <3>1, <3>2
  <2> QED
    BY <2>1, <2>2
<1>7. f = [p \in Nat |-> IF p = 0 THEN Unwiped ELSE After(f[p - 1], p)]
  BY <1>4, <1>6
<1>8. Wiping = CHOOSE h : h = [p \in Nat |-> IF p = 0 THEN Unwiped ELSE After(h[p - 1], p)]
  BY DEF Wiping, Unwiped, After
<1> QED
  BY <1>7, <1>8

(* Wiping from one page to the next.                                       *)
LEMMA WipingStep ==
  /\ Wiping[0] = Unwiped
  /\ \A p \in Nat : Wiping[p] \in Pages /\ Wiping[p + 1] = After(Wiping[p], p + 1)
<1> DEFINE S == {p \in Nat : Wiping[p] \in Pages}
<1>1. Wiping[0] = Unwiped
  BY WipingRecursion
<1>2. ASSUME NEW p \in Nat PROVE Wiping[p + 1] = After(Wiping[p], p + 1)
  <2>1. p + 1 \in Nat /\ p + 1 # 0 /\ (p + 1) - 1 = p
    OBVIOUS
  <2>2. Wiping[p + 1] = IF p + 1 = 0 THEN Unwiped ELSE After(Wiping[(p + 1) - 1], p + 1)
    BY <2>1, WipingRecursion
  <2> QED
    BY <2>1, <2>2
<1>3. 0 \in S
  BY <1>1 DEF Unwiped, Pages
<1>4. \A p \in Nat : p \in S => p + 1 \in S
  BY <1>2, AfterType
<1>5. \A p \in Nat : p \in S
  <2> HIDE DEF S
  <2> QED
    BY <1>3, <1>4, Inducts
<1> QED
  BY <1>1, <1>2, <1>5

(* Quotient and remainder of the next number.                              *)
LEMMA SameQuotient ==
  ASSUME NEW n \in Nat \ {0}, NEW q1 \in Nat, NEW r1 \in 0..(n - 1),
         NEW q2 \in Nat, NEW r2 \in 0..(n - 1), n * q1 + r1 = n * q2 + r2
  PROVE  q1 = q2 /\ r1 = r2
<1>1. ASSUME NEW a \in Nat, NEW b \in Nat, NEW r \in 0..(n - 1), NEW t \in 0..(n - 1),
             a < b, n * a + r = n * b + t
      PROVE  FALSE
  <2>1. n * b >= n * (a + 1)
    BY <1>1, SMT
  <2>2. n * (a + 1) = n * a + n
    BY SMT
  <2>3. n * a \in Nat /\ n * b \in Nat
    BY SMT
  <2> QED
    BY <1>1, <2>1, <2>2, <2>3
<1>2. q1 = q2
  BY <1>1
<1>3. n * q1 \in Nat
  BY SMT
<1> QED
  BY <1>2, <1>3

(* The quotient grows by one exactly at the multiples.                     *)
LEMMA NextQuotient ==
  ASSUME NEW x \in Nat, NEW n \in Nat \ {0}
  PROVE  /\ (x % n) + 1 = n => (x + 1) % n = 0 /\ (x + 1) \div n = (x \div n) + 1
         /\ (x % n) + 1 # n => (x + 1) % n = (x % n) + 1 /\ (x + 1) \div n = x \div n
         /\ x % n \in Nat /\ x \div n \in Nat
<1> DEFINE q == x \div n
           r == x % n
           q2 == (x + 1) \div n
           r2 == (x + 1) % n
<1>1. x = n * q + r /\ r \in 0..(n - 1) /\ q \in Nat
  OBVIOUS
<1>2. x + 1 = n * q2 + r2 /\ r2 \in 0..(n - 1) /\ q2 \in Nat
  OBVIOUS
<1> HIDE DEF q, r, q2, r2
<1>3. n * q \in Nat /\ n * q2 \in Nat /\ n * (q + 1) = n * q + n
  BY <1>1, <1>2, SMT
<1>4. ASSUME r + 1 = n PROVE r2 = 0 /\ q2 = q + 1
  <2>1. n * (q + 1) + 0 = n * q2 + r2
    BY <1>1, <1>2, <1>3, <1>4
  <2>2. 0 \in 0..(n - 1) /\ q + 1 \in Nat
    BY <1>1
  <2> QED
    BY <1>2, <2>1, <2>2, SameQuotient
<1>5. ASSUME r + 1 # n PROVE r2 = r + 1 /\ q2 = q
  <2>1. n * q + (r + 1) = n * q2 + r2
    BY <1>1, <1>2, <1>3
  <2>2. r + 1 \in 0..(n - 1)
    BY <1>1, <1>5
  <2> QED
    BY <1>1, <1>2, <2>1, <2>2, SameQuotient
<1>6. r \in Nat /\ q \in Nat
  BY <1>1
<1> QED
  BY <1>4, <1>5, <1>6 DEF q, r, q2, r2

(* From a page where the count of pages starts anew, with one interval in  *)
(* use, the wipes are a quotient.                                          *)
LEMMA Stretch ==
  ASSUME NEW k \in Nat, NEW q \in Nat \ {0}, NEW n \in Nat, k < n,
         Wiping[k].since = 0,
         \A p \in k..(n - 1) : AtPage(p) = q,
         \A p \in (k + 1)..(n - 1) : p \notin Keys(plan)
  PROVE  /\ n \in Keys(plan) =>
              Wiping[n].wipes = Wiping[k].wipes + ((n - k) \div q) + 1 /\ Wiping[n].since = 0
         /\ n \notin Keys(plan) => Wiping[n].wipes = Wiping[k].wipes + ((n - k) \div q)
<1> DEFINE w == Wiping[k].wipes
           At(m) == [since |-> m % q, wipes |-> w + (m \div q)]
           S == {m \in Nat : k + m < n => Wiping[k + m] = At(m)}
<1>0. w \in Nat /\ \A m \in Nat : m % q \in Nat /\ m \div q \in Nat
  <2>1. Wiping[k] \in Pages
    BY WipingStep
  <2> QED
    BY <2>1, NextQuotient DEF Pages
<1>1. 0 \in S
  <2>1. 0 % q = 0 /\ 0 \div q = 0
    <3>1. 0 = q * (0 \div q) + (0 % q) /\ 0 \div q \in Nat /\ 0 % q \in 0..(q - 1)
      OBVIOUS
    <3>2. 0 = q * 0 + 0 /\ 0 \in 0..(q - 1)
      BY SMT
    <3> QED
      BY <3>1, <3>2, SameQuotient
  <2>2. Wiping[k] = [since |-> 0, wipes |-> w]
    BY WipingStep DEF Pages
  <2>3. k + 0 = k /\ w + 0 = w
    BY <1>0
  <2> HIDE DEF w
  <2> QED
    BY <2>1, <2>2, <2>3
<1>2. ASSUME NEW m \in Nat, k + m < n, Wiping[k + m] = At(m)
      PROVE  After(Wiping[k + m], k + m + 1) =
               IF k + m + 1 \in Keys(plan) THEN [since |-> 0, wipes |-> w + ((m + 1) \div q) + 1]
                                           ELSE At(m + 1)
  <2> DEFINE p == k + m + 1
             due == (m % q) + 1 = q
             v == w + (m \div q) + (IF due THEN 1 ELSE 0)
  <2>1. AtPage(p - 1) = q
    <3>1. p - 1 = k + m /\ k + m \in k..(n - 1)
      BY <1>2
    <3> QED
      BY <3>1
  <2>2. v = w + ((m + 1) \div q) /\ (IF due THEN 0 ELSE (m % q) + 1) = (m + 1) % q
    <3> DEFINE d == m \div q
               d2 == (m + 1) \div q
    <3>1. w \in Nat /\ d \in Nat
      BY <1>0
    <3>2. CASE due
      <4>1. d2 = d + 1 /\ (m + 1) % q = 0
        BY <3>2, NextQuotient
      <4> HIDE DEF d, d2, w
      <4> QED
        BY <3>1, <3>2, <4>1 DEF d, d2
    <3>3. CASE ~due
      <4>1. d2 = d /\ (m + 1) % q = (m % q) + 1
        BY <3>3, NextQuotient
      <4> HIDE DEF w
      <4> QED
        BY <3>1, <3>3, <4>1
    <3> QED
      BY <3>2, <3>3
  <2>3. Wiping[k + m].since = m % q /\ Wiping[k + m].wipes = w + (m \div q)
    BY <1>2
  <2> HIDE DEF w
  <2>4. After(Wiping[k + m], p) = IF p \in Keys(plan) THEN [since |-> 0, wipes |-> v + 1]
                                  ELSE [since |-> IF due THEN 0 ELSE (m % q) + 1, wipes |-> v]
    BY <2>1, <2>3 DEF After
  <2> QED
    BY <2>2, <2>4
<1>3. ASSUME NEW m \in Nat, m \in S PROVE m + 1 \in S
  <2> SUFFICES ASSUME k + (m + 1) < n PROVE Wiping[k + (m + 1)] = At(m + 1)
    OBVIOUS
  <2>1. k + m < n /\ k + (m + 1) = k + m + 1 /\ k + m \in Nat /\ k + m + 1 \in (k + 1)..(n - 1)
    OBVIOUS
  <2>2. Wiping[k + m] = At(m)
    BY <1>3, <2>1
  <2>3. Wiping[k + m + 1] = After(Wiping[k + m], k + m + 1)
    BY <2>1, WipingStep
  <2>4. After(Wiping[k + m], k + m + 1) = At(m + 1)
    <3> HIDE DEF At
    <3> QED
      BY <1>2, <2>1, <2>2
  <2> QED
    BY <2>1, <2>3, <2>4
<1>4. \A m \in Nat : m \in S
  <2> HIDE DEF S
  <2> QED
    BY <1>1, <1>3, Inducts
<1> DEFINE m == n - k - 1
<1>5. m \in Nat /\ k + m < n /\ k + m + 1 = n /\ m + 1 = n - k /\ k + m \in Nat
  OBVIOUS
<1>6. Wiping[k + m] = At(m)
  BY <1>4, <1>5
<1>7. Wiping[n] = After(Wiping[k + m], k + m + 1)
  BY <1>5, WipingStep
<1> HIDE DEF m, w, S
<1>8. Wiping[n] = IF n \in Keys(plan) THEN [since |-> 0, wipes |-> w + ((m + 1) \div q) + 1]
                                      ELSE At(m + 1)
  BY <1>2, <1>5, <1>6, <1>7
<1> QED
  BY <1>5, <1>8 DEF w

-----------------------------------------------------------------------------
(* The minimum of a set of integers is its smallest element.               *)
LEMMA MinIs ==
  ASSUME NEW S \in SUBSET Int, NEW m \in S, \A y \in S : m <= y
  PROVE  Min(S) = m
<1>1. \E x \in S : \A y \in S : x <= y
  OBVIOUS
<1>2. Min(S) \in S /\ \A y \in S : Min(S) <= y
  BY <1>1 DEF Min
<1>3. Min(S) \in Int /\ m \in Int /\ Min(S) <= m /\ m <= Min(S)
  BY <1>2
<1> QED
  BY <1>3

(* A set of numbers with a bound has a largest element.                    *)
LEMMA Largest ==
  ASSUME NEW n \in Nat, NEW S, S \subseteq 0..n, S # {}
  PROVE  \E k \in S : \A j \in S : j <= k
<1> DEFINE T == {n - j : j \in S}
<1>0. \A j \in S : j \in Nat /\ j <= n /\ n - j \in Nat
  OBVIOUS
<1>1. T \subseteq Nat /\ T # {}
  BY <1>0
<1>2. PICK t \in T : \A u \in T : t <= u
  <2> HIDE DEF T
  <2> QED
    BY <1>1, Smallest
<1>3. PICK k \in S : t = n - k
  OBVIOUS
<1>4. ASSUME NEW j \in S PROVE j <= k
  <2>1. n - k <= n - j
    <3>1. n - j \in T
      OBVIOUS
    <3> QED
      BY <1>2, <1>3, <3>1
  <2> QED
    BY <1>0, <2>1
<1> QED
  BY <1>4

-----------------------------------------------------------------------------
(* The wipes from an announced page to the next, as countJobWipe counts.   *)
Wipes(k) == IF k = LastKey(plan) THEN (LastKey(table) - k) \div plan[k] + 1
                                 ELSE (Following(k) - k) \div plan[k] + 1
Sum == CHOOSE I :
         I = [s \in SUBSET Keys(plan) |->
                IF s = {} THEN 0 ELSE Wipes(Some(s)) + I[s \ {Some(s)}]]

(* countJobWipe in terms of that sum.                                      *)
LEMMA CountIsSum ==
  Keys(plan) # {} =>
    countJobWipe(2) = ((Min(Keys(plan)) \div table[Min(Keys(table))]) + Sum[Keys(plan)]) \div 2
BY DEF countJobWipe, Wipes, Sum, Some, MapThenSumSet, MapThenFoldSet

Earlier(k) == {j \in Keys(plan) : j < k}

(* The page that the count starts from: with four entries page 6 is filled *)
(* in, and announcements are made beyond it only after that.               *)
CInv ==
  /\ Cardinality(Keys(table)) > 3 \/ Keys(plan) # {} => 6 \in Keys(table) /\ table[6] = 4
  /\ \A k \in Keys(plan) : k >= 8

(* With three entries or more the first page is filled in with 4.          *)
LEMMA FirstFilled ==
  ASSUME IInv, CInv, Cardinality(DOMAIN Filled(table)) > 2
  PROVE  6 \in DOMAIN Filled(table) /\ Filled(table)[6] = 4 /\ Top \in Nat /\ Top >= 8
<1> DEFINE map == Filled(table)
<1>1. Top \in Nat /\ DOMAIN map \subseteq 6..Top /\ Keys(table) \subseteq 6..Top
  BY Numbers, FilledFacts DEF IInv, Tables
<1>2. Top >= 8
  <2>1. IsFiniteSet(6..Top) /\ Cardinality(6..Top) = IF 6 > Top THEN 0 ELSE Top - 6 + 1
    BY <1>1, FS_Interval
  <2>2. IsFiniteSet(DOMAIN map) /\ Cardinality(DOMAIN map) <= Cardinality(6..Top)
    BY <1>1, <2>1, FS_Subset
  <2>3. Cardinality(DOMAIN map) \in Nat
    BY <2>2, FS_CardinalityType
  <2> QED
    BY <1>1, <2>1, <2>2, <2>3
<1>3. CASE Cardinality(Keys(table)) = 3
  <2>1. map = Insert(Insert(table, 6, 4), 7, 4)
    BY <1>3 DEF Filled, Keys
  <2>2. 6 \in DOMAIN map /\ map[6] = 4
    <3> HIDE DEF map
    <3> QED
      BY <2>1 DEF Insert
  <2> QED
    BY <1>1, <1>2, <2>2
<1>4. CASE Cardinality(Keys(table)) # 3
  <2>1. map = table
    BY <1>4 DEF Filled, Keys
  <2>2. Cardinality(Keys(table)) > 3
    <3>1. IsFiniteSet(6..Top)
      BY <1>1, FS_Interval
    <3>2. Cardinality(Keys(table)) \in Nat
      BY <1>1, <3>1, FS_Subset, FS_CardinalityType
    <3> QED
      BY <1>4, <2>1, <3>2 DEF Keys
  <2> QED
    BY <1>1, <1>2, <2>1, <2>2 DEF CInv, Keys
<1> QED
  BY <1>3, <1>4

(* Once it is there the entry of page 6 stays: new entries are made beyond *)
(* it.                                                                     *)
LEMMA FirstStays ==
  ASSUME IInv, NEW goesOn \in BOOLEAN, NEW interval \in Intervals, Round(goesOn, interval),
         6 \in DOMAIN Filled(table), Filled(table)[6] = 4
  PROVE  6 \in Keys(table') /\ table'[6] = 4
<1> DEFINE map == Filled(table)
<1>1. i \in Nat /\ Top \in Nat /\ Top = i + 3 /\ DOMAIN map \subseteq 6..Top
  BY Numbers, TopMoves, FilledFacts DEF IInv
<1>2. Ahead(i) > 6
  BY <1>1 DEF Ahead
<1>3. table' = IF i > 1 THEN Insert(map, Ahead(i), quickWipe) ELSE map
  BY DEF Round
<1>4. 6 \in DOMAIN map /\ map[6] = 4
  OBVIOUS
<1> HIDE DEF map
<1> QED
  BY <1>2, <1>3, <1>4 DEF Insert, Keys

(* Every round keeps the page that the count starts from.                  *)
LEMMA CountInductive ==
  ASSUME IInv, CInv, [Next]_vars
  PROVE  CInv'
<1>1. CASE Next
  <2>1. PICK goesOn \in BOOLEAN, interval \in Intervals : Round(goesOn, interval)
    BY <1>1 DEF Next
  <2> DEFINE map == Filled(table)
  <2>2. Top \in Nat /\ DOMAIN map \subseteq 6..Top
    BY Numbers, FilledFacts DEF IInv
  <2>3. CASE Cardinality(DOMAIN map) > 2
    <3>1. 6 \in Keys(table') /\ table'[6] = 4 /\ Top >= 8
      BY <2>1, <2>3, FirstFilled, FirstStays
    <3>2. plan' = plan \/ plan' = Insert(plan, Top, table[Top])
      BY <2>1, RoundPlans
    <3>3. Keys(plan)' \subseteq Keys(plan) \cup {Top}
      BY <3>2 DEF Insert, Keys
    <3> QED
      BY <3>1, <3>3 DEF CInv, Keys
  <2>4. CASE ~ (Cardinality(DOMAIN map) > 2)
    <3>1. plan' = plan
      BY <2>1, <2>4 DEF Round, Announced
    <3>2. ~ (Cardinality(Keys(table')) > 3)
      <4>1. IsFiniteSet(DOMAIN map)
        <5>1. IsFiniteSet(6..Top)
          BY <2>2, FS_Interval
        <5> HIDE DEF map
        <5> QED
          BY <2>2, <5>1, FS_Subset
      <4>2. Cardinality(DOMAIN map) \in Nat
        BY <4>1, FS_CardinalityType
      <4>3. table' = map \/ DOMAIN table' = DOMAIN map \cup {Ahead(i)}
        BY <2>1 DEF Round, Insert
      <4>4. Cardinality(DOMAIN map \cup {Ahead(i)}) <= Cardinality(DOMAIN map) + 1
        <5> HIDE DEF map
        <5> QED
          BY <4>1, <4>2, FS_AddElement
      <4>5. Cardinality(DOMAIN map \cup {Ahead(i)}) \in Nat
        BY <4>1, FS_AddElement, FS_CardinalityType
      <4> HIDE DEF map
      <4> QED
        BY <2>4, <4>2, <4>3, <4>4, <4>5 DEF Keys
    <3>3. ASSUME Keys(plan) # {}
          PROVE  6 \in Keys(table') /\ table'[6] = 4
      <4>1. 6 \in Keys(table) /\ table[6] = 4
        BY <3>3 DEF CInv
      <4>2. 6 \in DOMAIN map
        BY <4>1, FilledFacts DEF IInv
      <4>3. map[6] = 4
        BY <4>1, <4>2 DEF Filled, Insert, Keys
      <4> QED
        BY <2>1, <4>2, <4>3, FirstStays
    <3> QED
      BY <3>1, <3>2, <3>3 DEF CInv, Keys
  <2> QED
    BY <2>3, <2>4
<1>2. CASE UNCHANGED vars
  BY <1>2 DEF vars, CInv, Keys
<1> QED
  BY <1>1, <1>2

(* What the plan looks like.                                               *)
LEMMA PlanFacts ==
  ASSUME IInv, CInv, Normal = 4, Keys(plan) # {}
  PROVE  /\ Top \in Nat /\ Top >= 9
         /\ LastKey(table) = Top /\ Min(Keys(table)) = 6 /\ table[6] = 4
         /\ IsFiniteSet(Keys(plan)) /\ Keys(plan) \subseteq 8..(Top - 1)
         /\ \A k \in Keys(plan) : k \in Nat /\ 8 <= k /\ k < Top /\ plan[k] \in Nat \ {0}
<1>1. Top \in Nat
  BY Numbers DEF IInv
<1>2. Keys(plan) \subseteq Keys(table) /\ Keys(table) \subseteq 6..Top
  BY DEF IInv, Plans, Tables
<1>3. \A k \in Keys(plan) : k \in Nat /\ 8 <= k /\ k < Top
  BY <1>1, <1>2 DEF IInv, Plans, CInv
<1>4. LastKey(table) = Top
  <2>1. Keys(table) \in SUBSET Int /\ Top \in Keys(table) /\ \A y \in Keys(table) : Top >= y
    BY <1>1, <1>2 DEF IInv, Tables
  <2> QED
    BY <2>1, MaxIs DEF LastKey, Keys
<1>5. 6 \in Keys(table) /\ table[6] = 4
  BY DEF CInv
<1>6. Min(Keys(table)) = 6
  <2>1. Keys(table) \in SUBSET Int /\ \A y \in Keys(table) : 6 <= y
    BY <1>1, <1>2
  <2> QED
    BY <1>5, <2>1, MinIs
<1>7. Top >= 9
  BY <1>1, <1>3
<1>8. \A k \in Keys(plan) : plan[k] \in Nat \ {0}
  BY WipeAssumption DEF IInv, Plans
<1>9. Keys(plan) \subseteq 8..(Top - 1)
  BY <1>1, <1>3
<1>10. IsFiniteSet(Keys(plan))
  <2>1. IsFiniteSet(8..(Top - 1))
    BY <1>1, FS_Interval
  <2> QED
    BY <1>9, <2>1, FS_Subset
<1> QED
  BY <1>1, <1>3, <1>4, <1>5, <1>6, <1>7, <1>8, <1>9, <1>10

(* The announced page after k.                                             *)
LEMMA FollowingIs ==
  ASSUME IInv, CInv, Normal = 4, NEW k \in Keys(plan), NEW n \in Keys(plan), k < n,
         \A j \in Keys(plan) : j > k => n <= j
  PROVE  Following(k) = n
<1>1. {p \in Keys(plan) : p > k} \in SUBSET Int /\ n \in {p \in Keys(plan) : p > k}
  BY PlanFacts
<1>2. \A y \in {p \in Keys(plan) : p > k} : n <= y
  OBVIOUS
<1> QED
  BY <1>1, <1>2, MinIs DEF Following

(* There is a number of wipes for every announced page.                    *)
LEMMA WipesType ==
  ASSUME IInv, CInv, Normal = 4, NEW k \in Keys(plan)
  PROVE  Wipes(k) \in Nat
<1>1. ASSUME NEW n \in Nat, n >= k PROVE (n - k) \div plan[k] + 1 \in Nat
  <2>1. n - k \in Nat /\ plan[k] \in Nat \ {0}
    BY <1>1, PlanFacts
  <2>2. (n - k) \div plan[k] \in Nat
    BY <2>1, NextQuotient
  <2> QED
    BY <2>2
<1>2. CASE k = LastKey(plan)
  <2>1. LastKey(table) \in Nat /\ LastKey(table) >= k
    BY PlanFacts
  <2> QED
    BY <1>1, <1>2, <2>1 DEF Wipes
<1>3. CASE k # LastKey(plan)
  <2> DEFINE L == {p \in Keys(plan) : p > k}
  <2>1. L # {}
    <3> SUFFICES ASSUME L = {} PROVE k = LastKey(plan)
      BY <1>3
    <3>1. Keys(plan) \in SUBSET Int /\ \A y \in Keys(plan) : k >= y
      BY PlanFacts
    <3> QED
      BY <3>1, MaxIs DEF LastKey, Keys
  <2>2. L \subseteq Nat
    BY PlanFacts
  <2>3. PICK n \in L : \A j \in L : n <= j
    <3> HIDE DEF L
    <3> QED
      BY <2>1, <2>2, Smallest
  <2>4. n \in Nat /\ k < n /\ k \in Nat /\ n \in Keys(plan)
    BY <2>2, PlanFacts
  <2>5. Following(k) = n
    BY <2>3, <2>4, FollowingIs
  <2>6. n >= k
    BY <2>4
  <2> QED
    BY <1>1, <1>3, <2>4, <2>5, <2>6 DEF Wipes
<1> QED
  BY <1>2, <1>3

(* The sum over the announced pages adds up one page after the other.      *)
LEMMA SumFacts ==
  ASSUME IInv, CInv, Normal = 4, Keys(plan) # {}
  PROVE  /\ Sum[{}] = 0
         /\ \A s \in SUBSET Keys(plan) : Sum[s] \in Nat
         /\ \A s \in SUBSET Keys(plan) : \A k \in s : Sum[s] = Wipes(k) + Sum[s \ {k}]
<1> DEFINE S == Keys(plan)
           g == [k \in S |-> Wipes(k)]
           Rule(I) == [s \in SUBSET S |-> IF s = {} THEN 0 ELSE Wipes(Some(s)) + I[s \ {Some(s)}]]
           RuleG(I) == [s \in SUBSET S |-> IF s = {} THEN 0 ELSE g[Some(s)] + I[s \ {Some(s)}]]
<1>1. g \in [S -> Nat] /\ IsFiniteSet(S)
  BY WipesType, PlanFacts
<1>2. ASSUME NEW I PROVE Rule(I) = RuleG(I)
  <2>1. \A s \in SUBSET S : s # {} => Some(s) \in s
    BY DEF Some
  <2>2. \A s \in SUBSET S : s # {} => g[Some(s)] = Wipes(Some(s))
    BY <2>1
  <2> HIDE DEF g
  <2> QED
    BY <2>2
<1>3. PICK h : Sums(h, S, g)
  <2> HIDE DEF S, g
  <2> QED
    BY <1>1, SumExists
<1>4. h = Rule(h)
  <2>1. h = RuleG(h)
    BY <1>3 DEF Sums
  <2> HIDE DEF Rule, RuleG
  <2> QED
    BY <1>2, <2>1
<1>5. Sum = Rule(Sum)
  BY <1>4 DEF Sum
<1>6. Sums(Sum, S, g)
  <2>1. Sum = RuleG(Sum)
    <3> HIDE DEF Rule, RuleG
    <3> QED
      BY <1>2, <1>5
  <2> HIDE DEF g
  <2> QED
    BY <2>1 DEF Sums
<1>7. /\ Sum[{}] = 0
      /\ \A s \in SUBSET S : Sum[s] \in Nat
      /\ \A s \in SUBSET S : \A k \in s : Sum[s] = g[k] + Sum[s \ {k}]
  <2> HIDE DEF S, g
  <2> QED
    BY <1>1, <1>6, SumOfOne
<1> HIDE DEF Rule, RuleG
<1> QED
  BY <1>7

(* Between an announced page and the next the printer uses what was        *)
(* announced; before the first it uses the interval it started with.       *)
LEMMA UsedFrom ==
  ASSUME IInv, CInv, Normal = 4, NEW j \in Keys(plan), NEW n \in Nat,
         \A x \in Keys(plan) : x <= j \/ n <= x
  PROVE  \A p \in j..(n - 1) : AtPage(p) = plan[j]
<1> SUFFICES ASSUME NEW p \in j..(n - 1) PROVE AtPage(p) = plan[j]
  OBVIOUS
<1>1. j \in Nat /\ \A x \in Keys(plan) : x \in Nat
  BY PlanFacts
<1>2. p \in Int /\ j <= p /\ p < n
  BY <1>1
<1>3. j \in Announcements(p) /\ \A x \in Announcements(p) : j >= x
  BY <1>1, <1>2 DEF Announcements
<1> QED
  BY <1>2, <1>3, InUse

(* Before the first announced page it is 4.                                *)
LEMMA UsedFirst ==
  ASSUME IInv, CInv, Normal = 4, NEW n \in Keys(plan), \A x \in Keys(plan) : n <= x
  PROVE  \A p \in 0..(n - 1) : AtPage(p) = 4
<1> SUFFICES ASSUME NEW p \in 0..(n - 1) PROVE AtPage(p) = 4
  OBVIOUS
<1>1. n \in Nat /\ \A x \in Keys(plan) : x \in Nat
  BY PlanFacts
<1>2. p \in Int /\ p < n
  BY <1>1
<1>3. \A x \in Keys(plan) : ~ (x <= p)
  BY <1>1, <1>2
<1>4. Announcements(p) = {}
  BY <1>3 DEF Announcements
<1> QED
  BY <1>4, NoneInUse

(* Up to an announced page the wipes are the sum over the earlier ones.    *)
LEMMA WipesUpTo ==
  ASSUME IInv, CInv, Normal = 4, NEW n \in Keys(plan)
  PROVE  /\ Wiping[n].since = 0
         /\ Wiping[n].wipes = (Min(Keys(plan)) \div 4) + 1 + Sum[Earlier(n)]
<1> DEFINE Claim(k) == /\ Wiping[k].since = 0
                       /\ Wiping[k].wipes = (Min(Keys(plan)) \div 4) + 1 + Sum[Earlier(k)]
           T == {k \in Keys(plan) : ~ Claim(k)}
<1>0. \A k \in Keys(plan) : k \in Nat /\ 8 <= k /\ k < Top /\ plan[k] \in Nat \ {0}
  BY PlanFacts
<1> SUFFICES ASSUME T # {} PROVE FALSE
  OBVIOUS
<1>1. PICK k \in T : \A j \in T : k <= j
  <2>1. T \subseteq Nat
    BY <1>0
  <2> HIDE DEF T
  <2> QED
    BY <2>1, Smallest
<1>2. k \in Keys(plan) /\ k \in Nat /\ k >= 8 /\ ~ Claim(k)
  BY <1>0
<1> HIDE DEF Claim
<1>3. \A j \in Earlier(k) : Claim(j)
  BY <1>0, <1>1 DEF Earlier
<1>4. CASE Earlier(k) = {}
  <2>1. \A x \in Keys(plan) : k <= x
    BY <1>0, <1>2, <1>4 DEF Earlier
  <2>2. Min(Keys(plan)) = k
    <3>1. Keys(plan) \in SUBSET Int
      BY <1>0
    <3> QED
      BY <1>2, <2>1, <3>1, MinIs
  <2>3. \A p \in 0..(k - 1) : AtPage(p) = 4
    BY <1>2, <2>1, UsedFirst
  <2>4. \A p \in (0 + 1)..(k - 1) : p \notin Keys(plan)
    BY <1>2, <2>1
  <2>5. Wiping[0].since = 0 /\ Wiping[0].wipes = 0
    BY WipingStep DEF Unwiped
  <2>6. Wiping[k].wipes = Wiping[0].wipes + ((k - 0) \div 4) + 1 /\ Wiping[k].since = 0
    <3>1. 4 \in Nat \ {0} /\ 0 \in Nat /\ 0 < k
      BY <1>2
    <3> QED
      BY <1>2, <2>3, <2>4, <2>5, <3>1, Stretch
  <2>7. k - 0 = k /\ k \div 4 \in Nat
    BY <1>2
  <2>8. Sum[Earlier(k)] = 0
    BY <1>2, <1>4, SumFacts
  <2>9. Claim(k)
    BY <2>2, <2>5, <2>6, <2>7, <2>8 DEF Claim
  <2> QED
    BY <1>2, <2>9
<1>5. CASE Earlier(k) # {}
  <2>1. PICK j \in Earlier(k) : \A x \in Earlier(k) : x <= j
    <3>1. \A x \in Earlier(k) : x \in Nat /\ x < k
      BY <1>0 DEF Earlier
    <3>1a. Earlier(k) \subseteq 0..k
      BY <1>2, <3>1
    <3> QED
      BY <1>2, <1>5, <3>1a, Largest
  <2>2. j \in Keys(plan) /\ j \in Nat /\ j < k /\ plan[j] \in Nat \ {0}
    BY <1>0, <2>1 DEF Earlier
  <2>3. \A x \in Keys(plan) : x <= j \/ k <= x
    BY <1>0, <1>2, <2>1 DEF Earlier
  <2>4. \A p \in j..(k - 1) : AtPage(p) = plan[j]
    BY <1>2, <2>2, <2>3, UsedFrom
  <2>5. \A p \in (j + 1)..(k - 1) : p \notin Keys(plan)
    BY <1>2, <2>2, <2>3
  <2>6. Claim(j)
    BY <1>3, <2>1
  <2>7. Wiping[k].wipes = Wiping[j].wipes + ((k - j) \div plan[j]) + 1 /\ Wiping[k].since = 0
    BY <1>2, <2>2, <2>4, <2>5, <2>6, Stretch DEF Claim
  <2>8. Wipes(j) = ((k - j) \div plan[j]) + 1
    <3>1. Following(j) = k
      BY <1>0, <1>2, <2>2, <2>3, FollowingIs
    <3>2. j # LastKey(plan)
      <4> DEFINE P == DOMAIN plan
      <4>1. PICK x \in P : \A y \in P : y <= x
        <5>1. P \subseteq 0..Top /\ P # {} /\ Top \in Nat
          BY <1>0, <1>2, PlanFacts DEF Keys
        <5> HIDE DEF P
        <5> QED
          BY <5>1, Largest
      <4>2. P \in SUBSET Int /\ k \in P
        BY <1>0, <1>2 DEF Keys
      <4>3. Max(P) = x /\ k <= x
        BY <4>1, <4>2, MaxIs
      <4>4. x \in Int
        BY <4>2
      <4> QED
        BY <1>2, <2>2, <4>3, <4>4 DEF LastKey
    <3> QED
      BY <3>1, <3>2 DEF Wipes
  <2>9. Earlier(k) \ {j} = Earlier(j)
    <3>1. \A x \in Keys(plan) : x < k /\ x # j <=> x < j
      BY <1>0, <1>2, <2>2, <2>3
    <3> QED
      BY <3>1 DEF Earlier
  <2>10. Earlier(k) \in SUBSET Keys(plan) /\ Earlier(j) \in SUBSET Keys(plan)
    BY DEF Earlier
  <2>11. Sum[Earlier(k)] = Wipes(j) + Sum[Earlier(j)] /\ Sum[Earlier(j)] \in Nat
    BY <1>2, <2>1, <2>9, <2>10, SumFacts
  <2> DEFINE start == Min(Keys(plan)) \div 4
             d == (k - j) \div plan[j]
  <2>12. start \in Nat
    <3>1. PICK x \in Keys(plan) : \A y \in Keys(plan) : x <= y
      <4>1. Keys(plan) \subseteq Nat /\ Keys(plan) # {}
        BY <1>0, <1>2
      <4> QED
        BY <4>1, Smallest
    <3>2. Keys(plan) \in SUBSET Int
      BY <1>0
    <3>3. Min(Keys(plan)) = x /\ x \in Nat
      BY <1>0, <3>1, <3>2, MinIs
    <3> QED
      BY <3>3
  <2>13. d \in Nat
    <3>1. k - j \in Nat
      BY <1>2, <2>2
    <3> QED
      BY <2>2, <3>1, NextQuotient
  <2>14. Wiping[j].wipes = start + 1 + Sum[Earlier(j)]
    BY <2>6 DEF Claim
  <2> HIDE DEF start, d
  <2>15. Wiping[k].wipes = start + 1 + Sum[Earlier(k)]
    BY <2>7, <2>8, <2>11, <2>12, <2>13, <2>14 DEF d
  <2>16. Claim(k)
    BY <2>7, <2>15 DEF Claim, start
  <2> QED
    BY <1>2, <2>16
<1> QED
  BY <1>4, <1>5

(* With nothing announced, and the newest entry the normal interval, one   *)
(* quotient of the last page counts all wipes.                             *)
LEMMA CountIsFirst ==
  ASSUME IInv, Keys(plan) = {}, Keys(table) # {}, LastValue(table) = Normal
  PROVE  countJobWipe(2) = Wiping[LastKey(table)].wipes \div 2
<1>1. Top \in Nat /\ Top > 0 /\ LastKey(table) = Top
  <2>1. Top \in Nat /\ Top \in Keys(table) /\ Keys(table) \subseteq 6..Top
    BY Numbers DEF IInv, Tables
  <2>2. Keys(table) \in SUBSET Int /\ \A y \in Keys(table) : Top >= y
    BY <2>1
  <2>3. LastKey(table) = Top
    BY <2>1, <2>2, MaxIs DEF LastKey, Keys
  <2> QED
    BY <2>1, <2>3
<1>2. \A p \in 0..(Top - 1) : AtPage(p) = Normal
  <2>1. \A p \in 0..(Top - 1) : Announcements(p) = {}
    BY DEF Announcements
  <2> QED
    BY <2>1, NoneInUse
<1>3. Wiping[0].since = 0 /\ Wiping[0].wipes = 0
  BY WipingStep DEF Unwiped
<1>4. Normal \in Nat \ {0}
  BY WipeAssumption
<1>5. ASSUME NEW n \in Nat, n = Top
      PROVE  Wiping[n].wipes = Wiping[0].wipes + ((n - 0) \div Normal)
  <2>1. 0 \in Nat /\ 0 < n /\ \A p \in (0 + 1)..(n - 1) : p \notin Keys(plan)
    BY <1>1, <1>5
  <2>2. \A p \in 0..(n - 1) : AtPage(p) = Normal
    BY <1>2, <1>5
  <2>3. n \notin Keys(plan) => Wiping[n].wipes = Wiping[0].wipes + ((n - 0) \div Normal)
    BY <1>3, <1>4, <2>1, <2>2, Stretch
  <2> QED
    BY <2>3
<1>6. Top - 0 = Top /\ Top \div Normal \in Nat
  BY <1>1, <1>4, NextQuotient
<1>7. Wiping[Top].wipes = Top \div Normal
  BY <1>1, <1>3, <1>5, <1>6
<1>8. countJobWipe(2) = (LastKey(table) \div LastValue(table)) \div 2
  BY DEF countJobWipe
<1> QED
  BY <1>1, <1>7, <1>8

(* The count: the wipes up to the last announced page, and those after it. *)
LEMMA CountIs ==
  ASSUME IInv, CInv, Normal = 4
  PROVE  CountIsWipes
<1> SUFFICES ASSUME Keys(plan) # {}
             PROVE  countJobWipe(2) = Wiping[LastKey(table)].wipes \div 2
  BY CountIsFirst DEF CountIsWipes, Settled
<1>1. /\ Top \in Nat /\ LastKey(table) = Top /\ Min(Keys(table)) = 6 /\ table[6] = 4
      /\ \A k \in Keys(plan) : k \in Nat /\ k < Top /\ plan[k] \in Nat \ {0}
  BY PlanFacts
<1>2. PICK K \in Keys(plan) : \A x \in Keys(plan) : x <= K
  <2>1. Keys(plan) \subseteq 0..Top
    BY <1>1
  <2> QED
    BY <1>1, <2>1, Largest
<1>3. K \in Nat /\ K < Top /\ plan[K] \in Nat \ {0}
  BY <1>1
<1>4. LastKey(plan) = K
  <2>1. Keys(plan) \in SUBSET Int /\ \A y \in Keys(plan) : K >= y
    BY <1>1, <1>2
  <2> QED
    BY <2>1, MaxIs DEF LastKey, Keys
<1>5. \A p \in K..(Top - 1) : AtPage(p) = plan[K]
  BY <1>1, <1>2, UsedFrom
<1>6. \A p \in (K + 1)..(Top - 1) : p \notin Keys(plan)
  BY <1>1, <1>2, <1>3
<1>7. Wiping[K].since = 0 /\ Wiping[K].wipes = (Min(Keys(plan)) \div 4) + 1 + Sum[Earlier(K)]
  BY WipesUpTo
<1>8. Wiping[Top].wipes = Wiping[K].wipes + ((Top - K) \div plan[K])
  <2>1. Top \notin Keys(plan)
    BY <1>1
  <2>2. K \in Nat /\ Top \in Nat /\ K < Top /\ plan[K] \in Nat \ {0} /\ Wiping[K].since = 0
    BY <1>1, <1>3, <1>7
  <2>3. ASSUME NEW n \in Nat, n = Top
        PROVE  Wiping[n].wipes = Wiping[K].wipes + ((n - K) \div plan[K])
    <3>1. K < n /\ n \notin Keys(plan)
      BY <2>1, <2>2, <2>3
    <3>2. \A p \in K..(n - 1) : AtPage(p) = plan[K]
      BY <1>5, <2>3
    <3>3. \A p \in (K + 1)..(n - 1) : p \notin Keys(plan)
      BY <1>6, <2>3
    <3> QED
      <4> DEFINE q == plan[K]
      <4>1. q \in Nat \ {0} /\ K \in Nat /\ K < n /\ Wiping[K].since = 0
        BY <2>2, <3>1
      <4>2. \A p \in K..(n - 1) : AtPage(p) = q
        BY <3>2
      <4> HIDE DEF q
      <4>3. n \notin Keys(plan) => Wiping[n].wipes = Wiping[K].wipes + ((n - K) \div q)
        BY <3>3, <4>1, <4>2, Stretch
      <4> QED
        BY <3>1, <4>3 DEF q
  <2> QED
    BY <2>2, <2>3
<1>9. Wipes(K) = ((Top - K) \div plan[K]) + 1
  BY <1>1, <1>4 DEF Wipes
<1>10. Keys(plan) \ {K} = Earlier(K)
  <2>1. \A x \in Keys(plan) : x # K <=> x < K
    BY <1>1, <1>2, <1>3
  <2> QED
    BY <2>1 DEF Earlier
<1>11. Sum[Keys(plan)] = Wipes(K) + Sum[Earlier(K)] /\ Sum[Earlier(K)] \in Nat
  BY <1>10, SumFacts DEF Earlier
<1> DEFINE start == Min(Keys(plan)) \div 4
           d == (Top - K) \div plan[K]
<1>12. d \in Nat
  <2>1. Top - K \in Nat
    BY <1>1, <1>3
  <2> QED
    BY <1>3, <2>1, NextQuotient
<1>13. start \in Nat
  <2>1. PICK x \in Keys(plan) : \A y \in Keys(plan) : x <= y
    <3>1. Keys(plan) \subseteq Nat
      BY <1>1
    <3> QED
      BY <3>1, Smallest
  <2>2. Keys(plan) \in SUBSET Int
    BY <1>1
  <2>3. Min(Keys(plan)) = x /\ x \in Nat
    BY <1>1, <2>1, <2>2, MinIs
  <2> QED
    BY <2>3
<1> HIDE DEF start, d
<1>14. start + Sum[Keys(plan)] = Wiping[Top].wipes
  BY <1>7, <1>8, <1>9, <1>11, <1>12, <1>13 DEF start, d
<1>15. countJobWipe(2) = (start + Sum[Keys(plan)]) \div 2
  BY <1>1, CountIsSum DEF start
<1> QED
  BY <1>1, <1>14, <1>15

(* Wherever the job starts, with a printer that starts with the interval   *)
(* 4, the number of wipes that countJobWipe(2) records is the number of    *)
(* wipes of a printer that counts pages and wipes at every change, halved: *)
(* once something was announced, or while the newest entry is still 4 (see *)
(* Settled for the states in between, where the code counts wrongly).      *)
THEOREM CountIsWipesCorrect ==
  ASSUME Normal = 4
  PROVE  Spec => []CountIsWipes
<1>1. Init => CInv
  <2> SUFFICES ASSUME Init PROVE CInv
    OBVIOUS
  <2>1. Keys(table) = {} /\ Keys(plan) = {}
    BY DEF Init, Keys
  <2>2. Cardinality(Keys(table)) = 0
    BY <2>1, FS_EmptySet
  <2> QED
    BY <2>1, <2>2 DEF CInv
<1>2. IInv /\ CInv /\ [Next]_vars => CInv'
  BY CountInductive
<1>3. IInv /\ CInv => CountIsWipes
  BY CountIs
<1> QED
  BY <1>1, <1>2, <1>3, Invariant, PTL DEF Spec
=============================================================================
