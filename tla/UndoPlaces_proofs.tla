------------------------- MODULE UndoPlaces_proofs -------------------------
(***************************************************************************)
(* Proofs about the places of UndoDocument: deleting closes every gap in   *)
(* the list, so the current mesh is always a mesh of the list or none,     *)
(* whatever was refused on the way and however commands are undone and     *)
(* redone.                                                                 *)
(***************************************************************************)
EXTENDS UndoDocument, FunctionTheorems, FiniteSetTheorems, SequenceTheorems, WellFoundedInduction, TLAPS

(* The places of n meshes are 1 to n, each taken once.                     *)
Places(S) ==
  /\ IsFiniteSet(S)
  /\ \A m \in S : m.at \in 1..Cardinality(S)
  /\ \A m, n \in S : m.at = n.at => m = n

-----------------------------------------------------------------------------
LEMMA PlacesTaken ==
  ASSUME NEW S, Places(S)
  PROVE  /\ Cardinality(S) \in Nat
         /\ \A k \in 1..Cardinality(S) : \E m \in S : m.at = k
         /\ {m.at : m \in S} = 1..Cardinality(S)
<1> DEFINE n == Cardinality(S)
           f == [m \in S |-> m.at]
<1>1. n \in Nat /\ IsFiniteSet(S)
  BY FS_CardinalityType DEF Places
<1>2. IsFiniteSet(1..n) /\ Cardinality(1..n) = n
  BY <1>1, FS_Interval
<1>3. f \in Injection(S, 1..n)
  BY DEF Places, Injection, IsInjective
<1> HIDE DEF n
<1>4. f \in Surjection(S, 1..n)
  BY <1>1, <1>2, <1>3, FS_Injection DEF n
<1>5. \A k \in 1..n : \E m \in S : m.at = k
  BY <1>4 DEF Surjection
<1>6. \A m \in S : m.at \in 1..n
  BY DEF Places, n
<1> QED
  BY <1>1, <1>5, <1>6 DEF n

(* Meshes between two places.                                              *)
LEMMA Between ==
  ASSUME NEW S, Places(S), NEW X \in SUBSET S, NEW a \in Int, NEW b \in Int, a < b,
         \A x \in X : a < x.at /\ x.at < b
  PROVE  IsFiniteSet(X) /\ Cardinality(X) \in Nat /\ Cardinality(X) <= b - a - 1
<1> DEFINE T == (a + 1)..(b - 1)
           f == [x \in X |-> x.at]
<1>1. IsFiniteSet(X) /\ Cardinality(X) \in Nat
  <2>1. IsFiniteSet(S)
    BY DEF Places
  <2>2. IsFiniteSet(X)
    BY <2>1, FS_Subset
  <2> QED
    BY <2>2, FS_CardinalityType
<1>2. IsFiniteSet(T) /\ Cardinality(T) = IF a + 1 > b - 1 THEN 0 ELSE (b - 1) - (a + 1) + 1
  <2>1. a + 1 \in Int /\ b - 1 \in Int
    OBVIOUS
  <2> QED
    BY <2>1, FS_Interval
<1>3. \A x \in X : x.at \in T
  <2> SUFFICES ASSUME NEW x \in X PROVE x.at \in T
    OBVIOUS
  <2>1. x.at \in Int
    BY DEF Places
  <2> QED
    BY <2>1
<1> HIDE DEF T
<1>4. f \in Injection(X, T)
  BY <1>3 DEF Places, Injection, IsInjective
<1>5. Cardinality(X) <= Cardinality(T)
  BY <1>2, <1>4, FS_Injection
<1> QED
  BY <1>1, <1>2, <1>5

LEMMA FoundIn ==
  ASSUME NEW S, NEW I
  PROVE  Found(S, I) \subseteq S
BY DEF Found

(* Where a mesh goes that stays.                                           *)
NewAt(S, I, m) == m.at - Cardinality(Before(S, I, m.at))

LEMMA NewPlaces ==
  ASSUME NEW S, Places(S), NEW I
  PROVE  /\ \A m \in S \ Found(S, I) :
              NewAt(S, I, m) \in 1..(Cardinality(S) - Cardinality(Found(S, I)))
         /\ \A m, n \in S \ Found(S, I) : m.at < n.at => NewAt(S, I, m) < NewAt(S, I, n)
<1> DEFINE F == Found(S, I)
           B(p) == Before(S, I, p)
<1>1. F \subseteq S /\ IsFiniteSet(F) /\ Cardinality(S) \in Nat
  <2>1. IsFiniteSet(S)
    BY DEF Places
  <2>2. F \subseteq S
    BY FoundIn
  <2>3. IsFiniteSet(F)
    BY <2>1, <2>2, FS_Subset
  <2> QED
    BY <2>1, <2>2, <2>3, FS_CardinalityType
<1>2. \A p : B(p) = {x \in F : x.at < p}
  BY DEF Before
<1>3. \A m \in S : m.at \in Nat /\ 1 <= m.at /\ m.at <= Cardinality(S)
  BY <1>1 DEF Places
<1> HIDE DEF F, B
<1>4. ASSUME NEW p \in 1..(Cardinality(S) + 1)
      PROVE  IsFiniteSet(B(p)) /\ Cardinality(B(p)) \in Nat /\ Cardinality(B(p)) <= p - 1
  <2>1. p \in Int /\ 0 \in Int /\ 0 < p
    BY <1>1
  <2>2. B(p) \in SUBSET S
    BY <1>1, <1>2
  <2>3. \A x \in B(p) : 0 < x.at /\ x.at < p
    BY <1>2, <1>3, <2>2
  <2>4. Cardinality(B(p)) <= p - 0 - 1 /\ IsFiniteSet(B(p)) /\ Cardinality(B(p)) \in Nat
    BY <2>1, <2>2, <2>3, Between
  <2> QED
    BY <2>1, <2>4
<1>5. ASSUME NEW m \in S \ F
      PROVE  NewAt(S, I, m) \in 1..(Cardinality(S) - Cardinality(F))
  <2> DEFINE p == m.at
             E == {x \in F : x.at > p}
  <2>1. p \in 1..(Cardinality(S) + 1) /\ p \in Nat /\ p <= Cardinality(S)
    BY <1>1, <1>3
  <2>2. IsFiniteSet(B(p)) /\ Cardinality(B(p)) \in Nat /\ Cardinality(B(p)) <= p - 1
    BY <1>4, <2>1
  <2>3. IsFiniteSet(E) /\ Cardinality(E) \in Nat /\ Cardinality(E) <= Cardinality(S) - p
    <3>1. E \in SUBSET S
      BY <1>1
    <3>2. \A x \in E : p < x.at /\ x.at < Cardinality(S) + 1
      BY <1>1, <1>3, <2>1
    <3>3. p \in Int /\ Cardinality(S) + 1 \in Int /\ p < Cardinality(S) + 1
      BY <1>1, <2>1
    <3> HIDE DEF E, p
    <3>4. IsFiniteSet(E) /\ Cardinality(E) \in Nat /\ Cardinality(E) <= (Cardinality(S) + 1) - p - 1
      BY <3>1, <3>2, <3>3, Between
    <3> QED
      BY <1>1, <3>3, <3>4
  <2>4. F = B(p) \cup E
    <3>1. \A x \in F : x.at # p
      BY <1>1 DEF Places
    <3>2. \A x \in F : x.at < p \/ x.at > p
      BY <1>1, <1>3, <2>1, <3>1
    <3> QED
      BY <1>2, <3>2
  <2>5. B(p) \cap E = {}
    BY <1>1, <1>2, <1>3, <2>1
  <2> HIDE DEF E
  <2>6. Cardinality(F) = Cardinality(B(p)) + Cardinality(E) - Cardinality({})
    BY <2>2, <2>3, <2>4, <2>5, FS_Union
  <2>7. Cardinality({}) = 0
    BY FS_EmptySet
  <2>8. NewAt(S, I, m) = p - Cardinality(B(p))
    BY DEF NewAt, B
  <2> HIDE DEF p
  <2> QED
    BY <1>1, <2>1, <2>2, <2>3, <2>6, <2>7, <2>8
<1>6. ASSUME NEW m \in S \ F, NEW n \in S \ F, m.at < n.at
      PROVE  NewAt(S, I, m) < NewAt(S, I, n)
  <2> DEFINE p == m.at
             r == n.at
             D == {x \in F : p < x.at /\ x.at < r}
  <2>1. /\ p \in 1..(Cardinality(S) + 1) /\ r \in 1..(Cardinality(S) + 1)
        /\ p \in Nat /\ r \in Nat /\ p < r
    BY <1>1, <1>3, <1>6
  <2>2. IsFiniteSet(B(p)) /\ Cardinality(B(p)) \in Nat
    BY <1>4, <2>1
  <2>2a. IsFiniteSet(B(r)) /\ Cardinality(B(r)) \in Nat
    BY <1>4, <2>1
  <2>3. IsFiniteSet(D) /\ Cardinality(D) \in Nat /\ Cardinality(D) <= r - p - 1
    <3>1. D \in SUBSET S /\ \A x \in D : p < x.at /\ x.at < r
      BY <1>1
    <3>2. p \in Int /\ r \in Int /\ p < r
      BY <2>1
    <3> HIDE DEF D, p, r
    <3> QED
      BY <3>1, <3>2, Between
  <2>4. B(r) = B(p) \cup D
    <3>1. \A x \in F : x.at # p
      BY <1>1 DEF Places
    <3>2. \A x \in F : x.at < r <=> x.at < p \/ (p < x.at /\ x.at < r)
      BY <1>1, <1>3, <2>1, <3>1
    <3> QED
      BY <1>2, <3>2
  <2>5. B(p) \cap D = {}
    BY <1>1, <1>2, <1>3, <2>1
  <2> HIDE DEF D
  <2>6. Cardinality(B(r)) = Cardinality(B(p)) + Cardinality(D) - Cardinality({})
    BY <2>2, <2>3, <2>4, <2>5, FS_Union
  <2>7. Cardinality({}) = 0
    BY FS_EmptySet
  <2>8. NewAt(S, I, m) = p - Cardinality(B(p)) /\ NewAt(S, I, n) = r - Cardinality(B(r))
    BY DEF NewAt, B
  <2> HIDE DEF p, r
  <2> QED
    BY <2>1, <2>2, <2>2a, <2>3, <2>6, <2>7, <2>8
<1> QED
  BY <1>5, <1>6 DEF F

(* Meshes that are appended take the next places.                          *)
LEMMA PlacesMade ==
  ASSUME NEW S, Places(S), NEW T, NEW q \in Seq(T)
  PROVE  /\ Places(Made(S, q))
         /\ Cardinality(Made(S, q)) = Cardinality(S) + Len(q)
         /\ Len(q) \in Nat
<1> DEFINE n == Len(q)
           c == Cardinality(S)
           New(j) == [at |-> LastAt(S) + j, id |-> q[j].id, src |-> q[j].src, tmf |-> q[j].tmf]
           A == {New(j) : j \in 1..n}
           g == [j \in 1..n |-> New(j)]
<1>1. n \in Nat /\ DOMAIN q = 1..n /\ c \in Nat /\ IsFiniteSet(S)
  BY PlacesTaken, LenProperties DEF Places
<1>2. Made(S, q) = S \cup A
  BY <1>1 DEF Made
<1>3. \A j \in 1..n : New(j).at = c + j
  BY DEF LastAt
<1> HIDE DEF New, n, c
<1>4. IsFiniteSet(A) /\ Cardinality(A) = n
  <2>1. IsFiniteSet(1..n) /\ Cardinality(1..n) = n
    BY <1>1, FS_Interval
  <2>2. \A j, k \in 1..n : New(j) = New(k) => j = k
    <3> SUFFICES ASSUME NEW j \in 1..n, NEW k \in 1..n, New(j) = New(k)
                 PROVE  j = k
      OBVIOUS
    <3>1. c + j = c + k
      BY <1>3
    <3> QED
      BY <3>1, <1>1
  <2>3. g \in Bijection(1..n, A)
    BY <2>2 DEF Bijection, Injection, Surjection, IsInjective
  <2>4. ExistsBijection(1..n, A)
    BY <2>3 DEF ExistsBijection
  <2> QED
    BY <2>1, <2>4, FS_Bijection
<1>5. \A m \in S : m.at \in 1..c
  BY DEF Places, c
<1>6. \A m \in A : m.at \in Int /\ c < m.at /\ m.at <= c + n
  <2>1. \A j \in 1..n : c + j \in Int /\ c < c + j /\ c + j <= c + n
    BY <1>1
  <2> QED
    BY <1>3, <2>1
<1>7. \A m \in A, x \in A : m.at = x.at => m = x
  <2> SUFFICES ASSUME NEW j \in 1..n, NEW k \in 1..n, New(j).at = New(k).at
               PROVE  New(j) = New(k)
    OBVIOUS
  <2>1. c + j = c + k
    BY <1>3
  <2>2. j = k
    BY <2>1, <1>1
  <2> QED
    BY <2>2
<1> HIDE DEF A
<1>8. S \cap A = {}
  BY <1>1, <1>5, <1>6
<1>9. IsFiniteSet(S \cup A) /\ Cardinality(S \cup A) = Cardinality(S) + Cardinality(A) - Cardinality({})
  BY <1>1, <1>4, <1>8, FS_Union
<1>10. Cardinality(S \cup A) = c + n
  <2>1. Cardinality({}) = 0
    BY FS_EmptySet
  <2>2. Cardinality(S \cup A) = c + n - 0
    BY <1>4, <1>9, <2>1 DEF c
  <2> QED
    BY <1>1, <2>2
<1>11. \A m \in S \cup A : m.at \in 1..(c + n)
  BY <1>1, <1>5, <1>6
<1>12. \A m, x \in S \cup A : m.at = x.at => m = x
  <2>1. \A m, x \in S : m.at = x.at => m = x
    BY DEF Places
  <2>2. \A m \in S, x \in A : m.at # x.at
    BY <1>1, <1>5, <1>6
  <2> QED
    BY <1>7, <2>1, <2>2
<1>13. Places(S \cup A)
  BY <1>9, <1>10, <1>11, <1>12 DEF Places
<1> QED
  BY <1>1, <1>2, <1>10, <1>13 DEF n, c

(* The meshes that stay after a deletion close up.                         *)
LEMMA PlacesWithout ==
  ASSUME NEW S, Places(S), NEW I
  PROVE  /\ Places(Without(S, I))
         /\ Cardinality(Without(S, I)) = Cardinality(S) - Cardinality(Found(S, I))
         /\ Cardinality(Found(S, I)) \in Nat /\ Cardinality(Found(S, I)) <= Cardinality(S)
<1> DEFINE F == Found(S, I)
           R == S \ F
           W == Without(S, I)
           New(m) == [at |-> NewAt(S, I, m), id |-> m.id, src |-> m.src, tmf |-> m.tmf]
           g == [m \in R |-> New(m)]
           c == Cardinality(S)
           d == Cardinality(F)
<1>1. F \subseteq S /\ IsFiniteSet(S) /\ c \in Nat
  BY FoundIn, PlacesTaken DEF Places
<1>2. IsFiniteSet(F) /\ d <= c /\ d \in Nat
  BY <1>1, FS_Subset, FS_CardinalityType
<1>3. W = {New(m) : m \in R}
  BY DEF Without, NewAt
<1>4. \A m \in R : New(m).at = NewAt(S, I, m)
  OBVIOUS
<1>5. \A m \in R : NewAt(S, I, m) \in 1..(c - d)
  BY NewPlaces
<1>6. \A m, x \in R : NewAt(S, I, m) = NewAt(S, I, x) => m = x
  <2> SUFFICES ASSUME NEW m \in R, NEW x \in R, m # x
               PROVE  NewAt(S, I, m) # NewAt(S, I, x)
    OBVIOUS
  <2>1. m.at \in Int /\ x.at \in Int /\ m.at # x.at
    BY DEF Places
  <2>2. m.at < x.at \/ x.at < m.at
    BY <2>1
  <2>3. NewAt(S, I, m) < NewAt(S, I, x) \/ NewAt(S, I, x) < NewAt(S, I, m)
    BY <2>2, NewPlaces
  <2>4. NewAt(S, I, m) \in Int /\ NewAt(S, I, x) \in Int
    BY <1>5
  <2> QED
    BY <2>3, <2>4
<1>7. S \cap F = F
  BY <1>1
<1> HIDE DEF New, F, c, d, W
<1>8. IsFiniteSet(R) /\ Cardinality(R) = c - d
  BY <1>1, <1>2, <1>7, FS_Difference DEF c, d
<1>9. g \in Bijection(R, W)
  <2>1. \A m, x \in R : New(m) = New(x) => m = x
    BY <1>4, <1>6
  <2> HIDE DEF R
  <2> QED
    BY <2>1, <1>3 DEF Bijection, Injection, Surjection, IsInjective
<1>10. IsFiniteSet(W) /\ Cardinality(W) = c - d
  <2>1. ExistsBijection(R, W)
    BY <1>9 DEF ExistsBijection
  <2> HIDE DEF R
  <2> QED
    BY <2>1, <1>8, FS_Bijection
<1>11. \A w \in W : w.at \in 1..(c - d)
  BY <1>3, <1>4, <1>5
<1>12. \A v, w \in W : v.at = w.at => v = w
  BY <1>3, <1>4, <1>6
<1>13. Places(W)
  BY <1>10, <1>11, <1>12 DEF Places
<1> QED
  BY <1>2, <1>10, <1>13 DEF F, W, c, d

(* The current mesh is still one of them, or the first, or none.           *)
LEMMA KeptListed ==
  ASSUME NEW S, Places(S), NEW I, NEW c \in 0..Cardinality(S)
  PROVE  Kept(S, I, c) \in 0..Cardinality(Without(S, I))
<1> DEFINE F == Found(S, I)
<1>1. /\ Cardinality(Without(S, I)) = Cardinality(S) - Cardinality(F)
      /\ Cardinality(F) \in Nat /\ Cardinality(S) \in Nat /\ Cardinality(F) <= Cardinality(S)
      /\ F \subseteq S /\ IsFiniteSet(S)
  BY PlacesWithout, PlacesTaken, FoundIn DEF Places
<1>2. CASE S = F \/ c = 0
  <2>1. Kept(S, I, c) = 0
    BY <1>2 DEF Kept
  <2>2. Cardinality(Without(S, I)) \in Nat
    BY <1>1
  <2> QED
    BY <2>1, <2>2
<1>3. CASE S # F /\ c # 0
  <2>1. Cardinality(F) < Cardinality(S)
    <3>1. Cardinality(F) # Cardinality(S)
      BY <1>1, <1>3, FS_Subset
    <3> QED
      BY <1>1, <3>1
  <2>2. CASE \E m \in F : m.at = c
    <3>1. Kept(S, I, c) = 1
      BY <1>3, <2>2 DEF Kept
    <3> QED
      BY <3>1, <2>1, <1>1
  <2>3. CASE ~ \E m \in F : m.at = c
    <3>1. Kept(S, I, c) = c - Cardinality(Before(S, I, c))
      BY <1>3, <2>3 DEF Kept
    <3>2. c \in 1..Cardinality(S)
      BY <1>1, <1>3
    <3>3. PICK m \in S : m.at = c
      BY <3>2, PlacesTaken
    <3>4. m \in S \ F
      BY <2>3, <3>3
    <3>5. NewAt(S, I, m) \in 1..(Cardinality(S) - Cardinality(F))
      BY <3>4, NewPlaces
    <3>6. NewAt(S, I, m) = Kept(S, I, c)
      BY <3>1, <3>3 DEF NewAt
    <3> QED
      BY <3>5, <3>6, <1>1
  <2> QED
    BY <2>2, <2>3
<1> QED
  BY <1>2, <1>3

(* A mesh may change its id at its place.                                  *)
LEMMA PlacesRenamed ==
  ASSUME NEW S, Places(S), NEW m \in S, NEW n, n.at = m.at
  PROVE  /\ Places((S \ {m}) \cup {n})
         /\ Cardinality((S \ {m}) \cup {n}) = Cardinality(S)
<1> DEFINE R == S \ {m}
<1>1. IsFiniteSet(S) /\ Cardinality(S) \in Nat
  BY PlacesTaken DEF Places
<1>2. IsFiniteSet(R) /\ Cardinality(R) = Cardinality(S) - 1
  BY <1>1, FS_RemoveElement
<1>3. \A x \in R : x.at # n.at
  BY DEF Places
<1>4. \A x \in R \cup {n} : x.at \in 1..Cardinality(S)
  BY DEF Places
<1>5. \A x, y \in R \cup {n} : x.at = y.at => x = y
  BY <1>3 DEF Places
<1> HIDE DEF R
<1>6. n \notin R
  BY <1>3
<1>7. IsFiniteSet(R \cup {n}) /\ Cardinality(R \cup {n}) = Cardinality(S)
  <2>1. IsFiniteSet(R \cup {n}) /\ Cardinality(R \cup {n}) = Cardinality(R) + 1
    BY <1>2, <1>6, FS_AddElement
  <2> QED
    BY <1>1, <1>2, <2>1
<1>8. Places(R \cup {n})
  BY <1>4, <1>5, <1>7 DEF Places
<1> QED
  BY <1>7, <1>8 DEF R
-----------------------------------------------------------------------------
(* The inductive invariant, in parts: the list; the other tables of the    *)
(* document; the stack; and what a loop has still to do.                   *)
Sources  == Files \cup {Object}
Mesh     == [at : Nat, id : 1..MaxIds, src : Sources, tmf : BOOLEAN]
Commands == [op : {"import", "project", "paste", "delete", "edit", "reset"},
             old : Seq(Items), new : Seq(Items), on : SUBSET (1..MaxIds), cut : BOOLEAN]

List(S, c) == S \subseteq Mesh /\ Places(S) /\ c \in 0..Cardinality(S)

Tables ==
  /\ counter \in 1..(MaxIds + 1)
  /\ selected \subseteq 1..MaxIds
  /\ clipboard \in Seq(Sources)

EntriesTyped(r) == DOMAIN r \subseteq 1..MaxIds /\ \A i \in DOMAIN r : r[i].src \in Sources

Stacks ==
  /\ stack \in Seq(Commands) /\ views \in Seq(SUBSET Items)
  /\ Len(views) = Len(stack) + 1 /\ cursor \in 0..Len(stack)
  /\ issued \in Nat /\ Len(stack) =< issued /\ issued =< MaxCommands

ToDo ==
  /\ loop \in [op : {"none", "reset", "redo"}, old : Seq(Items), todo : Seq(Items)]
  /\ loop.op = "reset" => issued < MaxCommands /\ counter + Len(loop.todo) =< MaxIds + 1
  /\ loop.op = "redo" => loop.todo # <<>>

PInv == List(meshes, current) /\ Tables /\ EntriesTyped(resetList) /\ Stacks /\ ToDo
-----------------------------------------------------------------------------
(* The list after what the operations do to it.                            *)
LEMMA ItemTyped ==
  ASSUME NEW i \in 1..MaxIds, NEW s \in Sources, NEW t \in BOOLEAN
  PROVE  Item(i, s, t) \in Items
BY DEF Item, Items, Sources

LEMMA ViewTyped ==
  ASSUME NEW S, S \subseteq Mesh
  PROVE  View(S) \subseteq Items
<1> SUFFICES ASSUME NEW m \in S
             PROVE  Item(m.id, m.src, m.tmf) \in Items
  BY DEF View
<1>1. m.id \in 1..MaxIds /\ m.src \in Sources /\ m.tmf \in BOOLEAN
  BY DEF Mesh
<1> QED
  BY <1>1, ItemTyped

LEMMA ListMade ==
  ASSUME NEW S, NEW c, List(S, c), NEW q \in Seq(Items)
  PROVE  /\ List(Made(S, q), LastAt(S) + Len(q))
         /\ List(Made(S, q), c)
<1>1. /\ Places(Made(S, q)) /\ Cardinality(Made(S, q)) = Cardinality(S) + Len(q)
      /\ Len(q) \in Nat /\ Cardinality(S) \in Nat /\ c \in 0..Cardinality(S)
  BY PlacesMade, PlacesTaken DEF List
<1>2. Made(S, q) \subseteq Mesh
  <2>1. ASSUME NEW j \in DOMAIN q
        PROVE  [at |-> LastAt(S) + j, id |-> q[j].id, src |-> q[j].src, tmf |-> q[j].tmf] \in Mesh
    <3>1. j \in 1..Len(q) /\ j \in Nat
      BY LenProperties
    <3>2. q[j] \in Items
      BY <3>1, ElementOfSeq
    <3>3. LastAt(S) + j \in Nat
      BY <1>1, <3>1 DEF LastAt
    <3> QED
      BY <3>2, <3>3 DEF Items, Mesh, Sources
  <2>2. S \subseteq Mesh
    BY DEF List
  <2> QED
    BY <2>1, <2>2 DEF Made
<1>3. LastAt(S) + Len(q) \in 0..Cardinality(Made(S, q)) /\ c \in 0..Cardinality(Made(S, q))
  BY <1>1 DEF LastAt
<1> QED
  BY <1>1, <1>2, <1>3 DEF List

LEMMA ListWithout ==
  ASSUME NEW S, NEW c, List(S, c), NEW I
  PROVE  List(Without(S, I), Kept(S, I, c))
<1>1. Places(Without(S, I)) /\ Kept(S, I, c) \in 0..Cardinality(Without(S, I))
  BY PlacesWithout, KeptListed DEF List
<1>2. Without(S, I) \subseteq Mesh
  <2>1. ASSUME NEW m \in S \ Found(S, I)
        PROVE  [at |-> m.at - Cardinality(Before(S, I, m.at)), id |-> m.id, src |-> m.src, tmf |-> m.tmf] \in Mesh
    <3>1. NewAt(S, I, m) \in 1..(Cardinality(S) - Cardinality(Found(S, I)))
      BY NewPlaces DEF List
    <3>2. NewAt(S, I, m) \in Nat
      BY <3>1
    <3>3. m \in Mesh
      BY DEF List
    <3> QED
      BY <3>2, <3>3 DEF Mesh, NewAt
  <2> QED
    BY <2>1 DEF Without
<1> QED
  BY <1>1, <1>2 DEF List

LEMMA ListRenamed ==
  ASSUME NEW S, NEW c, List(S, c), NEW m \in S, NEW i \in 1..MaxIds,
         NEW n, n = [at |-> m.at, id |-> i, src |-> m.src, tmf |-> m.tmf]
  PROVE  List((S \ {m}) \cup {n}, c)
<1>1. Places((S \ {m}) \cup {n}) /\ Cardinality((S \ {m}) \cup {n}) = Cardinality(S)
  BY PlacesRenamed DEF List
<1>2. m \in Mesh /\ S \subseteq Mesh
  BY DEF List
<1>3. n \in Mesh
  BY <1>2 DEF Mesh
<1> QED
  BY <1>1, <1>2, <1>3 DEF List

LEMMA ListFirst ==
  ASSUME NEW S, NEW c, List(S, c)
  PROVE  List(S, FirstAt(S)) /\ List(S, 0)
<1>1. Cardinality(S) \in Nat /\ IsFiniteSet(S)
  BY PlacesTaken DEF List, Places
<1>2. S # {} => Cardinality(S) # 0
  BY <1>1, FS_EmptySet
<1> QED
  BY <1>1, <1>2 DEF List, FirstAt

(* Some number of a set is the smallest.                                   *)
LEMMA Smallest ==
  ASSUME NEW T, T \subseteq Nat, T # {}
  PROVE  \E k \in T : \A j \in T : k <= j
<1> DEFINE R == OpToRel(<, Nat)
<1>1. IsWellFoundedOn(R, Nat)
  BY NatLessThanWellFounded
<1>2. \A j, k \in Nat : j < k => <<j, k>> \in R
  BY DEF OpToRel
<1> HIDE DEF R
<1>3. PICK k \in T : \A j \in T : ~ (<<j, k>> \in R)
  BY <1>1, WFMin
<1>4. \A j \in T : ~ (j < k)
  BY <1>2, <1>3
<1> QED
  BY <1>4

LEMMA ListPlaced ==
  ASSUME List(meshes, current), NEW m \in meshes
  PROVE  List(meshes, PlaceOf(m.id))
<1>1. Found(meshes, {m.id}) # {}
  <2> DEFINE A == {n \in meshes : n.id = m.id}
             T == {n.at : n \in A}
  <2>1. T \subseteq Nat /\ m.at \in T
    BY PlacesTaken DEF List, Places
  <2>2. \E k \in T : \A j \in T : k <= j
    <3> HIDE DEF T
    <3> QED
      BY <2>1, Smallest
  <2>3. PICK n \in A : \A o \in A : n.at <= o.at
    BY <2>2
  <2>4. \A o \in meshes : o.id = n.id => n = o \/ n.at < o.at
    <3> SUFFICES ASSUME NEW o \in meshes, o.id = n.id, n # o
                 PROVE  n.at < o.at
      OBVIOUS
    <3>1. n.at \in Int /\ o.at \in Int /\ n.at # o.at /\ n.at <= o.at
      BY <2>3 DEF List, Places
    <3> QED
      BY <3>1
  <2>5. n \in meshes /\ n.id = m.id
    OBVIOUS
  <2>6. n \in Found(meshes, {m.id})
    BY <2>4, <2>5 DEF Found
  <2> QED
    BY <2>6
<1>2. PICK n \in meshes : PlaceOf(m.id) = n.at
  BY <1>1, FoundIn DEF PlaceOf
<1> QED
  BY <1>2 DEF List, Places
-----------------------------------------------------------------------------
(* The other tables.                                                       *)
LEMMA ItemsOf ==
  ASSUME NEW q \in Seq(Items)
  PROVE  /\ Elems(q) \subseteq Items /\ NotTmf(q) \subseteq Items
         /\ Ids(q) \subseteq 1..MaxIds
<1>1. Elems(q) \subseteq Items
  BY ElementOfSeq, LenProperties DEF Elems
<1>2. \A x \in Items : x.id \in 1..MaxIds
  BY DEF Items
<1> QED
  BY <1>1, <1>2 DEF NotTmf, Ids, IdsOf

LEMMA EntriesAdded ==
  ASSUME NEW r, EntriesTyped(r), NEW X, X \subseteq Items
  PROVE  EntriesTyped(WithEntries(r, X))
<1> DEFINE s == WithEntries(r, X)
           E(i) == CHOOSE x \in X : x.id = i
<1>1. DOMAIN s = DOMAIN r \cup IdsOf(X)
  BY DEF WithEntries
<1>2. \A x \in X : x.id \in 1..MaxIds /\ x.src \in Sources
  BY DEF Items, Sources
<1>3. ASSUME NEW i \in IdsOf(X)
      PROVE  s[i].src \in Sources
  <2>1. \E x \in X : x.id = i
    BY DEF IdsOf
  <2>2. E(i) \in X
    BY <2>1
  <2>3. s[i] = [src |-> E(i).src, tmf |-> E(i).tmf]
    BY DEF WithEntries
  <2> HIDE DEF s, E
  <2>4. s[i].src = E(i).src
    BY <2>3
  <2> QED
    BY <2>2, <2>4, <1>2
<1>4. ASSUME NEW i \in DOMAIN r, i \notin IdsOf(X)
      PROVE  s[i] = r[i]
  BY <1>4 DEF WithEntries
<1> HIDE DEF s
<1>5. IdsOf(X) \subseteq 1..MaxIds
  BY <1>2 DEF IdsOf
<1>6. EntriesTyped(s)
  BY <1>1, <1>3, <1>4, <1>5 DEF EntriesTyped
<1> QED
  BY <1>6 DEF s

LEMMA EntriesLess ==
  ASSUME NEW r, EntriesTyped(r), NEW i
  PROVE  EntriesTyped(WithoutEntry(r, i))
BY DEF EntriesTyped, WithoutEntry

(* A listing of the meshes named by I has at most one item for each of I.  *)
LEMMA Listed ==
  ASSUME NEW S, S \subseteq Mesh, NEW I, NEW q \in Listings(Found(S, I))
  PROVE  /\ q \in Seq(Items)
         /\ Len(q) \in Nat
         /\ IsFiniteSet(I) => Len(q) <= Cardinality(I)
<1> DEFINE V == View(Found(S, I))
<1>1. PICK n \in 0..MaxIds : q \in [1..n -> V]
  BY DEF Listings
<1>2. n \in Nat
  BY BoundsAreNat
<1>3. V \subseteq Items
  BY FoundIn, ViewTyped
<1>4. \A x \in V : x.id \in I
  BY DEF View, Found, Item
<1>5. \A j, k \in DOMAIN q : j < k => q[j].id < q[k].id
  BY DEF Listings, Lists
<1> HIDE DEF V
<1>6. q \in Seq(Items) /\ Len(q) = n
  BY <1>1, <1>2, <1>3
<1>7. ASSUME IsFiniteSet(I)
      PROVE  n <= Cardinality(I)
  <2> DEFINE f == [j \in 1..n |-> q[j].id]
  <2>1. \A j \in 1..n : q[j] \in V /\ q[j] \in Items
    BY <1>1, <1>3
  <2>2. ASSUME NEW j \in 1..n, NEW k \in 1..n, q[j].id = q[k].id
        PROVE  j = k
    <3>1. q[j].id \in Int /\ j \in Int /\ k \in Int
      BY <2>1, <1>2 DEF Items
    <3>2. ~ (q[j].id < q[k].id) /\ ~ (q[k].id < q[j].id)
      BY <3>1, <2>2
    <3>3. ~ (j < k) /\ ~ (k < j)
      BY <3>2, <1>1, <1>5
    <3> QED
      BY <3>1, <3>3
  <2>3. f \in Injection(1..n, I)
    BY <2>1, <2>2, <1>4 DEF Injection, IsInjective
  <2>4. Cardinality(1..n) <= Cardinality(I)
    BY <1>7, <2>3, FS_Injection
  <2>5. Cardinality(1..n) = n
    BY <1>2, FS_Interval
  <2> QED
    BY <2>4, <2>5
<1> QED
  BY <1>2, <1>6, <1>7

LEMMA NoItems == <<>> \in Seq(Items) /\ Len(<<>>) = 0
BY EmptySeq

LEMMA OneItem ==
  ASSUME NEW x \in Items
  PROVE  <<x>> \in Seq(Items) /\ Len(<<x>>) = 1 /\ Elems(<<x>>) = {x} /\ Ids(<<x>>) = {x.id}
<1>1. Elems(<<x>>) = {x}
  BY DEF Elems
<1> QED
  BY <1>1 DEF Ids, IdsOf

LEMMA CommandTyped ==
  ASSUME NEW op \in {"import", "project", "paste", "delete", "edit", "reset"},
         NEW old \in Seq(Items), NEW new \in Seq(Items), NEW on \in SUBSET (1..MaxIds)
  PROVE  Command(op, old, new, on) \in Commands
BY DEF Command, Commands

LEMMA Pushed ==
  ASSUME Stacks, issued < MaxCommands, NEW c \in Commands, Push(c), View(meshes') \subseteq Items
  PROVE  Stacks'
<1> DEFINE s == SubSeq(stack, 1, cursor)
           v == SubSeq(views, 1, cursor + 1)
           w == View(meshes')
           n == Len(stack)
<1>1. /\ stack \in Seq(Commands) /\ views \in Seq(SUBSET Items)
      /\ n \in Nat /\ Len(views) = n + 1
      /\ cursor \in Nat /\ cursor =< n
  BY LenProperties DEF Stacks
<1>2. issued \in Nat /\ MaxCommands \in Nat /\ n =< issued
  BY BoundsAreNat DEF Stacks
<1> HIDE DEF n
<1>3. s \in Seq(Commands) /\ Len(s) = cursor
  <2>1. \A i \in 1..cursor : stack[i] \in Commands
    BY <1>1, ElementOfSeq DEF n
  <2> QED
    BY <1>1, <2>1, SubSeqProperties
<1>4. v \in Seq(SUBSET Items) /\ Len(v) = cursor + 1
  <2>1. \A i \in 1..(cursor + 1) : views[i] \in SUBSET Items
    BY <1>1, ElementOfSeq
  <2> QED
    BY <1>1, <2>1, SubSeqProperties
<1>5. stack' = Append(s, c) /\ views' = Append(v, w) /\ cursor' = cursor + 1 /\ issued' = issued + 1
  BY DEF Push
<1>6. w \in SUBSET Items
  OBVIOUS
<1> HIDE DEF s, v, w
<1>7. stack' \in Seq(Commands) /\ Len(stack') = cursor + 1
  BY <1>3, <1>5, AppendProperties
<1>8. views' \in Seq(SUBSET Items) /\ Len(views') = cursor + 1 + 1
  BY <1>4, <1>5, <1>6, AppendProperties
<1>9. Len(views') = Len(stack') + 1 /\ cursor' \in 0..Len(stack')
  BY <1>1, <1>5, <1>7, <1>8
<1>10. issued' \in Nat /\ Len(stack') =< issued' /\ issued' =< MaxCommands
  BY <1>1, <1>2, <1>5, <1>7
<1> QED
  BY <1>7, <1>8, <1>9, <1>10 DEF Stacks
-----------------------------------------------------------------------------
(* One lemma per kind of step.                                             *)
LEMMA Quiet ==
  ASSUME loop' = Idle
  PROVE  ToDo'
<1>1. Idle \in [op : {"none", "reset", "redo"}, old : Seq(Items), todo : Seq(Items)]
  BY NoItems DEF Idle
<1>2. Idle.op = "none"
  BY DEF Idle
<1> QED
  BY <1>1, <1>2 DEF ToDo

LEMMA ImportKeeps ==
  ASSUME PInv, NEW f \in Files, Import(f)
  PROVE  PInv'
<1> DEFINE x == Item(counter, f, FALSE)
           q == <<x>>
           c == Command("import", <<>>, q, {})
<1>1. /\ Ready /\ Push(c) /\ meshes' = Made(meshes, q) /\ resetList' = WithEntries(resetList, Elems(q))
      /\ current' = LastAt(meshes) + 1 /\ selected' = {counter} /\ counter' = counter + 1
      /\ clipboard' = clipboard /\ loop' = loop /\ counter =< MaxIds /\ issued < MaxCommands
  BY DEF Import
<1>2. counter \in 1..MaxIds /\ counter + 1 \in 1..(MaxIds + 1) /\ clipboard \in Seq(Sources)
  <2>1. counter \in 1..(MaxIds + 1) /\ clipboard \in Seq(Sources)
    BY DEF PInv, Tables
  <2> QED
    BY <1>1, <2>1, BoundsAreNat
<1>3. x \in Items
  BY <1>2, ItemTyped DEF Sources
<1> HIDE DEF x
<1>4. q \in Seq(Items) /\ Len(q) = 1 /\ Elems(q) \subseteq Items
  BY <1>3, OneItem
<1> HIDE DEF q
<1>5. List(meshes', current')
  BY <1>1, <1>4, ListMade DEF PInv
<1>6. EntriesTyped(resetList')
  BY <1>1, <1>4, EntriesAdded DEF PInv
<1>7. c \in Commands
  BY <1>4, NoItems, CommandTyped
<1>8. View(meshes') \subseteq Items
  BY <1>5, ViewTyped DEF List
<1> HIDE DEF c
<1>9. Stacks'
  BY <1>1, <1>7, <1>8, Pushed DEF PInv
<1>10. Tables'
  BY <1>1, <1>2 DEF Tables
<1>11. ToDo'
  BY <1>1, Quiet DEF Ready
<1> QED
  BY <1>5, <1>6, <1>9, <1>10, <1>11 DEF PInv

(* Items under the next ids.                                               *)
LEMMA NextItems ==
  ASSUME Tables, NEW n \in Nat, n >= 1, counter + n - 1 =< MaxIds,
         NEW q, DOMAIN q = 1..n, q = [j \in 1..n |-> q[j]],
         NEW h, \A j \in 1..n : h[j] \in 1..n,
         \A j \in 1..n : \E s \in Sources, t \in BOOLEAN : q[j] = Item(counter + h[j] - 1, s, t)
  PROVE  q \in Seq(Items) /\ Len(q) = n /\ counter + n \in 1..(MaxIds + 1)
<1>1. counter \in 1..(MaxIds + 1) /\ MaxIds \in Nat
  BY BoundsAreNat DEF Tables
<1>2. \A j \in 1..n : counter + h[j] - 1 \in 1..MaxIds
  BY <1>1
<1>3. \A j \in 1..n : q[j] \in Items
  BY <1>2, ItemTyped
<1>4. q \in Seq(Items) /\ Len(q) = n
  BY <1>3
<1> QED
  BY <1>1, <1>4

LEMMA ImportProjectKeeps ==
  ASSUME PInv, NEW n \in 1..2, NEW complete \in BOOLEAN, ImportProject(n, complete)
  PROVE  PInv'
<1> DEFINE q == [j \in 1..n |-> Item(counter + j - 1, Object, TRUE)]
           c == Command("project", <<>>, q, {})
           h == [j \in 1..n |-> j]
<1>1. /\ Ready /\ meshes' = Made(meshes, q) /\ resetList' = WithEntries(resetList, Elems(q))
      /\ current' = LastAt(meshes) + n /\ selected' = selected /\ counter' = counter + n
      /\ clipboard' = clipboard /\ loop' = loop /\ counter + n - 1 =< MaxIds /\ issued < MaxCommands
      /\ (Push(c) \/ UNCHANGED undo)
  BY DEF ImportProject
<1>2. n \in Nat /\ n >= 1
  OBVIOUS
<1>3. q \in Seq(Items) /\ Len(q) = n /\ counter + n \in 1..(MaxIds + 1)
  <2>1. DOMAIN q = 1..n /\ q = [j \in 1..n |-> q[j]]
    OBVIOUS
  <2>2. \A j \in 1..n : h[j] \in 1..n /\ h[j] = j
    OBVIOUS
  <2>3. \A j \in 1..n : \E s \in Sources, t \in BOOLEAN : q[j] = Item(counter + h[j] - 1, s, t)
    BY <2>2 DEF Sources
  <2>4. Tables
    BY DEF PInv
  <2> HIDE DEF q, h
  <2> QED
    BY <1>1, <1>2, <2>1, <2>2, <2>3, <2>4, NextItems
<1> HIDE DEF q
<1>4. List(meshes', current')
  BY <1>1, <1>3, ListMade DEF PInv
<1>5. EntriesTyped(resetList')
  BY <1>1, <1>3, ItemsOf, EntriesAdded DEF PInv
<1>6. c \in Commands
  BY <1>3, NoItems, CommandTyped
<1>7. View(meshes') \subseteq Items
  BY <1>4, ViewTyped DEF List
<1> HIDE DEF c
<1>8. Stacks'
  <2>1. CASE Push(c)
    BY <1>1, <1>6, <1>7, <2>1, Pushed DEF PInv
  <2>2. CASE UNCHANGED undo
    BY <2>2 DEF undo, PInv, Stacks
  <2> QED
    BY <1>1, <2>1, <2>2
<1>9. Tables'
  BY <1>1, <1>3 DEF PInv, Tables
<1>10. ToDo'
  BY <1>1, Quiet DEF Ready
<1> QED
  BY <1>4, <1>5, <1>8, <1>9, <1>10 DEF PInv

LEMMA PasteKeeps ==
  ASSUME PInv, NEW k \in 1..Len(clipboard), NEW p \in Orders(k), Paste(k, p)
  PROVE  PInv'
<1> DEFINE q == [j \in 1..k |-> Item(counter + j - 1, clipboard[j], FALSE)]
           r == [j \in 1..k |-> Item(counter + p[j] - 1, clipboard[j], FALSE)]
           h == [j \in 1..k |-> j]
           b == k < Len(clipboard)
           d == Command("paste", <<>>, r, {})
           c == [d EXCEPT !.cut = b]
<1>1. /\ Ready /\ Push(c) /\ meshes' = Made(meshes, q) /\ resetList' = resetList
      /\ current' = LastAt(meshes) + k /\ selected' = Ids(q) /\ counter' = counter + k
      /\ clipboard' = clipboard /\ loop' = loop /\ counter + k - 1 =< MaxIds /\ issued < MaxCommands
  BY DEF Paste
<1>2. clipboard \in Seq(Sources) /\ Tables
  BY DEF PInv, Tables
<1>3. k \in Nat /\ k >= 1 /\ \A j \in 1..k : clipboard[j] \in Sources
  <2>1. Len(clipboard) \in Nat
    BY <1>2, LenProperties
  <2>2. k \in Nat /\ k >= 1 /\ \A j \in 1..k : j \in 1..Len(clipboard)
    BY <2>1
  <2> QED
    BY <2>2, <1>2, ElementOfSeq
<1>4. q \in Seq(Items) /\ Len(q) = k /\ counter + k \in 1..(MaxIds + 1)
  <2>1. DOMAIN q = 1..k /\ q = [j \in 1..k |-> q[j]]
    OBVIOUS
  <2>2. \A j \in 1..k : h[j] \in 1..k /\ h[j] = j
    OBVIOUS
  <2>3. \A j \in 1..k : \E s \in Sources, t \in BOOLEAN : q[j] = Item(counter + h[j] - 1, s, t)
    BY <1>3, <2>2
  <2> HIDE DEF q, h
  <2> QED
    BY <1>1, <1>2, <1>3, <2>1, <2>2, <2>3, NextItems
<1>5. r \in Seq(Items)
  <2>1. DOMAIN r = 1..k /\ r = [j \in 1..k |-> r[j]]
    OBVIOUS
  <2>2. \A j \in 1..k : p[j] \in 1..k
    BY DEF Orders
  <2>3. \A j \in 1..k : \E s \in Sources, t \in BOOLEAN : r[j] = Item(counter + p[j] - 1, s, t)
    BY <1>3
  <2> HIDE DEF r
  <2> QED
    BY <1>1, <1>2, <1>3, <2>1, <2>2, <2>3, NextItems
<1> HIDE DEF q, r
<1>6. List(meshes', current')
  BY <1>1, <1>4, ListMade DEF PInv
<1>7. c \in Commands
  <2>1. d \in Commands
    BY <1>5, NoItems, CommandTyped
  <2>2. b \in BOOLEAN
    OBVIOUS
  <2> HIDE DEF d, b
  <2> QED
    BY <2>1, <2>2 DEF Commands
<1>8. View(meshes') \subseteq Items
  BY <1>6, ViewTyped DEF List
<1> HIDE DEF c
<1>9. Stacks'
  BY <1>1, <1>7, <1>8, Pushed DEF PInv
<1>10. Ids(q) \subseteq 1..MaxIds
  BY <1>4, ItemsOf
<1>11. Tables'
  BY <1>1, <1>2, <1>4, <1>10 DEF Tables
<1>12. ToDo'
  BY <1>1, Quiet DEF Ready
<1> QED
  BY <1>1, <1>6, <1>9, <1>11, <1>12 DEF PInv

LEMMA DeleteKeeps ==
  ASSUME PInv, Delete
  PROVE  PInv'
<1>1. PICK q \in Listings(Found(meshes, selected)) : Push(Command("delete", q, <<>>, {}))
  BY DEF Delete
<1> DEFINE c == Command("delete", q, <<>>, {})
<1>2. /\ Ready /\ Push(c) /\ meshes' = Without(meshes, selected) /\ resetList' = resetList
      /\ current' = Kept(meshes, selected, current) /\ selected' = {} /\ counter' = counter
      /\ clipboard' = clipboard /\ loop' = loop /\ issued < MaxCommands
  BY <1>1 DEF Delete
<1>3. List(meshes', current')
  BY <1>2, ListWithout DEF PInv
<1>4. q \in Seq(Items)
  BY Listed DEF PInv, List
<1>5. c \in Commands
  BY <1>4, NoItems, CommandTyped
<1>6. View(meshes') \subseteq Items
  BY <1>3, ViewTyped DEF List
<1> HIDE DEF c
<1>7. Stacks'
  BY <1>2, <1>5, <1>6, Pushed DEF PInv
<1>8. Tables'
  BY <1>2 DEF PInv, Tables
<1>9. ToDo'
  BY <1>2, Quiet DEF Ready
<1> QED
  BY <1>2, <1>3, <1>7, <1>8, <1>9 DEF PInv

(* A step that keeps the document, and pushes a command or none.           *)
LEMMA EditKeeps ==
  ASSUME PInv, Edit
  PROVE  PInv'
<1>1. CASE UNCHANGED <<document, undo, loop>>
  BY <1>1 DEF document, undo, PInv, List, Tables, Stacks, ToDo
<1>2. CASE UNCHANGED <<document, loop>> /\ Push(Command("edit", <<>>, <<>>, selected))
  <2> DEFINE c == Command("edit", <<>>, <<>>, selected)
  <2>1. /\ Ready /\ Push(c) /\ issued < MaxCommands
        /\ UNCHANGED <<meshes, counter, current, selected, clipboard, resetList, loop>>
    BY <1>2 DEF Edit, document
  <2>2. List(meshes', current') /\ Tables' /\ EntriesTyped(resetList')
    BY <2>1 DEF PInv, Tables
  <2>3. c \in Commands
    <3>1. selected \in SUBSET (1..MaxIds)
      BY DEF PInv, Tables
    <3> QED
      BY <3>1, NoItems, CommandTyped
  <2>4. View(meshes') \subseteq Items
    BY <2>2, ViewTyped DEF List
  <2> HIDE DEF c
  <2>5. Stacks'
    BY <2>1, <2>3, <2>4, Pushed DEF PInv
  <2>6. ToDo'
    BY <2>1, Quiet DEF Ready
  <2> QED
    BY <2>2, <2>5, <2>6 DEF PInv
<1> QED
  BY <1>1, <1>2 DEF Edit, Crashes

LEMMA SaveKeeps ==
  ASSUME PInv, Save
  PROVE  PInv'
<1>1. /\ Ready /\ stack' = <<>> /\ cursor' = 0 /\ views' = <<View(meshes)>> /\ issued' = issued
      /\ UNCHANGED <<meshes, counter, current, selected, clipboard, resetList, loop>>
  BY DEF Save, document
<1>2. List(meshes', current') /\ Tables' /\ EntriesTyped(resetList')
  BY <1>1 DEF PInv, Tables
<1> DEFINE w == View(meshes)
<1>3. w \in SUBSET Items
  BY ViewTyped DEF PInv, List
<1> HIDE DEF w
<1>4. <<w>> \in Seq(SUBSET Items) /\ Len(<<w>>) = 1
  BY <1>3
<1>5. stack' \in Seq(Commands) /\ Len(stack') = 0
  BY <1>1, EmptySeq
<1>6. issued' \in Nat /\ issued' =< MaxCommands
  BY <1>1 DEF PInv, Stacks
<1>7. Stacks'
  BY <1>1, <1>4, <1>5, <1>6 DEF Stacks, w
<1>8. ToDo'
  BY <1>1, Quiet DEF Ready
<1> QED
  BY <1>2, <1>7, <1>8 DEF PInv

(* The number of ids that a reset may need is bounded before it starts.    *)
LEMMA ResetKeeps ==
  ASSUME PInv, Reset
  PROVE  PInv'
<1>1. PICK q \in Listings(Found(meshes, selected)) : loop' = [op |-> "reset", old |-> q, todo |-> q]
  BY DEF Reset
<1>2. /\ meshes' = Without(meshes, selected) /\ resetList' = resetList
      /\ current' = Kept(meshes, selected, current) /\ selected' = {} /\ counter' = counter
      /\ clipboard' = clipboard /\ UNCHANGED undo /\ issued < MaxCommands
      /\ counter + Cardinality(selected) - 1 =< MaxIds
  BY DEF Reset
<1>3. List(meshes', current')
  BY <1>2, ListWithout DEF PInv
<1>4. Stacks' /\ Tables' /\ issued' = issued
  BY <1>2 DEF PInv, Tables, Stacks, undo
<1>5. selected \subseteq 1..MaxIds /\ counter \in 1..(MaxIds + 1) /\ MaxIds \in Nat
  BY BoundsAreNat DEF PInv, Tables
<1>6. IsFiniteSet(selected) /\ Cardinality(selected) \in Nat
  <2>1. IsFiniteSet(1..MaxIds)
    BY <1>5, FS_Interval
  <2> QED
    BY <2>1, <1>5, FS_Subset, FS_CardinalityType
<1>7. q \in Seq(Items) /\ Len(q) \in Nat /\ Len(q) <= Cardinality(selected)
  BY <1>6, Listed DEF PInv, List
<1>8. counter + Len(q) =< MaxIds + 1
  BY <1>2, <1>5, <1>6, <1>7
<1>9. loop'.op = "reset" /\ loop'.todo = q
  BY <1>1
<1>10. loop' \in [op : {"none", "reset", "redo"}, old : Seq(Items), todo : Seq(Items)]
  BY <1>1, <1>7
<1>11. ToDo'
  BY <1>2, <1>4, <1>8, <1>9, <1>10 DEF ToDo
<1> QED
  BY <1>2, <1>3, <1>4, <1>11 DEF PInv

(* One mesh less to bring back, for at most one id.                        *)
LEMMA ResetOn ==
  ASSUME ToDo, Resetting, ResetNext, issued' = issued,
         counter \in 1..(MaxIds + 1), counter' = counter \/ counter' = counter + 1
  PROVE  /\ ToDo' /\ Head(loop.todo) \in Items
         /\ counter + 1 \in 1..(MaxIds + 1) /\ counter \in 1..MaxIds
<1> DEFINE q == loop.todo
<1>1. q \in Seq(Items) /\ q # <<>> /\ loop.op = "reset" /\ loop.old \in Seq(Items)
  BY DEF ToDo, Resetting
<1>2. issued < MaxCommands /\ counter + Len(q) =< MaxIds + 1 /\ MaxIds \in Nat
  BY <1>1, BoundsAreNat DEF ToDo
<1>3. /\ loop'.op = "reset" /\ loop'.todo = Tail(q) /\ loop'.old = loop.old
      /\ loop' = [op |-> "reset", old |-> loop.old, todo |-> Tail(q)]
  BY DEF ResetNext
<1> HIDE DEF q
<1>4. Head(q) \in Items /\ Tail(q) \in Seq(Items) /\ Len(Tail(q)) = Len(q) - 1 /\ Len(q) \in Nat /\ Len(q) # 0
  BY <1>1, HeadTailProperties, LenProperties, EmptySeq
<1>5. counter' + Len(Tail(q)) =< MaxIds + 1 /\ counter + 1 \in 1..(MaxIds + 1) /\ counter \in 1..MaxIds
  BY <1>2, <1>4
<1>6. loop' \in [op : {"none", "reset", "redo"}, old : Seq(Items), todo : Seq(Items)]
  BY <1>1, <1>3, <1>4
<1>7. ToDo'
  BY <1>2, <1>3, <1>5, <1>6 DEF ToDo
<1> QED
  BY <1>4, <1>5, <1>7 DEF q

LEMMA ResetObjectKeeps ==
  ASSUME PInv, ResetObject
  PROVE  PInv'
<1> DEFINE i == Head(loop.todo).id
           x == Item(i, resetList[i].src, TRUE)
           q == <<x>>
<1>1. /\ Resetting /\ ResetNext /\ i \in DOMAIN resetList /\ meshes' = Made(meshes, q)
      /\ selected' = selected \cup {i} /\ current' = LastAt(meshes) + 1
      /\ UNCHANGED <<counter, clipboard, resetList, undo>>
  BY DEF ResetObject
<1>2. i \in 1..MaxIds /\ resetList[i].src \in Sources
  BY <1>1 DEF PInv, EntriesTyped
<1>3. x \in Items
  BY <1>2, ItemTyped
<1> HIDE DEF x
<1>4. q \in Seq(Items) /\ Len(q) = 1
  BY <1>3, OneItem
<1> HIDE DEF q
<1>5. List(meshes', current')
  BY <1>1, <1>4, ListMade DEF PInv
<1>6. Stacks' /\ issued' = issued /\ EntriesTyped(resetList')
  BY <1>1 DEF PInv, Stacks, undo
<1>7. Tables'
  BY <1>1, <1>2 DEF PInv, Tables
<1>8. ToDo'
  BY <1>1, <1>6, ResetOn DEF PInv, Tables
<1> QED
  BY <1>5, <1>6, <1>7, <1>8 DEF PInv

LEMMA ResetFileKeeps ==
  ASSUME PInv, NEW f \in Files, ResetFile(f)
  PROVE  PInv'
<1> DEFINE i == Head(loop.todo).id
           x == Item(counter, f, FALSE)
           q == <<x>>
<1>1. /\ Resetting /\ ResetNext /\ meshes' = Made(meshes, q)
      /\ selected' = selected \cup {counter} /\ current' = LastAt(meshes) + 1
      /\ resetList' = WithoutEntry(WithEntries(resetList, Elems(q)), i)
      /\ counter' = counter + 1 /\ UNCHANGED <<clipboard, undo>>
  BY DEF ResetFile
<1>2. Stacks' /\ issued' = issued
  BY <1>1 DEF PInv, Stacks, undo
<1>3. ToDo' /\ counter + 1 \in 1..(MaxIds + 1) /\ counter \in 1..MaxIds
  BY <1>1, <1>2, ResetOn DEF PInv, Tables
<1>4. x \in Items
  BY <1>3, ItemTyped DEF Sources
<1> HIDE DEF x
<1>5. q \in Seq(Items) /\ Len(q) = 1 /\ Elems(q) \subseteq Items
  BY <1>4, OneItem
<1> HIDE DEF q, i
<1>6. List(meshes', current')
  BY <1>1, <1>5, ListMade DEF PInv
<1>7. EntriesTyped(resetList')
  BY <1>1, <1>5, EntriesAdded, EntriesLess DEF PInv
<1>8. Tables'
  BY <1>1, <1>3 DEF PInv, Tables
<1> QED
  BY <1>2, <1>3, <1>6, <1>7, <1>8 DEF PInv

LEMMA ResetRefusedKeeps ==
  ASSUME PInv, ResetRefused
  PROVE  PInv'
<1> DEFINE i == Head(loop.todo).id
           c == IF resetList[i].src \in Files THEN FirstAt(meshes) ELSE current
<1>1. CASE UNCHANGED <<document, undo, loop>>
  BY <1>1 DEF document, undo, PInv, List, Tables, Stacks, ToDo
<1>2. CASE /\ selected' = selected \cup IdsOf({m \in meshes : m.at = c})
           /\ current' = c /\ resetList' = WithoutEntry(resetList, i)
           /\ ResetNext /\ UNCHANGED <<meshes, counter, clipboard, undo>>
  <2>1. Resetting
    BY DEF ResetRefused
  <2>2. List(meshes', current')
    BY <1>2, ListFirst DEF PInv
  <2>3. EntriesTyped(resetList')
    BY <1>2, EntriesLess DEF PInv
  <2>4. Stacks' /\ issued' = issued
    BY <1>2 DEF PInv, Stacks, undo
  <2>5. ToDo'
    BY <1>2, <2>1, <2>4, ResetOn DEF PInv, Tables
  <2>6. \A m \in meshes : m.id \in 1..MaxIds
    BY DEF PInv, List, Mesh
  <2>7. selected' \subseteq 1..MaxIds
    BY <1>2, <2>6 DEF PInv, Tables, IdsOf
  <2>8. Tables'
    BY <1>2, <2>7 DEF PInv, Tables
  <2> QED
    BY <2>2, <2>3, <2>4, <2>5, <2>8 DEF PInv
<1> QED
  BY <1>1, <1>2 DEF ResetRefused, Crashes

LEMMA ResetDoneKeeps ==
  ASSUME PInv, ResetDone
  PROVE  PInv'
<1>1. PICK q \in Listings(Found(meshes, selected)) : Push(Command("reset", loop.old, q, {}))
  BY DEF ResetDone
<1> DEFINE c == Command("reset", loop.old, q, {})
<1>2. /\ loop.op = "reset" /\ Push(c) /\ loop' = Idle
      /\ UNCHANGED <<meshes, counter, current, selected, clipboard, resetList>>
  BY <1>1 DEF ResetDone, document
<1>3. List(meshes', current') /\ Tables' /\ EntriesTyped(resetList')
  BY <1>2 DEF PInv, Tables
<1>4. q \in Seq(Items)
  BY Listed DEF PInv, List
<1>5. loop.old \in Seq(Items) /\ issued < MaxCommands
  BY <1>2 DEF PInv, ToDo
<1>6. c \in Commands
  BY <1>4, <1>5, CommandTyped
<1>7. View(meshes') \subseteq Items
  BY <1>3, ViewTyped DEF List
<1> HIDE DEF c
<1>8. Stacks'
  BY <1>2, <1>5, <1>6, <1>7, Pushed DEF PInv
<1>9. ToDo'
  BY <1>2, Quiet
<1> QED
  BY <1>3, <1>8, <1>9 DEF PInv
-----------------------------------------------------------------------------
(* Undo and redo move along the stack.                                     *)
LEMMA Moved ==
  ASSUME Stacks, UNCHANGED <<stack, views, issued>>, cursor' \in 0..Len(stack)
  PROVE  Stacks'
BY DEF Stacks

LEMMA AtCursor ==
  ASSUME Stacks
  PROVE  /\ cursor > 0 => stack[cursor] \in Commands /\ cursor - 1 \in 0..Len(stack)
         /\ cursor < Len(stack) => Again \in Commands /\ cursor + 1 \in 0..Len(stack)
<1>1. stack \in Seq(Commands) /\ Len(stack) \in Nat /\ cursor \in 0..Len(stack)
  BY LenProperties DEF Stacks
<1>2. cursor > 0 => cursor \in 1..Len(stack) /\ cursor - 1 \in 0..Len(stack)
  BY <1>1
<1>3. cursor < Len(stack) => cursor + 1 \in 1..Len(stack) /\ cursor + 1 \in 0..Len(stack)
  BY <1>1
<1> QED
  BY <1>1, <1>2, <1>3, ElementOfSeq DEF Again

LEMMA UndoKeeps ==
  ASSUME PInv, Undo
  PROVE  PInv'
<1> DEFINE c == stack[cursor]
           rest == Without(meshes, Ids(c.new))
<1>1. Ready /\ cursor > 0 /\ cursor' = cursor - 1 /\ UNCHANGED <<stack, views, issued>>
  BY DEF Undo
<1>2. c \in Commands /\ Stacks'
  BY <1>1, AtCursor, Moved DEF PInv
<1>3. CASE Edited(c, FALSE)
  <2>1. /\ UNCHANGED <<meshes, counter, current, clipboard, resetList, loop>>
        /\ selected' = selected \/ selected' = selected \cup c.on
    BY <1>3 DEF Edited, document
  <2>2. c.on \subseteq 1..MaxIds
    BY <1>2 DEF Commands
  <2>3. List(meshes', current') /\ EntriesTyped(resetList')
    BY <2>1 DEF PInv
  <2>4. Tables'
    BY <2>1, <2>2 DEF PInv, Tables
  <2>5. ToDo'
    BY <1>1, <2>1, Quiet DEF Ready
  <2> QED
    BY <1>2, <2>3, <2>4, <2>5 DEF PInv
<1>4. CASE Undone(c)
  <2>1. /\ meshes' = Made(rest, c.old) /\ resetList' = WithEntries(resetList, NotTmf(c.old))
        /\ UNCHANGED <<counter, clipboard, loop>>
        /\ \/ /\ c.old = <<>> /\ selected' = selected \ Ids(c.new)
              /\ current' = Kept(meshes, Ids(c.new), current)
           \/ selected' = Ids(c.old) /\ current' = LastAt(rest) + Len(c.old)
    BY <1>4 DEF Undone
  <2>2. List(rest, Kept(meshes, Ids(c.new), current))
    BY ListWithout DEF PInv
  <2> HIDE DEF rest
  <2>3. c.old \in Seq(Items)
    BY <1>2 DEF Commands
  <2>4. List(Made(rest, c.old), Kept(meshes, Ids(c.new), current))
    BY <2>2, <2>3, ListMade
  <2>5. List(Made(rest, c.old), LastAt(rest) + Len(c.old))
    BY <2>2, <2>3, ListMade
  <2>6. List(meshes', current')
    BY <2>1, <2>4, <2>5
  <2>7. EntriesTyped(resetList')
    BY <2>1, <2>3, ItemsOf, EntriesAdded DEF PInv
  <2>8. Ids(c.old) \subseteq 1..MaxIds
    BY <2>3, ItemsOf
  <2>9. Tables'
    BY <2>1, <2>8 DEF PInv, Tables
  <2>10. ToDo'
    BY <1>1, <2>1, Quiet DEF Ready
  <2> QED
    BY <1>2, <2>6, <2>7, <2>9, <2>10 DEF PInv
<1> QED
  BY <1>3, <1>4 DEF Undo

LEMMA Repeated ==
  ASSUME NEW q \in Seq(Items), RepeatFor(q)
  PROVE  ToDo'
<1>1. CASE q = <<>>
  BY <1>1, Quiet DEF RepeatFor
<1>2. CASE q # <<>>
  <2>1. loop' = [op |-> "redo", old |-> <<>>, todo |-> q]
    BY <1>2 DEF RepeatFor
  <2>2. loop' \in [op : {"none", "reset", "redo"}, old : Seq(Items), todo : Seq(Items)]
    BY <2>1, NoItems
  <2>3. loop'.op = "redo" /\ loop'.todo # <<>>
    BY <1>2, <2>1
  <2> QED
    BY <2>2, <2>3 DEF ToDo
<1> QED
  BY <1>1, <1>2

LEMMA RedoKeeps ==
  ASSUME PInv, RedoEdit \/ RedoImport \/ RedoReset \/ RedoProject \/ RedoPaste \/ RedoDelete
  PROVE  PInv'
<1>1. Ready /\ cursor < Len(stack) /\ cursor' = cursor + 1 /\ UNCHANGED <<stack, views, issued>>
  BY DEF RedoEdit, RedoImport, RedoReset, RedoProject, RedoPaste, RedoDelete, Redoing
<1>2. Again \in Commands /\ Stacks'
  BY <1>1, AtCursor, Moved DEF PInv
<1>3. Again.new \in Seq(Items) /\ Again.old \in Seq(Items) /\ Again.on \subseteq 1..MaxIds
  BY <1>2 DEF Commands
<1>4. loop' = loop => ToDo'
  BY <1>1, Quiet DEF Ready
<1>5. CASE UNCHANGED <<document, loop>>
  <2>1. List(meshes', current') /\ EntriesTyped(resetList') /\ Tables'
    BY <1>5 DEF PInv, Tables, document
  <2> QED
    BY <1>2, <1>4, <1>5, <2>1 DEF PInv
<1>6. CASE RedoEdit
  <2>1. /\ UNCHANGED <<meshes, counter, current, clipboard, resetList, loop, selected>>
    BY <1>6 DEF RedoEdit, Edited, document
  <2> QED
    BY <2>1, <1>5 DEF document
<1>7. CASE RedoImport
  <2>1. RepeatFor(Again.new) /\ UNCHANGED document
    BY <1>7 DEF RedoImport
  <2>2. List(meshes', current') /\ EntriesTyped(resetList') /\ Tables'
    BY <2>1 DEF PInv, Tables, document
  <2> QED
    BY <1>2, <1>3, <2>1, <2>2, Repeated DEF PInv
<1>8. CASE RedoReset
  <2>1. /\ meshes' = Without(meshes, Ids(Again.old)) /\ current' = Kept(meshes, Ids(Again.old), current)
        /\ selected' = {} /\ RepeatFor(Again.new) /\ UNCHANGED <<counter, clipboard, resetList>>
    BY <1>8 DEF RedoReset
  <2>2. List(meshes', current')
    BY <2>1, ListWithout DEF PInv
  <2>3. Tables' /\ EntriesTyped(resetList')
    BY <2>1 DEF PInv, Tables
  <2> QED
    BY <1>2, <1>3, <2>1, <2>2, <2>3, Repeated DEF PInv
<1>9. CASE RedoProject
  <2> DEFINE q == [j \in DOMAIN Again.new |-> Item(Again.new[j].id, resetList[Again.new[j].id].src, TRUE)]
  <2>1. \/ UNCHANGED <<document, loop>>
        \/ /\ Ids(Again.new) \subseteq DOMAIN resetList /\ meshes' = Made(meshes, q)
           /\ UNCHANGED <<counter, current, selected, clipboard, resetList, loop>>
    BY <1>9 DEF RedoProject
  <2>2. ASSUME Ids(Again.new) \subseteq DOMAIN resetList, meshes' = Made(meshes, q),
               UNCHANGED <<counter, current, selected, clipboard, resetList, loop>>
        PROVE  PInv'
    <3>1. DOMAIN Again.new = 1..Len(Again.new) /\ Len(Again.new) \in Nat
      BY <1>3, LenProperties
    <3>2. ASSUME NEW j \in 1..Len(Again.new)
          PROVE  q[j] \in Items
      <4>1. Again.new[j].id \in DOMAIN resetList
        BY <2>2, <3>1 DEF Ids, IdsOf, Elems
      <4>2. Again.new[j].id \in 1..MaxIds /\ resetList[Again.new[j].id].src \in Sources
        BY <4>1 DEF PInv, EntriesTyped
      <4> QED
        BY <3>1, <4>2, ItemTyped
    <3>3. q = [j \in 1..Len(Again.new) |-> q[j]]
      BY <3>1
    <3> HIDE DEF q
    <3>4. q \in Seq(Items)
      BY <3>1, <3>2, <3>3
    <3>5. List(meshes', current')
      BY <2>2, <3>4, ListMade DEF PInv
    <3>6. Tables' /\ EntriesTyped(resetList')
      BY <2>2 DEF PInv, Tables
    <3> QED
      BY <1>2, <1>4, <2>2, <3>5, <3>6 DEF PInv
  <2> HIDE DEF q
  <2> QED
    BY <1>5, <2>1, <2>2
<1>10. CASE RedoPaste
  <2>1. \/ UNCHANGED <<document, loop>>
        \/ /\ meshes' = Made(meshes, Again.new) /\ selected' = Ids(Again.new)
           /\ current' = LastAt(meshes) + Len(Again.new) /\ UNCHANGED <<counter, clipboard, resetList, loop>>
    BY <1>10 DEF RedoPaste
  <2>2. ASSUME meshes' = Made(meshes, Again.new), selected' = Ids(Again.new),
               current' = LastAt(meshes) + Len(Again.new), UNCHANGED <<counter, clipboard, resetList, loop>>
        PROVE  PInv'
    <3>1. List(meshes', current')
      BY <1>3, <2>2, ListMade DEF PInv
    <3>2. Ids(Again.new) \subseteq 1..MaxIds
      BY <1>3, ItemsOf
    <3>3. Tables' /\ EntriesTyped(resetList')
      BY <2>2, <3>2 DEF PInv, Tables
    <3> QED
      BY <1>2, <1>4, <2>2, <3>1, <3>3 DEF PInv
  <2> QED
    BY <1>5, <2>1, <2>2
<1>11. CASE RedoDelete
  <2>1. /\ meshes' = Without(meshes, Ids(Again.old)) /\ current' = Kept(meshes, Ids(Again.old), current)
        /\ selected' = selected \ Ids(Again.old) /\ UNCHANGED <<counter, clipboard, resetList, loop>>
    BY <1>11 DEF RedoDelete
  <2>2. List(meshes', current')
    BY <2>1, ListWithout DEF PInv
  <2>3. Tables' /\ EntriesTyped(resetList')
    BY <2>1 DEF PInv, Tables
  <2> QED
    BY <1>2, <1>4, <2>1, <2>2, <2>3 DEF PInv
<1> QED
  BY <1>6, <1>7, <1>8, <1>9, <1>10, <1>11

(* What a redo has still to read again.                                    *)
LEMMA RedoOn ==
  ASSUME ToDo, Reimporting
  PROVE  Head(loop.todo) \in Items /\ Tail(loop.todo) \in Seq(Items)
<1>1. loop.todo \in Seq(Items) /\ loop.todo # <<>>
  BY DEF ToDo, Reimporting
<1> QED
  BY <1>1, HeadTailProperties

LEMMA ReimportKeeps ==
  ASSUME PInv, ReimportObject \/ ReimportRefused \/ \E f \in Files : ReimportFile(f)
  PROVE  PInv'
<1> DEFINE x == Head(loop.todo)
<1>1. Reimporting
  BY DEF ReimportObject, ReimportRefused, ReimportFile
<1>2. x \in Items /\ x.id \in 1..MaxIds /\ Tail(loop.todo) \in Seq(Items)
  BY <1>1, RedoOn DEF PInv, Items
<1>3. CASE UNCHANGED <<document, undo, loop>>
  BY <1>3 DEF document, undo, PInv, List, Tables, Stacks, ToDo
<1>4. ASSUME List(meshes', current'), selected' \subseteq selected \cup {x.id},
             RepeatFor(Tail(loop.todo)), UNCHANGED <<counter, clipboard, resetList, undo>>
      PROVE  PInv'
  <2>1. Stacks' /\ EntriesTyped(resetList')
    BY <1>4 DEF PInv, Stacks, undo
  <2>2. Tables'
    BY <1>2, <1>4 DEF PInv, Tables
  <2>3. ToDo'
    BY <1>2, <1>4, Repeated
  <2> QED
    BY <1>4, <2>1, <2>2, <2>3 DEF PInv
<1>5. CASE ReimportObject
  <2> DEFINE y == Item(x.id, resetList[x.id].src, TRUE)
             q == <<y>>
  <2>1. \/ UNCHANGED <<document, undo, loop>> /\ x.id \notin DOMAIN resetList
        \/ /\ x.id \in DOMAIN resetList /\ meshes' = Made(meshes, q) /\ current' = current
           /\ selected' = selected \cup {x.id} /\ RepeatFor(Tail(loop.todo))
           /\ UNCHANGED <<counter, clipboard, resetList, undo>>
    BY <1>5 DEF ReimportObject, Crashes
  <2>2. ASSUME x.id \in DOMAIN resetList, meshes' = Made(meshes, q), current' = current
        PROVE  List(meshes', current')
    <3>1. resetList[x.id].src \in Sources
      BY <2>2 DEF PInv, EntriesTyped
    <3>2. y \in Items
      BY <1>2, <3>1, ItemTyped
    <3> HIDE DEF y
    <3>3. q \in Seq(Items)
      BY <3>2, OneItem
    <3> HIDE DEF q
    <3> QED
      BY <2>2, <3>3, ListMade DEF PInv
  <2> HIDE DEF x, q
  <2> QED
    BY <1>3, <1>4, <2>1, <2>2
<1>6. ASSUME NEW f \in Files, ReimportFile(f)
      PROVE  PInv'
  <2> DEFINE y == Item(x.id, f, FALSE)
             q == <<y>>
  <2>1. /\ meshes' = Made(meshes, q) /\ current' = LastAt(meshes) + 1
        /\ selected' = {x.id} /\ RepeatFor(Tail(loop.todo))
        /\ UNCHANGED <<counter, clipboard, resetList, undo>>
    BY <1>6 DEF ReimportFile
  <2>2. y \in Items
    BY <1>2, ItemTyped DEF Sources
  <2> HIDE DEF y
  <2>3. q \in Seq(Items) /\ Len(q) = 1
    BY <2>2, OneItem
  <2> HIDE DEF q, x
  <2>4. List(meshes', current')
    BY <2>1, <2>3, ListMade DEF PInv
  <2> QED
    BY <1>4, <2>1, <2>4
<1>7. CASE ReimportRefused
  <2> DEFINE New(last) == [at |-> last.at, id |-> x.id, src |-> last.src, tmf |-> last.tmf]
             c == IF x.src \in Files THEN FirstAt(meshes) ELSE current
  <2>1. CASE UNCHANGED <<document, undo, loop>>
    BY <1>3, <2>1
  <2>2. ASSUME ~ UNCHANGED <<document, undo, loop>>
        PROVE  /\ \E last \in meshes : meshes' = (meshes \ {last}) \cup {New(last)}
               /\ current' = IF x.src \in Files THEN FirstAt(meshes') ELSE current
               /\ selected' = {x.id} /\ RepeatFor(Tail(loop.todo))
               /\ UNCHANGED <<counter, clipboard, resetList, undo>>
    <3>1. /\ meshes # {} /\ \E last \in meshes : meshes' = (meshes \ {last}) \cup {New(last)}
          /\ current' = c /\ selected' = {x.id} /\ RepeatFor(Tail(loop.todo))
          /\ UNCHANGED <<counter, clipboard, resetList, undo>>
      BY <1>7, <2>2 DEF ReimportRefused, Crashes
    <3>2. FirstAt(meshes) = FirstAt(meshes')
      <4>1. meshes' # {}
        BY <3>1
      <4> QED
        BY <3>1, <4>1 DEF FirstAt
    <3> QED
      BY <3>1, <3>2
  <2>3. CASE ~ UNCHANGED <<document, undo, loop>>
    <3>1. PICK last \in meshes : meshes' = (meshes \ {last}) \cup {New(last)}
      BY <2>2, <2>3
    <3> DEFINE n == New(last)
    <3>2. List((meshes \ {last}) \cup {n}, current)
      BY <1>2, ListRenamed DEF PInv
    <3>3. List(meshes', FirstAt(meshes')) /\ List(meshes', current)
      <4> HIDE DEF n
      <4> DEFINE S == (meshes \ {last}) \cup {n}
      <4>1. meshes' = S
        BY <3>1 DEF n
      <4> HIDE DEF S
      <4>2. List(S, FirstAt(S)) /\ List(S, current)
        BY <3>2, ListFirst DEF S
      <4> QED
        BY <4>1, <4>2
    <3>4. List(meshes', current')
      BY <2>2, <2>3, <3>3
    <3> HIDE DEF x
    <3> QED
      BY <1>4, <2>2, <2>3, <3>4
  <2> QED
    BY <2>1, <2>3
<1> QED
  BY <1>5, <1>6, <1>7

(* Steps that only look at the list.                                       *)
LEMMA LookingKeeps ==
  ASSUME PInv,
         \/ ImportRefused \/ SelectAll \/ SelectNone \/ Copy
         \/ \E m \in meshes : Select(m) \/ Toggle(m)
         \/ ResetCopy \/ UNCHANGED vars
  PROVE  PInv'
<1>1. CASE ResetCopy \/ UNCHANGED vars
  <2>1. UNCHANGED <<document, undo, loop>>
    BY <1>1 DEF ResetCopy, Crashes, vars
  <2> QED
    BY <2>1 DEF document, undo, PInv, List, Tables, Stacks, ToDo
<1>2. CASE ~ (ResetCopy \/ UNCHANGED vars)
  <2>1. Ready /\ UNCHANGED <<meshes, counter, resetList, stack, cursor, views, issued, loop>>
    BY <1>2 DEF ImportRefused, SelectAll, SelectNone, Copy, Select, Toggle, undo
  <2>2. Stacks' /\ EntriesTyped(resetList')
    BY <2>1 DEF PInv, Stacks
  <2>3. ToDo'
    BY <2>1, Quiet DEF Ready
  <2>4. \A m \in meshes : m.id \in 1..MaxIds
    BY DEF PInv, List, Mesh
  <2>5. List(meshes', current')
    <3>1. \/ current' = current \/ current' = FirstAt(meshes)
          \/ \E m \in meshes : current' = PlaceOf(m.id)
      BY <1>2 DEF ImportRefused, SelectAll, SelectNone, Copy, Select, Toggle
    <3>2. List(meshes, current')
      BY <3>1, ListFirst, ListPlaced DEF PInv
    <3> QED
      BY <2>1, <3>2
  <2>6. selected' \subseteq 1..MaxIds
    BY <1>2, <2>4 DEF PInv, Tables, ImportRefused, SelectAll, SelectNone, Copy, Select, Toggle, IdsOf
  <2>7. clipboard' \in Seq(Sources)
    <3>1. CASE Copy
      <4>1. PICK q \in Listings(Found(meshes, selected)) : clipboard' = [j \in DOMAIN q |-> q[j].src]
        BY <3>1 DEF Copy
      <4>2. q \in Seq(Items)
        BY Listed DEF PInv, List
      <4>3. DOMAIN q = 1..Len(q) /\ Len(q) \in Nat
        BY <4>2, LenProperties
      <4>4. \A j \in 1..Len(q) : q[j].src \in Sources
        <5>1. \A j \in 1..Len(q) : q[j] \in Items
          BY <4>2, ElementOfSeq
        <5> QED
          BY <5>1 DEF Items, Sources
      <4> QED
        BY <4>1, <4>3, <4>4
    <3>2. CASE ~ Copy
      <4>1. clipboard' = clipboard
        BY <1>2, <3>2 DEF ImportRefused, SelectAll, SelectNone, Select, Toggle
      <4> QED
        BY <4>1 DEF PInv, Tables
    <3> QED
      BY <3>1, <3>2
  <2>8. Tables'
    BY <2>1, <2>6, <2>7 DEF PInv, Tables
  <2> QED
    BY <2>2, <2>3, <2>5, <2>8 DEF PInv
<1> QED
  BY <1>1, <1>2
-----------------------------------------------------------------------------
LEMMA PInvInit ==
  ASSUME Init
  PROVE  PInv
<1>1. /\ meshes = {} /\ counter = 1 /\ current = 0 /\ selected = {} /\ clipboard = <<>>
      /\ resetList = [i \in {} |-> 0] /\ stack = <<>> /\ cursor = 0 /\ loop = Idle
      /\ views = <<{}>> /\ issued = 0
  BY DEF Init
<1>2. List(meshes, current)
  <2>1. IsFiniteSet({}) /\ Cardinality({}) = 0
    BY FS_EmptySet
  <2> QED
    BY <1>1, <2>1 DEF List, Places
<1>3. Tables
  BY <1>1, BoundsAreNat, EmptySeq DEF Tables
<1>4. EntriesTyped(resetList)
  BY <1>1 DEF EntriesTyped
<1> DEFINE w == {}
<1>5. views = <<w>> /\ w \in SUBSET Items
  BY <1>1
<1> HIDE DEF w
<1>6. views \in Seq(SUBSET Items) /\ Len(views) = 1
  BY <1>5
<1>7. stack \in Seq(Commands) /\ Len(stack) = 0
  BY <1>1, EmptySeq
<1>8. Stacks
  BY <1>1, <1>6, <1>7, BoundsAreNat DEF Stacks
<1>9. Idle \in [op : {"none", "reset", "redo"}, old : Seq(Items), todo : Seq(Items)] /\ Idle.op = "none"
  BY NoItems DEF Idle
<1>10. ToDo
  BY <1>1, <1>9 DEF ToDo
<1> QED
  BY <1>2, <1>3, <1>4, <1>8, <1>10 DEF PInv

LEMMA PlacesInvariant == Spec => []PInv
<1>1. ASSUME PInv, [Next]_vars
      PROVE  PInv'
  <2>1. CASE \E f \in Files : Import(f) \/ ResetFile(f)
    BY <1>1, <2>1, ImportKeeps, ResetFileKeeps
  <2>2. CASE \E n \in 1..2, complete \in BOOLEAN : ImportProject(n, complete)
    BY <1>1, <2>2, ImportProjectKeeps
  <2>3. CASE \E k \in 1..Len(clipboard) : \E p \in Orders(k) : Paste(k, p)
    BY <1>1, <2>3, PasteKeeps
  <2>4. CASE Delete \/ Edit \/ Save \/ Undo
    BY <1>1, <2>4, DeleteKeeps, EditKeeps, SaveKeeps, UndoKeeps
  <2>5. CASE Reset \/ ResetObject \/ ResetRefused \/ ResetDone
    BY <1>1, <2>5, ResetKeeps, ResetObjectKeeps, ResetRefusedKeeps, ResetDoneKeeps
  <2>6. CASE RedoEdit \/ RedoImport \/ RedoReset \/ RedoProject \/ RedoPaste \/ RedoDelete
    BY <1>1, <2>6, RedoKeeps
  <2>7. CASE ReimportObject \/ ReimportRefused \/ \E f \in Files : ReimportFile(f)
    BY <1>1, <2>7, ReimportKeeps
  <2>8. CASE \/ ImportRefused \/ SelectAll \/ SelectNone \/ Copy
             \/ \E m \in meshes : Select(m) \/ Toggle(m)
             \/ ResetCopy \/ UNCHANGED vars
    BY <1>1, <2>8, LookingKeeps
  <2> QED
    BY <1>1, <2>1, <2>2, <2>3, <2>4, <2>5, <2>6, <2>7, <2>8 DEF Next, User, Loop
<1> QED
  BY <1>1, PInvInit, PTL DEF Spec

(* Every table of the document and of the stack keeps its type and its     *)
(* bounds, whatever was refused on the way; the places of the meshes are   *)
(* 1 to their number.                                                      *)
THEOREM TypeCorrect == Spec => []TypeOK
<1>1. ASSUME PInv
      PROVE  TypeOK
  <2>1. meshes \subseteq Mesh /\ {m.at : m \in meshes} = 1..Cardinality(meshes) /\ current \in Nat
    <3>1. Places(meshes) /\ meshes \subseteq Mesh /\ current \in 0..Cardinality(meshes)
      BY <1>1 DEF PInv, List
    <3>2. {m.at : m \in meshes} = 1..Cardinality(meshes)
      BY <3>1, PlacesTaken
    <3>3. Cardinality(meshes) \in Nat
      BY <3>1, PlacesTaken
    <3> QED
      BY <3>1, <3>2, <3>3
  <2>2. Tables /\ EntriesTyped(resetList) /\ Stacks
    BY <1>1 DEF PInv
  <2>3. loop.op \in {"none", "reset", "redo"} /\ loop.todo \in Seq(Items)
    BY <1>1 DEF PInv, ToDo
  <2> QED
    BY <2>1, <2>2, <2>3 DEF TypeOK, Mesh, Sources, Tables, EntriesTyped, Stacks
<1> QED
  BY <1>1, PlacesInvariant, PTL

(* The current mesh is a mesh of the list, or none, in every state:        *)
(* nothing that deletes, undoes, redoes or reads again leaves a pointer to *)
(* a freed mesh behind.                                                    *)
THEOREM CurrentListedCorrect == Spec => []CurrentListed
<1>1. ASSUME PInv
      PROVE  CurrentListed
  <2>1. Places(meshes) /\ current \in 0..Cardinality(meshes)
    BY <1>1 DEF PInv, List
  <2>2. Cardinality(meshes) \in Nat /\ \A k \in 1..Cardinality(meshes) : \E m \in meshes : m.at = k
    BY <2>1, PlacesTaken
  <2> QED
    BY <2>1, <2>2 DEF CurrentListed
<1> QED
  BY <1>1, PlacesInvariant, PTL
=============================================================================
