------------------------ MODULE UndoDocument_proofs ------------------------
(***************************************************************************)
(* Proofs about the mesh document, for any files, any number of meshes and *)
(* any number of commands: the selection never names a mesh that is gone,  *)
(* and without a fault undo and redo bring back the list that was there.   *)
(***************************************************************************)
EXTENDS UndoDocument, SequenceTheorems, TLAPS

-----------------------------------------------------------------------------
(* What the operations on the list do to the ids in it.                    *)
LEMMA MadeIds ==
  ASSUME NEW S, NEW q
  PROVE  IdsOf(Made(S, q)) = IdsOf(S) \cup Ids(q)
<1>1. IdsOf(Made(S, q)) \subseteq IdsOf(S) \cup Ids(q)
  BY DEF IdsOf, Made, Ids, Elems
<1>2. IdsOf(S) \subseteq IdsOf(Made(S, q))
  BY DEF IdsOf, Made
<1>3. ASSUME NEW j \in DOMAIN q
      PROVE  q[j].id \in IdsOf(Made(S, q))
  <2> DEFINE m == [at |-> LastAt(S) + j, id |-> q[j].id, src |-> q[j].src, tmf |-> q[j].tmf]
  <2>1. m \in Made(S, q) /\ m.id = q[j].id
    BY DEF Made
  <2> QED
    BY <2>1 DEF IdsOf
<1> QED
  BY <1>1, <1>2, <1>3 DEF Ids, IdsOf, Elems

LEMMA WithoutIds ==
  ASSUME NEW S, NEW I
  PROVE  /\ IdsOf(S) \ I \subseteq IdsOf(Without(S, I))
         /\ IdsOf(Without(S, I)) \subseteq IdsOf(S)
<1>1. ASSUME NEW m \in S, m.id \notin I
      PROVE  m.id \in IdsOf(Without(S, I))
  <2> DEFINE n == [at |-> m.at - Cardinality(Before(S, I, m.at)),
                   id |-> m.id, src |-> m.src, tmf |-> m.tmf]
  <2>1. m \notin Found(S, I)
    BY <1>1 DEF Found
  <2>2. n \in Without(S, I) /\ n.id = m.id
    BY <2>1 DEF Without
  <2> QED
    BY <2>2 DEF IdsOf
<1>2. IdsOf(Without(S, I)) \subseteq IdsOf(S)
  BY DEF IdsOf, Without
<1> QED
  BY <1>1, <1>2 DEF IdsOf

LEMMA OneId ==
  ASSUME NEW x
  PROVE  Ids(<<x>>) = {x.id} /\ Elems(<<x>>) = {x}
<1>1. Elems(<<x>>) = {x}
  BY DEF Elems
<1> QED
  BY <1>1 DEF Ids, IdsOf
-----------------------------------------------------------------------------
(* No step leaves an id in the selection that no mesh has, whether or not  *)
(* a file was refused on the way.                                          *)
LEMMA SelectionKept ==
  ASSUME SelectionLive, [Next]_vars
  PROVE  SelectionLive'
<1> USE MadeIds, WithoutIds
<1>1. CASE UNCHANGED document
  BY <1>1 DEF SelectionLive, document
<1>2. ASSUME NEW f \in Files, Import(f)
      PROVE  SelectionLive'
  BY <1>2, OneId DEF Import, SelectionLive, Item
<1>3. ASSUME NEW n \in 1..2, NEW complete \in BOOLEAN, ImportProject(n, complete)
      PROVE  SelectionLive'
  <2> DEFINE new == [j \in 1..n |-> Item(counter + j - 1, Object, TRUE)]
  <2>1. meshes' = Made(meshes, new) /\ selected' = selected
    BY <1>3 DEF ImportProject
  <2> HIDE DEF new
  <2> QED
    BY <2>1 DEF SelectionLive
<1>4. ASSUME NEW m \in meshes, Select(m) \/ Toggle(m)
      PROVE  SelectionLive'
  BY <1>4 DEF Select, Toggle, SelectionLive, IdsOf
<1>5. CASE SelectAll \/ SelectNone \/ Copy \/ ImportRefused \/ Save
  BY <1>5 DEF SelectAll, SelectNone, Copy, ImportRefused, Save, SelectionLive, document
<1>6. ASSUME NEW k \in 1..Len(clipboard), NEW p \in Orders(k), Paste(k, p)
      PROVE  SelectionLive'
  <2> DEFINE copies == [j \in 1..k |-> Item(counter + j - 1, clipboard[j], FALSE)]
  <2>1. meshes' = Made(meshes, copies) /\ selected' = Ids(copies)
    BY <1>6 DEF Paste
  <2> HIDE DEF copies
  <2> QED
    BY <2>1 DEF SelectionLive
<1>7. CASE Delete \/ Reset
  BY <1>7 DEF Delete, Reset, SelectionLive
<1>8. CASE Edit
  BY <1>8, <1>1 DEF Edit, Crashes
<1>9. CASE Undo
  <2> DEFINE c == stack[cursor]
  <2>1. CASE Edited(c, FALSE)
    BY <2>1 DEF Edited, SelectionLive, document
  <2>2. CASE Undone(c)
    BY <2>2 DEF Undone, SelectionLive
  <2> QED
    BY <1>9, <2>1, <2>2 DEF Undo
<1>10. CASE RedoEdit
  BY <1>10 DEF RedoEdit, Edited, SelectionLive, document
<1>11. CASE RedoImport \/ RedoReset \/ RedoProject \/ RedoPaste \/ RedoDelete
  <2>1. CASE RedoImport \/ RedoReset \/ RedoDelete
    BY <2>1 DEF RedoImport, RedoReset, RedoDelete, SelectionLive, document
  <2>2. CASE RedoProject
    <3> DEFINE q == [j \in DOMAIN Again.new |-> Item(Again.new[j].id, resetList[Again.new[j].id].src, TRUE)]
    <3>1. selected' = selected /\ (meshes' = meshes \/ meshes' = Made(meshes, q))
      BY <2>2 DEF RedoProject, document
    <3> HIDE DEF q
    <3> QED
      BY <3>1 DEF SelectionLive
  <2>3. CASE RedoPaste
    <3>1. UNCHANGED document \/ (meshes' = Made(meshes, Again.new) /\ selected' = Ids(Again.new))
      BY <2>3 DEF RedoPaste
    <3> QED
      BY <3>1, <1>1 DEF SelectionLive
  <2> QED
    BY <1>11, <2>1, <2>2, <2>3
<1>12. CASE ResetCopy \/ ResetObject \/ ResetRefused
  <2>1. CASE ResetCopy
    BY <2>1, <1>1 DEF ResetCopy, Crashes
  <2>2. CASE ResetObject
    <3> DEFINE x == Item(Head(loop.todo).id, resetList[Head(loop.todo).id].src, TRUE)
    <3>1. meshes' = Made(meshes, <<x>>) /\ selected' = selected \cup {x.id}
      BY <2>2 DEF ResetObject, Item
    <3> HIDE DEF x
    <3> QED
      BY <3>1, OneId DEF SelectionLive
  <2>3. CASE ResetRefused
    <3>1. UNCHANGED document \/ (UNCHANGED meshes /\ \E M \in SUBSET meshes : selected' = selected \cup IdsOf(M))
      BY <2>3 DEF ResetRefused, Crashes
    <3> QED
      BY <3>1, <1>1 DEF SelectionLive, IdsOf
  <2> QED
    BY <1>12, <2>1, <2>2, <2>3
<1>13. ASSUME NEW f \in Files, ResetFile(f) \/ ReimportFile(f)
       PROVE  SelectionLive'
  <2>1. \E x : /\ meshes' = Made(meshes, <<x>>)
               /\ selected' = selected \cup {x.id} \/ selected' = {x.id}
    <3>1. CASE ResetFile(f)
      <4> WITNESS Item(counter, f, FALSE)
      <4> QED
        BY <3>1 DEF ResetFile, Item
    <3>2. CASE ReimportFile(f)
      <4> WITNESS Item(Head(loop.todo).id, f, FALSE)
      <4> QED
        BY <3>2 DEF ReimportFile, Item
    <3> QED
      BY <1>13, <3>1, <3>2
  <2>2. PICK x : /\ meshes' = Made(meshes, <<x>>)
                 /\ selected' = selected \cup {x.id} \/ selected' = {x.id}
    BY <2>1
  <2> QED
    BY <2>2, OneId DEF SelectionLive
<1>14. CASE ResetDone
  BY <1>14, <1>1 DEF ResetDone
<1>15. CASE ReimportObject \/ ReimportRefused
  <2> DEFINE x == Head(loop.todo)
  <2>1. CASE ReimportObject
    <3> DEFINE y == Item(x.id, resetList[x.id].src, TRUE)
    <3>1. UNCHANGED document \/ (meshes' = Made(meshes, <<y>>) /\ selected' = selected \cup {y.id})
      BY <2>1 DEF ReimportObject, Crashes, Item
    <3> HIDE DEF y
    <3> QED
      BY <3>1, <1>1, OneId DEF SelectionLive
  <2>2. CASE ReimportRefused
    <3>1. \/ UNCHANGED document
          \/ /\ selected' = {x.id}
             /\ \E last \in meshes :
                  meshes' = (meshes \ {last}) \cup
                            {[at |-> last.at, id |-> x.id, src |-> last.src, tmf |-> last.tmf]}
      BY <2>2 DEF ReimportRefused, Crashes
    <3> HIDE DEF x
    <3>2. ASSUME NEW last \in meshes, selected' = {x.id},
                 meshes' = (meshes \ {last}) \cup
                           {[at |-> last.at, id |-> x.id, src |-> last.src, tmf |-> last.tmf]}
          PROVE  SelectionLive'
      <4> DEFINE m == [at |-> last.at, id |-> x.id, src |-> last.src, tmf |-> last.tmf]
      <4>1. m \in meshes' /\ m.id = x.id
        BY <3>2
      <4> QED
        BY <4>1, <3>2 DEF SelectionLive, IdsOf
    <3> QED
      BY <3>1, <3>2, <1>1
  <2> QED
    BY <1>15, <2>1, <2>2
<1> QED
  BY <1>1, <1>2, <1>3, <1>4, <1>5, <1>6, <1>7, <1>8, <1>9, <1>10, <1>11, <1>12, <1>13, <1>14, <1>15
     DEF Next, User, Loop, vars

(* SelectionLive holds in every reachable state: no loop over the          *)
(* selection follows the null pointer that getMesh() returns.              *)
THEOREM SelectionLiveCorrect == Spec => []SelectionLive
<1>1. Init => SelectionLive
  BY DEF Init, SelectionLive
<1> QED
  BY <1>1, SelectionKept, PTL DEF Spec
-----------------------------------------------------------------------------
(* The invariant behind undo and redo.  As long as there is no fault:      *)
(* the commands lead from each view to the next; an id belongs to one mesh *)
(* for good; a 3mf object has its entry; and the list is the view at the   *)
(* cursor, less what a reset or a redo has still to bring back.            *)
AnyItem  == [id : Nat, src : Files \cup {Object}, tmf : BOOLEAN]
Ops      == {"import", "project", "paste", "delete", "edit", "reset"}
Commands == [op : Ops, old : Seq(AnyItem), new : Seq(AnyItem), on : SUBSET Nat, cut : BOOLEAN]

OneEach(S)  == \A m, n \in S : m.id = n.id => m = n
Distinct(q) == \A j, k \in DOMAIN q : q[j].id = q[k].id => j = k

Leads(V, c, W) ==
  /\ Elems(c.old) \subseteq V
  /\ W = (V \ Elems(c.old)) \cup Elems(c.new)
  /\ \A x \in Elems(c.new), v \in V \ Elems(c.old) : x.id # v.id
  /\ Distinct(c.old) /\ Distinct(c.new)
  /\ c.on \subseteq IdsOf(V)
  /\ c.op \in {"import", "project", "paste", "edit"} => Elems(c.old) = {}
  /\ c.op \in {"delete", "edit"} => Elems(c.new) = {}
  /\ c.op = "project" => \A x \in Elems(c.new) : x.tmf

Typed ==
  /\ View(meshes) \subseteq AnyItem /\ counter \in Nat
  /\ clipboard \in Seq(Files \cup {Object})
  /\ stack \in Seq(Commands) /\ views \in Seq(SUBSET AnyItem)
  /\ Len(views) = Len(stack) + 1 /\ cursor \in 0..Len(stack)
  /\ loop \in [op : {"none", "reset", "redo"}, old : Seq(AnyItem), todo : Seq(AnyItem)]

History == \A k \in 1..Len(stack) : Leads(views[k], stack[k], views[k + 1])

Known == View(meshes) \cup UNION {views[k] : k \in 1..Len(views)}
KnownIds == \A x \in Known : x.id < counter /\ \A y \in Known : x.id = y.id => x = y

EntriesOf(r, K, c) ==
  /\ \A i \in DOMAIN r : /\ i \in Nat /\ i < c
                         /\ r[i] \in [src : Files \cup {Object}, tmf : BOOLEAN]
                         /\ r[i].tmf => r[i].src = Object
  /\ \A x \in K : /\ x.tmf => x.src = Object /\ x.id \in DOMAIN r
                  /\ x.id \in DOMAIN r => r[x.id].tmf = x.tmf
Entries == EntriesOf(resetList, Known, counter)

Here == views[cursor + 1]
ResetLoop ==
  LET rest == Here \ Elems(loop.old) IN
    /\ Elems(loop.old) \subseteq Here /\ Distinct(loop.old)
    /\ Distinct(loop.todo) /\ Elems(loop.todo) \subseteq Elems(loop.old)
    /\ Ids(loop.todo) \cap IdsOf(meshes) = {}
    /\ rest \subseteq View(meshes)
    /\ \A x \in View(meshes) : x.id \in selected \/ x \in rest
    /\ \A x \in rest : x.id \notin selected
RedoLoop ==
  /\ loop.todo # <<>> /\ Distinct(loop.todo)
  /\ Elems(loop.todo) \subseteq Here
  /\ View(meshes) = Here \ Elems(loop.todo)
Looping ==
  crash = "no" => /\ loop.op = "none" => loop = Idle /\ View(meshes) = Here
                  /\ loop.op = "reset" => ResetLoop
                  /\ loop.op = "redo" => RedoLoop

Good == Typed /\ History /\ KnownIds /\ OneEach(meshes) /\ Entries /\ Looping /\ crash # "mesh gone"
IInv == SelectionLive /\ (faults = {} => Good)
-----------------------------------------------------------------------------
(* The operations on the list, on views of it.                             *)
LEMMA ViewIds ==
  ASSUME NEW S
  PROVE  IdsOf(View(S)) = IdsOf(S)
<1>1. \A m \in S : Item(m.id, m.src, m.tmf) \in View(S) /\ Item(m.id, m.src, m.tmf).id = m.id
  BY DEF View, Item
<1>2. \A x \in View(S) : \E m \in S : x.id = m.id
  BY DEF View, Item
<1> QED
  BY <1>1, <1>2 DEF IdsOf

LEMMA MadeView ==
  ASSUME NEW S, NEW q, Elems(q) \subseteq AnyItem
  PROVE  View(Made(S, q)) = View(S) \cup Elems(q)
<1>1. \A x \in Elems(q) : x = Item(x.id, x.src, x.tmf)
  BY DEF AnyItem, Item
<1>2. ASSUME NEW j \in DOMAIN q
      PROVE  q[j] \in View(Made(S, q))
  <2> DEFINE m == [at |-> LastAt(S) + j, id |-> q[j].id, src |-> q[j].src, tmf |-> q[j].tmf]
  <2>1. m \in Made(S, q)
    BY DEF Made
  <2>2. Item(m.id, m.src, m.tmf) = q[j]
    BY <1>1 DEF Elems, Item
  <2> QED
    BY <2>1, <2>2 DEF View
<1>3. View(S) \subseteq View(Made(S, q))
  BY DEF View, Made
<1>4. ASSUME NEW m \in Made(S, q)
      PROVE  Item(m.id, m.src, m.tmf) \in View(S) \cup Elems(q)
  <2>1. CASE m \in S
    BY <2>1 DEF View
  <2>2. CASE m \notin S
    <3>1. PICK j \in DOMAIN q :
            m = [at |-> LastAt(S) + j, id |-> q[j].id, src |-> q[j].src, tmf |-> q[j].tmf]
      BY <2>2 DEF Made
    <3>2. Item(m.id, m.src, m.tmf) = q[j]
      BY <3>1, <1>1 DEF Elems, Item
    <3> QED
      BY <3>2 DEF Elems
  <2> QED
    BY <2>1, <2>2
<1>5. View(Made(S, q)) \subseteq View(S) \cup Elems(q)
  BY <1>4 DEF View
<1>6. Elems(q) \subseteq View(Made(S, q))
  BY <1>2 DEF Elems
<1> QED
  BY <1>3, <1>5, <1>6

LEMMA MadeOneEach ==
  ASSUME NEW S, NEW q, OneEach(S), Distinct(q), Ids(q) \cap IdsOf(S) = {}
  PROVE  OneEach(Made(S, q))
<1> SUFFICES ASSUME NEW m \in Made(S, q), NEW n \in Made(S, q), m.id = n.id
             PROVE  m = n
  BY DEF OneEach
<1> DEFINE New(j) == [at |-> LastAt(S) + j, id |-> q[j].id, src |-> q[j].src, tmf |-> q[j].tmf]
<1>1. \A j \in DOMAIN q : New(j).id \in Ids(q) /\ New(j).id = q[j].id
  BY DEF Ids, IdsOf, Elems
<1>2. m \in S \/ \E j \in DOMAIN q : m = New(j)
  BY DEF Made
<1>3. n \in S \/ \E j \in DOMAIN q : n = New(j)
  BY DEF Made
<1>4. m \in S => m.id \in IdsOf(S)
  BY DEF IdsOf
<1>5. n \in S => n.id \in IdsOf(S)
  BY DEF IdsOf
<1>6. CASE m \in S /\ n \in S
  BY <1>6 DEF OneEach
<1>7. CASE m \notin S /\ n \notin S
  <2>1. PICK j \in DOMAIN q : m = New(j)
    BY <1>2, <1>7
  <2>2. PICK k \in DOMAIN q : n = New(k)
    BY <1>3, <1>7
  <2>3. j = k
    BY <2>1, <2>2, <1>1 DEF Distinct
  <2> QED
    BY <2>1, <2>2, <2>3
<1> HIDE DEF New
<1> QED
  BY <1>1, <1>2, <1>3, <1>4, <1>5, <1>6, <1>7

LEMMA FoundAll ==
  ASSUME NEW S, NEW I, OneEach(S)
  PROVE  Found(S, I) = {m \in S : m.id \in I}
BY DEF Found, OneEach

LEMMA WithoutView ==
  ASSUME NEW S, NEW I, OneEach(S)
  PROVE  /\ View(Without(S, I)) = {x \in View(S) : x.id \notin I}
         /\ OneEach(Without(S, I))
<1> DEFINE New(m) == [at |-> m.at - Cardinality(Before(S, I, m.at)),
                      id |-> m.id, src |-> m.src, tmf |-> m.tmf]
<1>1. Without(S, I) = {New(m) : m \in {m \in S : m.id \notin I}}
  BY FoundAll DEF Without
<1>2. \A m \in S : /\ New(m).id = m.id
                   /\ Item(New(m).id, New(m).src, New(m).tmf) = Item(m.id, m.src, m.tmf)
                   /\ Item(m.id, m.src, m.tmf).id = m.id
  BY DEF Item
<1> HIDE DEF New
<1>3. View(Without(S, I)) = {x \in View(S) : x.id \notin I}
  BY <1>1, <1>2 DEF View
<1>4. OneEach(Without(S, I))
  BY <1>1, <1>2 DEF OneEach
<1> QED
  BY <1>3, <1>4

LEMMA FoundView ==
  ASSUME NEW S, NEW I, OneEach(S)
  PROVE  View(Found(S, I)) = {x \in View(S) : x.id \in I}
<1>1. \A m \in S : Item(m.id, m.src, m.tmf).id = m.id
  BY DEF Item
<1> QED
  BY <1>1, FoundAll DEF View

LEMMA ListingFacts ==
  ASSUME NEW S, View(S) \subseteq AnyItem, NEW q \in Listings(S)
  PROVE  q \in Seq(AnyItem) /\ Elems(q) = View(S) /\ Distinct(q)
<1>1. PICK n \in 0..MaxIds : q \in [1..n -> View(S)]
  BY DEF Listings
<1>2. n \in Nat
  BY BoundsAreNat
<1>3. q \in Seq(AnyItem)
  BY <1>1, <1>2
<1>4. Elems(q) = View(S) /\ \A j, k \in DOMAIN q : j < k => q[j].id < q[k].id
  BY DEF Listings, Lists
<1>5. ASSUME NEW j \in DOMAIN q, NEW k \in DOMAIN q, q[j].id = q[k].id
      PROVE  j = k
  <2>1. j \in Nat /\ k \in Nat /\ q[j] \in AnyItem /\ q[k] \in AnyItem
    BY <1>1, <1>2
  <2>2. q[j].id \in Nat
    BY <2>1 DEF AnyItem
  <2>3. ~ (q[j].id < q[k].id) /\ ~ (q[k].id < q[j].id)
    BY <2>2, <1>5
  <2> QED
    BY <2>1, <2>3, <1>4
<1> QED
  BY <1>3, <1>4, <1>5 DEF Distinct

LEMMA HeadAndTail ==
  ASSUME NEW q \in Seq(AnyItem), q # <<>>, Distinct(q)
  PROVE  /\ Head(q) \in AnyItem /\ Tail(q) \in Seq(AnyItem)
         /\ Elems(q) = {Head(q)} \cup Elems(Tail(q))
         /\ Distinct(Tail(q)) /\ Head(q).id \notin Ids(Tail(q))
<1> DEFINE n == Len(q)
<1>1. /\ n \in Nat \ {0} /\ DOMAIN q = 1..n
      /\ Tail(q) \in Seq(AnyItem) /\ Head(q) \in AnyItem /\ Head(q) = q[1]
      /\ DOMAIN Tail(q) = 1..(n - 1)
      /\ \A i \in 1..(n - 1) : Tail(q)[i] = q[i + 1]
  BY HeadTailProperties, LenProperties, EmptySeq
<1> HIDE DEF n
<1>2. Elems(q) \subseteq {Head(q)} \cup Elems(Tail(q))
  <2> SUFFICES ASSUME NEW j \in 1..n, j # 1
               PROVE  q[j] \in Elems(Tail(q))
    BY <1>1 DEF Elems
  <2>1. j - 1 \in 1..(n - 1) /\ Tail(q)[j - 1] = q[j]
    BY <1>1
  <2> QED
    BY <2>1, <1>1 DEF Elems
<1>3. \A i \in 1..(n - 1) : i + 1 \in 1..n /\ i + 1 # 1
  BY <1>1
<1>4. {Head(q)} \cup Elems(Tail(q)) \subseteq Elems(q)
  BY <1>1, <1>3 DEF Elems
<1>5. Distinct(Tail(q))
  <2> SUFFICES ASSUME NEW i \in 1..(n - 1), NEW k \in 1..(n - 1), Tail(q)[i].id = Tail(q)[k].id
               PROVE  i = k
    BY <1>1 DEF Distinct
  <2>1. i + 1 = k + 1
    BY <1>1, <1>3 DEF Distinct
  <2> QED
    BY <2>1
<1>6. Head(q).id \notin Ids(Tail(q))
  <2> SUFFICES ASSUME NEW i \in 1..(n - 1), Tail(q)[i].id = q[1].id
               PROVE  FALSE
    BY <1>1 DEF Ids, IdsOf, Elems
  <2>1. q[i + 1].id = q[1].id /\ 1 \in 1..n
    BY <1>1
  <2>2. i + 1 = 1
    BY <2>1, <1>1, <1>3 DEF Distinct
  <2> QED
    BY <2>2, <1>3
<1> QED
  BY <1>1, <1>2, <1>4, <1>5, <1>6
-----------------------------------------------------------------------------
(* A command pushed from a consistent history gives a consistent history,  *)
(* in which the only new view is the list as it is now.                    *)
LEMMA Pushed ==
  ASSUME Typed, History, NEW c \in Commands, Push(c), View(meshes') \subseteq AnyItem,
         Leads(Here, c, View(meshes'))
  PROVE  /\ stack' \in Seq(Commands) /\ views' \in Seq(SUBSET AnyItem)
         /\ Len(views') = Len(stack') + 1 /\ cursor' \in 0..Len(stack')
         /\ History' /\ views'[cursor' + 1] = View(meshes')
         /\ \A k \in 1..Len(views') : views'[k] = View(meshes') \/ \E j \in 1..Len(views) : views'[k] = views[j]
<1> DEFINE s == SubSeq(stack, 1, cursor)
           v == SubSeq(views, 1, cursor + 1)
<1>1. /\ stack \in Seq(Commands) /\ views \in Seq(SUBSET AnyItem)
      /\ Len(stack) \in Nat /\ Len(views) = Len(stack) + 1
      /\ cursor \in Nat /\ cursor =< Len(stack)
  BY DEF Typed
<1>2. /\ s \in Seq(Commands) /\ Len(s) = cursor
      /\ \A i \in 1..cursor : s[i] = stack[i]
  <2>1. \A i \in 1..cursor : stack[i] \in Commands
    BY <1>1, ElementOfSeq
  <2> QED
    BY <1>1, <2>1, SubSeqProperties
<1>3. /\ v \in Seq(SUBSET AnyItem) /\ Len(v) = cursor + 1
      /\ \A i \in 1..(cursor + 1) : v[i] = views[i]
  <2>1. \A i \in 1..(cursor + 1) : views[i] \in SUBSET AnyItem
    BY <1>1, ElementOfSeq
  <2> QED
    BY <1>1, <2>1, SubSeqProperties
<1>4. stack' = Append(s, c) /\ views' = Append(v, View(meshes')) /\ cursor' = cursor + 1
  BY DEF Push
<1> HIDE DEF s, v
<1>5. /\ stack' \in Seq(Commands) /\ Len(stack') = cursor + 1
      /\ \A i \in 1..cursor : stack'[i] = stack[i]
      /\ stack'[cursor + 1] = c
  BY <1>2, <1>4, AppendProperties
<1>6. /\ views' \in Seq(SUBSET AnyItem) /\ Len(views') = cursor + 2
      /\ \A i \in 1..(cursor + 1) : views'[i] = views[i]
      /\ views'[cursor + 2] = View(meshes')
  <2> DEFINE w == View(meshes')
  <2>1. w \in SUBSET AnyItem
    OBVIOUS
  <2> HIDE DEF w
  <2>2. /\ Append(v, w) \in Seq(SUBSET AnyItem)
        /\ Len(Append(v, w)) = Len(v) + 1
        /\ \A i \in 1..Len(v) : Append(v, w)[i] = v[i]
        /\ Append(v, w)[Len(v) + 1] = w
    BY <2>1, <1>3, AppendProperties
  <2>3. views' = Append(v, w)
    BY <1>4 DEF w
  <2>4. cursor + 1 + 1 = cursor + 2
    BY <1>1
  <2>5. views' \in Seq(SUBSET AnyItem) /\ Len(views') = cursor + 2 /\ views'[cursor + 2] = w
    BY <1>3, <2>2, <2>3, <2>4
  <2>6. \A i \in 1..(cursor + 1) : views'[i] = views[i]
    BY <1>3, <2>2, <2>3
  <2> QED
    BY <2>5, <2>6 DEF w
<1>7. History'
  <2> SUFFICES ASSUME NEW k \in 1..(cursor + 1)
               PROVE  Leads(views'[k], stack'[k], views'[k + 1])
    BY <1>5 DEF History
  <2>1. CASE k = cursor + 1
    <3>1. views'[k] = Here /\ stack'[k] = c /\ views'[k + 1] = View(meshes')
      <4>1. k + 1 = cursor + 2 /\ cursor + 1 \in 1..(cursor + 1)
        BY <2>1, <1>1
      <4> QED
        BY <4>1, <2>1, <1>5, <1>6 DEF Here
    <3> QED
      BY <3>1
  <2>2. CASE k # cursor + 1
    <3>1. k \in 1..cursor /\ k + 1 \in 1..(cursor + 1) /\ k \in 1..(cursor + 1) /\ k \in 1..Len(stack)
      BY <2>2, <1>1
    <3>2. Leads(views[k], stack[k], views[k + 1])
      BY <3>1 DEF History
    <3>3. views'[k] = views[k] /\ stack'[k] = stack[k] /\ views'[k + 1] = views[k + 1]
      BY <3>1, <1>5, <1>6
    <3> QED
      BY <3>2, <3>3
  <2> QED
    BY <2>1, <2>2
<1>8. views'[cursor' + 1] = View(meshes') /\ cursor' \in 0..Len(stack') /\ Len(views') = Len(stack') + 1
  <2>1. cursor' + 1 = cursor + 2
    BY <1>1, <1>4
  <2> QED
    BY <2>1, <1>1, <1>4, <1>5, <1>6
<1>9. ASSUME NEW k \in 1..Len(views')
      PROVE  views'[k] = View(meshes') \/ \E j \in 1..Len(views) : views'[k] = views[j]
  <2>1. k = cursor + 2 \/ (k \in 1..(cursor + 1) /\ k \in 1..Len(views))
    BY <1>1, <1>6
  <2> QED
    BY <2>1, <1>6
<1> QED
  BY <1>5, <1>6, <1>7, <1>8, <1>9

LEMMA KnownAfter ==
  ASSUME \A k \in 1..Len(views') : views'[k] = View(meshes') \/ \E j \in 1..Len(views) : views'[k] = views[j]
  PROVE  Known' \subseteq Known \cup View(meshes')
BY DEF Known

(* New ids only: what was known of the old ones stays.                     *)
LEMMA KnownGrows ==
  ASSUME Typed, KnownIds, NEW N, N \subseteq AnyItem,
         counter' \in Nat, counter =< counter', Known' \subseteq Known \cup N,
         \A x \in N : counter =< x.id /\ x.id < counter' /\ \A y \in N : x.id = y.id => x = y
  PROVE  KnownIds'
<1>1. Known \subseteq AnyItem
  <2>1. \A k \in 1..Len(views) : views[k] \subseteq AnyItem
    BY ElementOfSeq DEF Typed
  <2> QED
    BY <2>1 DEF Typed, Known
<1>2. \A x \in Known \cup N : x.id \in Nat
  BY <1>1 DEF AnyItem
<1>3. \A x \in Known : x.id < counter
  BY DEF KnownIds
<1>4. counter \in Nat
  BY DEF Typed
<1>5. \A x \in Known \cup N : x.id < counter'
  BY <1>2, <1>3, <1>4
<1>6. ASSUME NEW x \in Known \cup N, NEW y \in Known \cup N, x.id = y.id
      PROVE  x = y
  <2>1. (x \in Known /\ y \in Known) \/ (x \in N /\ y \in N)
    BY <1>2, <1>3, <1>4, <1>6
  <2> QED
    BY <2>1, <1>6 DEF KnownIds
<1> QED
  BY <1>5, <1>6 DEF KnownIds

LEMMA KnownTyped ==
  ASSUME Typed
  PROVE  Known \subseteq AnyItem
<1>1. \A k \in 1..Len(views) : views[k] \subseteq AnyItem
  BY ElementOfSeq DEF Typed
<1> QED
  BY <1>1 DEF Typed, Known

(* The meshes of the list are known, or new under new ids.                 *)
LEMMA KnownKept ==
  ASSUME Typed, KnownIds, View(meshes') \subseteq AnyItem, OneEach(meshes'),
         Known' \subseteq Known \cup View(meshes'),
         counter' \in Nat, counter =< counter',
         \A x \in View(meshes') : x \in Known \/ (counter =< x.id /\ x.id < counter')
  PROVE  KnownIds'
<1> DEFINE N == View(meshes') \ Known
<1>1. N \subseteq AnyItem /\ Known' \subseteq Known \cup N
  OBVIOUS
<1>2. ASSUME NEW x \in View(meshes'), NEW y \in View(meshes'), x.id = y.id
      PROVE  x = y
  BY <1>2 DEF View, Item, OneEach
<1>3. \A x \in N : counter =< x.id /\ x.id < counter' /\ \A y \in N : x.id = y.id => x = y
  BY <1>2
<1> HIDE DEF N
<1> QED
  BY <1>1, <1>3, KnownGrows

(* Entries for items under their own ids, among them every new 3mf object, *)
(* keep the entries in order; so does dropping the entry of a mesh that is *)
(* not a 3mf object.                                                       *)
LEMMA EntriesGrow ==
  ASSUME NEW r, NEW K, NEW L, NEW c \in Nat, NEW d \in Nat, NEW X, NEW s,
         EntriesOf(r, K, c), \A i \in Nat : i < c => i < d, L \subseteq AnyItem, X \subseteq L,
         \A x \in L : x.id < d /\ \A y \in L : x.id = y.id => x = y,
         \A x \in L : x \in K \/ (c =< x.id /\ (x.tmf => x \in X /\ x.src = Object)),
         s = r \/ s = WithEntries(r, X), X = {} \/ s = WithEntries(r, X)
  PROVE  EntriesOf(s, L, d)
<1>1. \A x \in L : x.id \in Nat /\ x.src \in Files \cup {Object} /\ x.tmf \in BOOLEAN
  BY DEF AnyItem
<1>2. ASSUME NEW i \in IdsOf(X), s = WithEntries(r, X)
      PROVE  /\ i \in DOMAIN s
             /\ \E x \in X : x.id = i /\ s[i] = [src |-> x.src, tmf |-> x.tmf]
  <2> DEFINE x == CHOOSE x \in X : x.id = i
  <2>1. x \in X /\ x.id = i
    BY DEF IdsOf
  <2>2. i \in DOMAIN s /\ s[i] = [src |-> x.src, tmf |-> x.tmf]
    BY <1>2 DEF WithEntries
  <2> HIDE DEF x
  <2> QED
    BY <2>1, <2>2
<1>3. ASSUME NEW i, i \notin IdsOf(X)
      PROVE  (i \in DOMAIN s <=> i \in DOMAIN r) /\ (i \in DOMAIN r => s[i] = r[i])
  <2>1. CASE s = r
    BY <2>1
  <2>2. CASE s = WithEntries(r, X)
    BY <2>2, <1>3 DEF WithEntries
  <2> QED
    BY <2>1, <2>2
<1>4. \A i \in IdsOf(X) : s = WithEntries(r, X)
  BY DEF IdsOf
<1>5. ASSUME NEW x \in L, x.tmf
      PROVE  x.src = Object
  <2>1. CASE x \in K
    BY <2>1, <1>5 DEF EntriesOf
  <2>2. CASE x \notin K
    BY <2>2, <1>5
  <2> QED
    BY <2>1, <2>2
<1>6. ASSUME NEW i \in DOMAIN s
      PROVE  /\ i \in Nat /\ i < d /\ s[i] \in [src : Files \cup {Object}, tmf : BOOLEAN]
             /\ s[i].tmf => s[i].src = Object
  <2>1. CASE i \in IdsOf(X)
    <3>1. PICK x \in X : x.id = i /\ s[i] = [src |-> x.src, tmf |-> x.tmf]
      BY <1>2, <1>4, <2>1
    <3> QED
      BY <3>1, <1>1, <1>5
  <2>2. CASE i \notin IdsOf(X)
    <3>1. i \in DOMAIN r /\ s[i] = r[i]
      BY <2>2, <1>3
    <3>2. i \in Nat /\ i < c
      BY <3>1 DEF EntriesOf
    <3> QED
      BY <3>1, <3>2 DEF EntriesOf
  <2> QED
    BY <2>1, <2>2
<1>7. ASSUME NEW x \in L
      PROVE  (x.tmf => x.id \in DOMAIN s) /\ (x.id \in DOMAIN s => s[x.id].tmf = x.tmf)
  <2>1. CASE x.id \in IdsOf(X)
    <3>1. PICK y \in X : y.id = x.id /\ s[x.id] = [src |-> y.src, tmf |-> y.tmf]
      BY <1>2, <1>4, <2>1
    <3>2. y = x /\ x.id \in DOMAIN s
      BY <3>1, <1>2, <1>4, <2>1
    <3> QED
      BY <3>1, <3>2
  <2>2. CASE x.id \notin IdsOf(X) /\ x \in K
    <3>1. (x.tmf => x.id \in DOMAIN r) /\ (x.id \in DOMAIN r => r[x.id].tmf = x.tmf)
      BY <2>2 DEF EntriesOf
    <3>2. (x.id \in DOMAIN s <=> x.id \in DOMAIN r) /\ (x.id \in DOMAIN r => s[x.id] = r[x.id])
      BY <2>2, <1>3
    <3> QED
      BY <3>1, <3>2, <1>1
  <2>3. CASE x.id \notin IdsOf(X) /\ x \notin K
    <3>1. c =< x.id /\ ~ x.tmf
      BY <2>3 DEF IdsOf
    <3>2. x.id \notin DOMAIN r
      BY <3>1, <1>1 DEF EntriesOf
    <3> QED
      BY <3>1, <3>2, <2>3, <1>3
  <2> QED
    BY <2>1, <2>2, <2>3
<1> QED
  BY <1>5, <1>6, <1>7 DEF EntriesOf

LEMMA EntriesStay ==
  ASSUME NEW r, NEW K, NEW L, NEW c \in Nat, NEW X, NEW s,
         EntriesOf(r, K, c), K \subseteq AnyItem, L \subseteq K, X \subseteq L,
         \A x \in K : x.id < c /\ \A y \in K : x.id = y.id => x = y,
         s = r \/ s = WithEntries(r, X), X = {} \/ s = WithEntries(r, X)
  PROVE  EntriesOf(s, L, c)
<1>1. \A x \in L : x.id < c /\ \A y \in L : x.id = y.id => x = y
  OBVIOUS
<1>2. \A x \in L : x \in K \/ (c =< x.id /\ (x.tmf => x \in X /\ x.src = Object))
  OBVIOUS
<1>3. L \subseteq AnyItem
  OBVIOUS
<1>4. \A i \in Nat : i < c => i < c
  OBVIOUS
<1> QED
  BY <1>1, <1>2, <1>3, <1>4, EntriesGrow

LEMMA EntryDropped ==
  ASSUME NEW r, NEW K, NEW c, NEW i, EntriesOf(r, K, c), \A x \in K : x.id = i => ~ x.tmf
  PROVE  EntriesOf(WithoutEntry(r, i), K, c)
<1> DEFINE s == WithoutEntry(r, i)
<1>1. DOMAIN s = DOMAIN r \ {i} /\ \A j \in DOMAIN s : s[j] = r[j]
  BY DEF WithoutEntry
<1> HIDE DEF s
<1>2. EntriesOf(s, K, c)
  BY <1>1 DEF EntriesOf
<1> QED
  BY <1>2 DEF s
-----------------------------------------------------------------------------
(* A step that pushes a command keeps the invariant when the command tells *)
(* how the list changed and every new mesh has a new id and its entry.     *)
LEMMA PushedGood ==
  ASSUME Good, NEW c \in Commands, Push(c), NEW X,
         View(meshes') \subseteq AnyItem, OneEach(meshes'), Leads(Here, c, View(meshes')),
         counter' \in Nat, counter =< counter', clipboard' \in Seq(Files \cup {Object}),
         \A x \in View(meshes') : \/ x \in Known
                                  \/ /\ counter =< x.id /\ x.id < counter'
                                     /\ x.tmf => x \in X /\ x.src = Object,
         X \subseteq View(meshes'), resetList' = resetList \/ resetList' = WithEntries(resetList, X),
         X = {} \/ resetList' = WithEntries(resetList, X), loop' = Idle, crash' = crash
  PROVE  Good'
<1>1. /\ stack' \in Seq(Commands) /\ views' \in Seq(SUBSET AnyItem)
      /\ Len(views') = Len(stack') + 1 /\ cursor' \in 0..Len(stack')
      /\ History' /\ views'[cursor' + 1] = View(meshes')
      /\ Known' \subseteq Known \cup View(meshes')
  BY Pushed, KnownAfter DEF Good
<1>2. KnownIds'
  BY <1>1, KnownKept DEF Good
<1>3. Known' \subseteq AnyItem /\ View(meshes') \subseteq Known'
  BY <1>1, KnownTyped DEF Good, Known
<1>4. counter \in Nat
  BY DEF Good, Typed
<1>5. Entries'
  <2>1. EntriesOf(resetList, Known, counter)
    BY DEF Good, Entries
  <2>2. \A x \in Known' : x.id < counter' /\ \A y \in Known' : x.id = y.id => x = y
    BY <1>2 DEF KnownIds
  <2>3. \A x \in Known' : x \in Known \/ (counter =< x.id /\ (x.tmf => x \in X /\ x.src = Object))
    BY <1>1
  <2>4. X \subseteq Known'
    BY <1>3
  <2> DEFINE L == Known'
             s == resetList'
  <2>5. /\ L \subseteq AnyItem /\ X \subseteq L
        /\ \A x \in L : x.id < counter' /\ \A y \in L : x.id = y.id => x = y
        /\ \A x \in L : x \in Known \/ (counter =< x.id /\ (x.tmf => x \in X /\ x.src = Object))
    BY <2>2, <2>3, <2>4, <1>3
  <2>6. /\ s = resetList \/ s = WithEntries(resetList, X)
        /\ X = {} \/ s = WithEntries(resetList, X)
    OBVIOUS
  <2>7. EntriesOf(s, L, counter')
    <3>1. \A i \in Nat : i < counter => i < counter'
      BY <1>4
    <3> HIDE DEF L, s
    <3> QED
      BY <2>1, <2>5, <2>6, <3>1, <1>4, EntriesGrow
  <2> QED
    BY <2>7 DEF Entries
<1>6. Typed'
  <2>1. Idle \in [op : {"none", "reset", "redo"}, old : Seq(AnyItem), todo : Seq(AnyItem)]
    BY EmptySeq DEF Idle
  <2> QED
    BY <2>1, <1>1 DEF Typed
<1>7. Looping' /\ crash' # "mesh gone"
  BY <1>1 DEF Good, Looping, Here, Idle
<1> QED
  BY <1>1, <1>2, <1>5, <1>6, <1>7 DEF Good

(* A step along the stack keeps it when what it makes was known before.    *)
LEMMA MovedGood ==
  ASSUME Good, UNCHANGED <<stack, views, counter, clipboard>>, cursor' \in 0..Len(stack),
         View(meshes') \subseteq Known, OneEach(meshes'), NEW X, X \subseteq Known',
         resetList' = resetList \/ resetList' = WithEntries(resetList, X),
         X = {} \/ resetList' = WithEntries(resetList, X),
         loop' \in [op : {"none", "reset", "redo"}, old : Seq(AnyItem), todo : Seq(AnyItem)],
         Looping', crash' # "mesh gone"
  PROVE  Good'
<1>1. Known' \subseteq Known /\ Known \subseteq AnyItem
  BY KnownTyped DEF Good, Known
<1>2. counter \in Nat /\ counter' = counter
  BY DEF Good, Typed
<1>3. KnownIds'
  BY <1>1, <1>2 DEF Good, KnownIds
<1>4. Entries'
  <2>1. EntriesOf(resetList, Known, counter)
    BY DEF Good, Entries
  <2>2. \A x \in Known : x.id < counter /\ \A y \in Known : x.id = y.id => x = y
    BY DEF Good, KnownIds
  <2>3. EntriesOf(resetList', Known', counter)
    BY <1>1, <1>2, <2>1, <2>2, EntriesStay
  <2> QED
    BY <2>3, <1>2 DEF Entries
<1>5. Typed'
  BY <1>1 DEF Good, Typed
<1>6. History'
  BY DEF Good, History
<1> QED
  BY <1>3, <1>4, <1>5, <1>6 DEF Good

(* A step that leaves the list and the stack alone.                        *)
LEMMA StillGood ==
  ASSUME Good, UNCHANGED <<meshes, counter, resetList, stack, cursor, views, loop>>,
         clipboard' \in Seq(Files \cup {Object}),
         crash' = crash \/ crash' \notin {"no", "mesh gone"},
         selected' = selected \/ loop = Idle
  PROVE  Good'
<1>1. Typed'
  BY DEF Good, Typed
<1>2. History' /\ Known' = Known
  BY DEF Good, History, Known
<1>3. KnownIds' /\ OneEach(meshes')
  BY <1>2 DEF Good, KnownIds
<1>4. Entries'
  BY <1>2 DEF Good, Entries
<1>5. Looping'
  <2>1. Here' = Here
    BY DEF Here
  <2>2. CASE selected' = selected
    BY <2>1, <2>2 DEF Good, Looping, ResetLoop, RedoLoop
  <2>3. CASE loop = Idle
    BY <2>1, <2>3 DEF Good, Looping, Idle
  <2> QED
    BY <2>2, <2>3
<1> QED
  BY <1>1, <1>2, <1>3, <1>4, <1>5 DEF Good
-----------------------------------------------------------------------------
LEMMA HereKnown ==
  ASSUME Good
  PROVE  /\ Here \subseteq Known /\ View(meshes) \subseteq Known /\ Known \subseteq AnyItem
         /\ \A k \in 1..(Len(stack) + 1) : views[k] \subseteq Known
         /\ \A x, y \in Known : x.id = y.id => x = y
         /\ cursor \in Nat /\ Len(stack) \in Nat /\ counter \in Nat
<1>1. cursor \in Nat /\ Len(stack) \in Nat /\ cursor =< Len(stack) /\ Len(views) = Len(stack) + 1
  <2>1. Typed
    BY DEF Good
  <2>2. Len(stack) \in Nat
    BY <2>1, LenProperties DEF Typed
  <2> QED
    BY <2>1, <2>2 DEF Typed
<1>2. \A k \in 1..(Len(stack) + 1) : views[k] \subseteq Known
  BY <1>1 DEF Known
<1>3. cursor + 1 \in 1..(Len(stack) + 1)
  BY <1>1
<1>4. counter \in Nat /\ \A x, y \in Known : x.id = y.id => x = y
  BY DEF Good, Typed, KnownIds
<1> QED
  BY <1>1, <1>2, <1>3, <1>4, KnownTyped DEF Here, Known, Good

LEMMA NoItems ==
  /\ Elems(<<>>) = {} /\ Ids(<<>>) = {} /\ Distinct(<<>>) /\ <<>> \in Seq(AnyItem)
<1>1. DOMAIN <<>> = {}
  OBVIOUS
<1>2. Elems(<<>>) = {}
  BY <1>1 DEF Elems
<1>3. Ids(<<>>) = {}
  BY <1>2 DEF Ids, IdsOf
<1>4. Distinct(<<>>)
  BY <1>1 DEF Distinct
<1> QED
  BY <1>2, <1>3, <1>4, EmptySeq

LEMMA CommandTyped ==
  ASSUME NEW op \in Ops, NEW old \in Seq(AnyItem), NEW new \in Seq(AnyItem), NEW on \in SUBSET Nat,
         NEW c, c = Command(op, old, new, on)
  PROVE  c \in Commands /\ c.op = op /\ c.old = old /\ c.new = new /\ c.on = on
BY DEF Command, Commands

LEMMA AddCommand ==
  ASSUME NEW op \in Ops, NEW q \in Seq(AnyItem), NEW c, c = Command(op, <<>>, q, {})
  PROVE  c \in Commands /\ c.op = op /\ c.old = <<>> /\ c.new = q /\ c.on = {}
<1> DEFINE old == <<>>
           on == {}
<1>1. old \in Seq(AnyItem) /\ on \in SUBSET Nat /\ c = Command(op, old, q, on)
  BY NoItems
<1> HIDE DEF old, on
<1>2. c \in Commands /\ c.op = op /\ c.old = old /\ c.new = q /\ c.on = on
  BY <1>1, CommandTyped
<1> QED
  BY <1>2 DEF old, on

LEMMA CutTyped ==
  ASSUME NEW d \in Commands, NEW b \in BOOLEAN, NEW c, c = [d EXCEPT !.cut = b]
  PROVE  c \in Commands /\ c.op = d.op /\ c.old = d.old /\ c.new = d.new /\ c.on = d.on
BY DEF Commands

(* Import, import of a project, paste: meshes under new ids.               *)
LEMMA AddedGood ==
  ASSUME Good, Ready, NEW q \in Seq(AnyItem), NEW c \in Commands, Push(c), NEW X,
         c.old = <<>>, c.on = {}, c.op \notin {"delete", "edit"},
         c.op = "project" => \A x \in Elems(q) : x.tmf,
         Elems(c.new) = Elems(q), Distinct(c.new), Distinct(q), meshes' = Made(meshes, q),
         counter' \in Nat, counter =< counter',
         \A x \in Elems(q) : counter =< x.id /\ x.id < counter',
         clipboard' \in Seq(Files \cup {Object}),
         X \subseteq Elems(q), \A x \in Elems(q) : x.tmf => x \in X /\ x.src = Object,
         resetList' = resetList \/ resetList' = WithEntries(resetList, X),
         X = {} \/ resetList' = WithEntries(resetList, X), loop' = loop, crash' = crash
  PROVE  Good'
<1>1. View(meshes) = Here /\ loop = Idle /\ OneEach(meshes)
  BY DEF Good, Looping, Ready, Idle
<1>2. Elems(q) \subseteq AnyItem
  BY ElementOfSeq DEF Elems
<1>3. View(meshes') = Here \cup Elems(q)
  BY <1>1, <1>2, MadeView
<1>4. \A x \in Elems(q), v \in Known : x.id # v.id
  <2>1. \A x \in Elems(q) : x.id \in Nat
    BY <1>2 DEF AnyItem
  <2>2. \A v \in Known : v.id \in Nat /\ v.id < counter
    BY HereKnown DEF Good, KnownIds, AnyItem
  <2> QED
    BY <2>1, <2>2, HereKnown
<1>5. Ids(q) \cap IdsOf(meshes) = {}
  <2>1. \A v \in View(meshes) : v \in Known
    BY HereKnown
  <2>2. \A x \in Elems(q), v \in View(meshes) : x.id # v.id
    BY <1>4, <2>1
  <2>3. Ids(q) \cap IdsOf(View(meshes)) = {}
    BY <2>2 DEF Ids, IdsOf
  <2> QED
    BY <2>3, ViewIds
<1>6. OneEach(meshes')
  BY <1>1, <1>5, MadeOneEach
<1>7. Leads(Here, c, View(meshes'))
  <2>1. \A x \in Elems(q), v \in Here : x.id # v.id
    BY <1>4, HereKnown
  <2> QED
    BY <1>3, <2>1, NoItems DEF Leads
<1>8. View(meshes') \subseteq AnyItem
  BY <1>2, <1>3, HereKnown
<1>9. \A x \in View(meshes') : \/ x \in Known
                               \/ /\ counter =< x.id /\ x.id < counter'
                                  /\ x.tmf => x \in X /\ x.src = Object
  BY <1>3, HereKnown
<1>10. X \subseteq View(meshes')
  BY <1>3
<1> QED
  BY <1>1, <1>6, <1>7, <1>8, <1>9, <1>10, PushedGood
-----------------------------------------------------------------------------
(* One lemma per operation that adds meshes or pushes a command.           *)
LEMMA ImportGood ==
  ASSUME Good, NEW f \in Files, Import(f)
  PROVE  Good'
<1> DEFINE x == Item(counter, f, FALSE)
           q == <<x>>
           c == Command("import", <<>>, q, {})
<1>1. /\ Ready /\ Push(c) /\ meshes' = Made(meshes, q) /\ resetList' = WithEntries(resetList, Elems(q))
      /\ counter' = counter + 1 /\ clipboard' = clipboard /\ loop' = loop /\ crash' = crash
  BY DEF Import
<1>2. counter \in Nat /\ clipboard \in Seq(Files \cup {Object})
  BY DEF Good, Typed
<1>3. x \in AnyItem /\ x.id = counter /\ ~ x.tmf
  BY <1>2 DEF Item, AnyItem
<1> HIDE DEF x
<1>4. q \in Seq(AnyItem) /\ Distinct(q) /\ Elems(q) = {x}
  BY <1>3, OneId DEF Distinct
<1> HIDE DEF q
<1>5. c \in Commands /\ c.old = <<>> /\ c.on = {} /\ c.op = "import" /\ c.new = q
  BY <1>4, AddCommand DEF Ops
<1> HIDE DEF c
<1>6. /\ c.op \notin {"delete", "edit"} /\ c.op # "project"
      /\ counter' \in Nat /\ counter =< counter'
      /\ \A y \in Elems(q) : counter =< y.id /\ y.id < counter' /\ ~ y.tmf
  BY <1>1, <1>2, <1>3, <1>4, <1>5
<1> QED
  BY <1>1, <1>2, <1>4, <1>5, <1>6, AddedGood

LEMMA ImportProjectGood ==
  ASSUME Good, faults' = {}, NEW n \in 1..2, NEW complete \in BOOLEAN, ImportProject(n, complete)
  PROVE  Good'
<1> DEFINE q == [j \in 1..n |-> Item(counter + j - 1, Object, TRUE)]
           c == Command("project", <<>>, q, {})
<1>1. /\ Ready /\ Push(c) /\ meshes' = Made(meshes, q) /\ resetList' = WithEntries(resetList, Elems(q))
      /\ counter' = counter + n /\ clipboard' = clipboard /\ loop' = loop /\ crash' = crash
  BY DEF ImportProject
<1>2. counter \in Nat /\ clipboard \in Seq(Files \cup {Object}) /\ n \in Nat
  <2>1. n \in Nat
    OBVIOUS
  <2> QED
    BY <2>1 DEF Good, Typed
<1>3. /\ q \in Seq(AnyItem) /\ DOMAIN q = 1..n
      /\ \A j \in 1..n : q[j].id = counter + j - 1 /\ q[j].tmf /\ q[j].src = Object
  <2>1. \A j \in 1..n : counter + j - 1 \in Nat
    BY <1>2
  <2> QED
    BY <2>1, <1>2 DEF Item, AnyItem
<1> HIDE DEF q
<1>4. \A j \in 1..n : counter =< q[j].id /\ q[j].id < counter + n
  BY <1>2, <1>3
<1>5. Distinct(q)
  <2> SUFFICES ASSUME NEW j \in 1..n, NEW k \in 1..n, counter + j - 1 = counter + k - 1
               PROVE  j = k
    BY <1>3 DEF Distinct
  <2> QED
    BY <1>2
<1>6. c \in Commands /\ c.old = <<>> /\ c.on = {} /\ c.op = "project" /\ c.new = q
  BY <1>3, AddCommand DEF Ops
<1>7. \A x \in Elems(q) : counter =< x.id /\ x.id < counter' /\ x.tmf /\ x.src = Object
  BY <1>1, <1>3, <1>4 DEF Elems
<1> HIDE DEF c
<1>8. c.op \notin {"delete", "edit"} /\ counter' \in Nat /\ counter =< counter'
  BY <1>1, <1>2, <1>6
<1> QED
  BY <1>1, <1>2, <1>3, <1>5, <1>6, <1>7, <1>8, AddedGood

(* Whatever order the hash set gives the ids, the command has the copies   *)
(* that were made, as long as equal places hold equal sources.             *)
LEMMA PasteGood ==
  ASSUME Good, faults' = {}, NEW k \in 1..Len(clipboard), NEW p \in Orders(k), Paste(k, p)
  PROVE  Good'
<1> DEFINE q == [j \in 1..k |-> Item(counter + j - 1, clipboard[j], FALSE)]
           r == [j \in 1..k |-> Item(counter + p[j] - 1, clipboard[j], FALSE)]
           c == [Command("paste", <<>>, r, {}) EXCEPT !.cut = k < Len(clipboard)]
<1>1. /\ Ready /\ Push(c) /\ meshes' = Made(meshes, q) /\ resetList' = resetList
      /\ counter' = counter + k /\ clipboard' = clipboard /\ loop' = loop /\ crash' = crash
  BY DEF Paste
<1>2. \A j \in 1..k : clipboard[p[j]] = clipboard[j]
  BY DEF Paste
<1>3. counter \in Nat /\ clipboard \in Seq(Files \cup {Object}) /\ k \in Nat
  <2>1. counter \in Nat /\ clipboard \in Seq(Files \cup {Object})
    BY DEF Good, Typed
  <2>2. Len(clipboard) \in Nat
    BY <2>1, LenProperties
  <2> QED
    BY <2>1, <2>2
<1>4. /\ p \in [1..k -> 1..k] /\ \A i \in 1..k : \E j \in 1..k : p[j] = i
      /\ \A i, j \in 1..k : p[i] = p[j] => i = j
  BY DEF Orders
<1>5. \A j \in 1..k : clipboard[j] \in Files \cup {Object} /\ p[j] \in 1..k /\ counter + j - 1 \in Nat
  <2>0. \A j \in 1..k : p[j] \in 1..k
    BY <1>4
  <2>1. \A j \in 1..k : counter + j - 1 \in Nat
    BY <1>3
  <2>2. \A j \in 1..k : j \in 1..Len(clipboard)
    BY <1>3, LenProperties
  <2> QED
    BY <2>0, <2>1, <2>2, <1>3, ElementOfSeq
<1>6. /\ q \in Seq(AnyItem) /\ DOMAIN q = 1..k
      /\ \A j \in 1..k : q[j].id = counter + j - 1 /\ ~ q[j].tmf
  BY <1>3, <1>5 DEF Item, AnyItem
<1>7. DOMAIN r = 1..k /\ \A j \in 1..k : r[j] = q[p[j]]
  BY <1>2, <1>5
<1> HIDE DEF q, r
<1>8. r \in Seq(AnyItem)
  <2>1. \A j \in 1..k : q[j] \in AnyItem
    BY <1>6, ElementOfSeq, LenProperties
  <2>2. \A j \in 1..k : r[j] \in AnyItem
    BY <2>1, <1>5, <1>7
  <2>3. r = [j \in 1..k |-> r[j]]
    BY DEF r
  <2> QED
    BY <2>2, <2>3, <1>3
<1>9. Distinct(q)
  <2> SUFFICES ASSUME NEW i \in 1..k, NEW j \in 1..k, counter + i - 1 = counter + j - 1
               PROVE  i = j
    BY <1>6 DEF Distinct
  <2> QED
    BY <1>3
<1>10. Distinct(r)
  <2> SUFFICES ASSUME NEW i \in 1..k, NEW j \in 1..k, q[p[i]].id = q[p[j]].id
               PROVE  i = j
    BY <1>7 DEF Distinct
  <2>1. p[i] = p[j]
    BY <1>5, <1>6, <1>9 DEF Distinct
  <2> QED
    BY <2>1, <1>4
<1>11. Elems(r) = Elems(q)
  <2>1. Elems(r) \subseteq Elems(q)
    BY <1>4, <1>6, <1>7 DEF Elems
  <2>2. ASSUME NEW i \in 1..k
        PROVE  q[i] \in Elems(r)
    <3>1. PICK j \in 1..k : p[j] = i
      BY <1>4
    <3> QED
      BY <3>1, <1>7 DEF Elems
  <2> QED
    BY <2>1, <2>2, <1>6 DEF Elems
<1>12. c \in Commands /\ c.old = <<>> /\ c.on = {} /\ c.op = "paste" /\ c.new = r
  <2> DEFINE d == Command("paste", <<>>, r, {})
  <2>1. d \in Commands /\ d.old = <<>> /\ d.on = {} /\ d.op = "paste" /\ d.new = r
    BY <1>8, AddCommand DEF Ops
  <2> DEFINE b == k < Len(clipboard)
  <2>2. b \in BOOLEAN /\ c = [d EXCEPT !.cut = b]
    OBVIOUS
  <2> HIDE DEF b, c, d
  <2> QED
    BY <2>1, <2>2, CutTyped
<1>13. \A x \in Elems(q) : counter =< x.id /\ x.id < counter' /\ ~ x.tmf
  <2>1. \A j \in 1..k : counter =< q[j].id /\ q[j].id < counter + k
    BY <1>3, <1>6
  <2> QED
    BY <2>1, <1>1, <1>6 DEF Elems
<1> HIDE DEF c
<1>14. c.op \notin {"delete", "edit"} /\ c.op # "project" /\ counter' \in Nat /\ counter =< counter'
  BY <1>1, <1>3, <1>12
<1>15. {} \subseteq Elems(q) /\ \A x \in Elems(q) : x.tmf => x \in {} /\ x.src = Object
  BY <1>13
<1> QED
  BY <1>1, <1>3, <1>6, <1>9, <1>10, <1>11, <1>12, <1>13, <1>14, <1>15, AddedGood

(* What delMeshes() takes from the list, and what it leaves.               *)
LEMMA Taken ==
  ASSUME Good, View(meshes) = Here, NEW q \in Listings(Found(meshes, selected))
  PROVE  /\ q \in Seq(AnyItem) /\ Distinct(q) /\ Elems(q) = {x \in Here : x.id \in selected}
         /\ View(Without(meshes, selected)) = Here \ Elems(q) /\ OneEach(Without(meshes, selected))
<1>1. OneEach(meshes) /\ Here \subseteq AnyItem
  BY HereKnown DEF Good
<1>2. View(Found(meshes, selected)) = {x \in Here : x.id \in selected}
  BY <1>1, FoundView
<1>3. q \in Seq(AnyItem) /\ Elems(q) = View(Found(meshes, selected)) /\ Distinct(q)
  BY <1>1, <1>2, ListingFacts
<1>4. View(Without(meshes, selected)) = {x \in Here : x.id \notin selected}
  BY <1>1, WithoutView
<1> QED
  BY <1>1, <1>2, <1>3, <1>4, WithoutView

LEMMA DeleteGood ==
  ASSUME Good, Delete
  PROVE  Good'
<1>1. View(meshes) = Here /\ Ready
  BY DEF Delete, Good, Looping, Ready, Idle
<1>2. PICK q \in Listings(Found(meshes, selected)) : Push(Command("delete", q, <<>>, {}))
  BY DEF Delete
<1> DEFINE new == <<>>
           on == {}
           X == {}
           c == Command("delete", q, new, on)
<1>3. /\ q \in Seq(AnyItem) /\ Distinct(q) /\ Elems(q) \subseteq Here
      /\ View(meshes') = Here \ Elems(q) /\ OneEach(meshes')
  BY <1>1, Taken DEF Delete
<1>4. new \in Seq(AnyItem) /\ on \in SUBSET Nat /\ Elems(new) = {} /\ Distinct(new)
  BY NoItems
<1>5. "delete" \in Ops
  BY DEF Ops
<1>6. on \subseteq IdsOf(Here) /\ X \subseteq View(meshes') /\ X = {}
  OBVIOUS
<1> HIDE DEF new, on, X
<1>7. c \in Commands /\ c.op = "delete" /\ c.old = q /\ c.new = new /\ c.on = on
  BY <1>3, <1>4, <1>5, CommandTyped
<1>8. Push(c)
  BY <1>2 DEF new, on
<1> HIDE DEF c
<1>9. Leads(Here, c, View(meshes'))
  BY <1>3, <1>4, <1>6, <1>7 DEF Leads
<1>10. View(meshes') \subseteq Known /\ View(meshes') \subseteq AnyItem
  BY <1>3, HereKnown
<1>11. counter' = counter /\ clipboard' = clipboard /\ resetList' = resetList /\ loop' = Idle /\ crash' = crash
  BY <1>1 DEF Delete, Ready
<1>12. counter \in Nat /\ clipboard \in Seq(Files \cup {Object})
  BY DEF Good, Typed
<1>13. counter' \in Nat /\ counter =< counter' /\ clipboard' \in Seq(Files \cup {Object})
  BY <1>11, <1>12
<1> QED
  BY <1>3, <1>6, <1>7, <1>8, <1>9, <1>10, <1>11, <1>13, PushedGood

LEMMA EditGood ==
  ASSUME SelectionLive, Good, Edit
  PROVE  Good'
<1>1. View(meshes) = Here /\ Ready
  BY DEF Edit, Good, Looping, Ready, Idle
<1>2. clipboard \in Seq(Files \cup {Object}) /\ counter \in Nat
  BY DEF Good, Typed
<1>3. CASE Crashes("no current mesh")
  <2>1. /\ UNCHANGED <<meshes, counter, resetList, stack, cursor, views, loop, clipboard, selected>>
        /\ crash' \notin {"no", "mesh gone"}
    BY <1>3 DEF Crashes, document, undo
  <2> QED
    BY <2>1, <1>2, StillGood
<1>4. CASE UNCHANGED <<document, loop, crash, faults>> /\ Push(Command("edit", <<>>, <<>>, selected))
  <2> DEFINE e == <<>>
             X == {}
             c == Command("edit", e, e, selected)
  <2>1. e \in Seq(AnyItem) /\ Elems(e) = {} /\ Distinct(e)
    BY NoItems
  <2>2. "edit" \in Ops
    BY DEF Ops
  <2>3. selected \subseteq IdsOf(Here) /\ selected \in SUBSET Nat
    <3>1. selected \subseteq IdsOf(Here)
      BY <1>1, ViewIds DEF SelectionLive
    <3>2. \A x \in Here : x.id \in Nat
      BY HereKnown DEF AnyItem
    <3> QED
      BY <3>1, <3>2 DEF IdsOf
  <2>4. Push(c)
    BY <1>4
  <2>5. X = {} /\ X \subseteq View(meshes')
    OBVIOUS
  <2> HIDE DEF e, X
  <2>6. c \in Commands /\ c.op = "edit" /\ c.old = e /\ c.new = e /\ c.on = selected
    BY <2>1, <2>2, <2>3, CommandTyped
  <2> HIDE DEF c
  <2>7. View(meshes') = Here /\ OneEach(meshes')
    BY <1>4, <1>1 DEF document, Good
  <2>8. Leads(Here, c, View(meshes'))
    BY <2>1, <2>3, <2>6, <2>7 DEF Leads
  <2>9. View(meshes') \subseteq Known /\ View(meshes') \subseteq AnyItem
    BY <2>7, HereKnown
  <2>10. counter' = counter /\ clipboard' = clipboard /\ resetList' = resetList /\ loop' = Idle /\ crash' = crash
    BY <1>1, <1>4 DEF document, Ready
  <2>11. counter' \in Nat /\ counter =< counter' /\ clipboard' \in Seq(Files \cup {Object})
    BY <1>2, <2>10
  <2> QED
    BY <2>4, <2>5, <2>6, <2>7, <2>8, <2>9, <2>10, <2>11, PushedGood
<1> QED
  BY <1>3, <1>4 DEF Edit

LEMMA SaveGood ==
  ASSUME Good, Save
  PROVE  Good'
<1>1. /\ UNCHANGED <<meshes, counter, clipboard, resetList, loop, crash>> /\ loop = Idle /\ crash = "no"
      /\ stack' = <<>> /\ cursor' = 0 /\ views' = <<View(meshes)>>
  BY DEF Save, document, Ready
<1>2. View(meshes) \subseteq AnyItem
  BY HereKnown
<1> DEFINE w == View(meshes)
<1>3. w \in SUBSET AnyItem /\ View(meshes') = w
  BY <1>1, <1>2
<1> HIDE DEF w
<1>4. /\ stack' \in Seq(Commands) /\ Len(stack') = 0
      /\ views' \in Seq(SUBSET AnyItem) /\ Len(views') = 1 /\ views'[1] = w
  BY <1>1, <1>3, EmptySeq DEF w
<1>5. Known' = w
  BY <1>3, <1>4 DEF Known
<1>6. Typed'
  BY <1>1, <1>3, <1>4 DEF Good, Typed
<1>7. History'
  BY <1>4 DEF History
<1>8. w \subseteq Known /\ Known \subseteq AnyItem /\ counter \in Nat
  BY HereKnown DEF w
<1>9. KnownIds' /\ OneEach(meshes')
  BY <1>1, <1>5, <1>8 DEF Good, KnownIds
<1>10. Entries'
  <2> DEFINE X == {}
  <2>1. EntriesOf(resetList, Known, counter) /\ X = {} /\ X \subseteq w
    BY DEF Good, Entries
  <2>2. \A x \in Known : x.id < counter /\ \A y \in Known : x.id = y.id => x = y
    BY DEF Good, KnownIds
  <2> HIDE DEF X
  <2>3. /\ resetList' = resetList \/ resetList' = WithEntries(resetList, X)
        /\ X = {} \/ resetList' = WithEntries(resetList, X)
    BY <1>1, <2>1
  <2>4. EntriesOf(resetList', w, counter)
    BY <1>8, <2>1, <2>2, <2>3, EntriesStay
  <2> QED
    BY <2>4, <1>1, <1>5 DEF Entries
<1>11. Looping' /\ crash' # "mesh gone"
  BY <1>1, <1>3, <1>4 DEF Looping, Here, Idle
<1> QED
  BY <1>6, <1>7, <1>9, <1>10, <1>11 DEF Good
-----------------------------------------------------------------------------
(* The reset and its loop.                                                 *)
LEMMA ResetGood ==
  ASSUME Good, Reset
  PROVE  Good'
<1>1. View(meshes) = Here /\ Ready
  BY DEF Reset, Good, Looping, Ready, Idle
<1>2. PICK q \in Listings(Found(meshes, selected)) : loop' = [op |-> "reset", old |-> q, todo |-> q]
  BY DEF Reset
<1>3. /\ q \in Seq(AnyItem) /\ Distinct(q) /\ Elems(q) = {x \in Here : x.id \in selected}
      /\ View(meshes') = Here \ Elems(q) /\ OneEach(meshes')
  BY <1>1, Taken DEF Reset
<1>4. /\ UNCHANGED <<stack, views, counter, clipboard>> /\ cursor' = cursor /\ crash' = crash
      /\ resetList' = resetList /\ selected' = {}
  BY DEF Reset, undo
<1>5. View(meshes') \subseteq Known
  BY <1>3, HereKnown
<1>6. cursor' \in 0..Len(stack)
  BY <1>4 DEF Good, Typed
<1>7. loop' \in [op : {"none", "reset", "redo"}, old : Seq(AnyItem), todo : Seq(AnyItem)]
  BY <1>2, <1>3
<1>8. Here' = Here
  BY <1>4 DEF Here
<1>9. Ids(q) \cap IdsOf(meshes') = {}
  <2>1. \A x \in Elems(q), y \in View(meshes') : x.id # y.id
    BY <1>3
  <2>2. Ids(q) \cap IdsOf(View(meshes')) = {}
    BY <2>1 DEF Ids, IdsOf
  <2> QED
    BY <2>2, ViewIds
<1>10. loop'.old = q /\ loop'.todo = q /\ loop'.op = "reset"
  BY <1>2
<1>11. ResetLoop'
  BY <1>3, <1>4, <1>8, <1>9, <1>10 DEF ResetLoop
<1>12. Looping'
  BY <1>10, <1>11 DEF Looping
<1> DEFINE X == {}
<1>13. X = {} /\ X \subseteq Known' /\ crash' # "mesh gone"
  BY <1>4 DEF Good
<1> HIDE DEF X
<1> QED
  BY <1>3, <1>4, <1>5, <1>6, <1>7, <1>12, <1>13, MovedGood

(* A mesh brought back, whatever its id, as long as no other has it.       *)
LEMMA BroughtBack ==
  ASSUME Good, Resetting, ResetNext, NEW y \in AnyItem, meshes' = Made(meshes, <<y>>),
         selected' = selected \cup {y.id}, UNCHANGED <<views, cursor, crash>>,
         y.id \notin IdsOf(meshes), y.id \notin Ids(Tail(loop.todo))
  PROVE  /\ Looping' /\ OneEach(meshes') /\ View(meshes') = View(meshes) \cup {y}
         /\ loop' \in [op : {"none", "reset", "redo"}, old : Seq(AnyItem), todo : Seq(AnyItem)]
<1> DEFINE q == <<y>>
<1>1. Elems(q) = {y} /\ Ids(q) = {y.id} /\ Distinct(q)
  BY OneId DEF Distinct
<1>2. meshes' = Made(meshes, q)
  OBVIOUS
<1> HIDE DEF q
<1>3. OneEach(meshes') /\ View(meshes') = View(meshes) \cup {y} /\ IdsOf(meshes') = IdsOf(meshes) \cup {y.id}
  <2>1. Elems(q) \subseteq AnyItem /\ Ids(q) \cap IdsOf(meshes) = {} /\ OneEach(meshes)
    BY <1>1 DEF Good
  <2>2. View(meshes') = View(meshes) \cup {y}
    BY <1>1, <1>2, <2>1, MadeView
  <2>3. IdsOf(meshes') = IdsOf(meshes) \cup {y.id}
    BY <1>1, <1>2, MadeIds
  <2> QED
    BY <1>1, <1>2, <2>1, <2>2, <2>3, MadeOneEach
<1>4. /\ ResetLoop /\ loop.todo \in Seq(AnyItem) /\ loop.todo # <<>> /\ loop.old \in Seq(AnyItem)
      /\ loop'.op = "reset" /\ loop'.old = loop.old /\ loop'.todo = Tail(loop.todo)
  BY DEF Good, Typed, Looping, Resetting, ResetNext
<1>5. /\ Tail(loop.todo) \in Seq(AnyItem) /\ Distinct(Tail(loop.todo))
      /\ Elems(Tail(loop.todo)) \subseteq Elems(loop.todo)
  BY <1>4, HeadAndTail DEF ResetLoop
<1>6. loop' \in [op : {"none", "reset", "redo"}, old : Seq(AnyItem), todo : Seq(AnyItem)]
  BY <1>4, <1>5 DEF ResetNext
<1>7. Here' = Here
  BY DEF Here
<1>8. Ids(loop'.todo) \cap IdsOf(meshes') = {}
  <2>1. Ids(Tail(loop.todo)) \subseteq Ids(loop.todo)
    BY <1>5 DEF Ids, IdsOf
  <2>2. Ids(loop.todo) \cap IdsOf(meshes) = {}
    BY <1>4 DEF ResetLoop
  <2> QED
    BY <2>1, <2>2, <1>3, <1>4
<1>9. \A x \in Here \ Elems(loop.old) : x.id \notin selected'
  <2>1. \A x \in Here \ Elems(loop.old) : x.id \notin selected /\ x \in View(meshes)
    BY <1>4 DEF ResetLoop
  <2>2. \A x \in View(meshes) : x.id # y.id
    BY ViewIds DEF IdsOf
  <2> QED
    BY <2>1, <2>2
<1>10. \A x \in View(meshes') : x.id \in selected' \/ x \in Here \ Elems(loop.old)
  BY <1>3, <1>4 DEF ResetLoop
<1>11. ResetLoop'
  <2>1. Elems(loop'.old) \subseteq Here' /\ Distinct(loop'.old)
    BY <1>4, <1>7 DEF ResetLoop
  <2>2. Distinct(loop'.todo) /\ Elems(loop'.todo) \subseteq Elems(loop'.old)
    BY <1>4, <1>5 DEF ResetLoop
  <2>3. Here' \ Elems(loop'.old) \subseteq View(meshes')
    BY <1>3, <1>4, <1>7 DEF ResetLoop
  <2> QED
    BY <2>1, <2>2, <2>3, <1>4, <1>7, <1>8, <1>9, <1>10 DEF ResetLoop
<1> QED
  BY <1>3, <1>4, <1>6, <1>11 DEF Looping

LEMMA ToBringBack ==
  ASSUME Good, Resetting
  PROVE  /\ Head(loop.todo) \in Known /\ Head(loop.todo).id \notin IdsOf(meshes)
         /\ Head(loop.todo).id \notin Ids(Tail(loop.todo))
         /\ \A x \in Elems(Tail(loop.todo)) : x \in Known
<1>1. ResetLoop /\ loop.todo \in Seq(AnyItem) /\ loop.todo # <<>>
  BY DEF Good, Typed, Looping, Resetting
<1>2. /\ Elems(loop.todo) = {Head(loop.todo)} \cup Elems(Tail(loop.todo))
      /\ Head(loop.todo).id \notin Ids(Tail(loop.todo))
  BY <1>1, HeadAndTail DEF ResetLoop
<1>3. Elems(loop.todo) \subseteq Known
  BY <1>1, HereKnown DEF ResetLoop
<1>4. Head(loop.todo).id \in Ids(loop.todo)
  BY <1>2 DEF Ids, IdsOf
<1> QED
  BY <1>1, <1>2, <1>3, <1>4 DEF ResetLoop

(* An entry of a known mesh is that mesh, when it is a 3mf object.         *)
LEMMA EntryIs ==
  ASSUME Good, NEW x \in Known, x.id \in DOMAIN resetList, resetList[x.id].tmf
  PROVE  Item(x.id, resetList[x.id].src, TRUE) = x /\ x.tmf
<1>1. x \in AnyItem
  BY HereKnown
<1>2. resetList[x.id].src = Object /\ resetList[x.id].tmf = x.tmf /\ (x.tmf => x.src = Object)
  BY DEF Good, Entries, EntriesOf
<1>3. x.tmf = TRUE
  BY <1>1, <1>2 DEF AnyItem
<1>4. x = [id |-> x.id, src |-> x.src, tmf |-> x.tmf]
  BY <1>1 DEF AnyItem
<1> QED
  BY <1>2, <1>3, <1>4 DEF Item

LEMMA ResetObjectGood ==
  ASSUME Good, ResetObject
  PROVE  Good'
<1> DEFINE x == Head(loop.todo)
           y == Item(x.id, resetList[x.id].src, TRUE)
           X == {}
<1>1. Resetting /\ ResetNext /\ x.id \in DOMAIN resetList /\ resetList[x.id].tmf
      /\ meshes' = Made(meshes, <<y>>) /\ selected' = selected \cup {x.id}
      /\ UNCHANGED <<counter, clipboard, resetList, undo, crash>>
  BY DEF ResetObject
<1>2. x \in Known /\ x.id \notin IdsOf(meshes) /\ x.id \notin Ids(Tail(loop.todo))
  BY <1>1, ToBringBack
<1> HIDE DEF x
<1>3. y = x /\ x \in AnyItem
  BY <1>1, <1>2, EntryIs, HereKnown
<1> HIDE DEF y
<1>4. UNCHANGED <<stack, views, cursor>>
  BY <1>1 DEF undo
<1>5. /\ Looping' /\ OneEach(meshes') /\ View(meshes') = View(meshes) \cup {x}
      /\ loop' \in [op : {"none", "reset", "redo"}, old : Seq(AnyItem), todo : Seq(AnyItem)]
  BY <1>1, <1>2, <1>3, <1>4, BroughtBack
<1>6. View(meshes') \subseteq Known
  BY <1>2, <1>5, HereKnown
<1>7. cursor' \in 0..Len(stack) /\ crash' # "mesh gone"
  BY <1>1, <1>4 DEF Good, Typed
<1>8. X = {} /\ X \subseteq Known'
  OBVIOUS
<1> HIDE DEF X
<1> QED
  BY <1>1, <1>4, <1>5, <1>6, <1>7, <1>8, MovedGood

LEMMA ResetFileGood ==
  ASSUME Good, NEW f \in Files, ResetFile(f)
  PROVE  Good'
<1> DEFINE x == Head(loop.todo)
           y == Item(counter, f, FALSE)
           X == Elems(<<y>>)
           r == WithEntries(resetList, X)
<1>1. /\ Resetting /\ ResetNext /\ x.id \in DOMAIN resetList /\ ~ resetList[x.id].tmf
      /\ meshes' = Made(meshes, <<y>>) /\ selected' = selected \cup {counter}
      /\ UNCHANGED <<clipboard, undo, crash>> /\ counter' = counter + 1
      /\ resetList' = WithoutEntry(r, x.id)
  BY DEF ResetFile
<1>2. x \in Known /\ \A z \in Elems(Tail(loop.todo)) : z \in Known
  BY <1>1, ToBringBack
<1>3. counter \in Nat /\ Known \subseteq AnyItem /\ View(meshes) \subseteq Known
  BY HereKnown
<1>4. y \in AnyItem /\ y.id = counter /\ y.tmf = FALSE
  BY <1>3 DEF Item, AnyItem
<1> HIDE DEF x
<1>5. \A z \in Known : z.id \in Nat /\ z.id < counter
  BY <1>3 DEF Good, KnownIds, AnyItem
<1>6. y.id \notin IdsOf(meshes) /\ y.id \notin Ids(Tail(loop.todo))
  <2>1. \A z \in Known : z.id # counter
    BY <1>3, <1>5
  <2>2. y.id \notin IdsOf(View(meshes))
    BY <2>1, <1>3, <1>4 DEF IdsOf
  <2>3. y.id \notin Ids(Tail(loop.todo))
    BY <2>1, <1>2, <1>4 DEF Ids, IdsOf
  <2> QED
    BY <2>2, <2>3, ViewIds
<1>7. X = {y}
  BY OneId
<1> HIDE DEF y
<1>8. UNCHANGED <<stack, views, cursor>>
  BY <1>1 DEF undo
<1>9. /\ Looping' /\ OneEach(meshes') /\ View(meshes') = View(meshes) \cup {y}
      /\ loop' \in [op : {"none", "reset", "redo"}, old : Seq(AnyItem), todo : Seq(AnyItem)]
  BY <1>1, <1>4, <1>6, <1>8, BroughtBack
<1> HIDE DEF X, r
<1>10. View(meshes') \subseteq AnyItem /\ Known' \subseteq Known \cup {y} /\ x \in Known \cup {y}
  <2>1. Known' = View(meshes') \cup UNION {views[k] : k \in 1..Len(views)}
    BY <1>8 DEF Known
  <2>2. UNION {views[k] : k \in 1..Len(views)} \subseteq Known
    BY DEF Known
  <2> QED
    BY <2>1, <2>2, <1>2, <1>3, <1>4, <1>9
<1>11. counter' \in Nat /\ counter =< counter' /\ counter < counter'
  BY <1>1, <1>3
<1>12. KnownIds'
  <2>1. Typed /\ KnownIds
    BY DEF Good
  <2>2. \A z \in View(meshes') : z \in Known \/ (counter =< z.id /\ z.id < counter')
    BY <1>3, <1>4, <1>9, <1>11
  <2>3. Known' \subseteq Known \cup View(meshes')
    BY <1>9, <1>10
  <2> QED
    BY <2>1, <2>2, <2>3, <1>9, <1>10, <1>11, KnownKept
<1>13. Typed'
  BY <1>1, <1>8, <1>9, <1>10, <1>11 DEF Good, Typed
<1>14. History'
  BY <1>8 DEF Good, History
<1>15. Entries'
  <2> DEFINE L == Known'
             d == counter'
  <2>1. EntriesOf(resetList, Known, counter)
    BY DEF Good, Entries
  <2>2. L \subseteq AnyItem /\ X \subseteq L
    <3>1. Typed'
      BY <1>13
    <3>2. y \in View(meshes')
      BY <1>9
    <3> QED
      BY <3>2, <1>3, <1>4, <1>7, <1>10 DEF Known
  <2>3. \A z \in L : z.id < d /\ \A w \in L : z.id = w.id => z = w
    BY <1>12 DEF KnownIds
  <2>4. \A z \in L : z \in Known \/ (counter =< z.id /\ (z.tmf => z \in X /\ z.src = Object))
    BY <1>3, <1>4, <1>10
  <2>5. \A i \in Nat : i < counter => i < d
    BY <1>3, <1>11
  <2>6. d \in Nat /\ (r = resetList \/ r = WithEntries(resetList, X)) /\ (X = {} \/ r = WithEntries(resetList, X))
    BY <1>11 DEF r
  <2>7. \A z \in L : z.id = x.id => ~ z.tmf
    <3>1. x.id < counter /\ ~ x.tmf
      BY <1>1, <1>2, <1>5 DEF Good, Entries, EntriesOf
    <3>2. x.id # y.id
      BY <1>3, <1>4, <3>1
    <3>3. \A z \in L : z.id = x.id => z = x
      BY <1>2, <1>10, <3>2 DEF Good, KnownIds
    <3> QED
      BY <3>1, <3>3
  <2> HIDE DEF L, d
  <2>8. EntriesOf(r, L, d)
    BY <2>1, <2>2, <2>3, <2>4, <2>5, <2>6, <1>3, EntriesGrow
  <2>9. EntriesOf(WithoutEntry(r, x.id), L, d)
    BY <2>7, <2>8, EntryDropped
  <2> QED
    BY <2>9, <1>1 DEF Entries, L, d
<1>16. crash' # "mesh gone"
  BY <1>1 DEF Good
<1> QED
  BY <1>9, <1>12, <1>13, <1>14, <1>15, <1>16 DEF Good

LEMMA ResetDoneGood ==
  ASSUME Good, ResetDone
  PROVE  Good'
<1>1. PICK q \in Listings(Found(meshes, selected)) : Push(Command("reset", loop.old, q, {}))
  BY DEF ResetDone
<1> DEFINE old == loop.old
           on == {}
           X == {}
           c == Command("reset", old, q, on)
<1>2. /\ ResetLoop /\ old \in Seq(AnyItem) /\ UNCHANGED <<document, crash>> /\ loop' = Idle
      /\ OneEach(meshes) /\ counter \in Nat /\ clipboard \in Seq(Files \cup {Object})
  BY DEF Good, Typed, Looping, ResetDone
<1>3. /\ Elems(old) \subseteq Here /\ Distinct(old)
      /\ Here \ Elems(old) \subseteq View(meshes)
      /\ \A x \in View(meshes) : x.id \in selected \/ x \in Here \ Elems(old)
      /\ \A x \in Here \ Elems(old) : x.id \notin selected
  BY <1>2 DEF ResetLoop
<1>4. q \in Seq(AnyItem) /\ Distinct(q) /\ Elems(q) = {x \in View(meshes) : x.id \in selected}
  <2>1. View(Found(meshes, selected)) = {x \in View(meshes) : x.id \in selected}
    BY <1>2, FoundView
  <2>2. View(Found(meshes, selected)) \subseteq AnyItem
    BY <2>1, HereKnown
  <2> QED
    BY <2>1, <2>2, ListingFacts
<1>5. on \in SUBSET Nat /\ "reset" \in Ops /\ on \subseteq IdsOf(Here) /\ X = {} /\ X \subseteq View(meshes')
  BY DEF Ops
<1>6. Push(c)
  BY <1>1
<1> HIDE DEF old, on, X
<1>7. c \in Commands /\ c.op = "reset" /\ c.old = old /\ c.new = q /\ c.on = on
  BY <1>2, <1>4, <1>5, CommandTyped
<1> HIDE DEF c
<1>8. meshes' = meshes /\ View(meshes') = View(meshes)
  BY <1>2 DEF document
<1>9. View(meshes) = (Here \ Elems(old)) \cup Elems(q)
  BY <1>3, <1>4
<1>10. \A x \in Elems(q), v \in Here \ Elems(old) : x.id # v.id
  BY <1>3, <1>4
<1>11. Leads(Here, c, View(meshes'))
  BY <1>3, <1>4, <1>5, <1>7, <1>8, <1>9, <1>10 DEF Leads
<1>12. View(meshes') \subseteq Known /\ View(meshes') \subseteq AnyItem /\ OneEach(meshes')
  BY <1>2, <1>8, HereKnown
<1>13. counter' = counter /\ clipboard' = clipboard /\ resetList' = resetList /\ loop' = Idle /\ crash' = crash
  BY <1>2 DEF document
<1>14. counter' \in Nat /\ counter =< counter' /\ clipboard' \in Seq(Files \cup {Object})
  BY <1>2, <1>13
<1> QED
  BY <1>5, <1>6, <1>7, <1>11, <1>12, <1>13, <1>14, PushedGood
-----------------------------------------------------------------------------
(* Undo and redo.                                                          *)
LEMMA Removed ==
  ASSUME Good, NEW q, Elems(q) \subseteq Known
  PROVE  /\ View(Without(meshes, Ids(q))) = View(meshes) \ Elems(q)
         /\ OneEach(Without(meshes, Ids(q)))
<1>1. /\ View(Without(meshes, Ids(q))) = {x \in View(meshes) : x.id \notin Ids(q)}
      /\ OneEach(Without(meshes, Ids(q)))
  BY WithoutView DEF Good
<1>2. ASSUME NEW x \in View(meshes)
      PROVE  x.id \in Ids(q) <=> x \in Elems(q)
  <2>1. x \in Elems(q) => x.id \in Ids(q)
    BY DEF Ids, IdsOf
  <2>2. ASSUME x.id \in Ids(q)
        PROVE  x \in Elems(q)
    <3>1. PICK y \in Elems(q) : y.id = x.id
      BY <2>2 DEF Ids, IdsOf
    <3>2. x \in Known /\ y \in Known
      BY HereKnown
    <3>3. x = y
      BY <3>1, <3>2, HereKnown
    <3> QED
      BY <3>3
  <2> QED
    BY <2>1, <2>2
<1> QED
  BY <1>1, <1>2

LEMMA Restored ==
  ASSUME Good, NEW S, OneEach(S), View(S) \subseteq Known,
         NEW q, Elems(q) \subseteq Known, Distinct(q), Elems(q) \cap View(S) = {}
  PROVE  View(Made(S, q)) = View(S) \cup Elems(q) /\ OneEach(Made(S, q))
<1>1. Elems(q) \subseteq AnyItem
  BY HereKnown
<1>2. ASSUME NEW x \in Elems(q), NEW y \in View(S)
      PROVE  x.id # y.id
  <2>1. x \in Known /\ y \in Known /\ x # y
    OBVIOUS
  <2> QED
    BY <2>1, HereKnown
<1>3. Ids(q) \cap IdsOf(View(S)) = {}
  BY <1>2 DEF Ids, IdsOf
<1> QED
  BY <1>1, <1>3, ViewIds, MadeView, MadeOneEach

LEMMA StepFacts ==
  ASSUME Good, NEW k \in 1..Len(stack)
  PROVE  /\ Leads(views[k], stack[k], views[k + 1]) /\ stack[k] \in Commands
         /\ views[k] \subseteq Known /\ views[k + 1] \subseteq Known
         /\ Elems(stack[k].old) \subseteq Known /\ Elems(stack[k].new) \subseteq Known
         /\ Elems(stack[k].new) \cap (views[k] \ Elems(stack[k].old)) = {}
<1>1. Leads(views[k], stack[k], views[k + 1])
  BY DEF Good, History
<1>2. stack[k] \in Commands
  BY ElementOfSeq DEF Good, Typed
<1>3. k + 1 \in 1..(Len(stack) + 1) /\ k \in 1..(Len(stack) + 1)
  BY HereKnown
<1>4. views[k] \subseteq Known /\ views[k + 1] \subseteq Known
  BY <1>3, HereKnown
<1>5. Elems(stack[k].new) \cap (views[k] \ Elems(stack[k].old)) = {}
  BY <1>1 DEF Leads
<1> QED
  BY <1>1, <1>2, <1>4, <1>5 DEF Leads

LEMMA UndoGood ==
  ASSUME Good, Undo
  PROVE  Good'
<1> DEFINE c == stack[cursor]
           V == views[cursor]
<1>1. /\ View(meshes) = Here /\ Ready /\ cursor > 0 /\ cursor' = cursor - 1
      /\ UNCHANGED <<stack, views>>
  BY DEF Undo, Good, Looping, Ready, Idle
<1>2. /\ cursor \in 1..Len(stack) /\ cursor' \in 0..Len(stack) /\ cursor' + 1 = cursor
  <2>1. cursor \in 0..Len(stack) /\ Len(stack) \in Nat
    BY HereKnown DEF Good, Typed
  <2> QED
    BY <1>1, <2>1
<1>3. /\ Leads(V, c, Here) /\ c \in Commands /\ V \subseteq Known
      /\ Elems(c.old) \subseteq Known /\ Elems(c.new) \subseteq Known
      /\ Elems(c.new) \cap (V \ Elems(c.old)) = {}
  BY <1>2, StepFacts DEF Here
<1>4. Here' = V
  BY <1>1, <1>2 DEF Here
<1>5. /\ clipboard \in Seq(Files \cup {Object}) /\ OneEach(meshes)
      /\ Idle \in [op : {"none", "reset", "redo"}, old : Seq(AnyItem), todo : Seq(AnyItem)]
  BY NoItems DEF Good, Typed, Idle
<1> HIDE DEF c, V
<1>6. CASE c.op = "edit" /\ Edited(c, FALSE)
  <2>1. Elems(c.old) = {} /\ Elems(c.new) = {} /\ c.on \subseteq IdsOf(V)
    BY <1>3, <1>6 DEF Leads
  <2>2. V = Here
    BY <2>1, <1>3 DEF Leads
  <2>3. c.on \subseteq IdsOf(meshes)
    BY <2>1, <2>2, <1>1, ViewIds
  <2>4. UNCHANGED <<meshes, counter, clipboard, resetList, loop, crash>>
    BY <2>3, <1>6 DEF Edited
  <2>5. View(meshes') = V /\ OneEach(meshes') /\ loop' = Idle /\ crash' = "no"
    BY <2>2, <2>4, <1>1, <1>5 DEF Ready
  <2>6. Looping'
    BY <2>5, <1>4 DEF Looping, Idle
  <2> DEFINE X == {}
  <2>7. X = {} /\ X \subseteq Known'
    OBVIOUS
  <2> HIDE DEF X
  <2> QED
    BY <1>1, <1>2, <1>3, <1>5, <2>4, <2>5, <2>6, <2>7, MovedGood
<1>7. CASE c.op # "edit" /\ Undone(c)
  <2> DEFINE rest == Without(meshes, Ids(c.new))
             X == NotTmf(c.old)
  <2>1. View(rest) = V \ Elems(c.old) /\ OneEach(rest)
    <3>1. View(rest) = Here \ Elems(c.new) /\ OneEach(rest)
      BY <1>1, <1>3, Removed
    <3>2. Here \ Elems(c.new) = V \ Elems(c.old)
      BY <1>3 DEF Leads
    <3> QED
      BY <3>1, <3>2
  <2>2. /\ meshes' = Made(rest, c.old) /\ resetList' = WithEntries(resetList, X)
        /\ UNCHANGED <<counter, clipboard, loop, crash>>
    BY <1>7 DEF Undone
  <2> HIDE DEF rest
  <2>3. View(meshes') = V /\ OneEach(meshes')
    <3>1. Distinct(c.old) /\ Elems(c.old) \subseteq V
      BY <1>3 DEF Leads
    <3>2. Elems(c.old) \cap View(rest) = {} /\ View(rest) \subseteq Known
      BY <2>1, <1>3
    <3>3. View(Made(rest, c.old)) = View(rest) \cup Elems(c.old) /\ OneEach(Made(rest, c.old))
      BY <3>1, <3>2, <2>1, <1>3, Restored
    <3> QED
      BY <3>1, <3>3, <2>1, <2>2
  <2>4. X \subseteq Known'
    <3>1. X \subseteq V
      BY <1>3 DEF NotTmf, Leads
    <3> QED
      BY <3>1, <2>3 DEF Known
  <2>5. loop' = Idle /\ crash' = "no"
    BY <2>2, <1>1 DEF Ready
  <2>6. Looping'
    BY <2>3, <2>5, <1>4 DEF Looping, Idle
  <2> HIDE DEF X
  <2> QED
    BY <1>1, <1>2, <1>3, <1>5, <2>2, <2>3, <2>4, <2>5, <2>6, MovedGood
<1> QED
  BY <1>6, <1>7 DEF Undo, c

(* Where a redo starts: the list is the view before its command.           *)
LEMMA RedoFacts ==
  ASSUME Good, Redoing
  PROVE  /\ View(meshes) = Here /\ loop = Idle /\ crash = "no" /\ OneEach(meshes)
         /\ UNCHANGED <<stack, views>> /\ cursor' \in 0..Len(stack)
         /\ Leads(Here, Again, Here') /\ Again \in Commands
         /\ Here \subseteq Known /\ Here' \subseteq Known
         /\ Elems(Again.old) \subseteq Known /\ Elems(Again.new) \subseteq Known
         /\ Elems(Again.new) \cap (Here \ Elems(Again.old)) = {}
         /\ clipboard \in Seq(Files \cup {Object})
<1>1. /\ View(meshes) = Here /\ loop = Idle /\ crash = "no" /\ OneEach(meshes)
      /\ cursor < Len(stack) /\ cursor' = cursor + 1 /\ UNCHANGED <<stack, views>>
      /\ clipboard \in Seq(Files \cup {Object})
  BY DEF Redoing, Ready, Good, Typed, Looping, Idle
<1>2. cursor + 1 \in 1..Len(stack) /\ cursor' \in 0..Len(stack)
  <2>1. cursor \in 0..Len(stack) /\ Len(stack) \in Nat
    BY HereKnown DEF Good, Typed
  <2> QED
    BY <1>1, <2>1
<1>3. Here' = views[cursor + 1 + 1]
  BY <1>1 DEF Here
<1>4. /\ Leads(Here, Again, Here') /\ Again \in Commands
      /\ Here \subseteq Known /\ Here' \subseteq Known
      /\ Elems(Again.old) \subseteq Known /\ Elems(Again.new) \subseteq Known
      /\ Elems(Again.new) \cap (Here \ Elems(Again.old)) = {}
  BY <1>2, <1>3, StepFacts DEF Here, Again
<1> QED
  BY <1>1, <1>2, <1>4

LEMMA RepeatLooping ==
  ASSUME NEW q \in Seq(AnyItem), RepeatFor(q), Distinct(q), Elems(q) \subseteq Here',
         View(meshes') = Here' \ Elems(q)
  PROVE  /\ Looping'
         /\ loop' \in [op : {"none", "reset", "redo"}, old : Seq(AnyItem), todo : Seq(AnyItem)]
<1>1. CASE q = <<>>
  <2>1. loop' = Idle /\ Elems(q) = {}
    BY <1>1, NoItems DEF RepeatFor
  <2>2. Idle \in [op : {"none", "reset", "redo"}, old : Seq(AnyItem), todo : Seq(AnyItem)]
    BY NoItems DEF Idle
  <2>3. Looping'
    BY <2>1 DEF Looping, Idle
  <2> QED
    BY <2>1, <2>2, <2>3
<1>2. CASE q # <<>>
  <2> DEFINE e == <<>>
  <2>1. e \in Seq(AnyItem) /\ loop' = [op |-> "redo", old |-> e, todo |-> q]
    BY <1>2, NoItems DEF RepeatFor
  <2> HIDE DEF e
  <2>2. loop'.op = "redo" /\ loop'.todo = q
    BY <2>1
  <2>3. Looping'
    BY <2>2, <1>2 DEF Looping, RedoLoop
  <2>4. loop' \in [op : {"none", "reset", "redo"}, old : Seq(AnyItem), todo : Seq(AnyItem)]
    BY <2>1
  <2> QED
    BY <2>3, <2>4
<1> QED
  BY <1>1, <1>2

LEMMA RedoEditGood ==
  ASSUME Good, RedoEdit
  PROVE  Good'
<1>1. Redoing /\ Again.op = "edit" /\ Edited(Again, TRUE)
  BY DEF RedoEdit
<1>2. Leads(Here, Again, Here') /\ View(meshes) = Here /\ loop = Idle /\ crash = "no" /\ OneEach(meshes)
  BY <1>1, RedoFacts
<1>3. Elems(Again.old) = {} /\ Elems(Again.new) = {} /\ Again.on \subseteq IdsOf(meshes)
  BY <1>1, <1>2, ViewIds DEF Leads
<1>4. Here' = Here
  BY <1>2, <1>3 DEF Leads
<1>5. UNCHANGED <<meshes, counter, clipboard, resetList, loop, crash>>
  BY <1>1, <1>3 DEF Edited
<1>6. View(meshes') = Here' /\ OneEach(meshes') /\ loop' = Idle /\ crash' # "mesh gone"
  BY <1>2, <1>4, <1>5
<1>7. Looping'
  BY <1>6 DEF Looping, Idle
<1>8. Idle \in [op : {"none", "reset", "redo"}, old : Seq(AnyItem), todo : Seq(AnyItem)]
  BY NoItems DEF Idle
<1> DEFINE X == {}
<1>9. X = {} /\ X \subseteq Known'
  OBVIOUS
<1> HIDE DEF X
<1>10. View(meshes') \subseteq Known
  BY <1>2, <1>4, <1>6, HereKnown
<1> QED
  BY <1>1, <1>5, <1>6, <1>7, <1>8, <1>9, <1>10, RedoFacts, MovedGood

LEMMA RedoImportGood ==
  ASSUME Good, RedoImport
  PROVE  Good'
<1> DEFINE q == Again.new
           X == {}
<1>1. Redoing /\ Again.op = "import" /\ RepeatFor(q) /\ UNCHANGED <<document, crash>>
  BY DEF RedoImport
<1>2. /\ Leads(Here, Again, Here') /\ View(meshes) = Here /\ crash = "no" /\ OneEach(meshes)
      /\ q \in Seq(AnyItem) /\ Elems(q) \cap (Here \ Elems(Again.old)) = {}
  BY <1>1, RedoFacts DEF Commands
<1>3. Elems(Again.old) = {} /\ Distinct(q) /\ Here' = Here \cup Elems(q)
  BY <1>1, <1>2 DEF Leads
<1> HIDE DEF q
<1>4. /\ meshes' = meshes /\ clipboard' = clipboard /\ counter' = counter /\ resetList' = resetList
      /\ crash' = crash
  BY <1>1 DEF document
<1>5. View(meshes') = Here' \ Elems(q) /\ Elems(q) \subseteq Here'
  BY <1>2, <1>3, <1>4
<1>6. /\ Looping'
      /\ loop' \in [op : {"none", "reset", "redo"}, old : Seq(AnyItem), todo : Seq(AnyItem)]
  BY <1>1, <1>2, <1>3, <1>5, RepeatLooping
<1>7. X = {} /\ X \subseteq Known' /\ crash' # "mesh gone" /\ OneEach(meshes')
  BY <1>2, <1>4
<1> HIDE DEF X
<1>8. View(meshes') \subseteq Known
  BY <1>4, HereKnown
<1> QED
  BY <1>1, <1>4, <1>6, <1>7, <1>8, RedoFacts, MovedGood

LEMMA RedoResetGood ==
  ASSUME Good, RedoReset
  PROVE  Good'
<1> DEFINE q == Again.new
           X == {}
<1>1. /\ Redoing /\ meshes' = Without(meshes, Ids(Again.old)) /\ RepeatFor(q)
      /\ UNCHANGED <<counter, clipboard, resetList, crash>>
  BY DEF RedoReset
<1>2. /\ Leads(Here, Again, Here') /\ View(meshes) = Here /\ crash = "no"
      /\ q \in Seq(AnyItem) /\ Elems(q) \cap (Here \ Elems(Again.old)) = {}
      /\ Elems(Again.old) \subseteq Known
  BY <1>1, RedoFacts DEF Commands
<1>3. Distinct(q) /\ Here' = (Here \ Elems(Again.old)) \cup Elems(q)
  BY <1>1, <1>2 DEF Leads
<1>4. View(meshes') = Here \ Elems(Again.old) /\ OneEach(meshes')
  BY <1>1, <1>2, Removed
<1> HIDE DEF q
<1>5. View(meshes') = Here' \ Elems(q) /\ Elems(q) \subseteq Here'
  BY <1>2, <1>3, <1>4
<1>6. /\ Looping'
      /\ loop' \in [op : {"none", "reset", "redo"}, old : Seq(AnyItem), todo : Seq(AnyItem)]
  BY <1>1, <1>2, <1>3, <1>5, RepeatLooping
<1>7. X = {} /\ X \subseteq Known' /\ crash' # "mesh gone"
  BY <1>1, <1>2
<1> HIDE DEF X
<1>8. View(meshes') \subseteq Known
  BY <1>4, HereKnown
<1> QED
  BY <1>1, <1>4, <1>6, <1>7, <1>8, RedoFacts, MovedGood

(* A redo without a loop ends with the view after its command.             *)
LEMMA RedoneGood ==
  ASSUME Good, Redoing, View(meshes') = Here', OneEach(meshes'),
         UNCHANGED <<counter, clipboard, resetList, loop, crash>>
  PROVE  Good'
<1>1. loop' = Idle /\ crash' = "no"
  BY RedoFacts
<1>2. Looping'
  BY <1>1 DEF Looping, Idle
<1>3. Idle \in [op : {"none", "reset", "redo"}, old : Seq(AnyItem), todo : Seq(AnyItem)]
  BY NoItems DEF Idle
<1> DEFINE X == {}
<1>4. X = {} /\ X \subseteq Known' /\ crash' # "mesh gone"
  BY <1>1
<1> HIDE DEF X
<1>5. View(meshes') \subseteq Known
  BY RedoFacts
<1> QED
  BY <1>1, <1>2, <1>3, <1>4, <1>5, RedoFacts, MovedGood

LEMMA RedoDeleteGood ==
  ASSUME Good, RedoDelete
  PROVE  Good'
<1>1. /\ Redoing /\ Again.op = "delete" /\ meshes' = Without(meshes, Ids(Again.old))
      /\ UNCHANGED <<counter, clipboard, resetList, loop, crash>>
  BY DEF RedoDelete
<1>2. /\ Leads(Here, Again, Here') /\ View(meshes) = Here /\ Elems(Again.old) \subseteq Known
  BY <1>1, RedoFacts
<1>3. Here' = Here \ Elems(Again.old)
  BY <1>1, <1>2 DEF Leads
<1>4. View(meshes') = Here \ Elems(Again.old) /\ OneEach(meshes')
  BY <1>1, <1>2, Removed
<1> QED
  BY <1>1, <1>3, <1>4, RedoneGood

LEMMA RedoAddedGood ==
  ASSUME Good, Redoing, Again.op \in {"project", "paste"}, meshes' = Made(meshes, Again.new),
         UNCHANGED <<counter, clipboard, resetList, loop, crash>>
  PROVE  Good'
<1>1. /\ Leads(Here, Again, Here') /\ View(meshes) = Here /\ OneEach(meshes) /\ Here \subseteq Known
      /\ Elems(Again.new) \subseteq Known /\ Elems(Again.new) \cap (Here \ Elems(Again.old)) = {}
  BY RedoFacts
<1>2. Elems(Again.old) = {} /\ Distinct(Again.new) /\ Here' = Here \cup Elems(Again.new)
  BY <1>1 DEF Leads
<1>3. View(meshes') = Here' /\ OneEach(meshes')
  BY <1>1, <1>2, Restored
<1> QED
  BY <1>3, RedoneGood

LEMMA RedoPasteGood ==
  ASSUME Good, RedoPaste
  PROVE  Good'
<1>1. Redoing /\ Again.op = "paste"
  BY DEF RedoPaste
<1>2. CASE Again.cut
  <2>1. /\ UNCHANGED <<meshes, counter, clipboard, resetList, loop>>
        /\ crash' \notin {"no", "mesh gone"}
    BY <1>2 DEF RedoPaste, document
  <2>2. /\ View(meshes) = Here /\ Here \subseteq Known /\ OneEach(meshes) /\ loop = Idle
        /\ UNCHANGED <<stack, views>> /\ cursor' \in 0..Len(stack)
    BY <1>1, RedoFacts
  <2>3. Looping' /\ crash' # "mesh gone" /\ View(meshes') \subseteq Known /\ OneEach(meshes')
    BY <2>1, <2>2 DEF Looping
  <2>4. Idle \in [op : {"none", "reset", "redo"}, old : Seq(AnyItem), todo : Seq(AnyItem)] /\ loop' = Idle
    BY <2>1, <2>2, NoItems DEF Idle
  <2> DEFINE X == {}
  <2>5. X = {} /\ X \subseteq Known'
    OBVIOUS
  <2> HIDE DEF X
  <2> QED
    BY <2>1, <2>2, <2>3, <2>4, <2>5, MovedGood
<1>3. CASE ~ Again.cut
  <2>1. meshes' = Made(meshes, Again.new) /\ UNCHANGED <<counter, clipboard, resetList, loop, crash>>
    BY <1>3 DEF RedoPaste
  <2> QED
    BY <1>1, <2>1, RedoAddedGood
<1> QED
  BY <1>2, <1>3

LEMMA RedoProjectGood ==
  ASSUME Good, RedoProject
  PROVE  Good'
<1> DEFINE q == Again.new
           r == [j \in DOMAIN q |-> Item(q[j].id, resetList[q[j].id].src, TRUE)]
<1>1. Redoing /\ Again.op = "project"
  BY DEF RedoProject
<1>2. Leads(Here, Again, Here') /\ Elems(q) \subseteq Known /\ q \in Seq(AnyItem)
  BY <1>1, RedoFacts DEF Commands
<1>3. \A x \in Elems(q) : x \in Known /\ x.tmf
  BY <1>1, <1>2 DEF Leads
<1>4. \A x \in Elems(q) : x.id \in DOMAIN resetList /\ resetList[x.id].tmf
  <2>1. EntriesOf(resetList, Known, counter)
    BY DEF Good, Entries
  <2>2. ASSUME NEW x \in Elems(q)
        PROVE  x.id \in DOMAIN resetList /\ resetList[x.id].tmf
    <3>1. x \in Known /\ x.tmf
      BY <1>3
    <3>2. x.id \in DOMAIN resetList /\ resetList[x.id].tmf = x.tmf
      BY <2>1, <3>1 DEF EntriesOf
    <3> QED
      BY <3>1, <3>2
  <2> QED
    BY <2>2
<1>5. Ids(q) \subseteq DOMAIN resetList
  BY <1>4 DEF Ids, IdsOf
<1>6. meshes' = Made(meshes, r) /\ UNCHANGED <<counter, clipboard, resetList, loop, crash>>
  BY <1>5 DEF RedoProject
<1> HIDE DEF q
<1>7. \A j \in DOMAIN q : Item(q[j].id, resetList[q[j].id].src, TRUE) = q[j]
  BY <1>3, <1>4, EntryIs DEF Elems
<1>8. r = q
  <2>1. r = [j \in DOMAIN q |-> q[j]]
    BY <1>7
  <2>2. q = [j \in DOMAIN q |-> q[j]]
    BY <1>2
  <2> QED
    BY <2>1, <2>2
<1> HIDE DEF r
<1> QED
  BY <1>1, <1>6, <1>8, RedoAddedGood DEF q

(* Each mesh that a redo reads again leaves its loop.                      *)
LEMMA ReimportGood ==
  ASSUME Good, Reimporting, NEW x, x = Head(loop.todo), meshes' = Made(meshes, <<x>>),
         RepeatFor(Tail(loop.todo)), UNCHANGED <<counter, clipboard, resetList, undo, crash>>
  PROVE  Good'
<1> DEFINE q == <<x>>
           t == Tail(loop.todo)
           X == {}
<1>1. RedoLoop /\ loop.todo \in Seq(AnyItem) /\ crash = "no" /\ OneEach(meshes)
  BY DEF Reimporting, Good, Typed, Looping
<1>2. /\ t \in Seq(AnyItem) /\ Distinct(t) /\ Elems(loop.todo) = {x} \cup Elems(t)
      /\ x.id \notin Ids(t)
  BY <1>1, HeadAndTail DEF RedoLoop
<1>3. x \notin Elems(t)
  BY <1>2 DEF Ids, IdsOf
<1>4. Elems(q) = {x} /\ Distinct(q)
  BY OneId DEF Distinct
<1>5. meshes' = Made(meshes, q) /\ RepeatFor(t)
  OBVIOUS
<1> HIDE DEF q, t
<1>6. View(meshes) = Here \ Elems(loop.todo) /\ Elems(loop.todo) \subseteq Here /\ Here \subseteq Known
  BY <1>1, HereKnown DEF RedoLoop
<1>7. View(meshes') = View(meshes) \cup {x} /\ OneEach(meshes')
  <2>1. Elems(q) \subseteq Known /\ View(meshes) \subseteq Known /\ Elems(q) \cap View(meshes) = {}
    BY <1>2, <1>4, <1>6
  <2> QED
    BY <2>1, <1>1, <1>4, <1>5, Restored
<1>8. UNCHANGED <<stack, views, cursor>> /\ Here' = Here
  BY DEF undo, Here
<1>9. View(meshes') = Here' \ Elems(t) /\ Elems(t) \subseteq Here'
  BY <1>2, <1>3, <1>6, <1>7, <1>8
<1>10. /\ Looping'
       /\ loop' \in [op : {"none", "reset", "redo"}, old : Seq(AnyItem), todo : Seq(AnyItem)]
  BY <1>2, <1>5, <1>9, RepeatLooping
<1>11. /\ X = {} /\ X \subseteq Known' /\ crash' # "mesh gone" /\ View(meshes') \subseteq Known
       /\ cursor' \in 0..Len(stack) /\ clipboard' = clipboard
  BY <1>1, <1>6, <1>8, <1>9 DEF Good, Typed
<1> HIDE DEF X
<1> QED
  BY <1>7, <1>8, <1>10, <1>11, MovedGood

LEMMA ReimportObjectGood ==
  ASSUME Good, ReimportObject
  PROVE  Good'
<1> DEFINE x == Head(loop.todo)
<1>1. Reimporting /\ x.tmf
  BY DEF ReimportObject
<1>2. x \in Known
  <2>1. RedoLoop /\ loop.todo \in Seq(AnyItem)
    BY <1>1 DEF Reimporting, Good, Typed, Looping
  <2>2. x \in Elems(loop.todo)
    BY <2>1, HeadAndTail DEF RedoLoop
  <2> QED
    BY <2>1, <2>2, HereKnown DEF RedoLoop
<1>3. x.id \in DOMAIN resetList /\ resetList[x.id].tmf
  <2>1. EntriesOf(resetList, Known, counter)
    BY DEF Good, Entries
  <2> HIDE DEF x
  <2>2. x.id \in DOMAIN resetList /\ resetList[x.id].tmf = x.tmf
    BY <1>1, <1>2, <2>1 DEF EntriesOf
  <2> QED
    BY <1>1, <2>2
<1>4. Item(x.id, resetList[x.id].src, TRUE) = x
  BY <1>2, <1>3, EntryIs
<1>5. /\ meshes' = Made(meshes, <<Item(x.id, resetList[x.id].src, TRUE)>>)
      /\ RepeatFor(Tail(loop.todo)) /\ UNCHANGED <<counter, clipboard, resetList, undo, crash>>
  BY <1>3 DEF ReimportObject
<1>6. meshes' = Made(meshes, <<x>>) /\ x = Head(loop.todo)
  BY <1>4, <1>5
<1> HIDE DEF x
<1> QED
  BY <1>1, <1>5, <1>6, ReimportGood

LEMMA ReimportFileGood ==
  ASSUME Good, faults' = {}, NEW f \in Files, ReimportFile(f)
  PROVE  Good'
<1> DEFINE x == Head(loop.todo)
<1>1. /\ Reimporting /\ ~ x.tmf /\ f = x.src /\ meshes' = Made(meshes, <<Item(x.id, f, FALSE)>>)
      /\ RepeatFor(Tail(loop.todo)) /\ UNCHANGED <<counter, clipboard, resetList, undo, crash>>
  BY DEF ReimportFile
<1>2. x \in AnyItem
  <2>1. RedoLoop /\ loop.todo \in Seq(AnyItem)
    BY <1>1 DEF Reimporting, Good, Typed, Looping
  <2> QED
    BY <2>1, HeadAndTail DEF RedoLoop
<1>3. x = [id |-> x.id, src |-> x.src, tmf |-> x.tmf] /\ x.tmf \in BOOLEAN
  BY <1>2 DEF AnyItem
<1>4. Item(x.id, f, FALSE) = x
  BY <1>1, <1>3 DEF Item
<1>5. meshes' = Made(meshes, <<x>>) /\ x = Head(loop.todo)
  BY <1>1, <1>4
<1> HIDE DEF x
<1> QED
  BY <1>1, <1>5, ReimportGood
-----------------------------------------------------------------------------
(* The steps that leave the list and the stack alone.                      *)
LEMMA LookingGood ==
  ASSUME Good, faults' = {}, \/ ImportRefused \/ SelectAll \/ SelectNone \/ Copy
                             \/ \E m \in meshes : Select(m) \/ Toggle(m)
                             \/ ResetCopy \/ ResetRefused \/ UNCHANGED vars
  PROVE  Good'
<1>1. clipboard \in Seq(Files \cup {Object})
  BY DEF Good, Typed
<1>2. CASE \/ ImportRefused \/ SelectAll \/ SelectNone \/ \E m \in meshes : Select(m) \/ Toggle(m)
  <2>1. /\ UNCHANGED <<meshes, counter, resetList, stack, cursor, views, loop, clipboard, crash>>
        /\ loop = Idle
    BY <1>2 DEF ImportRefused, SelectAll, SelectNone, Select, Toggle, Ready, undo
  <2> QED
    BY <2>1, <1>1, StillGood
<1>3. CASE Copy
  <2>1. /\ UNCHANGED <<meshes, counter, resetList, stack, cursor, views, loop, crash>> /\ loop = Idle
    BY <1>3 DEF Copy, Ready, undo
  <2>2. PICK q \in Listings(Found(meshes, selected)) : clipboard' = [j \in DOMAIN q |-> q[j].src]
    BY <1>3 DEF Copy
  <2>3. View(Found(meshes, selected)) \subseteq AnyItem
    BY HereKnown, FoundView DEF Good
  <2>4. q \in Seq(AnyItem)
    BY <2>3, ListingFacts
  <2>5. DOMAIN q = 1..Len(q) /\ Len(q) \in Nat
    BY <2>4, LenProperties
  <2>6. \A j \in 1..Len(q) : q[j].src \in Files \cup {Object}
    <3>1. \A j \in 1..Len(q) : q[j] \in AnyItem
      BY <2>4, ElementOfSeq
    <3> QED
      BY <3>1 DEF AnyItem
  <2>7. clipboard' \in Seq(Files \cup {Object})
    BY <2>2, <2>5, <2>6
  <2> QED
    BY <2>1, <2>7, StillGood
<1>4. CASE \/ ResetCopy \/ ResetRefused \/ UNCHANGED vars
  <2>1. /\ UNCHANGED <<meshes, counter, resetList, stack, cursor, views, loop, clipboard, selected>>
        /\ crash' = crash \/ crash' \notin {"no", "mesh gone"}
    BY <1>4 DEF ResetCopy, ResetRefused, Crashes, vars, document, undo
  <2> QED
    BY <2>1, <1>1, StillGood
<1> QED
  BY <1>2, <1>3, <1>4

LEMMA GoodKept ==
  ASSUME IInv, [Next]_vars, faults' = {}
  PROVE  Good'
<1>1. faults = {}
  BY DEF Next, User, Loop, vars, document, undo, Import, ImportRefused, ImportProject, Select,
     Toggle, SelectAll, SelectNone, Copy, Paste, Delete, Edit, Save, Reset, ResetCopy, ResetObject,
     ResetFile, ResetRefused, ResetDone, Undo, Edited, Undone, RedoEdit, RedoImport, RedoReset,
     RedoProject, RedoPaste, RedoDelete, ReimportObject, ReimportFile, ReimportRefused, Crashes
<1>2. Good /\ SelectionLive
  BY <1>1 DEF IInv
<1>3. CASE \E f \in Files : Import(f)
  BY <1>2, <1>3, ImportGood
<1>4. CASE \E n \in 1..2, complete \in BOOLEAN : ImportProject(n, complete)
  BY <1>2, <1>4, ImportProjectGood
<1>5. CASE \E k \in 1..Len(clipboard) : \E p \in Orders(k) : Paste(k, p)
  BY <1>2, <1>5, PasteGood
<1>6. CASE Delete \/ Edit \/ Save \/ Undo
  BY <1>2, <1>6, DeleteGood, EditGood, SaveGood, UndoGood
<1>7. CASE Reset \/ ResetObject \/ ResetDone \/ \E f \in Files : ResetFile(f)
  BY <1>2, <1>7, ResetGood, ResetObjectGood, ResetDoneGood, ResetFileGood
<1>8. CASE RedoEdit \/ RedoImport \/ RedoReset \/ RedoProject \/ RedoPaste \/ RedoDelete
  BY <1>2, <1>8, RedoEditGood, RedoImportGood, RedoResetGood, RedoProjectGood, RedoPasteGood, RedoDeleteGood
<1>9. CASE ReimportObject \/ \E f \in Files : ReimportFile(f)
  BY <1>2, <1>9, ReimportObjectGood, ReimportFileGood
<1>10. CASE ReimportRefused
  <2>1. Crashes("no mesh left")
    BY <1>10 DEF ReimportRefused
  <2>2. /\ UNCHANGED <<meshes, counter, resetList, stack, cursor, views, loop, clipboard, selected>>
        /\ crash' \notin {"no", "mesh gone"}
    BY <2>1 DEF Crashes, document, undo
  <2> QED
    BY <2>2, <1>2, StillGood DEF Good, Typed
<1>11. CASE \/ ImportRefused \/ SelectAll \/ SelectNone \/ Copy
            \/ \E m \in meshes : Select(m) \/ Toggle(m)
            \/ ResetCopy \/ ResetRefused \/ UNCHANGED vars
  BY <1>2, <1>11, LookingGood
<1> QED
  BY <1>3, <1>4, <1>5, <1>6, <1>7, <1>8, <1>9, <1>10, <1>11 DEF Next, User, Loop

LEMMA IInvInit ==
  ASSUME Init
  PROVE  IInv
<1>1. /\ meshes = {} /\ counter = 1 /\ selected = {} /\ clipboard = <<>> /\ resetList = [i \in {} |-> 0]
      /\ stack = <<>> /\ cursor = 0 /\ loop = Idle /\ crash = "no" /\ views = <<{}>>
  BY DEF Init
<1>2. View(meshes) = {}
  BY <1>1 DEF View
<1> DEFINE w == {}
<1>3. w \in SUBSET AnyItem /\ views = <<w>> /\ w = {}
  BY <1>1
<1> HIDE DEF w
<1>4. views \in Seq(SUBSET AnyItem) /\ Len(views) = 1 /\ views[1] = w
  BY <1>3
<1>5. stack \in Seq(Commands) /\ Len(stack) = 0
  BY <1>1, EmptySeq
<1>6. Known = {}
  BY <1>2, <1>3, <1>4 DEF Known
<1>7. Idle \in [op : {"none", "reset", "redo"}, old : Seq(AnyItem), todo : Seq(AnyItem)]
  BY NoItems DEF Idle
<1>8. clipboard \in Seq(Files \cup {Object})
  BY <1>1, EmptySeq
<1>9. Typed
  BY <1>1, <1>2, <1>4, <1>5, <1>7, <1>8 DEF Typed
<1>10. History /\ KnownIds /\ OneEach(meshes) /\ Entries
  BY <1>1, <1>5, <1>6 DEF History, KnownIds, OneEach, Entries, EntriesOf
<1>11. Looping
  BY <1>1, <1>2, <1>3, <1>4 DEF Looping, Here, Idle
<1>12. crash # "mesh gone" /\ SelectionLive
  BY <1>1 DEF SelectionLive
<1> QED
  BY <1>9, <1>10, <1>11, <1>12 DEF IInv, Good

LEMMA Inductive == Spec => []IInv
<1>1. IInv /\ [Next]_vars => IInv'
  BY GoodKept, SelectionKept DEF IInv
<1> QED
  BY <1>1, IInvInit, PTL DEF Spec

(* Undo and redo bring back the list that was there, however many          *)
(* commands of whatever kind are undone and redone, as long as no file is  *)
(* refused, the 3mf objects are not read from another file and copies are  *)
(* redone in the order they were made.                                     *)
THEOREM HistoryMatchesCorrect == Spec => []HistoryMatches
<1>1. IInv => HistoryMatches
  BY DEF IInv, Good, HistoryMatches, Looping, Ready, Here, Idle
<1> QED
  BY <1>1, Inductive, PTL

(* Under the same conditions an id never names two meshes of the list.     *)
THEOREM OneMeshPerIdCorrect == Spec => []OneMeshPerId
<1>1. IInv => OneMeshPerId
  BY DEF IInv, Good, OneMeshPerId, OneEach
<1> QED
  BY <1>1, Inductive, PTL

(* ... and a command that moved meshes finds all of them again.            *)
THEOREM MovedMeshesLiveCorrect == Spec => []MovedMeshesLive
<1>1. IInv => MovedMeshesLive
  BY DEF IInv, Good, MovedMeshesLive
<1> QED
  BY <1>1, Inductive, PTL

(* ... and no redo misses the entry of a 3mf object.                       *)
THEOREM EntriesKeptCorrect == Spec => []EntriesKept
<1>1. ASSUME Good, NEW k \in DOMAIN stack, NEW j \in DOMAIN stack[k].new, stack[k].new[j].tmf
      PROVE  /\ stack[k].new[j].id \in DOMAIN resetList
             /\ resetList[stack[k].new[j].id].tmf
  <2> DEFINE x == stack[k].new[j]
  <2>1. k \in 1..Len(stack)
    BY <1>1, LenProperties DEF Good, Typed
  <2>2. x \in Known
    BY <1>1, <2>1, StepFacts DEF Elems
  <2>3. EntriesOf(resetList, Known, counter)
    BY <1>1 DEF Good, Entries
  <2>4. x.tmf
    BY <1>1
  <2> HIDE DEF x
  <2>5. x.id \in DOMAIN resetList /\ resetList[x.id].tmf = x.tmf
    BY <2>2, <2>3, <2>4 DEF EntriesOf
  <2> QED
    BY <2>4, <2>5 DEF x
<1>2. IInv => EntriesKept
  BY <1>1 DEF IInv, EntriesKept
<1> QED
  BY <1>2, Inductive, PTL
=============================================================================
