---------------------------- MODULE UndoDocument ----------------------------
(***************************************************************************)
(* The mesh document under the undo stack: MeshDocument (meshmodel.cpp),   *)
(* the operations that add and remove meshes (mainwindow_RunTime.cpp) and  *)
(* the commands that undo and redo them (command.cpp).                     *)
(*                                                                         *)
(* A command knows its meshes by id only, and looks each one up again when *)
(* it is undone or redone.  It works on whatever the document holds then:  *)
(* an import is redone by reading the file again, a reset by reading every *)
(* file again, and a file may be refused the second time.                  *)
(*                                                                         *)
(* A mesh is its id, the file or project object it was read from, and      *)
(* whether it is a 3mf object.  Its geometry is left out.                  *)
(* Ids that no mesh of the list keeps (those of copies on the clipboard,   *)
(* of refused imports, of a mesh before setid) are not counted.            *)
(***************************************************************************)
EXTENDS Naturals, Sequences, FiniteSets

CONSTANTS
  Files,        \* mesh files
  Object,       \* what a 3mf project holds; a mesh of it has no file
  MaxIds,       \* bound: ids given to meshes
  MaxCommands   \* bound: commands ever pushed (the stack holds up to 100)

ASSUME ObjectIsNoFile == Object \notin Files
ASSUME BoundsAreNat == MaxIds \in Nat /\ MaxCommands \in Nat

VARIABLES
  meshes,       \* meshList: [at, id, src, tmf], at being the place in the list
  counter,      \* the next id
  current,      \* currentMesh as the place of its mesh, 0 for the null pointer
  selected,     \* multiSelectID
  clipboard,    \* copiedMeshList, as the source of each copy
  resetList,    \* resetMeshList: id to [src, tmf]
  stack, cursor, \* undoStack and its index
  loop,         \* the meshes that a reset or a redo has still to bring back
  crash,        \* "no", or the null pointer that was followed
  \* history: what the list was before and after each command, and what went
  \* wrong that the commands do not provide for
  views, faults,
  issued        \* commands pushed so far, for the bound only

document == <<meshes, counter, current, selected, clipboard, resetList>>
undo     == <<stack, cursor, views, issued>>
vars     == <<document, undo, loop, crash, faults>>

Items == [id : 1..MaxIds, src : Files \cup {Object}, tmf : BOOLEAN]
Item(i, s, t) == [id |-> i, src |-> s, tmf |-> t]
Idle == [op |-> "none", old |-> <<>>, todo |-> <<>>]

IdsOf(S) == {m.id : m \in S}
Elems(q) == {q[j] : j \in DOMAIN q}
Ids(q)   == IdsOf(Elems(q))
View(S)  == {Item(m.id, m.src, m.tmf) : m \in S}

(* The list is only ever appended to: push_back().                         *)
LastAt(S)  == Cardinality(S)
FirstAt(S) == IF S = {} THEN 0 ELSE 1
Made(S, q) ==
  S \cup {[at |-> LastAt(S) + j, id |-> q[j].id, src |-> q[j].src, tmf |-> q[j].tmf] : j \in DOMAIN q}

(* getMesh(i) for each i of I: the first mesh with that id.                *)
Found(S, I) == {m \in S : m.id \in I /\ \A n \in S : n.id = m.id => n = m \/ m.at < n.at}

PlaceOf(i) == (CHOOSE m \in Found(meshes, {i}) : TRUE).at

(* Faulty variant of Without: the place of a deleted mesh stays in the     *)
(* list.                                                                   *)
WithoutClosing(S, I) == S \ Found(S, I)

(* removeOne() for each of them: the later meshes move up in the list.     *)
Before(S, I, p) == {n \in Found(S, I) : n.at < p}
Without(S, I) ==
  {[at |-> m.at - Cardinality(Before(S, I, m.at)), id |-> m.id, src |-> m.src, tmf |-> m.tmf] :
     m \in S \ Found(S, I)}

(* q lists the meshes of S by ascending id: toList() and qSort.            *)
Lists(q, S) ==
  /\ Elems(q) = View(S)
  /\ \A j, k \in DOMAIN q : j < k => q[j].id < q[k].id
Listings(S) == {q \in UNION {[1..n -> View(S)] : n \in 0..MaxIds} : Lists(q, S)}

(* Faulty variant of Kept: the current mesh stays what it was.             *)
KeptAnyway(S, I, c) == IF S = Found(S, I) THEN 0 ELSE c

(* The current mesh after that: when it goes, the first that remains       *)
(* follows.                                                                *)
Kept(S, I, c) ==
  IF S = Found(S, I) \/ c = 0 THEN 0
  ELSE IF \E m \in Found(S, I) : m.at = c THEN 1
  ELSE c - Cardinality(Before(S, I, c))

WithEntries(r, X) ==
  [i \in DOMAIN r \cup IdsOf(X) |->
     IF i \in IdsOf(X) THEN LET x == CHOOSE x \in X : x.id = i IN [src |-> x.src, tmf |-> x.tmf]
                       ELSE r[i]]
WithoutEntry(r, i) == [j \in DOMAIN r \ {i} |-> r[j]]

NotTmf(q) == {x \in Elems(q) : ~ x.tmf}

(* A 3mf object and its copies have no file name: importMesh("") asks for  *)
(* a file, and the user may choose any.                                    *)
MayRead(s) == IF s \in Files THEN {s} ELSE Files
-----------------------------------------------------------------------------
Init ==
  /\ meshes = {} /\ counter = 1 /\ current = 0 /\ selected = {}
  /\ clipboard = <<>> /\ resetList = [i \in {} |-> 0]
  /\ stack = <<>> /\ cursor = 0 /\ loop = Idle /\ crash = "no"
  /\ views = <<{}>> /\ faults = {} /\ issued = 0

Ready == loop = Idle /\ crash = "no"

Command(op, old, new, on) == [op |-> op, old |-> old, new |-> new, on |-> on, cut |-> FALSE]

(* QUndoStack::push() drops what could be redone.  The redo() that it      *)
(* calls does nothing: the flag of a new command is false.                 *)
Push(c) ==
  /\ stack' = Append(SubSeq(stack, 1, cursor), c)
  /\ cursor' = cursor + 1
  /\ views' = Append(SubSeq(views, 1, cursor + 1), View(meshes'))
  /\ issued' = issued + 1

Crashes(why) == crash' = why /\ UNCHANGED <<document, undo, loop, faults>>

(* importMesh() of a file that opens.                                      *)
Import(f) ==
  /\ Ready /\ counter =< MaxIds /\ issued < MaxCommands
  /\ LET new == <<Item(counter, f, FALSE)>> IN
       /\ meshes' = Made(meshes, new)
       /\ current' = LastAt(meshes) + 1
       /\ selected' = {counter}
       /\ resetList' = WithEntries(resetList, Elems(new))
       /\ Push(Command("import", <<>>, new, {}))
  /\ counter' = counter + 1
  /\ UNCHANGED <<clipboard, loop, crash, faults>>

(* ... and of one that does not, or that the user turns down when a dialog *)
(* reports its holes or its size: the mesh was current and is deleted.     *)
ImportRefused ==
  /\ Ready
  /\ current' = FirstAt(meshes)
  /\ UNCHANGED <<meshes, counter, selected, clipboard, resetList, undo, loop, crash, faults>>

(* importFromProject(): n objects.  The command is pushed at the end; when *)
(* the reader fails before, the objects read so far stay.                  *)
ImportProject(n, complete) ==
  /\ Ready /\ meshes # {} /\ counter + n - 1 =< MaxIds /\ issued < MaxCommands
  /\ LET new == [j \in 1..n |-> Item(counter + j - 1, Object, TRUE)] IN
       /\ meshes' = Made(meshes, new)
       /\ resetList' = WithEntries(resetList, Elems(new))
       /\ IF complete
            THEN Push(Command("project", <<>>, new, {})) /\ UNCHANGED faults
            ELSE UNCHANGED undo /\ faults' = faults \cup {"partial project"}
  /\ current' = LastAt(meshes) + n
  /\ counter' = counter + n
  /\ UNCHANGED <<selected, clipboard, loop, crash>>

(* A click on mesh m.                                                      *)
Select(m) ==
  /\ Ready
  /\ selected' = {m.id} /\ current' = PlaceOf(m.id)
  /\ UNCHANGED <<meshes, counter, clipboard, resetList, undo, loop, crash, faults>>

(* A click with the control key: a selected mesh is deselected and stays   *)
(* current, another one becomes current.                                   *)
Toggle(m) ==
  /\ Ready
  /\ IF m.id \in selected
       THEN selected' = selected \ {m.id} /\ UNCHANGED current
       ELSE /\ selected' = selected \cup {m.id}
            /\ current' = PlaceOf(m.id)
  /\ UNCHANGED <<meshes, counter, clipboard, resetList, undo, loop, crash, faults>>

SelectAll ==
  /\ Ready
  /\ selected' = IdsOf(meshes)
  /\ UNCHANGED <<meshes, counter, current, clipboard, resetList, undo, loop, crash, faults>>

SelectNone ==
  /\ Ready
  /\ selected' = {}
  /\ UNCHANGED <<meshes, counter, current, clipboard, resetList, undo, loop, crash, faults>>

(* setCopyMeshes().                                                        *)
Copy ==
  /\ Ready /\ selected # {}
  /\ \E q \in Listings(Found(meshes, selected)) : clipboard' = [j \in DOMAIN q |-> q[j].src]
  /\ UNCHANGED <<meshes, counter, current, selected, resetList, undo, loop, crash, faults>>

(* pasteSelectMeshes(): the first k copies find a place on the plate.  The *)
(* command takes the ids of the copies in the order p of a hash set, and   *)
(* the whole clipboard in its own order.                                   *)
Paste(k, p) ==
  /\ Ready /\ k >= 1 /\ counter + k - 1 =< MaxIds /\ issued < MaxCommands
  /\ LET copies == [j \in 1..k |-> Item(counter + j - 1, clipboard[j], FALSE)]
         asRedone == [j \in 1..k |-> Item(counter + p[j] - 1, clipboard[j], FALSE)]
     IN  /\ meshes' = Made(meshes, copies)
         /\ selected' = Ids(copies)
         /\ Push([Command("paste", <<>>, asRedone, {}) EXCEPT !.cut = k < Len(clipboard)])
         /\ faults' = IF \A j \in 1..k : clipboard[p[j]] = clipboard[j]
                        THEN faults ELSE faults \cup {"paste order"}
  /\ current' = LastAt(meshes) + k
  /\ counter' = counter + k
  /\ UNCHANGED <<clipboard, resetList, loop, crash>>

(* delMeshes() of the selection.                                           *)
Delete ==
  /\ Ready /\ selected # {} /\ issued < MaxCommands
  /\ meshes' = Without(meshes, selected)
  /\ current' = Kept(meshes, selected, current)
  /\ selected' = {}
  /\ \E q \in Listings(Found(meshes, selected)) : Push(Command("delete", q, <<>>, {}))
  /\ UNCHANGED <<counter, clipboard, resetList, loop, crash, faults>>

(* executeEdit(), a number typed for the selection: it reads the box of    *)
(* the current mesh before it asks for one.                                *)
Edit ==
  /\ Ready /\ selected # {} /\ issued < MaxCommands
  /\ IF current = 0
       THEN Crashes("no current mesh")
       ELSE UNCHANGED <<document, loop, crash, faults>> /\ Push(Command("edit", <<>>, <<>>, selected))

(* saveProject() clears the stack.                                         *)
Save ==
  /\ Ready
  /\ stack' = <<>> /\ cursor' = 0 /\ views' = <<View(meshes)>>
  /\ UNCHANGED <<document, issued, loop, crash, faults>>
-----------------------------------------------------------------------------
(* reload(), the Reset button: the selection is deleted without a command, *)
(* each of its meshes is brought back from its entry, and one command is   *)
(* pushed.                                                                 *)
Reset ==
  /\ Ready /\ selected # {} /\ issued < MaxCommands
  /\ counter + Cardinality(selected) - 1 =< MaxIds
  /\ meshes' = Without(meshes, selected)
  /\ current' = Kept(meshes, selected, current)
  /\ selected' = {}
  /\ \E q \in Listings(Found(meshes, selected)) : loop' = [op |-> "reset", old |-> q, todo |-> q]
  /\ UNCHANGED <<counter, clipboard, resetList, undo, crash, faults>>

Resetting == loop.op = "reset" /\ crash = "no" /\ loop.todo # <<>>
ResetNext == loop' = [op |-> "reset", old |-> loop.old, todo |-> Tail(loop.todo)]

(* A pasted mesh has no entry.                                             *)
ResetCopy ==
  /\ Resetting /\ Head(loop.todo).id \notin DOMAIN resetList
  /\ Crashes("no reset entry")

(* Faulty variant of ResetObject: the entry goes with every mesh, not only *)
(* with one that was read from its file again.                             *)
ResetObjectDropsEntry ==
  /\ Resetting
  /\ LET i == Head(loop.todo).id IN
       /\ i \in DOMAIN resetList /\ resetList[i].tmf
       /\ meshes' = Made(meshes, <<Item(i, resetList[i].src, TRUE)>>)
       /\ selected' = selected \cup {i}
       /\ resetList' = WithoutEntry(resetList, i)
  /\ current' = LastAt(meshes) + 1
  /\ ResetNext /\ UNCHANGED <<counter, clipboard, undo, crash, faults>>

ResetObject ==
  /\ Resetting
  /\ LET i == Head(loop.todo).id IN
       /\ i \in DOMAIN resetList /\ resetList[i].tmf
       /\ meshes' = Made(meshes, <<Item(i, resetList[i].src, TRUE)>>)
       /\ selected' = selected \cup {i}
  /\ current' = LastAt(meshes) + 1
  /\ ResetNext /\ UNCHANGED <<counter, clipboard, resetList, undo, crash, faults>>

(* importMesh() while isReset: a new id, and an entry for it.              *)
ResetFile(f) ==
  /\ Resetting
  /\ LET i   == Head(loop.todo).id
         new == <<Item(counter, f, FALSE)>>
     IN  /\ i \in DOMAIN resetList /\ ~ resetList[i].tmf /\ f \in MayRead(resetList[i].src)
         /\ meshes' = Made(meshes, new)
         /\ selected' = selected \cup {counter}
         /\ resetList' = WithoutEntry(WithEntries(resetList, Elems(new)), i)
         /\ faults' = IF f = Head(loop.todo).src THEN faults ELSE faults \cup {"other file"}
  /\ current' = LastAt(meshes) + 1
  /\ counter' = counter + 1
  /\ ResetNext /\ UNCHANGED <<clipboard, undo, crash>>

(* A file refused: the mesh that is current then is selected in its place. *)
(* Without a file name nothing was added, and the current mesh stays.      *)
ResetRefused ==
  /\ Resetting
  /\ LET i == Head(loop.todo).id
         c == IF resetList[i].src \in Files THEN FirstAt(meshes) ELSE current
     IN  /\ i \in DOMAIN resetList /\ ~ resetList[i].tmf
         /\ IF c = 0
              THEN Crashes("no current mesh")
              ELSE /\ selected' = selected \cup IdsOf({m \in meshes : m.at = c})
                   /\ current' = c
                   /\ resetList' = WithoutEntry(resetList, i)
                   /\ faults' = faults \cup {"refused reset"}
                   /\ ResetNext /\ UNCHANGED <<meshes, counter, clipboard, undo, crash>>

(* reset_command: what is selected now is what the reset brought back.     *)
ResetDone ==
  /\ loop.op = "reset" /\ crash = "no" /\ loop.todo = <<>>
  /\ loop' = Idle
  /\ UNCHANGED <<document, crash, faults>>
  /\ \E q \in Listings(Found(meshes, selected)) : Push(Command("reset", loop.old, q, {}))
-----------------------------------------------------------------------------
(* Translate_Command::undo() and redo() look up every mesh they moved.     *)
Edited(c, again) ==
  IF c.on \subseteq IdsOf(meshes)
    THEN /\ selected' = IF again THEN selected ELSE selected \cup c.on
         /\ UNCHANGED <<meshes, counter, current, clipboard, resetList, loop, crash, faults>>
    ELSE crash' = "mesh gone" /\ UNCHANGED <<document, loop, faults>>

(* Faulty variants of Undone: what an undo deletes stays selected; setid() *)
(* is missing.                                                             *)
UndoneSelected(c) ==
  LET rest == Without(meshes, Ids(c.new)) IN
    /\ meshes' = Made(rest, c.old)
    /\ IF c.old = <<>>
         THEN selected' = selected /\ current' = Kept(meshes, Ids(c.new), current)
         ELSE selected' = Ids(c.old) /\ current' = LastAt(rest) + Len(c.old)
    /\ resetList' = WithEntries(resetList, NotTmf(c.old))
    /\ UNCHANGED <<counter, clipboard, loop, crash, faults>>

UndoneAnew(c) ==
  LET rest == Without(meshes, Ids(c.new))
      anew == [j \in DOMAIN c.old |-> [c.old[j] EXCEPT !.id = counter + j - 1]]
  IN
    /\ meshes' = Made(rest, anew)
    /\ IF c.old = <<>>
         THEN selected' = selected \ Ids(c.new) /\ current' = Kept(meshes, Ids(c.new), current)
         ELSE selected' = Ids(anew) /\ current' = LastAt(rest) + Len(c.old)
    /\ counter' = counter + Len(c.old)
    /\ resetList' = WithEntries(resetList, NotTmf(anew))
    /\ UNCHANGED <<clipboard, loop, crash, faults>>

(* The undo() of the others deletes what the command added and adds what   *)
(* it deleted, under the old ids.                                          *)
Undone(c) ==
  LET rest == Without(meshes, Ids(c.new)) IN
    /\ meshes' = Made(rest, c.old)
    /\ IF c.old = <<>>
         THEN selected' = selected \ Ids(c.new) /\ current' = Kept(meshes, Ids(c.new), current)
         ELSE selected' = Ids(c.old) /\ current' = LastAt(rest) + Len(c.old)
    /\ resetList' = WithEntries(resetList, NotTmf(c.old))
    /\ UNCHANGED <<counter, clipboard, loop, crash, faults>>

Undo ==
  /\ Ready /\ cursor > 0
  /\ cursor' = cursor - 1 /\ UNCHANGED <<stack, views, issued>>
  /\ LET c == stack[cursor] IN IF c.op = "edit" THEN Edited(c, FALSE) ELSE Undone(c)

(* The command that Redo() repeats.                                        *)
Again == stack[cursor + 1]
Redoing == /\ Ready /\ cursor < Len(stack)
           /\ cursor' = cursor + 1 /\ UNCHANGED <<stack, views, issued>>

RedoEdit == Redoing /\ Again.op = "edit" /\ Edited(Again, TRUE)

(* What remains of newIdList.                                              *)
RepeatFor(q) == loop' = IF q = <<>> THEN Idle ELSE [op |-> "redo", old |-> <<>>, todo |-> q]

(* import_command::redo() and reset_command::redo() read every file again. *)
RedoImport ==
  /\ Redoing /\ Again.op = "import"
  /\ RepeatFor(Again.new)
  /\ UNCHANGED <<document, crash, faults>>

(* Faulty variant of RedoReset: it does not delete first what the reset    *)
(* deleted.                                                                *)
RedoResetBeside ==
  /\ Redoing /\ Again.op = "reset"
  /\ selected' = {}
  /\ RepeatFor(Again.new)
  /\ UNCHANGED <<meshes, counter, current, clipboard, resetList, crash, faults>>

RedoReset ==
  /\ Redoing /\ Again.op = "reset"
  /\ meshes' = Without(meshes, Ids(Again.old))
  /\ current' = Kept(meshes, Ids(Again.old), current)
  /\ selected' = {}
  /\ RepeatFor(Again.new)
  /\ UNCHANGED <<counter, clipboard, resetList, crash, faults>>

(* importFrom_command copies its objects from their entries; neither the   *)
(* selection nor the current mesh changes.                                 *)
RedoProject ==
  /\ Redoing /\ Again.op = "project"
  /\ IF Ids(Again.new) \subseteq DOMAIN resetList
       THEN /\ meshes' = Made(meshes, [j \in DOMAIN Again.new |->
                                  Item(Again.new[j].id, resetList[Again.new[j].id].src, TRUE)])
            /\ UNCHANGED <<counter, current, selected, clipboard, resetList, loop, crash, faults>>
       ELSE crash' = "no reset entry" /\ UNCHANGED <<document, loop, faults>>

(* Faulty variant of RedoPaste: the copies keep their own ids.             *)
RedoPasteAnew ==
  /\ Redoing /\ Again.op = "paste"
  /\ LET n == Len(Again.new)
         anew == [j \in 1..n |-> [Again.new[j] EXCEPT !.id = counter + j - 1]]
     IN  /\ meshes' = Made(meshes, anew)
         /\ selected' = Ids(anew)
         /\ current' = LastAt(meshes) + n
         /\ counter' = counter + n
         /\ UNCHANGED <<clipboard, resetList, loop, crash, faults>>

(* paste_command copies its whole clipboard and indexes its ids.           *)
RedoPaste ==
  /\ Redoing /\ Again.op = "paste"
  /\ IF Again.cut
       THEN crash' = "fewer ids than copies" /\ UNCHANGED <<document, loop, faults>>
       ELSE /\ meshes' = Made(meshes, Again.new)
            /\ selected' = Ids(Again.new)
            /\ current' = LastAt(meshes) + Len(Again.new)
            /\ UNCHANGED <<counter, clipboard, resetList, loop, crash, faults>>

RedoDelete ==
  /\ Redoing /\ Again.op = "delete"
  /\ meshes' = Without(meshes, Ids(Again.old))
  /\ selected' = selected \ Ids(Again.old)
  /\ current' = Kept(meshes, Ids(Again.old), current)
  /\ UNCHANGED <<counter, clipboard, resetList, loop, crash, faults>>

Reimporting == loop.op = "redo" /\ crash = "no"

(* The 3mf objects of a reset come from their entries.                     *)
ReimportObject ==
  /\ Reimporting
  /\ LET x == Head(loop.todo) IN
       /\ x.tmf
       /\ IF x.id \in DOMAIN resetList
            THEN /\ meshes' = Made(meshes, <<Item(x.id, resetList[x.id].src, TRUE)>>)
                 /\ selected' = selected \cup {x.id}
                 /\ RepeatFor(Tail(loop.todo))
                 /\ UNCHANGED <<counter, current, clipboard, resetList, undo, crash, faults>>
            ELSE Crashes("no reset entry")

(* import_command::redo(): the mesh read again takes the id it had.        *)
ReimportFile(f) ==
  /\ Reimporting
  /\ LET x == Head(loop.todo) IN
       /\ ~ x.tmf /\ f \in MayRead(x.src)
       /\ meshes' = Made(meshes, <<Item(x.id, f, FALSE)>>)
       /\ selected' = {x.id}
       /\ faults' = IF f = x.src THEN faults ELSE faults \cup {"other file"}
  /\ current' = LastAt(meshes) + 1
  /\ RepeatFor(Tail(loop.todo))
  /\ UNCHANGED <<counter, clipboard, resetList, undo, crash>>

(* The result of importMesh() is not looked at: the last mesh of the list, *)
(* whichever it is, takes the id.                                          *)
ReimportRefused ==
  /\ Reimporting
  /\ LET x == Head(loop.todo) IN
       /\ ~ x.tmf
       /\ IF meshes = {}
            THEN Crashes("no mesh left")
            ELSE /\ \E last \in meshes :
                      /\ \A m \in meshes : m.at =< last.at
                      /\ meshes' = (meshes \ {last}) \cup 
                            {[at |-> last.at, id |-> x.id, src |-> last.src, tmf |-> last.tmf]}
                 /\ current' = IF x.src \in Files THEN FirstAt(meshes) ELSE current
                 /\ selected' = {x.id}
                 /\ faults' = faults \cup {"refused redo"}
                 /\ RepeatFor(Tail(loop.todo))
                 /\ UNCHANGED <<counter, clipboard, resetList, undo, crash>>
-----------------------------------------------------------------------------
Orders(k) == {p \in [1..k -> 1..k] : /\ \A i \in 1..k : \E j \in 1..k : p[j] = i
                                     /\ \A i, j \in 1..k : p[i] = p[j] => i = j}

User == \/ \E f \in Files : Import(f)
        \/ ImportRefused
        \/ \E n \in 1..2, complete \in BOOLEAN : ImportProject(n, complete)
        \/ \E m \in meshes : Select(m)
        \/ \E m \in meshes : Toggle(m)
        \/ SelectAll \/ SelectNone \/ Copy
        \/ \E k \in 1..Len(clipboard) : \E p \in Orders(k) : Paste(k, p)
        \/ Delete \/ Edit \/ Save \/ Reset \/ Undo
        \/ RedoEdit \/ RedoImport \/ RedoReset \/ RedoProject \/ RedoPaste \/ RedoDelete

Loop == \/ ResetCopy \/ ResetObject \/ ResetRefused \/ ResetDone
        \/ \E f \in Files : ResetFile(f)
        \/ ReimportObject \/ ReimportRefused
        \/ \E f \in Files : ReimportFile(f)

Next == User \/ Loop
Spec == Init /\ [][Next]_vars
-----------------------------------------------------------------------------
TypeOK ==
  /\ meshes \subseteq [at : Nat, id : 1..MaxIds, src : Files \cup {Object}, tmf : BOOLEAN]
  /\ {m.at : m \in meshes} = 1..Cardinality(meshes)
  /\ counter \in 1..(MaxIds + 1)
  /\ current \in Nat /\ selected \subseteq 1..MaxIds
  /\ clipboard \in Seq(Files \cup {Object})
  /\ DOMAIN resetList \subseteq 1..MaxIds
  /\ cursor \in 0..Len(stack) /\ Len(stack) =< issued /\ issued =< MaxCommands /\ Len(views) = Len(stack) + 1
  /\ loop.op \in {"none", "reset", "redo"} /\ loop.todo \in Seq(Items)

(* Every selected id is the id of a mesh: the loops over multiSelectID     *)
(* follow getMesh(i) without looking at it.                                *)
SelectionLive == selected \subseteq IdsOf(meshes)

(* The current mesh is a mesh of the list, or none: delMesh() frees it.    *)
CurrentListed == current # 0 => \E m \in meshes : m.at = current

(* Between two operations the list is what it was at this place of the     *)
(* stack: undo and redo bring back the same meshes under the same ids.     *)
HistoryMatches == Ready /\ faults = {} => View(meshes) = views[cursor + 1]

(* getMesh(i) finds the mesh: no two have the same id, unless a file was   *)
(* refused or the document went its own way.                               *)
OneMeshPerId == faults = {} => \A m, n \in meshes : m.id = n.id => m = n

(* "the mesh with the given unique id", whatever happened.                 *)
UniqueIds == \A m, n \in meshes : m.id = n.id => m = n

(* A command that moved meshes finds all of them when it is undone.        *)
MovedMeshesLive == crash = "mesh gone" => faults # {}

(* The redo of a project or of a reset copies each 3mf object from its     *)
(* entry, and finds it.                                                    *)
EntriesKept ==
  faults = {} => \A k \in DOMAIN stack : \A j \in DOMAIN stack[k].new :
                   LET x == stack[k].new[j] IN
                     x.tmf => x.id \in DOMAIN resetList /\ resetList[x.id].tmf
=============================================================================
