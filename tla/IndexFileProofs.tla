---------------------------- MODULE IndexFileProofs ----------------------------
(***************************************************************************)
(* The invariants of IndexFile hold for every number of indexes, paths,    *)
(* blobs and entries.  Most actions are an Edit of one index in memory     *)
(* that frees some entries of it and leaves all others alone; the rest     *)
(* load the file or save it.  The account of edits and the truth of the    *)
(* entries are each inductive, given the types.  What is freed by an       *)
(* action is enough when each entry of the index that is left is shown by  *)
(* its new content (Covered).                                              *)
(***************************************************************************)
EXTENDS IndexFile, TLAPS

IndexInv == TypeOK /\ UnsavedAreEdits /\ EntriesAreCurrent

\* the entries of i that are left, when those of E are freed, are in c
Covered(i, c, E) ==
  \A e \in Entry \ E : Present(e) /\ view[e].of = i => Shows(view[e], c)

-----------------------------------------------------------------------------
(* Contents.                                                                *)

(* What two contents differ in, a third differs in from one of them.        *)
LEMMA DifferTriangle ==
  ASSUME NEW c, NEW d, NEW e
  PROVE  Differ(c, c) = {} /\ Differ(c, e) \subseteq Differ(d, c) \cup Differ(d, e)
  BY DEF Differ

LEMMA DifferType ==
  ASSUME NEW c, NEW d
  PROVE  Differ(c, d) \subseteq Path
  BY DEF Differ

(* Freeing entries keeps the views well-formed.                             *)
LEMMA FreedType ==
  ASSUME TypeOK, NEW E
  PROVE  /\ Freed(E) \in [Entry -> View \cup {None, Gone}]
         /\ \A e \in Entry : Freed(E)[e] = IF e \in E THEN Gone ELSE view[e]
  BY DEF TypeOK, Freed

(* When one index in memory changes and the entries it does not show any    *)
(* more are freed, the entries stay true.                                   *)
LEMMA EntriesStay ==
  ASSUME TypeOK, EntriesAreCurrent, NEW i \in Memory, NEW c \in Content, NEW E,
         Covered(i, c, E), mem' = [mem EXCEPT ![i] = c], view' = Freed(E)
  PROVE  EntriesAreCurrent'
<1> SUFFICES ASSUME NEW e \in Entry, view'[e] \notin {None, Gone}
             PROVE  Shows(view'[e], mem'[view'[e].of])
  BY DEF EntriesAreCurrent, Present, Shows
<1>1. e \notin E /\ view'[e] = view[e]
  BY FreedType
<1>2. Present(e)
  BY <1>1 DEF Present
<1>3. view[e].of \in Memory
  BY <1>2 DEF TypeOK, View, Present
<1>4. mem'[view[e].of] = IF view[e].of = i THEN c ELSE mem[view[e].of]
  BY <1>3 DEF TypeOK
<1> QED BY <1>1, <1>2, <1>4 DEF EntriesAreCurrent, Covered

(* What is left on an index, apart from the entries at a set of paths, of   *)
(* stage 0 or of the others, is shown by a content that differs there only. *)
LEMMA CoveredApart ==
  ASSUME TypeOK, EntriesAreCurrent, NEW i \in Memory, NEW c \in Content, NEW E,
         NEW P, NEW Q, Staged(i, P) \subseteq E, Sides(i, Q) \subseteq E,
         \A p \in Path \ P : c.entry[p] = mem[i].entry[p],
         mem[i].conflict \ Q \subseteq c.conflict
  PROVE  Covered(i, c, E)
<1> SUFFICES ASSUME NEW e \in Entry, e \notin E, Present(e), view[e].of = i
             PROVE  Shows(view[e], c)
  BY DEF Covered
<1>1. Shows(view[e], mem[i])
  BY DEF EntriesAreCurrent
<1>2. view[e].path \in Path
  BY DEF TypeOK, View, Present
<1>3. CASE view[e].blob = Side
  <2>1. view[e].path \notin Q
    BY <1>3 DEF Sides, At
  <2> QED BY <1>1, <1>3, <2>1 DEF Shows
<1>4. CASE view[e].blob # Side
  <2>1. view[e].path \notin P
    BY <1>4 DEF Staged, At
  <2> QED BY <1>1, <1>2, <1>4, <2>1 DEF Shows
<1> QED BY <1>3, <1>4

(* When all entries of an index are freed, nothing is left to show.         *)
LEMMA CoveredAll ==
  ASSUME TypeOK, NEW i \in Memory, NEW c
  PROVE  Covered(i, c, At(i, Path))
  BY DEF Covered, At, TypeOK, View, Present

(* The entries at a set of paths are those of stage 0 and the sides.        *)
LEMMA AtIsBoth ==
  ASSUME NEW i, NEW P
  PROVE  Staged(i, P) \subseteq At(i, P) /\ Sides(i, P) \subseteq At(i, P)
  BY DEF Staged, Sides

-----------------------------------------------------------------------------
(* Editing in memory.                                                       *)

(* An edit that frees every entry it changes preserves the invariant: what  *)
(* it changes is entered among the edits.                                   *)
LEMMA EditKeepsInv ==
  ASSUME IndexInv, NEW i \in Memory, NEW c \in Content, NEW E, Covered(i, c, E),
         Edit(i, c, E)
  PROVE  IndexInv'
<1> USE DEF IndexInv
<1>1. TypeOK'
  BY DifferType, FreedType DEF TypeOK, Edit
<1>2. UnsavedAreEdits'
  <2> SUFFICES ASSUME NEW j \in Memory \ stale
               PROVE  Differ(mem'[j], disk) \subseteq edits'[j]
    BY DEF Edit, UnsavedAreEdits, Differ
  <2>1. CASE j = i
    <3>1. mem'[i] = c /\ edits'[i] = edits[i] \cup Differ(mem[i], c)
      BY DEF Edit, TypeOK
    <3>2. Differ(mem[i], disk) \subseteq edits[i]
      BY <2>1 DEF UnsavedAreEdits
    <3> QED BY <2>1, <3>1, <3>2, DifferTriangle
  <2>2. CASE j # i
    BY <2>2 DEF Edit, TypeOK, UnsavedAreEdits
  <2> QED BY <2>1, <2>2
<1>3. EntriesAreCurrent'
  BY EntriesStay DEF Edit
<1> QED BY <1>1, <1>2, <1>3

-----------------------------------------------------------------------------
(* The file.                                                                *)

LEMMA LoadKeepsInv ==
  ASSUME IndexInv, NEW i \in Memory, Load(i)
  PROVE  IndexInv'
<1> USE DEF IndexInv
<1>1. TypeOK'
  BY FreedType DEF TypeOK, Load
<1>2. UnsavedAreEdits'
  <2> SUFFICES ASSUME NEW j \in Memory \ stale'
               PROVE  Differ(mem'[j], disk) \subseteq edits'[j]
    BY DEF Load, UnsavedAreEdits, Differ
  <2>1. CASE j = i
    BY <2>1, DifferTriangle DEF Load, TypeOK
  <2>2. CASE j # i
    BY <2>2 DEF Load, TypeOK, UnsavedAreEdits
  <2> QED BY <2>1, <2>2
<1>3. EntriesAreCurrent'
  <2>1. disk \in Content
    BY DEF TypeOK
  <2> QED BY <2>1, CoveredAll, EntriesStay DEF Load
<1> QED BY <1>1, <1>2, <1>3

(* Saving a content preserves the invariant, when the entries it does not   *)
(* show are freed: an index that is not stale afterwards is the one saved,  *)
(* or the file did not change.                                              *)
LEMMA SaveKeepsInv ==
  ASSUME IndexInv, NEW i \in Memory, NEW c \in Content, NEW E, Covered(i, c, E),
         Save(i, c), view' = Freed(E)
  PROVE  IndexInv'
<1> USE DEF IndexInv
<1>1. TypeOK'
  BY FreedType DEF TypeOK, Save
<1>2. UnsavedAreEdits'
  <2> SUFFICES ASSUME NEW j \in Memory, j \notin stale'
               PROVE  Differ(mem'[j], disk') \subseteq edits'[j]
    BY DEF UnsavedAreEdits, Differ
  <2>1. CASE j = i
    BY <2>1, DifferTriangle DEF Save, TypeOK
  <2>2. CASE j # i
    <3>1. disk' = disk /\ j \notin stale
      BY <2>2 DEF Save
    <3> QED BY <2>2, <3>1 DEF Save, TypeOK, UnsavedAreEdits
  <2> QED BY <2>1, <2>2
<1>3. EntriesAreCurrent'
  BY EntriesStay DEF Save
<1> QED BY <1>1, <1>2, <1>3

-----------------------------------------------------------------------------
(* Merging a tree.                                                          *)

LEMMA MergedType ==
  ASSUME NEW c \in Content, NEW P, NEW Q, NEW tree \in [Path -> Blob \cup {None}]
  PROVE  /\ Merged(c, P, Q, tree) \in Content
         /\ \A p \in Path \ P : Merged(c, P, Q, tree).entry[p] = c.entry[p]
         /\ c.conflict \ Q \subseteq Merged(c, P, Q, tree).conflict
  BY DEF Merged, Content

(* What a checkout leaves of an index shows what it put there.              *)
LEMMA CheckoutCovered ==
  ASSUME IndexInv, NEW i \in Memory, NEW refresh \in BOOLEAN, NEW P, NEW Q,
         NEW tree \in [Path -> Blob \cup {None}]
  PROVE  /\ Base(i, refresh) \in Content
         /\ Merged(Base(i, refresh), P, Q, tree) \in Content
         /\ Covered(i, Merged(Base(i, refresh), P, Q, tree), Replaced(i, refresh, P, Q))
<1>1. Base(i, refresh) \in Content
  BY DEF Base, IndexInv, TypeOK
<1> DEFINE c == Merged(Base(i, refresh), P, Q, tree)
<1>2. /\ c \in Content
      /\ \A p \in Path \ P : c.entry[p] = Base(i, refresh).entry[p]
      /\ Base(i, refresh).conflict \ Q \subseteq c.conflict
  BY <1>1, MergedType
<1> HIDE DEF c
<1>3. ASSUME refresh PROVE Covered(i, c, Replaced(i, refresh, P, Q))
  BY <1>3, CoveredAll DEF IndexInv, Replaced
<1>4. ASSUME ~refresh PROVE Covered(i, c, Replaced(i, refresh, P, Q))
  <2>1. /\ Staged(i, P) \subseteq Replaced(i, refresh, P, Q)
        /\ Sides(i, Q) \subseteq Replaced(i, refresh, P, Q)
    BY <1>4 DEF Replaced
  <2>2. Base(i, refresh) = mem[i]
    BY <1>4 DEF Base
  <2> QED BY <1>2, <2>1, <2>2, CoveredApart DEF IndexInv
<1>5. Covered(i, c, Replaced(i, refresh, P, Q))
  BY <1>3, <1>4
<1> QED BY <1>1, <1>2, <1>5 DEF c

LEMMA CheckoutKeepsInv ==
  ASSUME IndexInv, NEW i \in Memory, NEW refresh \in BOOLEAN, NEW P, NEW Q,
         NEW tree \in [Path -> Blob \cup {None}], Checkout(i, refresh, P, Q, tree)
  PROVE  IndexInv'
  BY CheckoutCovered, SaveKeepsInv DEF Checkout

(* A checkout that is cut short leaves what it put into memory as edits.    *)
LEMMA CutKeepsInv ==
  ASSUME IndexInv, NEW i \in Memory, NEW refresh \in BOOLEAN, NEW P, NEW Q,
         NEW tree \in [Path -> Blob \cup {None}], CheckoutCut(i, refresh, P, Q, tree)
  PROVE  IndexInv'
<1> USE DEF IndexInv
<1> DEFINE c == Merged(Base(i, refresh), P, Q, tree)
           E == Replaced(i, refresh, P, Q)
<1>1. c \in Content /\ Covered(i, c, E) /\ Base(i, refresh) \in Content
  BY CheckoutCovered
<1>2. /\ mem' = [mem EXCEPT ![i] = c]
      /\ edits' = [edits EXCEPT ![i] =
           (IF refresh THEN {} ELSE @) \cup Differ(Base(i, refresh), c)]
      /\ stale' = IF refresh THEN stale \ {i} ELSE stale
      /\ view' = Freed(E)
      /\ disk' = disk
  BY DEF CheckoutCut
<1> HIDE DEF c, E
<1>3. TypeOK'
  BY <1>1, <1>2, DifferType, FreedType DEF TypeOK
<1>4. UnsavedAreEdits'
  <2> SUFFICES ASSUME NEW j \in Memory, j \notin stale'
               PROVE  Differ(mem'[j], disk) \subseteq edits'[j]
    BY <1>2 DEF UnsavedAreEdits, Differ
  <2>1. CASE j = i
    <3>1. /\ mem'[i] = c
          /\ edits'[i] = (IF refresh THEN {} ELSE edits[i]) \cup Differ(Base(i, refresh), c)
      BY <1>2 DEF TypeOK
    <3>2. CASE refresh
      <4>1. Base(i, refresh) = disk
        BY <3>2 DEF Base
      <4> QED BY <2>1, <3>1, <4>1, DifferTriangle
    <3>3. CASE ~refresh
      <4>1. Base(i, refresh) = mem[i] /\ Differ(mem[i], disk) \subseteq edits[i]
        BY <1>2, <2>1, <3>3 DEF Base, UnsavedAreEdits
      <4> QED BY <2>1, <3>1, <3>3, <4>1, DifferTriangle
    <3> QED BY <3>2, <3>3
  <2>2. CASE j # i
    BY <1>2, <2>2 DEF TypeOK, UnsavedAreEdits
  <2> QED BY <2>1, <2>2
<1>5. EntriesAreCurrent'
  BY <1>1, <1>2, EntriesStay
<1> QED BY <1>3, <1>4, <1>5

-----------------------------------------------------------------------------
(* The actions.                                                             *)

LEMMA InitInv == Init => IndexInv
<1> SUFFICES ASSUME Init PROVE IndexInv
  OBVIOUS
<1>1. TypeOK
  BY DEF Init, TypeOK, Content
<1>2. UnsavedAreEdits
  BY DEF Init, UnsavedAreEdits, Differ
<1>3. EntriesAreCurrent
  BY DEF Init, EntriesAreCurrent, Present
<1> QED BY <1>1, <1>2, <1>3 DEF IndexInv

(* An edit within a set of paths of stage 0, and within one of conflicts,   *)
(* that frees the entries there.                                            *)
LEMMA LocalEdit ==
  ASSUME IndexInv, NEW i \in Memory, NEW c \in Content, NEW E, NEW P, NEW Q,
         Staged(i, P) \subseteq E, Sides(i, Q) \subseteq E,
         \A p \in Path \ P : c.entry[p] = mem[i].entry[p],
         mem[i].conflict \ Q \subseteq c.conflict,
         Edit(i, c, E)
  PROVE  IndexInv'
  BY CoveredApart, EditKeepsInv DEF IndexInv

LEMMA InMemoryInv ==
  ASSUME IndexInv, NEW i \in Memory, InMemory(i)
  PROVE  IndexInv'
<1>0. TypeOK /\ mem \in [Memory -> Content] /\ mem[i] \in Content
  BY DEF IndexInv, TypeOK
<1>1. CASE Clear(i)
  <2>1. [entry |-> [p \in Path |-> None], conflict |-> {}] \in Content
    BY DEF Content
  <2> QED BY <1>0, <1>1, <2>1, CoveredAll, EditKeepsInv DEF Clear
<1>2. ASSUME NEW p \in Path, Remove(i, p) PROVE IndexInv'
  <2> DEFINE c == [mem[i] EXCEPT !.entry[p] = None, !.conflict = @ \ {p}]
  <2>1. /\ c \in Content /\ \A q \in Path \ {p} : c.entry[q] = mem[i].entry[q]
        /\ mem[i].conflict \ {p} \subseteq c.conflict
    BY <1>0 DEF Content
  <2>2. Edit(i, c, At(i, {p}))
    BY <1>2 DEF Remove
  <2> HIDE DEF c
  <2> QED BY <2>1, <2>2, AtIsBoth, LocalEdit
<1>3. ASSUME NEW p \in Path, NEW b \in Blob, AddEntry(i, p, b) PROVE IndexInv'
  <2> DEFINE c == [mem[i] EXCEPT !.entry[p] = b]
  <2>1. /\ c \in Content /\ \A q \in Path \ {p} : c.entry[q] = mem[i].entry[q]
        /\ mem[i].conflict \ {} \subseteq c.conflict
    BY <1>0 DEF Content
  <2>2. Edit(i, c, Staged(i, {p})) /\ Sides(i, {}) = {}
    BY <1>3 DEF AddEntry, Sides, At
  <2> HIDE DEF c
  <2> QED BY <2>1, <2>2, LocalEdit
<1>4. ASSUME NEW p \in Path, NEW b \in Blob, AddPath(i, p, b) PROVE IndexInv'
  <2> DEFINE c == [mem[i] EXCEPT !.entry[p] = b, !.conflict = @ \ {p}]
  <2>1. /\ c \in Content /\ \A q \in Path \ {p} : c.entry[q] = mem[i].entry[q]
        /\ mem[i].conflict \ {p} \subseteq c.conflict
    BY <1>0 DEF Content
  <2>2. Edit(i, c, At(i, {p}))
    BY <1>4 DEF AddPath
  <2> HIDE DEF c
  <2> QED BY <2>1, <2>2, AtIsBoth, LocalEdit
<1>5. ASSUME NEW p \in Path, NEW e \in Entry, Get(e, i, p) PROVE IndexInv'
  <2> DEFINE v == [of |-> i, path |-> p, blob |-> mem[i].entry[p]]
  <2>1. mem[i].entry[p] # None => v \in View /\ v.blob # Side
    BY <1>0, IndexFileAssumption DEF Content, View
  <2>2. view' = [view EXCEPT ![e] = IF mem[i].entry[p] = None THEN None ELSE v]
        /\ UNCHANGED <<disk, mem, stale, edits>>
    BY <1>5 DEF Get
  <2>3. TypeOK'
    BY <1>0, <2>1, <2>2 DEF TypeOK
  <2>4. UnsavedAreEdits'
    BY <2>2 DEF IndexInv, UnsavedAreEdits, Differ
  <2>5. EntriesAreCurrent'
    <3> SUFFICES ASSUME NEW f \in Entry, view'[f] \notin {None, Gone}
                 PROVE  Shows(view'[f], mem[view'[f].of])
      BY <2>2 DEF EntriesAreCurrent, Present, Shows
    <3>1. CASE f = e
      <4>1. view'[f] = v
        BY <1>0, <2>2, <3>1 DEF TypeOK
      <4>2. v.blob # Side /\ v.of = i /\ v.path = p /\ v.blob = mem[i].entry[p]
        BY <1>0, <2>1, <2>2, <3>1 DEF TypeOK
      <4> HIDE DEF v
      <4> QED BY <4>1, <4>2 DEF Shows
    <3>2. CASE f # e
      BY <1>0, <2>2, <3>2 DEF TypeOK, IndexInv, EntriesAreCurrent, Present
    <3> QED BY <3>1, <3>2
  <2> QED BY <2>3, <2>4, <2>5 DEF IndexInv
<1>6. ASSUME NEW p \in Disputed, NEW E \in SUBSET Entry, AddConflict(i, p, E) PROVE IndexInv'
  <2> DEFINE c == [mem[i] EXCEPT !.conflict = @ \cup {p}]
  <2>1. /\ c \in Content /\ \A q \in Path \ {} : c.entry[q] = mem[i].entry[q]
        /\ mem[i].conflict \ {} \subseteq c.conflict
    BY <1>0, IndexFileAssumption DEF Content
  <2>2. Edit(i, c, E) /\ Staged(i, {}) = {} /\ Sides(i, {}) = {}
    BY <1>6 DEF AddConflict, Staged, Sides, At
  <2> HIDE DEF c
  <2> QED BY <2>1, <2>2, LocalEdit
<1>7. ASSUME NEW p \in Disputed, NEW E \in SUBSET Entry, GetSides(E, i, p) PROVE IndexInv'
  <2> DEFINE v == [of |-> i, path |-> p, blob |-> Side]
  <2>1. p \in Path /\ v \in View
    BY IndexFileAssumption DEF View
  <2>2. PICK F \in SUBSET E :
          /\ F = {} \/ p \in mem[i].conflict
          /\ view' = [e \in Entry |-> IF e \in F THEN v ELSE IF e \in E THEN None ELSE view[e]]
    BY <1>7 DEF GetSides
  <2>3. UNCHANGED <<disk, mem, stale, edits>>
    BY <1>7 DEF GetSides
  <2>4. TypeOK'
    BY <1>0, <2>1, <2>2, <2>3 DEF TypeOK
  <2>5. UnsavedAreEdits'
    BY <2>3 DEF IndexInv, UnsavedAreEdits, Differ
  <2>6. EntriesAreCurrent'
    <3> SUFFICES ASSUME NEW f \in Entry, view'[f] \notin {None, Gone}
                 PROVE  Shows(view'[f], mem[view'[f].of])
      BY <2>3 DEF EntriesAreCurrent, Present, Shows
    <3>1. CASE f \in F
      BY <2>2, <3>1 DEF Shows
    <3>2. CASE f \notin F
      BY <2>2, <3>2 DEF IndexInv, EntriesAreCurrent, Present
    <3> QED BY <3>1, <3>2
  <2> QED BY <2>4, <2>5, <2>6 DEF IndexInv
<1>8. ASSUME NEW K \in SUBSET Path, NEW E \in SUBSET Entry, RemoveSides(i, K, E) PROVE IndexInv'
  <2> DEFINE c == [mem[i] EXCEPT !.conflict = @ \ K]
  <2>1. /\ c \in Content /\ \A q \in Path \ {} : c.entry[q] = mem[i].entry[q]
        /\ mem[i].conflict \ K \subseteq c.conflict
    BY <1>0 DEF Content
  <2>2. Edit(i, c, E) /\ Staged(i, {}) = {} /\ Sides(i, K) \subseteq E
    BY <1>8 DEF RemoveSides, Staged, At
  <2> HIDE DEF c
  <2> QED BY <2>1, <2>2, LocalEdit
<1>9. ASSUME NEW P \in Pathspec, RemoveStaged(i, P) PROVE IndexInv'
  <2> DEFINE c == [mem[i] EXCEPT !.entry = [p \in Path |-> IF p \in P THEN None ELSE @[p]]]
  <2>1. /\ c \in Content /\ \A q \in Path \ P : c.entry[q] = mem[i].entry[q]
        /\ mem[i].conflict \ {} \subseteq c.conflict
    BY <1>0 DEF Content
  <2>2. Edit(i, c, Staged(i, P)) /\ Sides(i, {}) = {}
    BY <1>9 DEF RemoveStaged, Sides, At
  <2> HIDE DEF c
  <2> QED BY <2>1, <2>2, LocalEdit
<1>10. ASSUME NEW tree \in Tree, ReadTree(i, tree) PROVE IndexInv'
  <2>1. [entry |-> tree, conflict |-> {}] \in Content
    BY IndexFileAssumption DEF Content
  <2> QED BY <1>0, <1>10, <2>1, CoveredAll, EditKeepsInv DEF ReadTree
<1> QED BY <1>1, <1>2, <1>3, <1>4, <1>5, <1>6, <1>7, <1>8, <1>9, <1>10 DEF InMemory

LEMMA WithFileInv ==
  ASSUME IndexInv, NEW i \in Memory, WithFile(i)
  PROVE  IndexInv'
<1>0. TypeOK /\ mem[i] \in Content
  BY DEF IndexInv, TypeOK
<1>1. CASE Load(i) \/ Status(i)
  BY <1>1, LoadKeepsInv DEF Status
<1>2. CASE Write(i)
  <2>1. view' = Freed({})
    BY <1>0, <1>2 DEF Write, Freed, TypeOK
  <2>2. Covered(i, mem[i], {})
    BY DEF Covered, IndexInv, EntriesAreCurrent
  <2> QED BY <1>0, <1>2, <2>1, <2>2, SaveKeepsInv DEF Write
<1>3. ASSUME NEW tree \in Tree, Reset(i, tree) PROVE IndexInv'
  <2>1. [entry |-> tree, conflict |-> {}] \in Content
    BY IndexFileAssumption DEF Content
  <2> QED BY <1>0, <1>3, <2>1, CoveredAll, SaveKeepsInv DEF Reset
<1>4. ASSUME NEW P \in Pathspec, NEW tree \in Tree, ResetDefault(i, P, tree) PROVE IndexInv'
  <2> DEFINE c == Merged(mem[i], P, P, tree)
  <2>1. /\ c \in Content /\ \A q \in Path \ P : c.entry[q] = mem[i].entry[q]
        /\ mem[i].conflict \ P \subseteq c.conflict
    BY <1>0, MergedType, IndexFileAssumption
  <2>2. Save(i, c) /\ view' = Freed(At(i, P))
    BY <1>4 DEF ResetDefault
  <2> HIDE DEF c
  <2>3. Covered(i, c, At(i, P))
    BY <2>1, AtIsBoth, CoveredApart DEF IndexInv
  <2> QED BY <2>1, <2>2, <2>3, SaveKeepsInv
<1>5. ASSUME NEW P \in Pathspec, NEW Q \in {{}, P}, NEW refresh \in BOOLEAN, NEW tree \in Tree,
             Checkout(i, refresh, P, Q, tree) \/ CheckoutCut(i, refresh, P, Q, tree)
      PROVE  IndexInv'
  BY <1>5, CheckoutKeepsInv, CutKeepsInv, IndexFileAssumption
<1>6. ASSUME NEW P \in Pathspec, NEW Q \in {{}, P}, NEW refresh \in BOOLEAN, NEW j \in Memory,
             CheckoutIndex(i, j, refresh, P, Q)
      PROVE  IndexInv'
  <2>1. mem[j].entry \in [Path -> Blob \cup {None}]
    BY DEF IndexInv, TypeOK, Content
  <2> QED BY <1>6, <2>1, CheckoutKeepsInv, CutKeepsInv DEF CheckoutIndex
<1> QED BY <1>1, <1>2, <1>3, <1>4, <1>5, <1>6 DEF WithFile

LEMMA NextInv == IndexInv /\ [Next]_vars => IndexInv'
<1>1. IndexInv /\ UNCHANGED vars => IndexInv'
  BY DEF vars, IndexInv, TypeOK, UnsavedAreEdits, Differ, EntriesAreCurrent, Present, Shows
<1> QED BY <1>1, InMemoryInv, WithFileInv DEF Next

-----------------------------------------------------------------------------
(* The theorems.                                                            *)

LEMMA IndexInvariant == Spec => []IndexInv
  BY InitInv, NextInv, PTL DEF Spec

(* The file, the indexes in memory and the entries always have their types. *)
THEOREM IndexTypeCorrect == Spec => []TypeOK
<1>1. IndexInv => TypeOK
  BY DEF IndexInv
<1> QED BY <1>1, IndexInvariant, PTL

(* An index nobody wrote past differs from its file by its own edits only.  *)
THEOREM UnsavedAreAccounted == Spec => []UnsavedAreEdits
<1>1. IndexInv => UnsavedAreEdits
  BY DEF IndexInv
<1> QED BY <1>1, IndexInvariant, PTL

(* An entry that is still there shows what its index holds.                 *)
THEOREM EntriesStayCurrent == Spec => []EntriesAreCurrent
<1>1. IndexInv => EntriesAreCurrent
  BY DEF IndexInv
<1> QED BY <1>1, IndexInvariant, PTL

(* Nor does a write or a reset of such an index change the file elsewhere   *)
(* than where that index was changed, or the reset goes.                    *)
THEOREM FreshWritesLoseNothing == Spec => FreshWritesKeepOthers
<1> DEFINE Others(i) == Differ(disk, disk') \ edits[i]
           Kept(i) ==
             Others(i) # {} =>
               /\ ~Write(i)
               /\ \A P \in Pathspec, tree \in Tree : ResetDefault(i, P, tree) => Others(i) \subseteq P
<1>1. ASSUME IndexInv, NEW i \in Memory \ stale PROVE Kept(i)
  <2>1. Differ(mem[i], disk) \subseteq edits[i]
    BY <1>1 DEF IndexInv, UnsavedAreEdits
  <2>2. ASSUME Write(i) PROVE Others(i) = {}
    <3>1. disk' = mem[i]
      BY <2>2 DEF Write, Save
    <3> QED
      BY <2>1, <3>1 DEF Differ
  <2>3. ASSUME NEW P \in Pathspec, NEW tree \in Tree, ResetDefault(i, P, tree)
        PROVE  Others(i) \subseteq P
    <3>1. disk' = Merged(mem[i], P, P, tree)
      BY <2>3 DEF ResetDefault, Save
    <3>2. \A p \in Path \ P : /\ disk'.entry[p] = mem[i].entry[p]
                              /\ p \in disk'.conflict <=> p \in mem[i].conflict
      BY <3>1 DEF Merged
    <3> QED
      BY <2>1, <3>2 DEF Differ
  <2> QED
    BY <2>2, <2>3
<1>2. IndexInv /\ [Next]_vars => [disk' # disk => \A i \in Memory \ stale : Kept(i)]_vars
  BY <1>1
<1> QED
  BY <1>2, IndexInvariant, PTL DEF Spec, FreshWritesKeepOthers
=============================================================================
