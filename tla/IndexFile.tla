------------------------------ MODULE IndexFile ------------------------------
(***************************************************************************)
(* The index: a file, and the index in the memory of every open            *)
(* repository (one git_index, shared by all Index objects the repository   *)
(* hands out) and of every Index::open.  Index methods edit the memory;    *)
(* read and write carry it whole from and to the file, and so do, without  *)
(* saying so, status, checkout and reset.  An IndexEntry points to an      *)
(* entry in memory; libgit2 allocates entries one by one and frees one     *)
(* when it is replaced or removed.  Of the sides of a conflict only their  *)
(* presence is kept.                                                       *)
(*                                                                         *)
(* A native call that fails throws before anything changed, but for        *)
(* checkouts and resets.                                                   *)
(***************************************************************************)
EXTENDS Naturals, FiniteSets

CONSTANTS
  Memory,     \* the indexes in memory
  Repo,       \* those of them that belong to a repository
  Path,       \* paths
  Disputed,   \* bound: the paths conflicts are added for
  Blob,       \* contents of a path
  Side,       \* stands for the content of a side of a conflict
  Pathspec,   \* bound: the sets of paths that are picked out
  Tree,       \* bound: the trees that are read, checked out or reset to
  Entry,      \* the client's IndexEntry objects
  None,       \* no entry
  Gone        \* an entry that was freed

ASSUME IndexFileAssumption ==
  /\ None \notin Blob /\ Side \notin Blob
  /\ Repo \subseteq Memory
  /\ Disputed \subseteq Path
  /\ Pathspec \subseteq SUBSET Path
  /\ Tree \subseteq [Path -> Blob \cup {None}]

VARIABLES
  disk,   \* the file
  mem,    \* mem[i]: the index in memory
  stale,  \* the memories whose file was written by another since they last
          \* read or wrote it (a history variable)
  edits,  \* edits[i]: the paths changed in memory since then (a history variable)
  view    \* view[e]: the entry e points to

vars == <<disk, mem, stale, edits, view>>

\* stage 0 of every path, and the paths with entries of stages 1 to 3
Content == [entry : [Path -> Blob \cup {None}], conflict : SUBSET Path]

View == [of : Memory, path : Path, blob : Blob \cup {Side}]

TypeOK ==
  /\ disk \in Content
  /\ mem \in [Memory -> Content]
  /\ stale \subseteq Memory
  /\ edits \in [Memory -> SUBSET Path]
  /\ view \in [Entry -> View \cup {None, Gone}]

Init ==
  /\ disk \in {c \in Content : c.conflict = {}}
  /\ mem = [i \in Memory |-> disk]
  /\ stale = {}
  /\ edits = [i \in Memory |-> {}]
  /\ view = [e \in Entry |-> None]

Differ(c, d) ==
  {p \in Path : c.entry[p] # d.entry[p] \/ (p \in c.conflict) # (p \in d.conflict)}

Present(e) == view[e] \notin {None, Gone}

\* the IndexEntry objects on entries of i at paths in P: all of them, those
\* on stage 0, those on sides of conflicts
At(i, P) == {e \in Entry : Present(e) /\ view[e].of = i /\ view[e].path \in P}

Staged(i, P) == {e \in At(i, P) : view[e].blob # Side}

Sides(i, P) == {e \in At(i, P) : view[e].blob = Side}

\* the entries the objects in E are on are freed
Freed(E) == [e \in Entry |-> IF e \in E THEN Gone ELSE view[e]]

-----------------------------------------------------------------------------
(* In memory.                                                               *)

\* the memory of i becomes c; the objects in E are on entries it freed
Edit(i, c, E) ==
  /\ mem' = [mem EXCEPT ![i] = c]
  /\ edits' = [edits EXCEPT ![i] = @ \cup Differ(mem[i], c)]
  /\ view' = Freed(E)
  /\ UNCHANGED <<disk, stale>>

\* mutation: an entry that is replaced stays allocated
AddEntryInPlace(i, p, b) == Edit(i, [mem[i] EXCEPT !.entry[p] = b], {})

\* add(entry) of stage 0: a conflict at the path stays
AddEntry(i, p, b) == Edit(i, [mem[i] EXCEPT !.entry[p] = b], Staged(i, {p}))

\* add(path), which also resolves a conflict
AddPath(i, p, b) ==
  Edit(i, [mem[i] EXCEPT !.entry[p] = b, !.conflict = @ \ {p}], At(i, {p}))

\* remove of a path, with all its stages
Remove(i, p) ==
  Edit(i, [mem[i] EXCEPT !.entry[p] = None, !.conflict = @ \ {p}], At(i, {p}))

\* remove(path, 0) and removeDirectory(dir, 0)
RemoveStaged(i, P) ==
  Edit(i, [mem[i] EXCEPT !.entry = [p \in Path |-> IF p \in P THEN None ELSE @[p]]],
       Staged(i, P))

Clear(i) ==
  Edit(i, [entry |-> [p \in Path |-> None], conflict |-> {}], At(i, Path))

ReadTree(i, tree) ==
  Edit(i, [entry |-> tree, conflict |-> {}], At(i, Path))

\* addConflict, and add(entry) of another stage: the sides are copied into
\* entries of their own, in place of any of those already there
AddConflict(i, p, E) ==
  /\ E \subseteq Sides(i, {p})
  /\ Edit(i, [mem[i] EXCEPT !.conflict = @ \cup {p}], E)

\* removeConflict, cleanupConflict, and the removal of a stage other than 0,
\* which may leave other sides: no side is left at the paths in K
RemoveSides(i, K, E) ==
  /\ K \subseteq mem[i].conflict
  /\ Sides(i, K) \subseteq E /\ E \subseteq Sides(i, Path)
  /\ Edit(i, [mem[i] EXCEPT !.conflict = @ \ K], E)

-----------------------------------------------------------------------------
(* The file.                                                                *)

\* mutation: what was changed in memory is kept
LoadMerging(i) ==
  /\ mem' = [mem EXCEPT ![i].entry = [p \in Path |-> IF p \in edits[i] THEN @[p] ELSE disk.entry[p]]]
  /\ edits' = [edits EXCEPT ![i] = {}]
  /\ stale' = stale \ {i}
  /\ view' = Freed(At(i, Path))
  /\ UNCHANGED disk

\* Index::read: all of the memory is replaced, and every entry with it
Load(i) ==
  /\ mem' = [mem EXCEPT ![i] = disk]
  /\ edits' = [edits EXCEPT ![i] = {}]
  /\ stale' = stale \ {i}
  /\ view' = Freed(At(i, Path))
  /\ UNCHANGED disk

\* the memory of i, changed to c, is written: the others are stale
Save(i, c) ==
  /\ disk' = c
  /\ mem' = [mem EXCEPT ![i] = c]
  /\ edits' = [edits EXCEPT ![i] = {}]
  /\ stale' = IF c = disk THEN stale \ {i} ELSE (stale \cup Memory) \ {i}

Write(i) ==
  /\ Save(i, mem[i])
  /\ UNCHANGED view

\* listStatus, status and statusForeach refresh the repository's index first
Status(i) == i \in Repo /\ Load(i)

\* the entries at P are those of a tree, and the conflicts at Q are gone
Merged(c, P, Q, tree) ==
  [entry |-> [p \in Path |-> IF p \in P THEN tree[p] ELSE c.entry[p]],
   conflict |-> c.conflict \ Q]

\* A checkout reads the index first, unless it is told not to or the file did
\* not change.
Base(i, refresh) == IF refresh THEN disk ELSE mem[i]

Replaced(i, refresh, P, Q) ==
  IF refresh THEN At(i, Path) ELSE Staged(i, P) \cup Sides(i, Q)

\* checkoutHead, checkoutTree and stashSave: the paths of the strategy and the
\* pathspec, none by default, are put in, and the index is written
Checkout(i, refresh, P, Q, tree) ==
  /\ i \in Repo
  /\ Save(i, Merged(Base(i, refresh), P, Q, tree))
  /\ view' = Freed(Replaced(i, refresh, P, Q))

\* one that is cancelled, fails, or is unwound by a callback leaves the paths
\* it had come to in memory; so does one that is told not to write, and a
\* reset that cannot
CheckoutCut(i, refresh, P, Q, tree) ==
  /\ i \in Repo
  /\ LET c == Merged(Base(i, refresh), P, Q, tree)
     IN  /\ mem' = [mem EXCEPT ![i] = c]
         /\ edits' = [edits EXCEPT ![i] =
              (IF refresh THEN {} ELSE @) \cup Differ(Base(i, refresh), c)]
  /\ stale' = IF refresh THEN stale \ {i} ELSE stale
  /\ view' = Freed(Replaced(i, refresh, P, Q))
  /\ UNCHANGED disk

\* checkoutIndex: the repository's own index is not read again
CheckoutIndex(i, j, refresh, P, Q) ==
  /\ j = i => ~refresh
  /\ \/ Checkout(i, refresh, P, Q, mem[j].entry)
     \/ CheckoutCut(i, refresh, P, Q, mem[j].entry)

\* Repository::reset, mixed or hard; a soft one leaves the index alone
Reset(i, tree) ==
  /\ i \in Repo
  /\ Save(i, [entry |-> tree, conflict |-> {}])
  /\ view' = Freed(At(i, Path))

\* mutation: the conflicts at other paths go as well
ResetDefaultAll(i, P, tree) ==
  /\ i \in Repo
  /\ Save(i, Merged(mem[i], P, Path, tree))
  /\ view' = Freed(Staged(i, P) \cup Sides(i, Path))

\* resetDefault puts the entries of a tree in and writes the whole index:
\* what the client changed in memory and never wrote goes to the file
ResetDefault(i, P, tree) ==
  /\ i \in Repo
  /\ Save(i, Merged(mem[i], P, P, tree))
  /\ view' = Freed(At(i, P))

-----------------------------------------------------------------------------
(* Entries.                                                                 *)

\* mutation: an entry that is not there is taken for one
GetUnchecked(e, i, p) ==
  /\ view' = [view EXCEPT ![e] =
       [of |-> i, path |-> p, blob |-> mem[i].entry[p]]]
  /\ UNCHANGED <<disk, mem, stale, edits>>

\* get, by position or by path: a null entry for a path that is not there
Get(e, i, p) ==
  /\ view' = [view EXCEPT ![e] =
       IF mem[i].entry[p] = None THEN None
       ELSE [of |-> i, path |-> p, blob |-> mem[i].entry[p]]]
  /\ UNCHANGED <<disk, mem, stale, edits>>

\* getConflict, and get of another stage: a side that is not there is a
\* null entry
GetSides(E, i, p) ==
  /\ \E F \in SUBSET E :
       /\ F = {} \/ p \in mem[i].conflict
       /\ view' = [e \in Entry |->
            IF e \in F THEN [of |-> i, path |-> p, blob |-> Side]
            ELSE IF e \in E THEN None ELSE view[e]]
  /\ UNCHANGED <<disk, mem, stale, edits>>

InMemory(i) ==
  \/ Clear(i)
  \/ \E p \in Path :
       \/ Remove(i, p)
       \/ \E b \in Blob : AddEntry(i, p, b) \/ AddPath(i, p, b)
       \/ \E e \in Entry : Get(e, i, p)
  \/ \E p \in Disputed :
       \/ \E E \in SUBSET Entry : AddConflict(i, p, E) \/ GetSides(E, i, p)
  \/ \E K \in SUBSET Path, E \in SUBSET Entry : RemoveSides(i, K, E)
  \/ \E P \in Pathspec : RemoveStaged(i, P)
  \/ \E tree \in Tree : ReadTree(i, tree)

WithFile(i) ==
  \/ Load(i) \/ Write(i) \/ Status(i)
  \/ \E tree \in Tree : Reset(i, tree)
  \/ \E P \in Pathspec :
       \/ \E tree \in Tree : ResetDefault(i, P, tree)
       \/ \E Q \in {{}, P}, refresh \in BOOLEAN :
            \/ \E tree \in Tree : Checkout(i, refresh, P, Q, tree) \/ CheckoutCut(i, refresh, P, Q, tree)
            \/ \E j \in Memory : CheckoutIndex(i, j, refresh, P, Q)

Next == \E i \in Memory : InMemory(i) \/ WithFile(i)

Spec == Init /\ [][Next]_vars

-----------------------------------------------------------------------------
(* Properties.                                                              *)

(* An index in memory that nobody wrote past differs from the file only     *)
(* where it was changed itself and not written, by the client or a checkout *)
(* that was cut short: read, write, and the methods that do either behind   *)
(* the client's back, leave no difference unaccounted for                   *)
(* (index.cpp:113-121, repository.cpp:482-549, repository.cpp:689-703,      *)
(* repository.cpp:923-1071).                                                *)
UnsavedAreEdits ==
  \A i \in Memory \ stale : Differ(mem[i], disk) \subseteq edits[i]

Shows(v, c) ==
  IF v.blob = Side THEN v.path \in c.conflict ELSE c.entry[v.path] = v.blob

(* An IndexEntry shows what the index holds at its path and stage, or       *)
(* dangles: no change of the index makes an entry show something else, or   *)
(* leaves it on an older version that is still in place                     *)
(* (index.cpp:156-194).                                                     *)
EntriesAreCurrent ==
  \A e \in Entry : Present(e) => Shows(view[e], mem[view[e].of])

(* Two handles on one file lose no update silently: a write or reset by an  *)
(* index that nobody wrote past changes the file only where this index was  *)
(* changed, or where the reset was told to.  Everybody else's writes are    *)
(* overwritten by a stale one only (index.cpp:118-121,                      *)
(* repository.cpp:694-703).                                                 *)
FreshWritesKeepOthers ==
  [][disk' # disk => \A i \in Memory \ stale :
       LET others == Differ(disk, disk') \ edits[i]
       IN  others # {} =>
             /\ ~Write(i)
             /\ \A P \in Pathspec, tree \in Tree : ResetDefault(i, P, tree) => others \subseteq P]_vars
=============================================================================
