----------------------------- MODULE References -----------------------------
(***************************************************************************)
(* The references of a repository and the Reference and Branch objects on  *)
(* them.  A native git_reference is a snapshot: a name and the value the   *)
(* reference had when it was loaded.  It is never changed; methods that    *)
(* write a reference write it by NAME, whatever the snapshot says, get a   *)
(* new snapshot from libgit2 and, in setTarget, rename and move, replace   *)
(* the object's own with it.                                               *)
(*                                                                         *)
(* A native call that fails throws, and leaves store and objects as they   *)
(* were: a stuttering step, except where it fails half-way.                *)
(***************************************************************************)
EXTENDS Naturals

CONSTANTS
  Name,     \* names of references
  Oid,      \* object ids
  None,     \* no reference, no object
  HEAD,     \* the name HEAD
  Branch,   \* the names under refs/heads
  Handle,   \* the client's Reference and Branch objects
  Nesting   \* symbolic references libgit2 follows before it gives up

ASSUME ReferencesAssumption ==
  /\ HEAD \in Name /\ Branch \subseteq Name /\ HEAD \notin Branch
  /\ Name \cap Oid = {} /\ None \notin Oid \cup Name
  /\ Nesting \in Nat

VARIABLES
  store,  \* store[n]: an id (direct), a name (symbolic) or None
  snap,   \* snap[h]: the snapshot h is on, None for a null object
  behind  \* the objects whose reference was changed by a call that did not
          \* give them a new snapshot (a history variable)

vars == <<store, snap, behind>>

Value == Oid \cup Name

Snapshot == [name : Name, value : Value]

TypeOK ==
  /\ store \in [Name -> Value \cup {None}]
  /\ snap \in [Handle -> Snapshot \cup {None}]
  /\ behind \subseteq Handle

Init ==
  /\ \E b \in Branch : store = [n \in Name |-> IF n = HEAD THEN b ELSE None]
  /\ snap = [h \in Handle |-> None]
  /\ behind = {}

-----------------------------------------------------------------------------
(* Names.                                                                   *)

\* a symbolic reference is followed, a direct or missing one stays
Follow(s) == [n \in Name |-> IF s[n] \in Name THEN s[n] ELSE n]

\* F applied Nesting times
End(F, n) ==
  LET reach[k \in 0 .. Nesting] == IF k = 0 THEN n ELSE F[reach[k - 1]]
  IN  reach[Nesting]

\* where the chain of symbolic references that starts at n ends
Terminal(n) == End(Follow(store), n)

HeadBorn == store[Terminal(HEAD)] \in Oid

\* Branch::isHead, by name: the branch may have moved since it was loaded
IsHead(b) == HeadBorn /\ Terminal(HEAD) = b

Free(n, force) == store[n] = None \/ force

\* the objects that were on a changed name, apart from the one in fresh
Update(fresh, s) ==
  behind' = (behind \cup {g \in Handle : /\ snap[g] # None
                                         /\ s[snap[g].name] # store[snap[g].name]})
            \ fresh

\* The references become s; the objects in fresh get the snapshot of n.
Put(fresh, n, s) ==
  /\ store' = s
  /\ snap' = [h \in Handle |-> IF h \in fresh THEN [name |-> n, value |-> s[n]] ELSE snap[h]]
  /\ Update(fresh, s)

\* at most one object gets the result of a call; the client may drop it
Receiver == {{}} \cup {{h} : h \in Handle}

-----------------------------------------------------------------------------
(* Loading.                                                                 *)

\* mutation: the code of the lookup is not looked at
LookupUnchecked(h, n) == Put({h}, n, store)

\* lookupReference, lookupShorthandReference, lookupBranch, Branch::upstream
Lookup(h, n) ==
  /\ store[n] # None
  /\ Put({h}, n, store)

\* Repository::head fails on an unborn HEAD
LookupHead(h) ==
  /\ HeadBorn
  /\ Put({h}, Terminal(HEAD), store)

\* Reference::resolve follows the names again, from the old snapshot's value
Resolve(h, g) ==
  /\ snap[g] # None
  /\ LET n == IF snap[g].value \in Name THEN Terminal(snap[g].value) ELSE snap[g].name
     IN  store[n] \in Oid /\ Put({h}, n, store)

\* copies and assignments share the snapshot, and what is known about it
Copy(h, g) ==
  /\ snap' = [snap EXCEPT ![h] = snap[g]]
  /\ behind' = (behind \ {h}) \cup (IF g \in behind THEN {h} ELSE {})
  /\ UNCHANGED store

Release(h) ==
  /\ snap' = [snap EXCEPT ![h] = None]
  /\ behind' = behind \ {h}
  /\ UNCHANGED store

-----------------------------------------------------------------------------
(* Writing through the repository.                                          *)

\* createReference, createBranch, createTag; createSymbolicReference for
\* names that are no branch; stashSave and Remote::updateTips for theirs
Create(fresh, n, v, force) ==
  /\ n # HEAD
  /\ v \in Name => n \notin Branch
  /\ Free(n, force)
  /\ Put(fresh, n, [store EXCEPT ![n] = v])

\* deleteTag, stashDrop of the last stash; Remote::rename is one of these
\* and a Create for each reference of the remote
DeleteTag(n) ==
  /\ n \notin Branch \cup {HEAD}
  /\ store[n] # None
  /\ Put({}, n, [store EXCEPT ![n] = None])

\* mutation: a symbolic reference is overwritten, not followed
CreateCommitHere(n, o) == Put({}, n, [store EXCEPT ![n] = o])

\* createCommit updates the reference at the end of the chain
CreateCommit(n, o) ==
  /\ store[Terminal(n)] \notin Name
  /\ Put({}, Terminal(n), [store EXCEPT ![Terminal(n)] = o])

\* Repository::reset: the branch HEAD is on, or HEAD itself
Reset(o) == HeadBorn /\ CreateCommit(HEAD, o)

\* HEAD becomes symbolic for a branch, born or not, detached otherwise
HeadAt(n, s) == IF n \in Branch THEN n ELSE s[n]

SetHead(n) ==
  /\ n # HEAD
  /\ n \notin Branch => store[n] \in Oid
  /\ Put({}, HEAD, [store EXCEPT ![HEAD] = HeadAt(n, store)])

DetachHead ==
  /\ HeadBorn
  /\ Put({}, HEAD, [store EXCEPT ![HEAD] = store[Terminal(HEAD)]])

-----------------------------------------------------------------------------
(* Writing through an object.                                               *)

\* mutation: the new snapshot is let go and the old one kept
SetTargetKeeping(h, o) ==
  /\ snap[h] # None /\ snap[h].value \in Oid
  /\ store' = [store EXCEPT ![snap[h].name] = o]
  /\ Update({h}, store')
  /\ UNCHANGED snap

\* At once, by name and without a look at the store: a reference deleted
\* since comes back, and one moved since is overwritten.  The native call
\* fails on a symbolic snapshot.  (ref.hpp:175-180 says that the reference
\* becomes direct, and that nothing changes until it is written back.)
SetTarget(h, o) ==
  /\ snap[h] # None /\ snap[h].value \in Oid
  /\ Put({h}, snap[h].name, [store EXCEPT ![snap[h].name] = o])

\* mutation: the kind of the reference is not looked at
SetSymbolicTargetAny(h, fresh, n) ==
  /\ snap[h] # None
  /\ n # snap[h].name
  /\ Put(fresh, snap[h].name, [store EXCEPT ![snap[h].name] = n])

\* the result is a new object: h itself stays on the old snapshot
SetSymbolicTarget(h, fresh, n) ==
  /\ snap[h] # None /\ snap[h].value \in Name
  /\ n # snap[h].name
  /\ Put(fresh, snap[h].name, [store EXCEPT ![snap[h].name] = n])

Moved(a, b) ==
  IF a = b THEN store ELSE [store EXCEPT ![b] = store[a], ![a] = None]

\* HEAD follows the branch it is on
MovedWithHead(a, b) ==
  IF IsHead(a) THEN [Moved(a, b) EXCEPT ![HEAD] = HeadAt(b, Moved(a, b))] ELSE Moved(a, b)

\* HEAD is not renamed by the client
Renamable(h, n, force) ==
  /\ snap[h] # None
  /\ HEAD \notin {n, snap[h].name}
  /\ store[snap[h].name] # None
  /\ store[snap[h].name] \in Name => n \notin Branch
  /\ Free(n, force)

Rename(h, n, force) ==
  /\ Renamable(h, n, force)
  /\ Put({h}, n, MovedWithHead(snap[h].name, n))

\* the reference is moved, HEAD is not, and the method throws
\* before it replaces the snapshot
RenameFails(h, n, force) ==
  /\ Renamable(h, n, force)
  /\ Put({}, n, Moved(snap[h].name, n))

Movable(h, n, force) ==
  /\ Renamable(h, n, force)
  /\ {snap[h].name, n} \subseteq Branch

BranchMove(h, n, force) ==
  /\ Movable(h, n, force)
  /\ Put({h}, n, MovedWithHead(snap[h].name, n))

\* the native move renames the reference, HEAD and a section of the
\* configuration, and may fail between any two
BranchMoveFails(h, n, force) ==
  /\ Movable(h, n, force)
  /\ \E s \in {Moved(snap[h].name, n), MovedWithHead(snap[h].name, n)} : Put({}, n, s)

\* Reference::deleteReference leaves a null object
Delete(h) ==
  /\ snap[h] # None /\ snap[h].name # HEAD
  /\ store[snap[h].name] # None
  /\ store' = [store EXCEPT ![snap[h].name] = None]
  /\ snap' = [snap EXCEPT ![h] = None]
  /\ Update({h}, store')

\* mutation: the branch of HEAD is deleted like any other reference
BranchDeleteAny(h) ==
  /\ snap[h] # None /\ snap[h].name \in Branch
  /\ store[snap[h].name] # None
  /\ Put({}, snap[h].name, [store EXCEPT ![snap[h].name] = None])

\* Branch::del keeps the object, on a branch that is no more
BranchDelete(h) ==
  /\ snap[h] # None /\ snap[h].name \in Branch
  /\ store[snap[h].name] # None
  /\ ~IsHead(snap[h].name)
  /\ Put({}, snap[h].name, [store EXCEPT ![snap[h].name] = None])

-----------------------------------------------------------------------------
ThroughRepository ==
  \/ \E n \in Name :
       \/ DeleteTag(n)
       \/ SetHead(n)
       \/ \E fresh \in Receiver, v \in Value, force \in BOOLEAN : Create(fresh, n, v, force)
       \/ \E o \in Oid : CreateCommit(n, o)
  \/ \E o \in Oid : Reset(o)
  \/ DetachHead

ThroughObject ==
  \E h \in Handle :
    \/ LookupHead(h)
    \/ Release(h)
    \/ Delete(h)
    \/ BranchDelete(h)
    \/ \E g \in Handle : Copy(h, g) \/ Resolve(h, g)
    \/ \E o \in Oid : SetTarget(h, o)
    \/ \E n \in Name :
         \/ Lookup(h, n)
         \/ \E fresh \in Receiver : SetSymbolicTarget(h, fresh, n)
         \/ \E force \in BOOLEAN :
              \/ Rename(h, n, force)
              \/ RenameFails(h, n, force)
              \/ BranchMove(h, n, force)
              \/ BranchMoveFails(h, n, force)

Next ==
  \/ ThroughRepository
  \/ ThroughObject

Spec == Init /\ [][Next]_vars

-----------------------------------------------------------------------------
(* Properties.                                                              *)

Outdated(h) == snap[h] # None /\ store[snap[h].name] # snap[h].value

\* An object is out of date only when a call that did not hand it a new
\* snapshot changed its reference.
UpToDate == \A h \in Handle \ behind : ~Outdated(h)

\* the calls that write the store without reading it
Overwriting(h) ==
  \/ \E o \in Oid : SetTarget(h, o)
  \/ \E fresh \in Receiver, n \in Name : SetSymbolicTarget(h, fresh, n)

(* An update is overwritten, and a deleted reference brought back, only by  *)
(* an object that another call passed over since it was loaded: setTarget,  *)
(* rename and move put their own object on what they wrote, so that an      *)
(* object used by itself never loses an update (ref.cpp:96-121,             *)
(* branch.cpp:55-60).                                                       *)
OutdatedOverwrites ==
  [][\A h \in Handle : Outdated(h) /\ Overwriting(h) => h \in behind]_vars

(* A branch leads to a commit, never to another name, and no object takes   *)
(* it for symbolic, however old its snapshot: the calls that make symbolic  *)
(* references write by name, what a client that leaves the branches direct  *)
(* loaded as symbolic (ref.cpp:96-115, repository.cpp:271-277).             *)
BranchesDirect ==
  /\ \A b \in Branch : store[b] \notin Name
  /\ \A h \in Handle :
       snap[h] # None /\ snap[h].name \in Branch => snap[h].value \notin Name

\* the calls through Branch objects that remove a name
BranchCalls ==
  \E h \in Handle :
    \/ BranchDelete(h)
    \/ \E n \in Name, force \in BOOLEAN : BranchMove(h, n, force) \/ BranchMoveFails(h, n, force)

\* the branch of HEAD is under its new name, and HEAD is not
MovedWithoutHead ==
  \E h \in Handle, n \in Name, force \in BOOLEAN :
    /\ BranchMoveFails(h, n, force)
    /\ IsHead(snap[h].name)
    /\ store'[n] = store[snap[h].name]

(* Deleting and moving branches, through however stale a Branch object,     *)
(* never leaves HEAD on a branch that does not exist, unless a move throws  *)
(* half-way; the commit of HEAD is then at the new name                     *)
(* (branch.cpp:43-60).                                                      *)
BranchesKeepHead ==
  [][HeadBorn /\ BranchCalls => HeadBorn' \/ MovedWithoutHead]_vars

\* the calls that are there to detach HEAD, or leave it on no branch
Detaching ==
  \/ DetachHead
  \/ \E n \in Name \ Branch : SetHead(n)
  \/ \E h \in Handle, n \in Name \ Branch, force \in BOOLEAN : Rename(h, n, force)

(* HEAD leaves its branch only by a call that says so, or through an object *)
(* that was loaded from a detached HEAD and has been out of date since:     *)
(* commits and resets go to the branch, and a fresh object never detaches   *)
(* (repository.cpp:279-317, repository.cpp:657-692, ref.cpp:96-115).        *)
DetachedOnPurpose ==
  [][store[HEAD] \in Name /\ store'[HEAD] \in Oid =>
       \/ Detaching
       \/ \E h \in behind : snap[h].name = HEAD]_vars
=============================================================================
