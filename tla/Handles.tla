------------------------------- MODULE Handles -------------------------------
(***************************************************************************)
(* The ownership machinery every class of libgit2pp is built on:           *)
(* Git2PtrWrapper, a std::shared_ptr whose deleter is the libgit2 _free    *)
(* function of the class, and the copy constructors of the classes, which  *)
(* come in two kinds.  A SHARING class copies the base wrapper             *)
(* ("_Class(other)"): the two objects share one control block.  An         *)
(* ADOPTING class passes the bare pointer on ("_Class(other.data())"): the *)
(* copy gets a control block of its own on a pointer that already has one. *)
(*                                                                         *)
(* libgit2 counts the references of the objects it hands out more than     *)
(* once (the repository's index, cached objects); the model keeps that     *)
(* count for every native object, with 0 for "not allocated".  The         *)
(* reference counts of std::shared_ptr are not modelled: a control block   *)
(* is in use while a wrapper object in scope points to it.                 *)
(***************************************************************************)
EXTENDS Naturals, FiniteSets

CONSTANTS
  Handle,   \* wrapper objects: variables, temporaries, by-value parameters
  Native,   \* addresses of native libgit2 objects
  Block,    \* shared_ptr control blocks
  Null,     \* the null pointer, and "no control block"
  ClassOf,  \* ClassOf[h]: the C++ class of a wrapper object
  KindOf,   \* KindOf[n]: what libgit2 allocates at address n
  HomeOf,   \* HomeOf[n]: the repository n belongs to, or Null
  Copied    \* the adopting classes whose non-null objects the client copies

ObjectClass == {"Commit", "Tree", "Tag", "Blob"}

SharingClass == {"Repository", "Object"} \cup ObjectClass

AdoptingClass == {"Reference", "RefLog", "Branch", "RevWalk", "Index",
                  "DiffList", "DiffPatch", "DatabaseObject", "StatusList"}

(* The repository keeps a reference of its own to these: its index, and the *)
(* objects in its object cache.                                             *)
CachedKind == {"Index", "DatabaseObject"} \cup ObjectClass

ASSUME HandlesAssumption ==
  /\ IsFiniteSet(Block)
  /\ Null \notin Block \cup Native
  /\ Handle \cap Native = {}
  /\ ClassOf \in [Handle -> SharingClass \cup AdoptingClass]
  /\ KindOf \in [Native -> (SharingClass \cup AdoptingClass) \ {"Object"}]
  /\ HomeOf \in [Native -> Native \cup {Null}]
  /\ \A n \in Native : HomeOf[n] # Null =>
       KindOf[n] # "Repository" /\ KindOf[HomeOf[n]] = "Repository"
  /\ Copied \subseteq AdoptingClass

VARIABLES
  scope,  \* the wrapper objects that are constructed and not destroyed
  ptr,    \* ptr[h]: the control block h points to, Null for a null object
  raw,    \* raw[b]: the pointer control block b owns, Null when b is unused
  refs,   \* refs[n]: libgit2's reference count of n, 0 when not allocated
  held,   \* the native objects their repository holds a reference to
  fault   \* a native object was freed once more than it was referenced

vars == <<scope, ptr, raw, refs, held, fault>>

(***************************************************************************)
(* Helpers                                                                 *)
(***************************************************************************)
Data(h) == IF ptr[h] = Null THEN Null ELSE raw[ptr[h]]

\* an object of class Object may hold any of the four object types
Fits(h, n) ==
  ClassOf[h] = KindOf[n] \/ (ClassOf[h] = "Object" /\ KindOf[n] \in ObjectClass)

Unused == {b \in Block : raw[b] = Null}

RepositoryOf(n) == IF KindOf[n] = "Repository" THEN n ELSE HomeOf[n]

\* mutation: the destructor frees although other objects share the pointer
LastUnchecked(h) == ptr[h] # Null

\* h is the only wrapper object on its control block
Last(h) == ptr[h] # Null /\ \A g \in scope \ {h} : ptr[g] # ptr[h]

\* the native object whose _free function runs when h lets go of its block
Freed(h) == IF Last(h) THEN raw[ptr[h]] ELSE Null

\* what a call of the _free function of n takes one reference from: n, and
\* when it was the last reference of a repository, all that repository held
Dropped(n) ==
  IF n = Null THEN {}
  ELSE {n} \cup {m \in held : HomeOf[m] = n /\ refs[n] = 1}

Less(S) == [n \in Native |-> IF n \in S /\ refs[n] > 0 THEN refs[n] - 1 ELSE refs[n]]

\* n's count once libgit2 has handed it out: allocated, or found in its
\* repository, which keeps a reference of its own to the kinds it caches
CountHandedOut(n) ==
  IF n \in held THEN refs[n] + 1
  ELSE IF KindOf[n] \in CachedKind THEN 2 ELSE 1

\* h's control block after h let go of it
RawWithout(h) == [b \in Block |-> IF Last(h) /\ b = ptr[h] THEN Null ELSE raw[b]]

\* the part of a step in which h lets go of its control block: the deleter
\* runs if h was the last one on it
LetGo(h) ==
  LET S == Dropped(Freed(h)) IN
    /\ held' = held \ (S \ {Freed(h)})
    /\ fault' = (fault \/ \E n \in S : refs[n] = 0)

(***************************************************************************)
(* Actions                                                                 *)
(***************************************************************************)
Init ==
  /\ scope = {}
  /\ ptr = [h \in Handle |-> Null]
  /\ raw = [b \in Block |-> Null]
  /\ refs = [n \in Native |-> 0]
  /\ held = {}
  /\ fault = FALSE

\* Construct wrapper object h on pointer n: a new control block adopts it.
Construct(h, n) ==
  \E b \in Unused :
    /\ scope' = scope \cup {h}
    /\ ptr' = [ptr EXCEPT ![h] = b]
    /\ raw' = [raw EXCEPT ![b] = n]

\* Repository::init, open: a repository handle on a new native repository.
Open(h, n) ==
  /\ h \notin scope /\ ClassOf[h] = "Repository"
  /\ KindOf[n] = "Repository" /\ refs[n] = 0
  /\ Construct(h, n)
  /\ refs' = [refs EXCEPT ![n] = 1]
  /\ UNCHANGED <<held, fault>>

\* The factory functions (lookupReference, index, lookupCommit, diffs, ...):
\* libgit2 returns a new object, or one more reference to a cached one.  The
\* call goes through g, a repository or an object of one: the client keeps
\* the repository open while it calls.
HandOut(h, g, n) ==
  /\ h \notin scope /\ g \in scope /\ Data(g) # Null
  /\ HomeOf[n] # Null /\ RepositoryOf(Data(g)) = HomeOf[n]
  /\ refs[HomeOf[n]] > 0
  /\ Fits(h, n)
  /\ refs[n] = 0 \/ n \in held
  /\ Construct(h, n)
  /\ refs' = [refs EXCEPT ![n] = CountHandedOut(n)]
  /\ held' = IF KindOf[n] \in CachedKind THEN held \cup {n} ELSE held
  /\ UNCHANGED fault

\* Default construction: a null object (the deleter accepts NULL).
ConstructNull(h) ==
  /\ h \notin scope
  /\ scope' = scope \cup {h}
  /\ UNCHANGED <<ptr, raw, refs, held, fault>>

\* A copy by the bare pointer, _Class(other.data()): a second control block on
\* what other points to, without a reference for it.
CopyPointer(h, g) ==
  /\ h \notin scope /\ g \in scope /\ ClassOf[h] = ClassOf[g]
  /\ IF Data(g) = Null
     THEN scope' = scope \cup {h} /\ UNCHANGED <<ptr, raw>>
     ELSE Construct(h, Data(g))
  /\ UNCHANGED <<refs, held, fault>>

\* Copy constructor of a sharing class, and Object::toCommit, toTag, toTree
\* and toBlob (a null object when the type does not match).  The constructors
\* these go through are public and test no type; who owns what is the same.
CopySharing(h, g) ==
  /\ h \notin scope /\ g \in scope
  /\ {ClassOf[h], ClassOf[g]} \subseteq SharingClass
  /\ ClassOf[h] = ClassOf[g] \/ (ClassOf[g] = "Object" /\ ClassOf[h] \in ObjectClass)
  /\ scope' = scope \cup {h}
  /\ ptr' = [ptr EXCEPT ![h] = IF Data(g) # Null /\ Fits(h, Data(g)) THEN ptr[g] ELSE Null]
  /\ UNCHANGED <<raw, refs, held, fault>>

\* Copy constructor of an adopting class.  Passing such an object by value
\* (diffTreeToIndex(Tree, Index), std::function<bool(Reference)>) is this
\* step, followed by Destroy of the copy.
CopyAdopting(h, g) ==
  /\ ClassOf[h] \in AdoptingClass
  /\ Data(g) # Null => ClassOf[h] \in Copied
  /\ CopyPointer(h, g)

\* mutation: a wrapper around a bare pointer forgets the one it had
AssignPointer(h, g) ==
  /\ {h, g} \subseteq scope /\ h # g /\ ClassOf[h] = ClassOf[g]
  /\ ptr' = [ptr EXCEPT ![h] = ptr[g]]
  /\ UNCHANGED <<scope, raw, refs, held, fault>>

\* Copy assignment, the implicit one of every class: it assigns the
\* shared_ptr, for sharing and adopting classes alike.
Assign(h, g) ==
  /\ {h, g} \subseteq scope /\ h # g /\ ClassOf[h] = ClassOf[g]
  /\ ptr' = [ptr EXCEPT ![h] = ptr[g]]
  /\ IF ptr[h] = ptr[g]
     THEN UNCHANGED <<raw, refs, held, fault>>
     ELSE /\ raw' = RawWithout(h)
          /\ refs' = Less(Dropped(Freed(h)))
          /\ LetGo(h)
  /\ UNCHANGED scope

\* *this = X(pointer): Reference::setTarget and rename, Branch::move, and
\* Index::open, which opens an index file no repository holds.  The new
\* object is wrapped and assigned, then the old one is let go.
Replace(h, n) ==
  /\ h \in scope /\ refs[n] = 0 /\ KindOf[n] = ClassOf[h]
  /\ \/ ClassOf[h] \in {"Reference", "Branch"} /\ Data(h) # Null
        /\ HomeOf[n] = HomeOf[Data(h)] /\ HomeOf[n] # Null /\ refs[HomeOf[n]] > 0
     \/ ClassOf[h] = "Index" /\ HomeOf[n] = Null
  /\ \E b \in Unused :
       /\ ptr' = [ptr EXCEPT ![h] = b]
       /\ raw' = [RawWithout(h) EXCEPT ![b] = n]
  /\ refs' = [Less(Dropped(Freed(h))) EXCEPT ![n] = 1]
  /\ LetGo(h)
  /\ UNCHANGED scope

\* mutation: the reference is freed and the wrapper keeps its pointer
ResetDangling(h) ==
  /\ h \in scope /\ ClassOf[h] = "Reference" /\ Data(h) # Null
  /\ refs' = Less(Dropped(Data(h)))
  /\ UNCHANGED <<scope, ptr, raw, held, fault>>

\* Reference::deleteReference ends with *this = Reference().
Reset(h) ==
  /\ h \in scope /\ ClassOf[h] = "Reference" /\ Data(h) # Null
  /\ ptr' = [ptr EXCEPT ![h] = Null]
  /\ raw' = RawWithout(h)
  /\ refs' = Less(Dropped(Freed(h)))
  /\ LetGo(h)
  /\ UNCHANGED scope

\* Destructor: end of scope of a variable, a temporary or a parameter.
Destroy(h) ==
  /\ h \in scope
  /\ scope' = scope \ {h}
  /\ ptr' = [ptr EXCEPT ![h] = Null]
  /\ raw' = RawWithout(h)
  /\ refs' = Less(Dropped(Freed(h)))
  /\ LetGo(h)

\* libgit2's object cache drops an object to make room.
Evict(n) ==
  /\ n \in held /\ KindOf[n] # "Index"
  /\ held' = held \ {n}
  /\ refs' = Less({n})
  /\ fault' = (fault \/ refs[n] = 0)
  /\ UNCHANGED <<scope, ptr, raw>>

Next ==
  \/ \E h \in Handle : ConstructNull(h) \/ Reset(h) \/ Destroy(h)
  \/ \E h \in Handle, n \in Native : Open(h, n) \/ Replace(h, n)
  \/ \E h, g \in Handle : CopySharing(h, g) \/ CopyAdopting(h, g) \/ Assign(h, g)
  \/ \E h, g \in Handle, n \in Native : HandOut(h, g, n)
  \/ \E n \in Native : Evict(n)

Spec == Init /\ [][Next]_vars

(***************************************************************************)
(* Properties                                                              *)
(***************************************************************************)

(* Types of the state.                                                      *)
TypeOK ==
  /\ scope \subseteq Handle
  /\ ptr \in [Handle -> Block \cup {Null}]
  /\ raw \in [Block -> Native \cup {Null}]
  /\ refs \in [Native -> Nat]
  /\ held \subseteq Native
  /\ fault \in BOOLEAN

(* A control block exists exactly while a wrapper object in scope is on it. *)
BlocksInUse ==
  /\ \A h \in Handle : ptr[h] # Null => h \in scope
  /\ \A b \in Block : raw[b] # Null <=> \E h \in scope : ptr[h] = b

(* What a repository holds (its index, its cached objects) is let go when   *)
(* the repository is freed.                                                 *)
HeldByOpenRepository ==
  \A n \in held : HomeOf[n] # Null /\ refs[HomeOf[n]] > 0

BlocksOn(n) == {b \in Block : raw[b] = n}

(* The books balance: libgit2's count of references to an object is the     *)
(* number of control blocks that will call its _free function (common.hpp's *)
(* wrapper does so exactly once each) plus the repository's own reference.  *)
RefsBalance ==
  \A n \in Native :
    refs[n] = Cardinality(BlocksOn(n)) + (IF n \in held THEN 1 ELSE 0)

(* The inductive invariant behind the two safety properties that follow.    *)
OwnershipInv == TypeOK /\ BlocksInUse /\ HeldByOpenRepository /\ RefsBalance

(* No _free function of libgit2 is ever called for an object whose          *)
(* references were all given back before: no double free, whatever order    *)
(* wrapper objects are copied, reassigned and destroyed in.                 *)
NoDoubleFree == ~fault

(* A wrapper object that holds a pointer holds one to an object that still  *)
(* exists: no copy is left dangling by the destruction of another one.      *)
NoDangling == \A h \in scope : Data(h) # Null => refs[Data(h)] > 0

(* When the last wrapper object is gone, so is every native object: the     *)
(* library closed, nothing leaked.                                          *)
NoLeak == scope = {} => \A n \in Native : refs[n] = 0

(* Who keeps a native object alive: the wrapper objects on it and, for what *)
(* it holds, its repository.  Under this mapping every step of the          *)
(* machinery is a step of the abstract promise in module Ownership.         *)
OwnersOf(n) ==
  {h \in scope : Data(h) = n} \cup (IF n \in held THEN {HomeOf[n]} ELSE {})

Abstract == INSTANCE Ownership WITH
  live <- {n \in Native : refs[n] > 0},
  owners <- [n \in Native |-> OwnersOf(n)],
  forfeited <- {}

ImplementsOwnership == Abstract!Spec
=============================================================================
