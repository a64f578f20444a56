------------------------------ MODULE Borrowing ------------------------------
(***************************************************************************)
(* The classes that hold a bare pointer instead of a Git2PtrWrapper.  Some *)
(* free it in their destructor (Config, Remote, SignatureBuilder), one in  *)
(* a method (Database::close), one never (DatabaseBackend), and the views  *)
(* (Signature, RefSpec, the entries of trees, status lists and reflogs,    *)
(* and the bare pointers some methods return) only look at what another    *)
(* object owns.  Their copies and assignments are the implicit ones or as  *)
(* good as these, so that C++ keeps no account of who frees what; the      *)
(* client does.  The model accuses a native object when the client did to  *)
(* it what the classes do not support, and asks that nothing happens to    *)
(* the others.                                                             *)
(***************************************************************************)
EXTENDS Naturals, FiniteSets

CONSTANTS
  Var,         \* the client's variables, each of one class
  Native,      \* addresses of native objects
  Used,        \* bound: the classes the client uses
  MaxClasses,  \* bound: how many of them in one program
  Wild,        \* an uninitialised pointer
  None         \* no pointer, no variable

\* The classes.  ~X() frees the pointer:
Config  == {"Config"}
Remote  == {"Remote"}
Builder == {"SignatureBuilder"}
Owning  == Config \cup Remote \cup Builder

\* classes built on Git2PtrWrapper, not copied here (see Handles):
Commit     == {"Commit"}
Tag        == {"Tag"}
Tree       == {"Tree"}
RefLog     == {"RefLog"}
StatusList == {"StatusList"}
Blob       == {"Blob"}
OdbObject  == {"DatabaseObject"}
Patch      == {"DiffPatch"}
Wrapping   == Commit \cup Tag \cup Tree \cup RefLog \cup StatusList \cup Blob
                \cup OdbObject \cup Patch

Database == {"Database"}
Backend  == {"DatabaseBackend"}

\* views, pointers into what a holder owns:
Signature   == {"Signature"}
TreeEntry   == {"TreeEntry"}
StatusEntry == {"StatusEntry"}
RefLogEntry == {"RefLogEntry"}
RefSpec     == {"RefSpec"}
Raw         == {"const void *"}
View == Signature \cup TreeEntry \cup StatusEntry \cup RefLogEntry \cup RefSpec \cup Raw

\* the destructor frees; or the client is expected to
Freeing == Owning \cup Wrapping
Holding == Freeing \cup Database

\* the copy takes the pointer, and nothing keeps account of it
Shallow == Config \cup Remote \cup Database

\* a method of another object returns it
Lent == View \cup Backend

\* the classes with a signature, with bare pointers, and with elements that go
Signed   == Builder \cup Commit \cup Tag \cup RefLogEntry
Buffered == Blob \cup OdbObject \cup Patch \cup Remote
Listing  == Remote \cup RefLog

Class == Owning \cup Wrapping \cup Database \cup Backend \cup View

ASSUME BorrowingAssumption ==
  /\ Used \subseteq Class /\ MaxClasses \in Nat
  /\ Wild \notin Native /\ None \notin Native \cup Var /\ Wild # None

VARIABLES
  class,    \* class[v]: never changes
  scope,    \* the variables that are constructed and not destroyed
  at,       \* at[v]: the pointer in v
  from,     \* from[v]: the variable whose object a view looks into, while the
            \* client knows that one to be in place
  alive,    \* the native objects that are allocated
  accused,  \* those the client mishandled (a history variable)
  fault     \* the pointers freed twice or used after a free (a history variable)

vars == <<class, scope, at, from, alive, accused, fault>>

TypeOK ==
  /\ class \in [Var -> Used]
  /\ scope \subseteq Var
  /\ at \in [Var -> Native \cup {Wild, None}]
  /\ from \in [Var -> Var \cup {None}]
  /\ alive \subseteq Native
  /\ accused \subseteq Native
  /\ fault \subseteq Native \cup {Wild}

Init ==
  /\ class \in [Var -> Used]
  /\ Cardinality({class[v] : v \in Var}) <= MaxClasses
  /\ scope = {}
  /\ at = [v \in Var |-> None]
  /\ from = [v \in Var |-> None]
  /\ alive = {} /\ accused = {} /\ fault = {}

Is(v, C) == class[v] \in C

Fresh(n) == n \notin alive \cup accused /\ \A v \in Var : at[v] # n

\* v is constructed on pointer p
Construct(v, p) ==
  /\ v \notin scope
  /\ scope' = scope \cup {v}
  /\ at' = [at EXCEPT ![v] = p]

\* the views that look into v's object look into nothing known any more
Forget(v) == [w \in Var |-> IF from[w] = v \/ w = v THEN None ELSE from[w]]

\* a _free function is called with p; free(NULL) does nothing
FreePointer(p) ==
  /\ alive' = alive \ {p}
  /\ fault' = IF p # None /\ p \notin alive THEN fault \cup {p} ELSE fault

-----------------------------------------------------------------------------
(* Construction.                                                            *)

\* The constructors, open functions and factories: Config, openOnDisk,
\* SignatureBuilder, Database::open, createRemote, lookups.
New(v, n) ==
  /\ ~Is(v, Lent) /\ Fresh(n)
  /\ Construct(v, n)
  /\ alive' = alive \cup {n}
  /\ UNCHANGED <<class, from, accused, fault>>

\* DatabaseBackend::loose, onePack, pack: no method gives the backend back,
\* and addBackend hands over the address of the wrapper instead
NewBackend(v, n) ==
  /\ Is(v, Backend) /\ Fresh(n)
  /\ Construct(v, n)
  /\ alive' = alive \cup {n}
  /\ accused' = accused \cup {n}
  /\ UNCHANGED <<class, from, fault>>

\* Config::openDefaultConfig, openLevel and openOnDisk do not look at the code
OpenFails(v) ==
  /\ Is(v, Config)
  /\ Construct(v, Wild)
  /\ UNCHANGED <<class, from, alive, accused, fault>>

\* Config::openGlobalConfig: the default configuration it looks into is
\* never freed
OpenGlobal(v, n, m) ==
  /\ Is(v, Config) /\ n # m /\ Fresh(n) /\ Fresh(m)
  /\ Construct(v, n)
  /\ alive' = alive \cup {n, m}
  /\ accused' = accused \cup {m}
  /\ UNCHANGED <<class, from, fault>>

\* The classes whose methods return one of v's class: committer, author,
\* tagger, getCommitter, Signature(builder), entryByName, entryByIndex,
\* getEntry, getRefspec, getBackend, rawContent, raw, hunk, stats.
Holder(v) ==
  CASE Is(v, Signature)   -> Signed
    [] Is(v, TreeEntry)   -> Tree
    [] Is(v, StatusEntry) -> StatusList
    [] Is(v, RefLogEntry) -> RefLog
    [] Is(v, RefSpec)     -> Remote
    [] Is(v, Raw)         -> Buffered
    [] Is(v, Backend)     -> Database

\* A view into a view looks into the object behind it.
Borrow(v, w) ==
  /\ Is(v, Lent) /\ w \in scope /\ Is(w, Holder(v))
  /\ at[w] \in alive
  /\ Is(w, View) => from[w] # None
  /\ Construct(v, at[w])
  /\ from' = [from EXCEPT ![v] = IF Is(w, View) THEN from[w] ELSE w]
  /\ UNCHANGED <<class, alive, accused, fault>>

\* a view of nothing: Signature(), an entry that was not found
NullView(v) ==
  /\ Is(v, View)
  /\ Construct(v, None)
  /\ UNCHANGED <<class, from, alive, accused, fault>>

\* Signature s(SignatureBuilder(..)): the builder is gone after the statement
BorrowTemporary(v, n) ==
  /\ Is(v, Signature) /\ Fresh(n)
  /\ Construct(v, n)
  /\ UNCHANGED <<class, from, alive, accused, fault>>

-----------------------------------------------------------------------------
(* Copies.                                                                  *)

\* mutation: the builder copies the pointer, as the other classes do
CopyBuilderPointer(v, w, n) ==
  /\ Is(v, Builder) /\ Is(w, Builder) /\ w \in scope /\ Fresh(n)
  /\ at[w] \in alive
  /\ Construct(v, at[w])
  /\ UNCHANGED <<class, from, alive, accused, fault>>

\* SignatureBuilder(const SignatureBuilder&) duplicates
CopyBuilder(v, w, n) ==
  /\ Is(v, Builder) /\ Is(w, Builder) /\ w \in scope /\ Fresh(n)
  /\ at[w] \in alive
  /\ Construct(v, n)
  /\ alive' = alive \cup {n}
  /\ UNCHANGED <<class, from, accused, fault>>

\* The copies of Config and Remote take the pointer and will free it, those
\* of Database take it and leave the closing to one of them.
CopyPointer(v, w) ==
  /\ class[v] = class[w] /\ Is(v, Shallow) /\ w \in scope
  /\ Construct(v, at[w])
  /\ accused' = IF Is(v, Database) THEN accused ELSE accused \cup ({at[w]} \cap Native)
  /\ UNCHANGED <<class, from, alive, fault>>

\* views look into the same object as the original
CopyView(v, w) ==
  /\ class[v] = class[w] /\ Is(v, View) /\ w \in scope
  /\ Construct(v, at[w])
  /\ from' = [from EXCEPT ![v] = from[w]]
  /\ UNCHANGED <<class, alive, accused, fault>>

\* DatabaseBackend(const DatabaseBackend&) copies nothing at all
CopyBackend(v, w) ==
  /\ Is(v, Backend) /\ Is(w, Backend) /\ w \in scope
  /\ Construct(v, Wild)
  /\ UNCHANGED <<class, from, alive, accused, fault>>

\* The implicit assignment: the pointer only.  What v owned is lost, what w
\* owns has two owners.
Assign(v, w) ==
  /\ v # w /\ {v, w} \subseteq scope /\ class[v] = class[w] /\ ~Is(v, Wrapping)
  /\ at' = [at EXCEPT ![v] = at[w]]
  /\ from' = [Forget(v) EXCEPT ![v] = from[w]]
  /\ accused' = IF Is(v, View) THEN accused
                ELSE accused \cup ({at[v]} \cap Native)
                             \cup (IF Is(v, Owning) THEN {at[w]} \cap Native ELSE {})
  /\ UNCHANGED <<class, scope, alive, fault>>

-----------------------------------------------------------------------------
(* The end.                                                                 *)

\* mutation: a Config leaves its pointer alone
DestroyKeeping(v) ==
  /\ v \in scope
  /\ scope' = scope \ {v}
  /\ at' = [at EXCEPT ![v] = None]
  /\ from' = Forget(v)
  /\ UNCHANGED <<class, alive, accused, fault>>

\* The destructors.  A Database that is destroyed without having been closed
\* loses its object, if it was the last one on it.
Destroy(v) ==
  /\ v \in scope
  /\ scope' = scope \ {v}
  /\ at' = [at EXCEPT ![v] = None]
  /\ from' = Forget(v)
  /\ IF Is(v, Freeing) THEN FreePointer(at[v]) ELSE UNCHANGED <<alive, fault>>
  /\ accused' = IF Is(v, Database) /\ \A w \in scope \ {v} : at[w] # at[v] \/ ~Is(w, Database)
                THEN accused \cup ({at[v]} \cap alive) ELSE accused
  /\ UNCHANGED class

\* Database::close keeps the pointer, and so do the copies
Close(v) ==
  /\ v \in scope /\ Is(v, Database)
  /\ FreePointer(at[v])
  /\ accused' = accused \cup ({at[v]} \cap Native)
  /\ from' = Forget(v)
  /\ UNCHANGED <<class, scope, at>>

-----------------------------------------------------------------------------
(* Use: every method that reads through the pointer.  The client uses a     *)
(* view only while it knows the object looked into to be in place.          *)

Touch(v) ==
  /\ v \in scope
  /\ fault' = IF at[v] \notin alive THEN fault \cup ({at[v]} \ {None}) ELSE fault
  /\ UNCHANGED <<class, scope, at, from, alive, accused>>

UseConfig(v)     == Is(v, Config) /\ Touch(v)
UseRemote(v)     == Is(v, Remote) /\ Touch(v)
UseBuilder(v)    == Is(v, Builder) /\ Touch(v)
UseCommit(v)     == Is(v, Commit) /\ Touch(v)
UseTag(v)        == Is(v, Tag) /\ Touch(v)
UseTree(v)       == Is(v, Tree) /\ Touch(v)
UseRefLog(v)     == Is(v, RefLog) /\ Touch(v)
UseStatusList(v) == Is(v, StatusList) /\ Touch(v)
UseBlob(v)       == Is(v, Blob) /\ Touch(v)
UseOdbObject(v)  == Is(v, OdbObject) /\ Touch(v)
UsePatch(v)      == Is(v, Patch) /\ Touch(v)
UseDatabase(v)   == Is(v, Database) /\ Touch(v)

UseOwner(v) ==
  \/ UseConfig(v) \/ UseRemote(v) \/ UseBuilder(v) \/ UseCommit(v) \/ UseTag(v)
  \/ UseTree(v) \/ UseRefLog(v) \/ UseStatusList(v) \/ UseBlob(v) \/ UseOdbObject(v)
  \/ UsePatch(v) \/ UseDatabase(v)

UseBackend(v) == Is(v, Backend) /\ (from[v] # None => at[v] \in alive) /\ Touch(v)

UseSignature(v)   == Is(v, Signature) /\ from[v] # None /\ Touch(v)
UseTreeEntry(v)   == Is(v, TreeEntry) /\ from[v] # None /\ Touch(v)
UseStatusEntry(v) == Is(v, StatusEntry) /\ from[v] # None /\ Touch(v)
UseRefLogEntry(v) == Is(v, RefLogEntry) /\ from[v] # None /\ Touch(v)
UseRefSpec(v)     == Is(v, RefSpec) /\ from[v] # None /\ Touch(v)
UseRaw(v)         == Is(v, Raw) /\ from[v] # None /\ Touch(v)

UseView(v) ==
  \/ UseSignature(v) \/ UseTreeEntry(v) \/ UseStatusEntry(v)
  \/ UseRefLogEntry(v) \/ UseRefSpec(v) \/ UseRaw(v)

\* Remote::clearRefspec, removeRefspec and RefLog::drop free elements of what
\* v owns; the client does not use the views into it any more.
DropElements(v) ==
  /\ v \in scope /\ Is(v, Listing) /\ at[v] \in alive
  /\ from' = Forget(v)
  /\ UNCHANGED <<class, scope, at, alive, accused, fault>>

Next ==
  \E v \in Var :
    \/ OpenFails(v) \/ NullView(v) \/ Destroy(v) \/ Close(v)
    \/ UseOwner(v) \/ UseBackend(v) \/ UseView(v) \/ DropElements(v)
    \/ \E n \in Native :
         \/ New(v, n) \/ NewBackend(v, n) \/ BorrowTemporary(v, n)
         \/ \E m \in Native : OpenGlobal(v, n, m)
    \/ \E w \in Var :
         \/ Borrow(v, w) \/ CopyPointer(v, w) \/ CopyView(v, w) \/ CopyBackend(v, w)
         \/ Assign(v, w)
         \/ \E n \in Native : CopyBuilder(v, w, n)

Spec == Init /\ [][Next]_vars

-----------------------------------------------------------------------------
(* Properties.                                                              *)

OwnersOf(n) == {v \in scope : at[v] = n /\ Is(v, Holding)}

Accounted ==
  \A n \in alive \ accused :
    /\ OwnersOf(n) # {}
    /\ \A v, w \in OwnersOf(n) : v = w \/ Is(v, Database)

ViewsInPlace ==
  \A v \in scope : from[v] # None =>
    /\ from[v] \in scope /\ at[from[v]] = at[v]
    /\ Is(from[v], Holding)

(* The account C++ does not keep for these classes, besides the types: a    *)
(* native object that the client did not mishandle is owned by exactly one  *)
(* variable, or by Database variables only (config.cpp:34-42,               *)
(* signature.cpp:41-49, database.cpp:129-148), and a view the client may    *)
(* use points where the variable it was made from points.                   *)
BorrowingInv == TypeOK /\ Accounted /\ ViewsInPlace

(* A native object is freed twice, or used after it was freed, only when    *)
(* the client copied or assigned its owner (config.cpp:34, remote.cpp:104,  *)
(* signature.hpp:38) or closed its database; views used while their object  *)
(* is in place are safe, however they were copied on (signature.cpp:78-98). *)
FaultsAreAccused == fault \subseteq accused \cup {Wild}

(* Nothing leaks but what was accused: when all variables are gone, so are  *)
(* the objects the client handled as the classes support it.                *)
LeaksAreAccused == scope = {} => alive \subseteq accused

(* With variables of the classes that free or close as owners, every step   *)
(* is a step of the abstract promise in module Ownership, which the client  *)
(* forfeits for the objects it is accused of: C++ keeps no account, and yet *)
(* each other object dies with its last owner, in the step that ends it     *)
(* (config.cpp:34-42, signature.cpp:41-68, database.cpp:129-148,            *)
(* remote.cpp:104-112).                                                     *)
Abstract == INSTANCE Ownership WITH
  Handle <- Var,
  live <- alive,
  owners <- [n \in Native |-> OwnersOf(n)],
  forfeited <- accused

ImplementsOwnership == Abstract!Spec
=============================================================================
