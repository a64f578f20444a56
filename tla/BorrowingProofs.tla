--------------------------- MODULE BorrowingProofs ---------------------------
(***************************************************************************)
(* The invariants of Borrowing, for all numbers of variables and native    *)
(* objects and every choice of classes.  The account of owners is not      *)
(* inductive alone: a Database goes without freeing its object, so a       *)
(* backend borrowed from it needs to know that a copy is left, and a       *)
(* pointer an owner still has must lead to an object that is alive or      *)
(* accused.  The proofs see of a class only what becomes of its pointer.   *)
(***************************************************************************)
EXTENDS Borrowing, TLAPS

\* the kinds of classes: the destructor frees, the client closes, nobody
\* frees, and somebody else owns
Frees(v)  == Is(v, Freeing)
Closes(v) == Is(v, Database)
Keeps(v)  == Is(v, Backend)
Looks(v)  == Is(v, View)

\* Accounted, by kinds
SoleOwners ==
  \A n \in alive \ accused :
    /\ \E v \in scope : at[v] = n /\ (Frees(v) \/ Closes(v))
    /\ \A v, w \in scope :
         at[v] = n /\ Frees(v) /\ at[w] = n /\ (Frees(w) \/ Closes(w)) => v = w

\* ViewsInPlace, by kinds
ViewsAligned ==
  \A v \in scope : from[v] # None =>
    from[v] \in scope /\ at[from[v]] = at[v] /\ (Frees(from[v]) \/ Closes(from[v]))

\* a variable out of scope holds nothing
OutOfScope == \A v \in Var \ scope : at[v] = None /\ from[v] = None

\* an owner's pointer is good unless somebody was accused
OwnersKnown ==
  \A v \in scope : Frees(v) \/ Closes(v) => at[v] \in alive \cup accused \cup {Wild, None}

\* so is a backend's, while a Database holds what it was taken from
BackendsKnown ==
  \A v \in scope : Keeps(v) =>
    \/ at[v] \in accused \cup {Wild, None}
    \/ at[v] \in alive /\ \E d \in scope : Closes(d) /\ at[d] = at[v]

IInv == /\ TypeOK /\ SoleOwners /\ ViewsAligned /\ OutOfScope /\ OwnersKnown /\ BackendsKnown
        /\ FaultsAreAccused

\* what the proofs know about v's class
KindOf(v) ==
  /\ Is(v, Holding) <=> Frees(v) \/ Closes(v)
  /\ Is(v, Freeing) <=> Frees(v)
  /\ Is(v, Database) <=> Closes(v)
  /\ Is(v, Backend) <=> Keeps(v)
  /\ Is(v, View) <=> Looks(v)
  /\ Is(v, Lent) <=> Looks(v) \/ Keeps(v)
  /\ Frees(v) \/ Closes(v) \/ Keeps(v) \/ Looks(v)
  /\ ~(Frees(v) /\ Closes(v)) /\ ~(Frees(v) /\ Keeps(v)) /\ ~(Frees(v) /\ Looks(v))
  /\ ~(Closes(v) /\ Keeps(v)) /\ ~(Closes(v) /\ Looks(v)) /\ ~(Keeps(v) /\ Looks(v))
  /\ Is(v, Owning) \/ Is(v, Wrapping) <=> Frees(v)
  /\ ~(Is(v, Owning) /\ Is(v, Wrapping))
  /\ Is(v, Shallow) <=> Is(v, Config \cup Remote) \/ Closes(v)
  /\ Is(v, Config \cup Remote) => Is(v, Owning)
  /\ Is(v, Config) => Is(v, Owning)
  /\ Is(v, Builder) => Is(v, Owning)
  /\ Is(v, Signature) => Looks(v)

(* Every class is of one kind.                                              *)
LEMMA Kinds ==
  ASSUME TypeOK, NEW v \in Var
  PROVE  KindOf(v)
<1>1. class[v] \in Owning \cup Wrapping \cup Database \cup Backend \cup View
  BY BorrowingAssumption DEF TypeOK, Class
<1>2. /\ Owning \cap Wrapping = {} /\ Owning \cap Database = {} /\ Owning \cap Backend = {}
      /\ Owning \cap View = {} /\ Wrapping \cap Database = {} /\ Wrapping \cap Backend = {}
      /\ Wrapping \cap View = {}
  BY DEF Owning, Wrapping, View, Config, Remote, Builder, Commit, Tag, Tree, RefLog, StatusList,
         Blob, OdbObject, Patch, Database, Backend, Signature, TreeEntry, StatusEntry, RefLogEntry, RefSpec, Raw
<1>3. Database \cap Backend = {} /\ Database \cap View = {} /\ Backend \cap View = {}
  BY DEF View, Database, Backend, Signature, TreeEntry, StatusEntry, RefLogEntry, RefSpec, Raw
<1>4. Config \subseteq Owning /\ Remote \subseteq Owning /\ Builder \subseteq Owning /\ Signature \subseteq View
  BY DEF Owning, View
<1> QED BY <1>1, <1>2, <1>3, <1>4 DEF KindOf, Freeing, Holding, Shallow, Lent, Frees, Closes, Keeps, Looks, Is

(* A view is made from an owner or a view, a backend from a Database.       *)
LEMMA Holders ==
  ASSUME TypeOK, NEW v \in Var, NEW w \in Var, Is(v, Lent), Is(w, Holder(v))
  PROVE  /\ Looks(v) => Frees(w) \/ Looks(w)
         /\ Keeps(v) => Closes(w)
<1>1. CASE Is(v, Backend)
  <2>1. ~Is(v, View)
    BY <1>1 DEF Is, Backend, View, Signature, TreeEntry, StatusEntry, RefLogEntry, RefSpec, Raw
  <2>2. Holder(v) = Database
    BY <1>1 DEF Is, Holder, Backend, Signature, TreeEntry, StatusEntry, RefLogEntry, RefSpec, Raw
  <2> QED
    BY <2>1, <2>2 DEF Closes, Looks
<1>2. CASE Is(v, View)
  <2>1. Holder(v) \subseteq Owning \cup Wrapping \cup View
    <3>1. CASE Is(v, Signature)
      <4>1. Holder(v) = Signed
        BY <3>1 DEF Holder, Is, Signature, TreeEntry, StatusEntry, RefLogEntry, RefSpec, Raw, Backend
      <4> QED
        BY <4>1 DEF Signed, Owning, Wrapping, View
    <3>2. CASE Is(v, TreeEntry)
      <4>1. Holder(v) = Tree
        BY <3>2 DEF Holder, Is, Signature, TreeEntry, StatusEntry, RefLogEntry, RefSpec, Raw, Backend
      <4> QED
        BY <4>1 DEF Wrapping
    <3>3. CASE Is(v, StatusEntry)
      <4>1. Holder(v) = StatusList
        BY <3>3 DEF Holder, Is, Signature, TreeEntry, StatusEntry, RefLogEntry, RefSpec, Raw, Backend
      <4> QED
        BY <4>1 DEF Wrapping
    <3>4. CASE Is(v, RefLogEntry)
      <4>1. Holder(v) = RefLog
        BY <3>4 DEF Holder, Is, Signature, TreeEntry, StatusEntry, RefLogEntry, RefSpec, Raw, Backend
      <4> QED
        BY <4>1 DEF Wrapping
    <3>5. CASE Is(v, RefSpec)
      <4>1. Holder(v) = Remote
        BY <3>5 DEF Holder, Is, Signature, TreeEntry, StatusEntry, RefLogEntry, RefSpec, Raw, Backend
      <4> QED
        BY <4>1 DEF Owning
    <3>6. CASE Is(v, Raw)
      <4>1. Holder(v) = Buffered
        BY <3>6 DEF Holder, Is, Signature, TreeEntry, StatusEntry, RefLogEntry, RefSpec, Raw, Backend
      <4> QED
        BY <4>1 DEF Buffered, Owning, Wrapping
    <3> QED
      BY <1>2, <3>1, <3>2, <3>3, <3>4, <3>5, <3>6 DEF Is, View
  <2>2. ~Is(v, Backend)
    BY <1>2 DEF Is, Backend, View, Signature, TreeEntry, StatusEntry, RefLogEntry, RefSpec, Raw
  <2> QED
    BY <2>1, <2>2 DEF Freeing, Frees, Looks, Keeps, Is
<1> QED
  BY <1>1, <1>2 DEF Is, Lent

(* No step changes the class of a variable.                                 *)
LEMMA SameKinds ==
  ASSUME class' = class, NEW v
  PROVE  /\ Frees(v)' <=> Frees(v)
         /\ Closes(v)' <=> Closes(v)
         /\ Keeps(v)' <=> Keeps(v)
         /\ Looks(v)' <=> Looks(v)
  BY DEF Frees, Closes, Keeps, Looks, Is

(* Copies and assignments are between variables of one kind.                *)
LEMMA SameClass ==
  ASSUME TypeOK, NEW v \in Var, NEW w \in Var, class[v] = class[w]
  PROVE  /\ Frees(v) <=> Frees(w)
         /\ Closes(v) <=> Closes(w)
         /\ Keeps(v) <=> Keeps(w)
         /\ Looks(v) <=> Looks(w)
         /\ Is(v, Owning) <=> Is(w, Owning)
  BY DEF Frees, Closes, Keeps, Looks, Is

-----------------------------------------------------------------------------
(* Construction.                                                            *)

LEMMA NewKeepsInv ==
  ASSUME IInv, NEW v \in Var, NEW n \in Native, New(v, n)
  PROVE  IInv'
<1> USE BorrowingAssumption
<1>1. /\ TypeOK /\ SoleOwners /\ ViewsAligned /\ OutOfScope /\ OwnersKnown /\ BackendsKnown
      /\ FaultsAreAccused
  BY DEF IInv
<1>2. \A x \in Var : KindOf(x)
  BY <1>1, Kinds
<1>3. class' = class
  BY DEF New, Construct, Fresh
<1>4. \A x : (Frees(x)' <=> Frees(x)) /\ (Closes(x)' <=> Closes(x)) /\ (Keeps(x)' <=> Keeps(x))
  BY <1>3, SameKinds
<1>5. TypeOK'
  BY <1>1, <1>2, <1>4 DEF TypeOK, New, Construct, Fresh, KindOf
<1>6. SoleOwners'
  <2> SUFFICES ASSUME NEW k \in alive' \ accused'
               PROVE  /\ \E x \in scope' : at'[x] = k /\ (Frees(x) \/ Closes(x))
                      /\ \A x, y \in scope' :
                           at'[x] = k /\ Frees(x) /\ at'[y] = k /\ (Frees(y) \/ Closes(y)) => x = y
    BY <1>4 DEF SoleOwners
  <2>1. v \in scope' /\ at'[v] = n /\ \A x \in Var \ {v} : at'[x] = at[x]
    BY <1>1 DEF TypeOK, New, Construct
  <2>2. CASE k = n
    <3>1. \A x \in scope' : at'[x] = n => x = v
      BY <1>1, <2>1 DEF TypeOK, New, Construct, Fresh
    <3>2. Frees(v) \/ Closes(v)
      BY <1>2 DEF New, KindOf
    <3> QED BY <2>1, <2>2, <3>1, <3>2
  <2>3. CASE k # n
    <3>1. k \in alive \ accused
      BY <2>3 DEF New
    <3>2. \A x \in scope' : at'[x] = k => x \in scope /\ at[x] = k
      BY <1>1, <2>1, <2>3 DEF TypeOK, New, Construct
    <3>3. \A x \in scope : x # v /\ x \in scope' /\ at'[x] = at[x]
      BY <1>1, <2>1 DEF TypeOK, New, Construct
    <3> QED BY <1>1, <3>1, <3>2, <3>3 DEF SoleOwners
  <2> QED BY <2>2, <2>3
<1>7. ViewsAligned'
  BY <1>1, <1>2, <1>4 DEF TypeOK, ViewsAligned, OutOfScope, New, Construct, Fresh, KindOf
<1>8. OutOfScope'
  BY <1>1, <1>2, <1>4 DEF TypeOK, OutOfScope, New, Construct, Fresh, KindOf
<1>9. OwnersKnown'
  BY <1>1, <1>2, <1>4 DEF TypeOK, OwnersKnown, SoleOwners, New, Construct, Fresh, KindOf
<1>10. BackendsKnown'
  <2> SUFFICES ASSUME NEW x \in scope', Keeps(x)
               PROVE  \/ at'[x] \in accused' \cup {Wild, None}
                      \/ at'[x] \in alive' /\ \E d \in scope' : Closes(d) /\ at'[d] = at'[x]
    BY <1>4 DEF BackendsKnown
  <2>1. x # v /\ x \in scope /\ at'[x] = at[x]
    BY <1>1, <1>2 DEF TypeOK, New, Construct, KindOf
  <2>2. \A d \in scope : d # v /\ d \in scope' /\ at'[d] = at[d]
    BY <1>1 DEF TypeOK, New, Construct
  <2> QED BY <1>1, <2>1, <2>2 DEF BackendsKnown, New
<1>11. FaultsAreAccused'
  BY <1>1, <1>2, <1>4 DEF TypeOK, FaultsAreAccused, OwnersKnown, New, Construct, Fresh, KindOf
<1> QED BY <1>5, <1>6, <1>7, <1>8, <1>9, <1>10, <1>11 DEF IInv

LEMMA NewBackendKeepsInv ==
  ASSUME IInv, NEW v \in Var, NEW n \in Native, NewBackend(v, n)
  PROVE  IInv'
<1> USE BorrowingAssumption
<1>1. /\ TypeOK /\ SoleOwners /\ ViewsAligned /\ OutOfScope /\ OwnersKnown /\ BackendsKnown
      /\ FaultsAreAccused
  BY DEF IInv
<1>2. \A x \in Var : KindOf(x)
  BY <1>1, Kinds
<1>3. class' = class
  BY DEF NewBackend, Construct, Fresh
<1>4. \A x : (Frees(x)' <=> Frees(x)) /\ (Closes(x)' <=> Closes(x)) /\ (Keeps(x)' <=> Keeps(x))
  BY <1>3, SameKinds
<1>5. TypeOK'
  BY <1>1, <1>2, <1>4 DEF TypeOK, NewBackend, Construct, Fresh, KindOf
<1>6. SoleOwners'
  BY <1>1, <1>2, <1>4 DEF TypeOK, SoleOwners, NewBackend, Construct, Fresh, KindOf
<1>7. ViewsAligned'
  BY <1>1, <1>2, <1>4 DEF TypeOK, ViewsAligned, OutOfScope, NewBackend, Construct, Fresh, KindOf
<1>8. OutOfScope'
  BY <1>1, <1>2, <1>4 DEF TypeOK, OutOfScope, NewBackend, Construct, Fresh, KindOf
<1>9. OwnersKnown'
  BY <1>1, <1>2, <1>4 DEF TypeOK, OwnersKnown, SoleOwners, NewBackend, Construct, Fresh, KindOf
<1>10. BackendsKnown'
  BY <1>1, <1>2, <1>4 DEF TypeOK, BackendsKnown, SoleOwners, NewBackend, Construct, Fresh, KindOf
<1>11. FaultsAreAccused'
  BY <1>1, <1>2, <1>4 DEF TypeOK, FaultsAreAccused, OwnersKnown, NewBackend, Construct, Fresh, KindOf
<1> QED BY <1>5, <1>6, <1>7, <1>8, <1>9, <1>10, <1>11 DEF IInv

LEMMA OpenFailsKeepsInv ==
  ASSUME IInv, NEW v \in Var, OpenFails(v)
  PROVE  IInv'
<1> USE BorrowingAssumption
<1>1. /\ TypeOK /\ SoleOwners /\ ViewsAligned /\ OutOfScope /\ OwnersKnown /\ BackendsKnown
      /\ FaultsAreAccused
  BY DEF IInv
<1>2. \A x \in Var : KindOf(x)
  BY <1>1, Kinds
<1>3. class' = class
  BY DEF OpenFails, Construct
<1>4. \A x : (Frees(x)' <=> Frees(x)) /\ (Closes(x)' <=> Closes(x)) /\ (Keeps(x)' <=> Keeps(x))
  BY <1>3, SameKinds
<1>5. TypeOK'
  BY <1>1, <1>2, <1>4 DEF TypeOK, OpenFails, Construct, KindOf
<1>6. SoleOwners'
  BY <1>1, <1>2, <1>4 DEF TypeOK, SoleOwners, OpenFails, Construct, KindOf
<1>7. ViewsAligned'
  BY <1>1, <1>2, <1>4 DEF TypeOK, ViewsAligned, OutOfScope, OpenFails, Construct, KindOf
<1>8. OutOfScope'
  BY <1>1, <1>2, <1>4 DEF TypeOK, OutOfScope, OpenFails, Construct, KindOf
<1>9. OwnersKnown'
  BY <1>1, <1>2, <1>4 DEF TypeOK, OwnersKnown, SoleOwners, OpenFails, Construct, KindOf
<1>10. BackendsKnown'
  BY <1>1, <1>2, <1>4 DEF TypeOK, BackendsKnown, SoleOwners, OpenFails, Construct, KindOf
<1>11. FaultsAreAccused'
  BY <1>1, <1>2, <1>4 DEF TypeOK, FaultsAreAccused, OwnersKnown, OpenFails, Construct, KindOf
<1> QED BY <1>5, <1>6, <1>7, <1>8, <1>9, <1>10, <1>11 DEF IInv

LEMMA OpenGlobalKeepsInv ==
  ASSUME IInv, NEW v \in Var, NEW n \in Native, NEW m \in Native, OpenGlobal(v, n, m)
  PROVE  IInv'
<1> USE BorrowingAssumption
<1>1. /\ TypeOK /\ SoleOwners /\ ViewsAligned /\ OutOfScope /\ OwnersKnown /\ BackendsKnown
      /\ FaultsAreAccused
  BY DEF IInv
<1>2. \A x \in Var : KindOf(x)
  BY <1>1, Kinds
<1>3. class' = class
  BY DEF OpenGlobal, Construct, Fresh
<1>4. \A x : (Frees(x)' <=> Frees(x)) /\ (Closes(x)' <=> Closes(x)) /\ (Keeps(x)' <=> Keeps(x))
  BY <1>3, SameKinds
<1>5. TypeOK'
  BY <1>1, <1>2, <1>4 DEF TypeOK, OpenGlobal, Construct, Fresh, KindOf
<1>6. SoleOwners'
  BY <1>1, <1>2, <1>4 DEF TypeOK, SoleOwners, OpenGlobal, Construct, Fresh, KindOf
<1>7. ViewsAligned'
  BY <1>1, <1>2, <1>4 DEF TypeOK, ViewsAligned, OutOfScope, OpenGlobal, Construct, Fresh, KindOf
<1>8. OutOfScope'
  BY <1>1, <1>2, <1>4 DEF TypeOK, OutOfScope, OpenGlobal, Construct, Fresh, KindOf
<1>9. OwnersKnown'
  BY <1>1, <1>2, <1>4 DEF TypeOK, OwnersKnown, SoleOwners, OpenGlobal, Construct, Fresh, KindOf
<1>10. BackendsKnown'
  BY <1>1, <1>2, <1>4 DEF TypeOK, BackendsKnown, SoleOwners, OpenGlobal, Construct, Fresh, KindOf
<1>11. FaultsAreAccused'
  BY <1>1, <1>2, <1>4 DEF TypeOK, FaultsAreAccused, OwnersKnown, OpenGlobal, Construct, Fresh, KindOf
<1> QED BY <1>5, <1>6, <1>7, <1>8, <1>9, <1>10, <1>11 DEF IInv

LEMMA BorrowKeepsInv ==
  ASSUME IInv, NEW v \in Var, NEW w \in Var, Borrow(v, w)
  PROVE  IInv'
<1> USE BorrowingAssumption
<1>1. /\ TypeOK /\ SoleOwners /\ ViewsAligned /\ OutOfScope /\ OwnersKnown /\ BackendsKnown
      /\ FaultsAreAccused
  BY DEF IInv
<1>2. \A x \in Var : KindOf(x)
  BY <1>1, Kinds
<1>3. class' = class
  BY DEF Borrow, Construct
<1>4. \A x : (Frees(x)' <=> Frees(x)) /\ (Closes(x)' <=> Closes(x)) /\ (Keeps(x)' <=> Keeps(x))
  BY <1>3, SameKinds
<1>5. (Looks(v) => Frees(w) \/ Looks(w)) /\ (Keeps(v) => Closes(w))
  BY <1>1, Holders DEF Borrow
<1>6. TypeOK'
  BY <1>1, <1>2, <1>4, <1>5 DEF TypeOK, Borrow, Construct, KindOf
<1>7. SoleOwners'
  <2>1. ~(Frees(v) \/ Closes(v))
    BY <1>2 DEF Borrow, KindOf
  <2>2. scope' = scope \cup {v} /\ \A x \in scope : x # v /\ at'[x] = at[x]
    BY <1>1 DEF TypeOK, Borrow, Construct
  <2> QED BY <1>1, <1>4, <2>1, <2>2 DEF SoleOwners, Borrow
<1>8. ViewsAligned'
  <2> SUFFICES ASSUME NEW x \in scope', from'[x] # None
               PROVE  /\ from'[x] \in scope' /\ at'[from'[x]] = at'[x]
                      /\ Frees(from'[x]) \/ Closes(from'[x])
    BY <1>4 DEF ViewsAligned
  <2>1. scope' = scope \cup {v} /\ v \in Var \ scope /\ w \in scope
    BY DEF Borrow, Construct
  <2>2. at'[v] = at[w] /\ \A y \in Var \ {v} : at'[y] = at[y] /\ from'[y] = from[y]
    BY <1>1 DEF TypeOK, Borrow, Construct
  <2>3. CASE x # v
    BY <1>1, <2>1, <2>2, <2>3 DEF TypeOK, ViewsAligned
  <2>4. CASE x = v /\ Looks(w)
    <3>1. from'[v] = from[w] /\ from[w] # None
      BY <1>1, <1>2, <2>4 DEF TypeOK, Borrow, KindOf
    <3>2. from[w] \in scope /\ at[from[w]] = at[w] /\ (Frees(from[w]) \/ Closes(from[w]))
      BY <1>1, <2>1, <3>1 DEF ViewsAligned
    <3> QED BY <1>1, <2>1, <2>2, <2>4, <3>1, <3>2 DEF TypeOK
  <2>5. CASE x = v /\ ~Looks(w)
    <3>1. from'[v] = w
      BY <1>1, <1>2, <2>5 DEF TypeOK, Borrow, KindOf
    <3>2. Frees(w) \/ Closes(w)
      BY <1>2, <1>5, <2>5 DEF Borrow, KindOf
    <3> QED BY <1>1, <2>1, <2>2, <2>5, <3>1, <3>2 DEF TypeOK
  <2> QED BY <2>3, <2>4, <2>5
<1>9. OutOfScope'
  BY <1>1, <1>2, <1>4, <1>5 DEF TypeOK, OutOfScope, Borrow, Construct, KindOf
<1>10. OwnersKnown'
  BY <1>1, <1>2, <1>4, <1>5 DEF TypeOK, OwnersKnown, SoleOwners, Borrow, Construct, KindOf
<1>11. BackendsKnown'
  BY <1>1, <1>2, <1>4, <1>5 DEF TypeOK, BackendsKnown, SoleOwners, Borrow, Construct, KindOf
<1>12. FaultsAreAccused'
  BY <1>1, <1>2, <1>4, <1>5 DEF TypeOK, FaultsAreAccused, OwnersKnown, Borrow, Construct, KindOf
<1> QED BY <1>6, <1>7, <1>8, <1>9, <1>10, <1>11, <1>12 DEF IInv

LEMMA NullViewKeepsInv ==
  ASSUME IInv, NEW v \in Var, NullView(v)
  PROVE  IInv'
<1> USE BorrowingAssumption
<1>1. /\ TypeOK /\ SoleOwners /\ ViewsAligned /\ OutOfScope /\ OwnersKnown /\ BackendsKnown
      /\ FaultsAreAccused
  BY DEF IInv
<1>2. \A x \in Var : KindOf(x)
  BY <1>1, Kinds
<1>3. class' = class
  BY DEF NullView, Construct
<1>4. \A x : (Frees(x)' <=> Frees(x)) /\ (Closes(x)' <=> Closes(x)) /\ (Keeps(x)' <=> Keeps(x))
  BY <1>3, SameKinds
<1>5. TypeOK'
  BY <1>1, <1>2, <1>4 DEF TypeOK, NullView, Construct, KindOf
<1>6. SoleOwners'
  BY <1>1, <1>2, <1>4 DEF TypeOK, SoleOwners, NullView, Construct, KindOf
<1>7. ViewsAligned'
  BY <1>1, <1>2, <1>4 DEF TypeOK, ViewsAligned, OutOfScope, NullView, Construct, KindOf
<1>8. OutOfScope'
  BY <1>1, <1>2, <1>4 DEF TypeOK, OutOfScope, NullView, Construct, KindOf
<1>9. OwnersKnown'
  BY <1>1, <1>2, <1>4 DEF TypeOK, OwnersKnown, SoleOwners, NullView, Construct, KindOf
<1>10. BackendsKnown'
  BY <1>1, <1>2, <1>4 DEF TypeOK, BackendsKnown, SoleOwners, NullView, Construct, KindOf
<1>11. FaultsAreAccused'
  BY <1>1, <1>2, <1>4 DEF TypeOK, FaultsAreAccused, OwnersKnown, NullView, Construct, KindOf
<1> QED BY <1>5, <1>6, <1>7, <1>8, <1>9, <1>10, <1>11 DEF IInv

LEMMA BorrowTemporaryKeepsInv ==
  ASSUME IInv, NEW v \in Var, NEW n \in Native, BorrowTemporary(v, n)
  PROVE  IInv'
<1> USE BorrowingAssumption
<1>1. /\ TypeOK /\ SoleOwners /\ ViewsAligned /\ OutOfScope /\ OwnersKnown /\ BackendsKnown
      /\ FaultsAreAccused
  BY DEF IInv
<1>2. \A x \in Var : KindOf(x)
  BY <1>1, Kinds
<1>3. class' = class
  BY DEF BorrowTemporary, Construct, Fresh
<1>4. \A x : (Frees(x)' <=> Frees(x)) /\ (Closes(x)' <=> Closes(x)) /\ (Keeps(x)' <=> Keeps(x))
  BY <1>3, SameKinds
<1>5. TypeOK'
  BY <1>1, <1>2, <1>4 DEF TypeOK, BorrowTemporary, Construct, Fresh, KindOf
<1>6. SoleOwners'
  BY <1>1, <1>2, <1>4 DEF TypeOK, SoleOwners, BorrowTemporary, Construct, Fresh, KindOf
<1>7. ViewsAligned'
  BY <1>1, <1>2, <1>4 DEF TypeOK, ViewsAligned, OutOfScope, BorrowTemporary, Construct, Fresh, KindOf
<1>8. OutOfScope'
  BY <1>1, <1>2, <1>4 DEF TypeOK, OutOfScope, BorrowTemporary, Construct, Fresh, KindOf
<1>9. OwnersKnown'
  BY <1>1, <1>2, <1>4 DEF TypeOK, OwnersKnown, SoleOwners, BorrowTemporary, Construct, Fresh, KindOf
<1>10. BackendsKnown'
  BY <1>1, <1>2, <1>4 DEF TypeOK, BackendsKnown, SoleOwners, BorrowTemporary, Construct, Fresh, KindOf
<1>11. FaultsAreAccused'
  BY <1>1, <1>2, <1>4 DEF TypeOK, FaultsAreAccused, OwnersKnown, BorrowTemporary, Construct, Fresh, KindOf
<1> QED BY <1>5, <1>6, <1>7, <1>8, <1>9, <1>10, <1>11 DEF IInv

-----------------------------------------------------------------------------
(* Copies.                                                                  *)

LEMMA CopyBuilderKeepsInv ==
  ASSUME IInv, NEW v \in Var, NEW w \in Var, NEW n \in Native, CopyBuilder(v, w, n)
  PROVE  IInv'
<1> USE BorrowingAssumption
<1>1. /\ TypeOK /\ SoleOwners /\ ViewsAligned /\ OutOfScope /\ OwnersKnown /\ BackendsKnown
      /\ FaultsAreAccused
  BY DEF IInv
<1>2. \A x \in Var : KindOf(x)
  BY <1>1, Kinds
<1>3. class' = class
  BY DEF CopyBuilder, Construct, Fresh
<1>4. \A x : (Frees(x)' <=> Frees(x)) /\ (Closes(x)' <=> Closes(x)) /\ (Keeps(x)' <=> Keeps(x))
  BY <1>3, SameKinds
<1>5. class[v] = class[w] => (Frees(v) <=> Frees(w)) /\ (Closes(v) <=> Closes(w)) /\ (Keeps(v) <=> Keeps(w)) /\ (Looks(v) <=> Looks(w))
  BY <1>1, SameClass
<1>6. TypeOK'
  BY <1>1, <1>2, <1>4, <1>5 DEF TypeOK, CopyBuilder, Construct, Fresh, KindOf
<1>7. SoleOwners'
  BY <1>1, <1>2, <1>4, <1>5 DEF TypeOK, SoleOwners, CopyBuilder, Construct, Fresh, KindOf
<1>8. ViewsAligned'
  BY <1>1, <1>2, <1>4, <1>5 DEF TypeOK, ViewsAligned, OutOfScope, CopyBuilder, Construct, Fresh, KindOf
<1>9. OutOfScope'
  BY <1>1, <1>2, <1>4, <1>5 DEF TypeOK, OutOfScope, CopyBuilder, Construct, Fresh, KindOf
<1>10. OwnersKnown'
  BY <1>1, <1>2, <1>4, <1>5 DEF TypeOK, OwnersKnown, SoleOwners, CopyBuilder, Construct, Fresh, KindOf
<1>11. BackendsKnown'
  BY <1>1, <1>2, <1>4, <1>5 DEF TypeOK, BackendsKnown, SoleOwners, CopyBuilder, Construct, Fresh, KindOf
<1>12. FaultsAreAccused'
  BY <1>1, <1>2, <1>4, <1>5 DEF TypeOK, FaultsAreAccused, OwnersKnown, CopyBuilder, Construct, Fresh, KindOf
<1> QED BY <1>6, <1>7, <1>8, <1>9, <1>10, <1>11, <1>12 DEF IInv

LEMMA CopyPointerKeepsInv ==
  ASSUME IInv, NEW v \in Var, NEW w \in Var, CopyPointer(v, w)
  PROVE  IInv'
<1> USE BorrowingAssumption
<1>1. /\ TypeOK /\ SoleOwners /\ ViewsAligned /\ OutOfScope /\ OwnersKnown /\ BackendsKnown
      /\ FaultsAreAccused
  BY DEF IInv
<1>2. \A x \in Var : KindOf(x)
  BY <1>1, Kinds
<1>3. class' = class
  BY DEF CopyPointer, Construct
<1>4. \A x : (Frees(x)' <=> Frees(x)) /\ (Closes(x)' <=> Closes(x)) /\ (Keeps(x)' <=> Keeps(x))
  BY <1>3, SameKinds
<1>5. class[v] = class[w] => (Frees(v) <=> Frees(w)) /\ (Closes(v) <=> Closes(w)) /\ (Keeps(v) <=> Keeps(w)) /\ (Looks(v) <=> Looks(w))
  BY <1>1, SameClass
<1>6. TypeOK'
  BY <1>1, <1>2, <1>4, <1>5 DEF TypeOK, CopyPointer, Construct, KindOf
<1>7. SoleOwners'
  BY <1>1, <1>2, <1>4, <1>5 DEF TypeOK, SoleOwners, CopyPointer, Construct, KindOf
<1>8. ViewsAligned'
  BY <1>1, <1>2, <1>4, <1>5 DEF TypeOK, ViewsAligned, OutOfScope, CopyPointer, Construct, KindOf
<1>9. OutOfScope'
  BY <1>1, <1>2, <1>4, <1>5 DEF TypeOK, OutOfScope, CopyPointer, Construct, KindOf
<1>10. OwnersKnown'
  BY <1>1, <1>2, <1>4, <1>5 DEF TypeOK, OwnersKnown, SoleOwners, CopyPointer, Construct, KindOf
<1>11. BackendsKnown'
  BY <1>1, <1>2, <1>4, <1>5 DEF TypeOK, BackendsKnown, SoleOwners, CopyPointer, Construct, KindOf
<1>12. FaultsAreAccused'
  BY <1>1, <1>2, <1>4, <1>5 DEF TypeOK, FaultsAreAccused, OwnersKnown, CopyPointer, Construct, KindOf
<1> QED BY <1>6, <1>7, <1>8, <1>9, <1>10, <1>11, <1>12 DEF IInv

LEMMA CopyViewKeepsInv ==
  ASSUME IInv, NEW v \in Var, NEW w \in Var, CopyView(v, w)
  PROVE  IInv'
<1> USE BorrowingAssumption
<1>1. /\ TypeOK /\ SoleOwners /\ ViewsAligned /\ OutOfScope /\ OwnersKnown /\ BackendsKnown
      /\ FaultsAreAccused
  BY DEF IInv
<1>2. \A x \in Var : KindOf(x)
  BY <1>1, Kinds
<1>3. class' = class
  BY DEF CopyView, Construct
<1>4. \A x : (Frees(x)' <=> Frees(x)) /\ (Closes(x)' <=> Closes(x)) /\ (Keeps(x)' <=> Keeps(x))
  BY <1>3, SameKinds
<1>5. class[v] = class[w] => (Frees(v) <=> Frees(w)) /\ (Closes(v) <=> Closes(w)) /\ (Keeps(v) <=> Keeps(w)) /\ (Looks(v) <=> Looks(w))
  BY <1>1, SameClass
<1>6. TypeOK'
  BY <1>1, <1>2, <1>4, <1>5 DEF TypeOK, CopyView, Construct, KindOf
<1>7. SoleOwners'
  BY <1>1, <1>2, <1>4, <1>5 DEF TypeOK, SoleOwners, CopyView, Construct, KindOf
<1>8. ViewsAligned'
  BY <1>1, <1>2, <1>4, <1>5 DEF TypeOK, ViewsAligned, OutOfScope, CopyView, Construct, KindOf
<1>9. OutOfScope'
  BY <1>1, <1>2, <1>4, <1>5 DEF TypeOK, OutOfScope, CopyView, Construct, KindOf
<1>10. OwnersKnown'
  BY <1>1, <1>2, <1>4, <1>5 DEF TypeOK, OwnersKnown, SoleOwners, CopyView, Construct, KindOf
<1>11. BackendsKnown'
  BY <1>1, <1>2, <1>4, <1>5 DEF TypeOK, BackendsKnown, SoleOwners, CopyView, Construct, KindOf
<1>12. FaultsAreAccused'
  BY <1>1, <1>2, <1>4, <1>5 DEF TypeOK, FaultsAreAccused, OwnersKnown, CopyView, Construct, KindOf
<1> QED BY <1>6, <1>7, <1>8, <1>9, <1>10, <1>11, <1>12 DEF IInv

LEMMA CopyBackendKeepsInv ==
  ASSUME IInv, NEW v \in Var, NEW w \in Var, CopyBackend(v, w)
  PROVE  IInv'
<1> USE BorrowingAssumption
<1>1. /\ TypeOK /\ SoleOwners /\ ViewsAligned /\ OutOfScope /\ OwnersKnown /\ BackendsKnown
      /\ FaultsAreAccused
  BY DEF IInv
<1>2. \A x \in Var : KindOf(x)
  BY <1>1, Kinds
<1>3. class' = class
  BY DEF CopyBackend, Construct
<1>4. \A x : (Frees(x)' <=> Frees(x)) /\ (Closes(x)' <=> Closes(x)) /\ (Keeps(x)' <=> Keeps(x))
  BY <1>3, SameKinds
<1>5. class[v] = class[w] => (Frees(v) <=> Frees(w)) /\ (Closes(v) <=> Closes(w)) /\ (Keeps(v) <=> Keeps(w)) /\ (Looks(v) <=> Looks(w))
  BY <1>1, SameClass
<1>6. TypeOK'
  BY <1>1, <1>2, <1>4, <1>5 DEF TypeOK, CopyBackend, Construct, KindOf
<1>7. SoleOwners'
  BY <1>1, <1>2, <1>4, <1>5 DEF TypeOK, SoleOwners, CopyBackend, Construct, KindOf
<1>8. ViewsAligned'
  BY <1>1, <1>2, <1>4, <1>5 DEF TypeOK, ViewsAligned, OutOfScope, CopyBackend, Construct, KindOf
<1>9. OutOfScope'
  BY <1>1, <1>2, <1>4, <1>5 DEF TypeOK, OutOfScope, CopyBackend, Construct, KindOf
<1>10. OwnersKnown'
  BY <1>1, <1>2, <1>4, <1>5 DEF TypeOK, OwnersKnown, SoleOwners, CopyBackend, Construct, KindOf
<1>11. BackendsKnown'
  BY <1>1, <1>2, <1>4, <1>5 DEF TypeOK, BackendsKnown, SoleOwners, CopyBackend, Construct, KindOf
<1>12. FaultsAreAccused'
  BY <1>1, <1>2, <1>4, <1>5 DEF TypeOK, FaultsAreAccused, OwnersKnown, CopyBackend, Construct, KindOf
<1> QED BY <1>6, <1>7, <1>8, <1>9, <1>10, <1>11, <1>12 DEF IInv

LEMMA AssignKeepsInv ==
  ASSUME IInv, NEW v \in Var, NEW w \in Var, Assign(v, w)
  PROVE  IInv'
<1> USE BorrowingAssumption
<1>1. /\ TypeOK /\ SoleOwners /\ ViewsAligned /\ OutOfScope /\ OwnersKnown /\ BackendsKnown
      /\ FaultsAreAccused
  BY DEF IInv
<1>2. \A x \in Var : KindOf(x)
  BY <1>1, Kinds
<1>3. class' = class
  BY DEF Assign, Forget
<1>4. \A x : (Frees(x)' <=> Frees(x)) /\ (Closes(x)' <=> Closes(x)) /\ (Keeps(x)' <=> Keeps(x))
  BY <1>3, SameKinds
<1>5. class[v] = class[w] => (Frees(v) <=> Frees(w)) /\ (Closes(v) <=> Closes(w)) /\ (Keeps(v) <=> Keeps(w)) /\ (Looks(v) <=> Looks(w))
  BY <1>1, SameClass
<1>6. TypeOK'
  BY <1>1, <1>2, <1>4, <1>5 DEF TypeOK, Assign, Forget, KindOf
<1>7. SoleOwners'
  BY <1>1, <1>2, <1>4, <1>5 DEF TypeOK, SoleOwners, Assign, Forget, KindOf
<1>8. ViewsAligned'
  BY <1>1, <1>2, <1>4, <1>5 DEF TypeOK, ViewsAligned, OutOfScope, Assign, Forget, KindOf
<1>9. OutOfScope'
  BY <1>1, <1>2, <1>4, <1>5 DEF TypeOK, OutOfScope, Assign, Forget, KindOf
<1>10. OwnersKnown'
  BY <1>1, <1>2, <1>4, <1>5 DEF TypeOK, OwnersKnown, SoleOwners, Assign, Forget, KindOf
<1>11. BackendsKnown'
  BY <1>1, <1>2, <1>4, <1>5 DEF TypeOK, BackendsKnown, SoleOwners, Assign, Forget, KindOf
<1>12. FaultsAreAccused'
  BY <1>1, <1>2, <1>4, <1>5 DEF TypeOK, FaultsAreAccused, OwnersKnown, Assign, Forget, KindOf
<1> QED BY <1>6, <1>7, <1>8, <1>9, <1>10, <1>11, <1>12 DEF IInv

-----------------------------------------------------------------------------
(* The end.                                                                 *)

LEMMA DestroyKeepsInv ==
  ASSUME IInv, NEW v \in Var, Destroy(v)
  PROVE  IInv'
<1> USE BorrowingAssumption
<1>1. /\ TypeOK /\ SoleOwners /\ ViewsAligned /\ OutOfScope /\ OwnersKnown /\ BackendsKnown
      /\ FaultsAreAccused
  BY DEF IInv
<1>2. \A x \in Var : KindOf(x)
  BY <1>1, Kinds
<1>3. class' = class
  BY DEF Destroy, Forget, FreePointer
<1>4. \A x : (Frees(x)' <=> Frees(x)) /\ (Closes(x)' <=> Closes(x)) /\ (Keeps(x)' <=> Keeps(x))
  BY <1>3, SameKinds
<1>5. TypeOK'
  BY <1>1, <1>2, <1>4 DEF TypeOK, Destroy, Forget, FreePointer, KindOf
<1>6. SoleOwners'
  <2> SUFFICES ASSUME NEW k \in alive' \ accused'
               PROVE  /\ \E x \in scope' : at'[x] = k /\ (Frees(x) \/ Closes(x))
                      /\ \A x, y \in scope' :
                           at'[x] = k /\ Frees(x) /\ at'[y] = k /\ (Frees(y) \/ Closes(y)) => x = y
    BY <1>4 DEF SoleOwners
  <2>1. scope' = scope \ {v} /\ \A x \in scope' : at'[x] = at[x]
    BY <1>1 DEF TypeOK, Destroy
  <2>2. k \in alive \ accused /\ (Frees(v) => k # at[v])
    BY <1>2 DEF Destroy, FreePointer, KindOf
  <2>3. PICK x \in scope : at[x] = k /\ (Frees(x) \/ Closes(x))
    BY <1>1, <2>2 DEF SoleOwners
  <2>4. \E y \in scope' : at'[y] = k /\ (Frees(y) \/ Closes(y))
    <3>1. CASE x # v
      BY <2>1, <2>3, <3>1
    <3>2. CASE x = v
      <4>1. Closes(v) /\ at[v] = k
        BY <2>2, <2>3, <3>2
      <4>2. PICK y \in scope \ {v} : at[y] = at[v] /\ Is(y, Database)
        BY <1>2, <2>2, <4>1 DEF Destroy, KindOf
      <4> QED BY <1>1, <1>2, <2>1, <4>1, <4>2 DEF KindOf, TypeOK
    <3> QED BY <3>1, <3>2
  <2> QED BY <1>1, <2>1, <2>2, <2>4 DEF SoleOwners
<1>7. ViewsAligned'
  BY <1>1, <1>2, <1>4 DEF TypeOK, ViewsAligned, OutOfScope, Destroy, Forget, FreePointer, KindOf
<1>8. OutOfScope'
  BY <1>1, <1>2, <1>4 DEF TypeOK, OutOfScope, Destroy, Forget, FreePointer, KindOf
<1>9. OwnersKnown'
  BY <1>1, <1>2, <1>4 DEF TypeOK, OwnersKnown, SoleOwners, Destroy, Forget, FreePointer, KindOf
<1>10. BackendsKnown'
  <2> SUFFICES ASSUME NEW x \in scope', Keeps(x)
               PROVE  \/ at'[x] \in accused' \cup {Wild, None}
                      \/ at'[x] \in alive' /\ \E d \in scope' : Closes(d) /\ at'[d] = at'[x]
    BY <1>4 DEF BackendsKnown
  <2>1. scope' = scope \ {v} /\ \A y \in scope' : at'[y] = at[y]
    BY <1>1 DEF TypeOK, Destroy
  <2>2. accused \subseteq accused'
    BY DEF Destroy
  <2>3. CASE at[x] \in accused \cup {Wild, None}
    BY <2>1, <2>2, <2>3
  <2>4. CASE at[x] \notin accused \cup {Wild, None}
    <3>1. PICK d \in scope : Closes(d) /\ at[d] = at[x]
      BY <1>1, <2>1, <2>4 DEF BackendsKnown
    <3>2. at[x] \in alive
      BY <1>1, <2>1, <2>4 DEF BackendsKnown
    <3>3. CASE v = d
      <4>1. alive' = alive
        BY <1>2, <3>1, <3>3 DEF Destroy, KindOf
      <4>2. CASE \E y \in scope \ {v} : at[y] = at[v] /\ Is(y, Database)
        BY <1>1, <1>2, <2>1, <3>1, <3>2, <3>3, <4>1, <4>2 DEF KindOf, TypeOK
      <4>3. CASE ~\E y \in scope \ {v} : at[y] = at[v] /\ Is(y, Database)
        <5>1. at[v] \in accused'
          BY <1>2, <3>1, <3>2, <3>3, <4>3 DEF Destroy, KindOf
        <5> QED BY <2>1, <3>1, <3>3, <5>1
      <4> QED BY <4>2, <4>3
    <3>4. CASE v # d /\ ~Frees(v)
      <4>1. alive' = alive
        BY <1>2, <3>4 DEF Destroy, KindOf
      <4> QED BY <2>1, <3>1, <3>2, <3>4, <4>1
    <3>5. CASE v # d /\ Frees(v)
      <4>1. at[v] # at[x]
        BY <1>1, <2>4, <3>1, <3>2, <3>5 DEF SoleOwners, Destroy
      <4>2. at[x] \in alive'
        BY <1>2, <3>2, <3>5, <4>1 DEF Destroy, FreePointer, KindOf
      <4> QED BY <2>1, <3>1, <3>5, <4>2
    <3> QED BY <3>3, <3>4, <3>5
  <2> QED BY <2>3, <2>4
<1>11. FaultsAreAccused'
  BY <1>1, <1>2, <1>4 DEF TypeOK, FaultsAreAccused, OwnersKnown, Destroy, Forget, FreePointer, KindOf
<1> QED BY <1>5, <1>6, <1>7, <1>8, <1>9, <1>10, <1>11 DEF IInv

LEMMA CloseKeepsInv ==
  ASSUME IInv, NEW v \in Var, Close(v)
  PROVE  IInv'
<1> USE BorrowingAssumption
<1>1. /\ TypeOK /\ SoleOwners /\ ViewsAligned /\ OutOfScope /\ OwnersKnown /\ BackendsKnown
      /\ FaultsAreAccused
  BY DEF IInv
<1>2. \A x \in Var : KindOf(x)
  BY <1>1, Kinds
<1>3. class' = class
  BY DEF Close, Forget, FreePointer
<1>4. \A x : (Frees(x)' <=> Frees(x)) /\ (Closes(x)' <=> Closes(x)) /\ (Keeps(x)' <=> Keeps(x))
  BY <1>3, SameKinds
<1>5. TypeOK'
  BY <1>1, <1>2, <1>4 DEF TypeOK, Close, Forget, FreePointer, KindOf
<1>6. SoleOwners'
  BY <1>1, <1>2, <1>4 DEF TypeOK, SoleOwners, Close, Forget, FreePointer, KindOf
<1>7. ViewsAligned'
  BY <1>1, <1>2, <1>4 DEF TypeOK, ViewsAligned, OutOfScope, Close, Forget, FreePointer, KindOf
<1>8. OutOfScope'
  BY <1>1, <1>2, <1>4 DEF TypeOK, OutOfScope, Close, Forget, FreePointer, KindOf
<1>9. OwnersKnown'
  BY <1>1, <1>2, <1>4 DEF TypeOK, OwnersKnown, SoleOwners, Close, Forget, FreePointer, KindOf
<1>10. BackendsKnown'
  BY <1>1, <1>2, <1>4 DEF TypeOK, BackendsKnown, SoleOwners, Close, Forget, FreePointer, KindOf
<1>11. FaultsAreAccused'
  BY <1>1, <1>2, <1>4 DEF TypeOK, FaultsAreAccused, OwnersKnown, Close, Forget, FreePointer, KindOf
<1> QED BY <1>5, <1>6, <1>7, <1>8, <1>9, <1>10, <1>11 DEF IInv

LEMMA DropElementsKeepsInv ==
  ASSUME IInv, NEW v \in Var, DropElements(v)
  PROVE  IInv'
<1> USE BorrowingAssumption
<1>1. /\ TypeOK /\ SoleOwners /\ ViewsAligned /\ OutOfScope /\ OwnersKnown /\ BackendsKnown
      /\ FaultsAreAccused
  BY DEF IInv
<1>2. \A x \in Var : KindOf(x)
  BY <1>1, Kinds
<1>3. class' = class
  BY DEF DropElements, Forget
<1>4. \A x : (Frees(x)' <=> Frees(x)) /\ (Closes(x)' <=> Closes(x)) /\ (Keeps(x)' <=> Keeps(x))
  BY <1>3, SameKinds
<1>5. TypeOK'
  BY <1>1, <1>2, <1>4 DEF TypeOK, DropElements, Forget, KindOf
<1>6. SoleOwners'
  BY <1>1, <1>2, <1>4 DEF TypeOK, SoleOwners, DropElements, Forget, KindOf
<1>7. ViewsAligned'
  BY <1>1, <1>2, <1>4 DEF TypeOK, ViewsAligned, OutOfScope, DropElements, Forget, KindOf
<1>8. OutOfScope'
  BY <1>1, <1>2, <1>4 DEF TypeOK, OutOfScope, DropElements, Forget, KindOf
<1>9. OwnersKnown'
  BY <1>1, <1>2, <1>4 DEF TypeOK, OwnersKnown, SoleOwners, DropElements, Forget, KindOf
<1>10. BackendsKnown'
  BY <1>1, <1>2, <1>4 DEF TypeOK, BackendsKnown, SoleOwners, DropElements, Forget, KindOf
<1>11. FaultsAreAccused'
  BY <1>1, <1>2, <1>4 DEF TypeOK, FaultsAreAccused, OwnersKnown, DropElements, Forget, KindOf
<1> QED BY <1>5, <1>6, <1>7, <1>8, <1>9, <1>10, <1>11 DEF IInv

-----------------------------------------------------------------------------
(* Use.                                                                     *)

LEMMA TouchKeepsInv ==
  ASSUME IInv, NEW v \in Var, Touch(v),
         at[v] \in alive \cup accused \cup {Wild, None}
  PROVE  IInv'
<1>1. class' = class
  BY DEF Touch
<1>2. \A x : (Frees(x)' <=> Frees(x)) /\ (Closes(x)' <=> Closes(x)) /\ (Keeps(x)' <=> Keeps(x))
  BY <1>1, SameKinds
<1>3. TypeOK'
  BY BorrowingAssumption DEF IInv, TypeOK, Touch, FaultsAreAccused
<1>4. SoleOwners' /\ ViewsAligned' /\ OutOfScope' /\ OwnersKnown' /\ BackendsKnown'
  BY <1>2 DEF IInv, Touch, SoleOwners, ViewsAligned, OutOfScope, OwnersKnown, BackendsKnown
<1>5. FaultsAreAccused'
  BY DEF IInv, Touch, FaultsAreAccused
<1> QED BY <1>3, <1>4, <1>5 DEF IInv

(* Owners have good pointers unless somebody was accused.                   *)
LEMMA OwnerUse ==
  ASSUME IInv, NEW v \in Var, UseOwner(v)
  PROVE  IInv'
<1>1. Touch(v) /\ v \in scope
  BY DEF UseOwner, UseConfig, UseRemote, UseBuilder, UseCommit, UseTag, UseTree, UseRefLog,
         UseStatusList, UseBlob, UseOdbObject, UsePatch, UseDatabase, Touch
<1>2. Frees(v) \/ Closes(v)
  BY DEF UseOwner, UseConfig, UseRemote, UseBuilder, UseCommit, UseTag, UseTree, UseRefLog,
         UseStatusList, UseBlob, UseOdbObject, UsePatch, UseDatabase, Frees, Closes, Freeing, Owning, Wrapping, Is
<1>3. at[v] \in alive \cup accused \cup {Wild, None}
  BY <1>1, <1>2 DEF IInv, OwnersKnown
<1> QED BY <1>1, <1>3, TouchKeepsInv

LEMMA BackendUse ==
  ASSUME IInv, NEW v \in Var, UseBackend(v)
  PROVE  IInv'
<1>1. Touch(v) /\ v \in scope /\ Keeps(v)
  BY DEF UseBackend, Touch, Keeps
<1>2. at[v] \in alive \cup accused \cup {Wild, None}
  BY <1>1 DEF IInv, BackendsKnown
<1> QED BY <1>1, <1>2, TouchKeepsInv

(* A view points where its owner does.                                      *)
LEMMA ViewUse ==
  ASSUME IInv, NEW v \in Var, UseView(v)
  PROVE  IInv'
<1>1. Touch(v) /\ v \in scope /\ from[v] # None
  BY DEF UseView, UseSignature, UseTreeEntry, UseStatusEntry, UseRefLogEntry, UseRefSpec, UseRaw, Touch
<1>2. from[v] \in scope /\ at[from[v]] = at[v] /\ (Frees(from[v]) \/ Closes(from[v]))
  BY <1>1 DEF IInv, ViewsAligned
<1>3. at[v] \in alive \cup accused \cup {Wild, None}
  BY <1>2 DEF IInv, OwnersKnown
<1> QED BY <1>1, <1>3, TouchKeepsInv

-----------------------------------------------------------------------------
(* The theorems.                                                            *)

LEMMA InitInv == Init => IInv
  BY BorrowingAssumption DEF Init, IInv, TypeOK, SoleOwners, ViewsAligned, OutOfScope, OwnersKnown,
     BackendsKnown, FaultsAreAccused

LEMMA StutterInv ==
  ASSUME IInv, UNCHANGED vars
  PROVE  IInv'
<1>1. \A x : (Frees(x)' <=> Frees(x)) /\ (Closes(x)' <=> Closes(x)) /\ (Keeps(x)' <=> Keeps(x))
  BY SameKinds DEF vars
<1> QED BY <1>1 DEF vars, IInv, TypeOK, SoleOwners, ViewsAligned, OutOfScope, OwnersKnown,
     BackendsKnown, FaultsAreAccused

LEMMA NextInv == IInv /\ [Next]_vars => IInv'
<1> SUFFICES ASSUME IInv, [Next]_vars PROVE IInv'
  OBVIOUS
<1>1. ASSUME NEW v \in Var, NEW n \in Native, New(v, n) PROVE IInv'
  BY <1>1, NewKeepsInv
<1>2. ASSUME NEW v \in Var, NEW n \in Native, NewBackend(v, n) PROVE IInv'
  BY <1>2, NewBackendKeepsInv
<1>3. ASSUME NEW v \in Var, OpenFails(v) PROVE IInv'
  BY <1>3, OpenFailsKeepsInv
<1>4. ASSUME NEW v \in Var, NEW n \in Native, NEW m \in Native, OpenGlobal(v, n, m) PROVE IInv'
  BY <1>4, OpenGlobalKeepsInv
<1>5. ASSUME NEW v \in Var, NEW w \in Var, Borrow(v, w) PROVE IInv'
  BY <1>5, BorrowKeepsInv
<1>6. ASSUME NEW v \in Var, NullView(v) PROVE IInv'
  BY <1>6, NullViewKeepsInv
<1>7. ASSUME NEW v \in Var, NEW n \in Native, BorrowTemporary(v, n) PROVE IInv'
  BY <1>7, BorrowTemporaryKeepsInv
<1>8. ASSUME NEW v \in Var, NEW w \in Var, NEW n \in Native, CopyBuilder(v, w, n) PROVE IInv'
  BY <1>8, CopyBuilderKeepsInv
<1>9. ASSUME NEW v \in Var, NEW w \in Var, CopyPointer(v, w) PROVE IInv'
  BY <1>9, CopyPointerKeepsInv
<1>10. ASSUME NEW v \in Var, NEW w \in Var, CopyView(v, w) PROVE IInv'
  BY <1>10, CopyViewKeepsInv
<1>11. ASSUME NEW v \in Var, NEW w \in Var, CopyBackend(v, w) PROVE IInv'
  BY <1>11, CopyBackendKeepsInv
<1>12. ASSUME NEW v \in Var, NEW w \in Var, Assign(v, w) PROVE IInv'
  BY <1>12, AssignKeepsInv
<1>13. ASSUME NEW v \in Var, Destroy(v) PROVE IInv'
  BY <1>13, DestroyKeepsInv
<1>14. ASSUME NEW v \in Var, Close(v) PROVE IInv'
  BY <1>14, CloseKeepsInv
<1>15. ASSUME NEW v \in Var, DropElements(v) PROVE IInv'
  BY <1>15, DropElementsKeepsInv
<1>16. ASSUME NEW v \in Var, UseOwner(v) PROVE IInv'
  BY <1>16, OwnerUse
<1>17. ASSUME NEW v \in Var, UseBackend(v) PROVE IInv'
  BY <1>17, BackendUse
<1>18. ASSUME NEW v \in Var, UseView(v) PROVE IInv'
  BY <1>18, ViewUse
<1>19. CASE UNCHANGED vars
  BY <1>19, StutterInv
<1> QED BY <1>1, <1>2, <1>3, <1>4, <1>5, <1>6, <1>7, <1>8, <1>9, <1>10,
           <1>11, <1>12, <1>13, <1>14, <1>15, <1>16, <1>17, <1>18, <1>19 DEF Next

(* What the kinds say of the owners and views is what the invariant says.   *)
LEMMA InvImplied == IInv => BorrowingInv /\ LeaksAreAccused
<1> SUFFICES ASSUME IInv PROVE BorrowingInv /\ LeaksAreAccused
  OBVIOUS
<1>1. TypeOK /\ SoleOwners /\ ViewsAligned
  BY DEF IInv
<1>2. \A v \in Var : KindOf(v)
  BY <1>1, Kinds
<1>3. Accounted
  <2> SUFFICES ASSUME NEW n \in alive \ accused
               PROVE  /\ OwnersOf(n) # {}
                      /\ \A v, w \in OwnersOf(n) : v = w \/ Is(v, Database)
    BY DEF Accounted
  <2>1. \A v : v \in OwnersOf(n) <=> v \in scope /\ at[v] = n /\ (Frees(v) \/ Closes(v))
    BY <1>1, <1>2 DEF TypeOK, OwnersOf, KindOf
  <2>2. \A v \in scope : Is(v, Database) <=> Closes(v)
    BY <1>1, <1>2 DEF TypeOK, KindOf
  <2> QED BY <1>1, <2>1, <2>2 DEF SoleOwners
<1>4. ViewsInPlace
  BY <1>1, <1>2 DEF TypeOK, ViewsAligned, ViewsInPlace, KindOf
<1>5. LeaksAreAccused
  BY <1>1 DEF SoleOwners, LeaksAreAccused
<1> QED BY <1>1, <1>3, <1>4, <1>5 DEF BorrowingInv

LEMMA Invariant == Spec => []IInv
  BY InitInv, NextInv, PTL DEF Spec

(* Every object nobody mishandled has its one owner, and every view its     *)
(* object.                                                                  *)
THEOREM OwnersAccounted == Spec => []BorrowingInv
  BY InvImplied, Invariant, PTL

(* Only what was mishandled is freed twice, or used after a free.           *)
THEOREM FaultsNeedAccusation == Spec => []FaultsAreAccused
<1>1. IInv => FaultsAreAccused
  BY DEF IInv
<1> QED BY <1>1, Invariant, PTL

(* Only what was mishandled leaks.                                          *)
THEOREM LeaksNeedAccusation == Spec => []LeaksAreAccused
  BY InvImplied, Invariant, PTL

-----------------------------------------------------------------------------
(* The promise of module Ownership.                                         *)

\* no variable but v is constructed, destroyed or pointed elsewhere
OnlyActs(v) ==
  /\ class' = class
  /\ \A x \in Var \ {v} : (x \in scope' <=> x \in scope) /\ at'[x] = at[x]

(* Every step is taken on behalf of one variable.                           *)
LEMMA OneVariableActs == TypeOK /\ Next => \E v \in Var : OnlyActs(v)
<1> SUFFICES ASSUME TypeOK, Next PROVE \E v \in Var : OnlyActs(v)
  OBVIOUS
<1> USE DEF TypeOK, Construct
<1>1. ASSUME NEW v \in Var,
             OpenFails(v) \/ NullView(v) \/ Destroy(v) \/ Close(v) \/ DropElements(v)
      PROVE  OnlyActs(v)
  BY <1>1 DEF OnlyActs, OpenFails, NullView, Destroy, Close, DropElements
<1>2. ASSUME NEW v \in Var, NEW n \in Native,
             New(v, n) \/ NewBackend(v, n) \/ BorrowTemporary(v, n)
      PROVE  OnlyActs(v)
  BY <1>2 DEF OnlyActs, New, NewBackend, BorrowTemporary
<1>3. ASSUME NEW v \in Var, NEW n \in Native, NEW m \in Native, OpenGlobal(v, n, m)
      PROVE  OnlyActs(v)
  BY <1>3 DEF OnlyActs, OpenGlobal
<1>4. ASSUME NEW v \in Var, NEW w \in Var,
             \/ Borrow(v, w) \/ CopyPointer(v, w) \/ CopyView(v, w) \/ CopyBackend(v, w)
             \/ Assign(v, w)
      PROVE  OnlyActs(v)
  BY <1>4 DEF OnlyActs, Borrow, CopyPointer, CopyView, CopyBackend, Assign
<1>5. ASSUME NEW v \in Var, NEW w \in Var, NEW n \in Native, CopyBuilder(v, w, n)
      PROVE  OnlyActs(v)
  BY <1>5 DEF OnlyActs, CopyBuilder
<1>6. ASSUME NEW v \in Var, UseOwner(v) \/ UseBackend(v) \/ UseView(v)
      PROVE  OnlyActs(v)
  <2>1. Touch(v)
    BY <1>6 DEF UseOwner, UseConfig, UseRemote, UseBuilder, UseCommit, UseTag, UseTree,
         UseRefLog, UseStatusList, UseBlob, UseOdbObject, UsePatch, UseDatabase, UseBackend,
         UseView, UseSignature, UseTreeEntry, UseStatusEntry, UseRefLogEntry, UseRefSpec, UseRaw
  <2> QED
    BY <2>1 DEF OnlyActs, Touch
<1> QED
  BY <1>1, <1>2, <1>3, <1>4, <1>5, <1>6 DEF Next

(* An accusation is never taken back.                                       *)
LEMMA AccusedForGood == TypeOK /\ Next => accused \subseteq accused'
  BY DEF Next, OpenFails, NullView, Destroy, Close, DropElements, New, NewBackend,
         BorrowTemporary, OpenGlobal, Borrow, CopyPointer, CopyView, CopyBackend, Assign,
         CopyBuilder, Touch, UseOwner, UseConfig, UseRemote, UseBuilder, UseCommit, UseTag,
         UseTree, UseRefLog, UseStatusList, UseBlob, UseOdbObject, UsePatch, UseDatabase,
         UseBackend, UseView, UseSignature, UseTreeEntry, UseStatusEntry, UseRefLogEntry,
         UseRefSpec, UseRaw

AliveIffOwned == \A n \in Native \ accused : n \in alive <=> OwnersOf(n) # {}

(* Objects nobody was accused over exist exactly while they are owned.      *)
LEMMA AliveWhileOwned == IInv => AliveIffOwned
<1> SUFFICES ASSUME IInv PROVE AliveIffOwned
  OBVIOUS
<1>1. TypeOK /\ SoleOwners /\ OwnersKnown
  BY DEF IInv
<1>2. \A v \in scope : Is(v, Holding) <=> Frees(v) \/ Closes(v)
  BY <1>1, Kinds DEF TypeOK, KindOf
<1> QED
  BY <1>1, <1>2, BorrowingAssumption DEF AliveIffOwned, OwnersOf, SoleOwners, OwnersKnown

(* The client who is accused of an object forfeits the promise for it, and  *)
(* for no other: all other objects exist exactly while a variable owns      *)
(* them, and no step changes the owners on behalf of two variables.         *)
THEOREM BorrowingImplementsOwnership == Spec => ImplementsOwnership
<1>1. Init => Abstract!Init
  BY DEF Init, Abstract!Init, OwnersOf
<1>2. IInv /\ IInv' /\ [Next]_vars => [Abstract!Next]_(Abstract!vars)
  <2>1. CASE UNCHANGED vars
    BY <2>1 DEF vars, Abstract!vars, OwnersOf, Is
  <2>2. ASSUME IInv, IInv', Next PROVE Abstract!Next
    <3>1. TypeOK /\ TypeOK'
      BY <2>2 DEF IInv
    <3>2. /\ \A n \in Native : OwnersOf(n)' \subseteq Var
          /\ alive' \subseteq Native /\ accused' \subseteq Native
      BY <3>1 DEF TypeOK, OwnersOf
    <3>3. \A n \in Native \ accused' : n \in alive' <=> OwnersOf(n)' # {}
      <4>1. AliveIffOwned'
        BY <2>2, AliveWhileOwned, PTL
      <4> QED
        BY <4>1 DEF AliveIffOwned
    <3>4. \A n \in Native \ accused' : OwnersOf(n)' \ Var \subseteq alive'
      BY <3>2
    <3>5. \E h \in Var : \A n \in Native :
            OwnersOf(n)' \cap (Var \ {h}) = OwnersOf(n) \cap (Var \ {h})
      <4> PICK h \in Var : OnlyActs(h)
        BY <2>2, <3>1, OneVariableActs
      <4> QED
        BY DEF OnlyActs, OwnersOf, Is
    <3>6. accused \subseteq accused'
      BY <2>2, <3>1, AccusedForGood
    <3> QED
      BY <3>2, <3>3, <3>4, <3>5, <3>6
         DEF Abstract!Next, Abstract!LivesWhileOwned,
             Abstract!DeadOwnNothing, Abstract!OneHandleActs
  <2> QED
    BY <2>1, <2>2
<1> QED
  BY <1>1, <1>2, Invariant, PTL DEF Spec, ImplementsOwnership, Abstract!Spec
=============================================================================
