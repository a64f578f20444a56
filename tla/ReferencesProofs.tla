--------------------------- MODULE ReferencesProofs ---------------------------
(***************************************************************************)
(* Theorems about References, for every set of names, ids and handles and  *)
(* every depth of symbolic references: the types, the truth of the         *)
(* snapshots, that branches stay direct, which calls can detach HEAD, and  *)
(* that no call on a branch takes it away from under HEAD.  Nearly every   *)
(* action is a Put, which makes new references and gives some handles a    *)
(* new snapshot, so that one lemma about Put carries the invariant.  Where *)
(* a chain of symbolic references ends is a recursive function; what it    *)
(* computes is proved by induction, from the least number that would be a  *)
(* counterexample.                                                         *)
(***************************************************************************)
EXTENDS References, WellFoundedInduction, TLAPS

Stores == [Name -> Value \cup {None}]

Direct(s) == \A b \in Branch : s[b] \notin Name

ReferencesInv == TypeOK /\ UpToDate /\ BranchesDirect

-----------------------------------------------------------------------------
(* Induction over the natural numbers.                                      *)

(* A set of natural numbers that is not empty has a least element.          *)
LEMMA Least ==
  ASSUME NEW T \in SUBSET Nat, T # {}
  PROVE  \E m \in T : \A k \in T : m <= k
<1>1. \E m \in T : \A k \in T : ~(<<k, m>> \in OpToRel(<, Nat))
  BY WFMin, NatLessThanWellFounded, Zenon
<1>2. \A k, m \in Nat : k < m => <<k, m>> \in OpToRel(<, Nat)
  BY DEF OpToRel
<1>3. \E m \in T : \A k \in T : ~(k < m)
  BY <1>1, <1>2, Zenon
<1> QED BY <1>3

(* A set with 0, and with k + 1 for each k in it, has all natural numbers.  *)
LEMMA Induction ==
  ASSUME NEW S \in SUBSET Nat, 0 \in S, \A k \in S : k + 1 \in S
  PROVE  S = Nat
<1> SUFFICES ASSUME Nat \ S # {} PROVE FALSE
  OBVIOUS
<1>1. PICK m \in Nat \ S : \A k \in Nat \ S : m <= k
  BY Least
<1>2. m # 0 /\ m - 1 \in Nat /\ m = (m - 1) + 1
  BY <1>1
<1>3. m - 1 \in S
  BY <1>1, <1>2
<1> QED BY <1>1, <1>2, <1>3

-----------------------------------------------------------------------------
(* Chains of symbolic references.                                           *)

Steps(F, n, r) == r = [k \in 0 .. Nesting |-> IF k = 0 THEN n ELSE F[r[k - 1]]]

(* The steps of a chain exist, as a function: however deep libgit2 follows  *)
(* references, the recursion in End is well defined.                        *)
LEMMA StepsExist ==
  ASSUME NEW F \in [Name -> Name], NEW n \in Name
  PROVE  \E r : Steps(F, n, r)
<1> DEFINE Upto(r, l) == r = [k \in 0 .. l |-> IF k = 0 THEN n ELSE F[r[k - 1]]]
           S == {l \in Nat : \E r \in [0 .. l -> Name] : Upto(r, l)}
<1>1. 0 \in S
  <2> DEFINE r == [k \in 0 .. 0 |-> n]
  <2>1. r \in [0 .. 0 -> Name] /\ Upto(r, 0)
    OBVIOUS
  <2> QED BY <2>1
<1>2. ASSUME NEW l \in S PROVE l + 1 \in S
  <2>1. PICK r \in [0 .. l -> Name] : Upto(r, l)
    OBVIOUS
  <2> DEFINE q == [k \in 0 .. l + 1 |-> IF k = l + 1 THEN F[r[l]] ELSE r[k]]
  <2>2. l \in Nat
    OBVIOUS
  <2>3. q \in [0 .. l + 1 -> Name]
    <3>1. l \in 0 .. l /\ \A k \in 0 .. l + 1 : k # l + 1 => k \in 0 .. l
      BY <2>2
    <3>2. \A k \in 0 .. l + 1 : (IF k = l + 1 THEN F[r[l]] ELSE r[k]) \in Name
      BY <2>1, <3>1
    <3> QED BY <3>2
  <2>4. \A k \in 0 .. l : r[k] = IF k = 0 THEN n ELSE F[r[k - 1]]
    BY <2>1, <2>2
  <2>5. \A k \in 0 .. l + 1 : q[k] = IF k = 0 THEN n ELSE F[q[k - 1]]
    BY <2>2, <2>4
  <2>6. Upto(q, l + 1)
    BY <2>2, <2>3, <2>5
  <2> HIDE DEF q, Upto
  <2> QED BY <2>2, <2>3, <2>6
<1>3. S = Nat
  <2> HIDE DEF S
  <2>1. 0 \in S /\ \A l \in S : l + 1 \in S
    BY <1>1, <1>2
  <2>2. S \in SUBSET Nat
    BY DEF S
  <2> QED BY <2>1, <2>2, Induction
<1>4. PICK r \in [0 .. Nesting -> Name] : Upto(r, Nesting)
  BY <1>3, ReferencesAssumption
<1>5. Steps(F, n, r)
  BY <1>4 DEF Steps
<1> QED BY <1>5

(* The end of a chain is its last step.                                     *)
LEMMA EndOfSteps ==
  ASSUME NEW F \in [Name -> Name], NEW n \in Name
  PROVE  \E r : /\ End(F, n) = r[Nesting]
                /\ r[0] = n
                /\ \A k \in Nat : k + 1 <= Nesting => r[k + 1] = F[r[k]]
<1> DEFINE r == CHOOSE r : r = [k \in 0 .. Nesting |-> IF k = 0 THEN n ELSE F[r[k - 1]]]
<1>1. r = [k \in 0 .. Nesting |-> IF k = 0 THEN n ELSE F[r[k - 1]]]
  BY StepsExist, Zenon DEF Steps
<1>2. End(F, n) = r[Nesting]
  BY Zenon DEF End
<1> HIDE DEF r
<1>3. \A k \in 0 .. Nesting : r[k] = IF k = 0 THEN n ELSE F[r[k - 1]]
  BY <1>1
<1>4. r[0] = n /\ \A k \in Nat : k + 1 <= Nesting => r[k + 1] = F[r[k]]
  BY <1>3, ReferencesAssumption
<1> QED BY <1>2, <1>4

(* A chain of references from a name ends at a name.                        *)
LEMMA EndIsName ==
  ASSUME NEW F \in [Name -> Name], NEW n \in Name
  PROVE  End(F, n) \in Name
<1>1. PICK r : /\ End(F, n) = r[Nesting]
               /\ r[0] = n
               /\ \A k \in Nat : k + 1 <= Nesting => r[k + 1] = F[r[k]]
  BY EndOfSteps
<1> DEFINE S == {k \in Nat : k <= Nesting => r[k] \in Name}
<1>2. 0 \in S
  BY <1>1
<1>3. ASSUME NEW k \in S PROVE k + 1 \in S
  BY <1>1, ReferencesAssumption
<1>4. S = Nat
  <2> HIDE DEF S
  <2>1. S \in SUBSET Nat
    BY DEF S
  <2> QED BY <1>2, <1>3, <2>1, Induction
<1> QED BY <1>1, <1>4, ReferencesAssumption

(* A chain that is followed at all, from a name that leads to one where it  *)
(* stays, ends there.                                                       *)
LEMMA EndAfterOne ==
  ASSUME NEW F \in [Name -> Name], NEW n \in Name, F[F[n]] = F[n], Nesting # 0
  PROVE  End(F, n) = F[n]
<1>1. PICK r : /\ End(F, n) = r[Nesting]
               /\ r[0] = n
               /\ \A k \in Nat : k + 1 <= Nesting => r[k + 1] = F[r[k]]
  BY EndOfSteps
<1> DEFINE S == {k \in Nat : k + 1 <= Nesting => r[k + 1] = F[n]}
<1>2. 0 \in S
  BY <1>1
<1>3. ASSUME NEW k \in S PROVE k + 1 \in S
  BY <1>1, ReferencesAssumption
<1>4. S = Nat
  <2> HIDE DEF S
  <2>1. S \in SUBSET Nat
    BY DEF S
  <2> QED BY <1>2, <1>3, <2>1, Induction
<1>5. Nesting - 1 \in Nat /\ (Nesting - 1) + 1 = Nesting
  BY ReferencesAssumption
<1>6. \A k \in Nat : k + 1 <= Nesting => r[k + 1] = F[n]
  BY <1>4
<1> QED BY <1>1, <1>5, <1>6

(* A chain that is not followed ends where it starts.                       *)
LEMMA EndOfNone ==
  ASSUME NEW F \in [Name -> Name], NEW n \in Name, Nesting = 0
  PROVE  End(F, n) = n
  BY EndOfSteps

LEMMA FollowType ==
  ASSUME NEW s \in Stores
  PROVE  Follow(s) \in [Name -> Name]
  BY DEF Follow, Stores

LEMMA TerminalIsName ==
  ASSUME TypeOK, NEW n \in Name
  PROVE  Terminal(n) \in Name
<1>1. Follow(store) \in [Name -> Name]
  BY FollowType DEF TypeOK, Stores
<1> QED BY <1>1, EndIsName DEF Terminal

-----------------------------------------------------------------------------
(* Putting.                                                                 *)

(* New references and the snapshot of one of them, which must exist if a    *)
(* handle is to get it: the handles that are not entered as behind are up   *)
(* to date.                                                                 *)
LEMMA PutKeepsInv ==
  ASSUME ReferencesInv, NEW fresh \in SUBSET Handle, NEW n \in Name, NEW s \in Stores,
         fresh # {} => s[n] # None, Direct(s),
         Put(fresh, n, s)
  PROVE  ReferencesInv'
<1> USE ReferencesAssumption DEF ReferencesInv
<1>1. store' = s /\ behind' \subseteq Handle
  BY DEF Put, Update, TypeOK
<1>2. \A h \in Handle : snap'[h] = IF h \in fresh THEN [name |-> n, value |-> s[n]] ELSE snap[h]
  BY DEF Put
<1>3. fresh # {} => [name |-> n, value |-> s[n]] \in Snapshot
  BY DEF Snapshot, Stores
<1>4. snap' \in [Handle -> Snapshot \cup {None}]
  BY <1>3 DEF Put, TypeOK
<1>5. TypeOK'
  BY <1>1, <1>4 DEF TypeOK, Stores
<1>6. UpToDate'
  <2> SUFFICES ASSUME NEW h \in Handle, h \notin behind', snap'[h] # None
               PROVE  store'[snap'[h].name] = snap'[h].value
    BY DEF UpToDate, Outdated
  <2>1. CASE h \in fresh
    BY <1>1, <1>2, <2>1
  <2>2. CASE h \notin fresh
    <3>1. h \notin behind /\ s[snap[h].name] = store[snap[h].name]
      BY <1>2, <2>2 DEF Put, Update
    <3> QED BY <1>1, <1>2, <2>2, <3>1 DEF UpToDate, Outdated
  <2> QED BY <2>1, <2>2
<1>7. BranchesDirect'
  <2>1. \A b \in Branch : store'[b] \notin Name
    BY <1>1 DEF Direct
  <2> SUFFICES ASSUME NEW h \in Handle, snap'[h] # None, snap'[h].name \in Branch
               PROVE  snap'[h].value \notin Name
    BY <2>1 DEF BranchesDirect
  <2>2. CASE h \in fresh
    BY <1>2, <2>2 DEF Direct
  <2>3. CASE h \notin fresh
    BY <1>2, <2>3 DEF BranchesDirect
  <2> QED BY <2>2, <2>3
<1> QED BY <1>5, <1>6, <1>7

-----------------------------------------------------------------------------
(* What the calls write.                                                    *)

(* The snapshot of a handle that is not null.                               *)
LEMMA SnapshotOf ==
  ASSUME TypeOK, NEW h \in Handle, snap[h] # None
  PROVE  snap[h].name \in Name /\ snap[h].value \in Value
  BY DEF TypeOK, Snapshot

(* One reference gets a value, a branch no name.                            *)
LEMMA WriteOne ==
  ASSUME store \in Stores, BranchesDirect, NEW n \in Name, NEW v \in Value \cup {None},
         n \notin Branch \/ v \notin Name
  PROVE  LET s == [store EXCEPT ![n] = v]
         IN  s \in Stores /\ s[n] = v /\ Direct(s)
  BY ReferencesAssumption DEF Stores, BranchesDirect, Direct

(* HEAD put on a reference that exists.                                     *)
LEMMA HeadAtType ==
  ASSUME NEW n \in Name, NEW s \in Stores, n \in Branch \/ s[n] # None
  PROVE  HeadAt(n, s) \in Value
  BY DEF HeadAt, Stores, Value

(* A reference that exists is moved, with HEAD or without: the new name     *)
(* exists, and the value of HEAD changes only if HEAD was on the old name.  *)
LEMMA MovedType ==
  ASSUME TypeOK, NEW a \in Name, NEW b \in Name, store[a] # None, HEAD \notin {a, b}
  PROVE  /\ Moved(a, b) \in Stores /\ Moved(a, b)[b] # None /\ Moved(a, b)[HEAD] = store[HEAD]
         /\ MovedWithHead(a, b) \in Stores /\ MovedWithHead(a, b)[b] # None
         /\ MovedWithHead(a, b)[HEAD] \in {store[HEAD], HeadAt(b, Moved(a, b))}
<1> USE ReferencesAssumption
<1>1. Moved(a, b) \in Stores /\ Moved(a, b)[b] # None /\ Moved(a, b)[HEAD] = store[HEAD]
  BY DEF TypeOK, Moved, Stores
<1>2. HeadAt(b, Moved(a, b)) \in Value
  BY <1>1, HeadAtType
<1> DEFINE m == Moved(a, b)
           u == HeadAt(b, Moved(a, b))
<1>3. MovedWithHead(a, b) = IF IsHead(a) THEN [m EXCEPT ![HEAD] = u] ELSE m
  BY DEF MovedWithHead
<1>4. m \in Stores /\ m[b] # None /\ m[HEAD] = store[HEAD] /\ u \in Value
  BY <1>1, <1>2
<1> HIDE DEF m, u
<1>5. /\ [m EXCEPT ![HEAD] = u] \in Stores
      /\ [m EXCEPT ![HEAD] = u][b] # None /\ [m EXCEPT ![HEAD] = u][HEAD] = u
  BY <1>4 DEF Stores
<1>6. MovedWithHead(a, b) \in Stores /\ MovedWithHead(a, b)[b] # None
      /\ MovedWithHead(a, b)[HEAD] \in {store[HEAD], u}
  BY <1>3, <1>4, <1>5
<1> QED BY <1>1, <1>6 DEF u

(* Branches stay direct when a name moves, unless it is symbolic and        *)
(* becomes a branch.                                                        *)
LEMMA MovedDirect ==
  ASSUME TypeOK, BranchesDirect, NEW a \in Name, NEW b \in Name,
         HEAD \notin {a, b}, store[a] \in Name => b \notin Branch
  PROVE  Direct(Moved(a, b)) /\ Direct(MovedWithHead(a, b))
<1> USE ReferencesAssumption
<1>1. Moved(a, b) \in [Name -> Value \cup {None}] /\ Direct(Moved(a, b))
  BY DEF TypeOK, BranchesDirect, Moved, Direct
<1> DEFINE m == Moved(a, b)
           u == HeadAt(b, Moved(a, b))
<1>2. MovedWithHead(a, b) = IF IsHead(a) THEN [m EXCEPT ![HEAD] = u] ELSE m
  BY DEF MovedWithHead
<1>3. m \in [Name -> Value \cup {None}] /\ Direct(m)
  BY <1>1
<1> HIDE DEF m, u
<1>4. Direct([m EXCEPT ![HEAD] = u])
  BY <1>3 DEF Direct
<1>5. Direct(MovedWithHead(a, b))
  BY <1>2, <1>3, <1>4
<1> QED BY <1>1, <1>5

(* What a rename or a move, successful or not, knows of its names.          *)
LEMMA RenameNames ==
  ASSUME TypeOK, NEW h \in Handle, NEW n \in Name, NEW force \in BOOLEAN,
         Renamable(h, n, force) \/ Movable(h, n, force)
  PROVE  /\ snap[h] # None /\ snap[h].name \in Name
         /\ HEAD \notin {snap[h].name, n} /\ store[snap[h].name] # None
         /\ store[snap[h].name] \in Name => n \notin Branch
  BY SnapshotOf DEF Renamable, Movable

-----------------------------------------------------------------------------
(* The invariant.                                                           *)

LEMMA InitInv == Init => ReferencesInv
<1> SUFFICES ASSUME Init PROVE ReferencesInv
  OBVIOUS
<1>1. TypeOK
  BY ReferencesAssumption DEF Init, TypeOK, Value
<1>2. UpToDate
  BY DEF Init, UpToDate, Outdated
<1>3. BranchesDirect
  BY ReferencesAssumption DEF Init, BranchesDirect
<1> QED BY <1>1, <1>2, <1>3 DEF ReferencesInv

LEMMA RepositoryInv == ReferencesInv /\ ThroughRepository => ReferencesInv'
<1> SUFFICES ASSUME ReferencesInv, ThroughRepository PROVE ReferencesInv'
  OBVIOUS
<1> USE ReferencesAssumption
<1>0. TypeOK /\ BranchesDirect /\ store \in Stores
  BY DEF ReferencesInv, TypeOK, Stores
<1>1. ASSUME NEW n \in Name, DeleteTag(n) PROVE ReferencesInv'
  BY <1>0, <1>1, WriteOne, PutKeepsInv DEF DeleteTag
<1>2. ASSUME NEW u \in Value, Put({}, HEAD, [store EXCEPT ![HEAD] = u]) PROVE ReferencesInv'
  BY <1>0, <1>2, WriteOne, PutKeepsInv
<1>3. ASSUME NEW n \in Name, SetHead(n) PROVE ReferencesInv'
  <2>1. HeadAt(n, store) \in Value
    BY <1>0, <1>3, HeadAtType DEF SetHead
  <2> QED BY <1>2, <1>3, <2>1 DEF SetHead
<1>4. ASSUME NEW n \in Name, NEW fresh \in Receiver, NEW v \in Value, NEW force \in BOOLEAN,
             Create(fresh, n, v, force)
      PROVE  ReferencesInv'
  <2>1. fresh \in SUBSET Handle
    BY DEF Receiver
  <2>2. n \notin Branch \/ v \notin Name
    BY <1>4 DEF Create
  <2>3. v # None /\ Put(fresh, n, [store EXCEPT ![n] = v])
    BY <1>4 DEF Create, Value
  <2> QED BY <1>0, <2>1, <2>2, <2>3, WriteOne, PutKeepsInv
<1>5. ASSUME NEW n \in Name, NEW o \in Oid, CreateCommit(n, o) PROVE ReferencesInv'
  <2> DEFINE m == Terminal(n)
  <2>1. m \in Name /\ Put({}, m, [store EXCEPT ![m] = o])
    BY <1>0, <1>5, TerminalIsName DEF CreateCommit
  <2>2. o \in Value /\ o \notin Name
    BY DEF Value
  <2> HIDE DEF m
  <2> QED BY <1>0, <2>1, <2>2, WriteOne, PutKeepsInv
<1>6. ASSUME NEW o \in Oid, Reset(o) PROVE ReferencesInv'
  BY <1>5, <1>6 DEF Reset
<1>7. CASE DetachHead
  <2>1. store[Terminal(HEAD)] \in Value
    BY <1>7 DEF DetachHead, HeadBorn, Value
  <2> QED BY <1>2, <1>7, <2>1 DEF DetachHead
<1> QED BY <1>1, <1>3, <1>4, <1>5, <1>6, <1>7 DEF ThroughRepository

LEMMA ObjectInv == ReferencesInv /\ ThroughObject => ReferencesInv'
<1> SUFFICES ASSUME ReferencesInv, NEW h \in Handle,
                    \/ LookupHead(h)
                    \/ Release(h)
                    \/ Delete(h)
                    \/ BranchDelete(h)
                    \/ \E g \in Handle : Copy(h, g) \/ Resolve(h, g)
                    \/ \E o \in Oid : SetTarget(h, o)
                    \/ \E n \in Name :
                         \/ Lookup(h, n)
                         \/ \E fresh \in Receiver : SetSymbolicTarget(h, fresh, n)
                         \/ \E force \in BOOLEAN :
                              \/ Rename(h, n, force)
                              \/ RenameFails(h, n, force)
                              \/ BranchMove(h, n, force)
                              \/ BranchMoveFails(h, n, force)
             PROVE  ReferencesInv'
  BY DEF ThroughObject
<1> USE ReferencesAssumption
<1>0. TypeOK /\ BranchesDirect /\ store \in Stores /\ Direct(store)
  BY DEF ReferencesInv, TypeOK, Stores, BranchesDirect, Direct
<1>1. CASE LookupHead(h)
  <2> DEFINE n == Terminal(HEAD)
  <2>1. n \in Name /\ store[n] \in Oid /\ Put({h}, n, store)
    BY <1>0, <1>1, TerminalIsName DEF LookupHead, HeadBorn
  <2> HIDE DEF n
  <2> QED BY <1>0, <2>1, PutKeepsInv
<1>2. CASE Release(h)
  BY <1>2 DEF Release, ReferencesInv, TypeOK, UpToDate, Outdated, BranchesDirect
<1>3. CASE Delete(h)
  <2>1. snap[h].name \in Name /\ snap[h] # None
    BY <1>0, <1>3, SnapshotOf DEF Delete
  <2>2. store' \in Stores /\ Direct(store')
    BY <1>0, <1>3, <2>1, WriteOne DEF Delete
  <2>3. TypeOK'
    BY <1>0, <1>3, <2>2 DEF Delete, TypeOK, Update, Stores
  <2>4. UpToDate'
    <3> SUFFICES ASSUME NEW g \in Handle, g \notin behind', snap'[g] # None
                 PROVE  store'[snap'[g].name] = snap'[g].value
      BY DEF UpToDate, Outdated
    <3>1. g # h /\ snap'[g] = snap[g]
      BY <1>0, <1>3 DEF Delete, TypeOK
    <3>2. g \notin behind /\ store'[snap[g].name] = store[snap[g].name]
      BY <1>3, <3>1 DEF Delete, Update
    <3> QED BY <3>1, <3>2 DEF ReferencesInv, UpToDate, Outdated
  <2>5. BranchesDirect'
    BY <1>0, <1>3, <2>2 DEF Delete, TypeOK, BranchesDirect, Direct
  <2> QED BY <2>3, <2>4, <2>5 DEF ReferencesInv
<1>4. CASE BranchDelete(h)
  <2> DEFINE b == snap[h].name
  <2>1. b \in Name /\ Put({}, b, [store EXCEPT ![b] = None])
    BY <1>0, <1>4, SnapshotOf DEF BranchDelete
  <2> HIDE DEF b
  <2> QED BY <1>0, <2>1, WriteOne, PutKeepsInv
<1>5. ASSUME NEW g \in Handle, Copy(h, g) PROVE ReferencesInv'
  BY <1>5 DEF Copy, ReferencesInv, TypeOK, UpToDate, Outdated, BranchesDirect
<1>6. ASSUME NEW g \in Handle, Resolve(h, g) PROVE ReferencesInv'
  <2> DEFINE n == IF snap[g].value \in Name THEN Terminal(snap[g].value) ELSE snap[g].name
  <2>1. n \in Name
    BY <1>0, <1>6, SnapshotOf, TerminalIsName DEF Resolve
  <2>2. store[n] \in Oid /\ Put({h}, n, store)
    BY <1>6 DEF Resolve
  <2> HIDE DEF n
  <2> QED BY <1>0, <2>1, <2>2, PutKeepsInv
<1>7. ASSUME NEW o \in Oid, SetTarget(h, o) PROVE ReferencesInv'
  <2> DEFINE n == snap[h].name
  <2>1. n \in Name /\ Put({h}, n, [store EXCEPT ![n] = o])
    BY <1>0, <1>7, SnapshotOf DEF SetTarget
  <2>2. o \in Value /\ o \notin Name /\ o # None
    BY DEF Value
  <2> HIDE DEF n
  <2> QED BY <1>0, <2>1, <2>2, WriteOne, PutKeepsInv
<1>8. ASSUME NEW n \in Name, Lookup(h, n) PROVE ReferencesInv'
  BY <1>0, <1>8, PutKeepsInv DEF Lookup
<1>9. ASSUME NEW n \in Name, NEW fresh \in Receiver, SetSymbolicTarget(h, fresh, n)
      PROVE  ReferencesInv'
  <2> DEFINE m == snap[h].name
  <2>1. m \in Name /\ m \notin Branch /\ fresh \in SUBSET Handle
    BY <1>0, <1>9, SnapshotOf DEF SetSymbolicTarget, Receiver, BranchesDirect
  <2>2. Put(fresh, m, [store EXCEPT ![m] = n])
    BY <1>9 DEF SetSymbolicTarget
  <2>3. n \in Value /\ n # None
    BY DEF Value
  <2> HIDE DEF m
  <2> QED BY <1>0, <2>1, <2>2, <2>3, WriteOne, PutKeepsInv
<1>10. ASSUME NEW n \in Name, NEW force \in BOOLEAN,
              Renamable(h, n, force) \/ Movable(h, n, force)
       PROVE  /\ Put({h}, n, MovedWithHead(snap[h].name, n)) => ReferencesInv'
              /\ Put({}, n, Moved(snap[h].name, n)) => ReferencesInv'
              /\ Put({}, n, MovedWithHead(snap[h].name, n)) => ReferencesInv'
  <2>1. /\ MovedWithHead(snap[h].name, n) \in Stores
        /\ MovedWithHead(snap[h].name, n)[n] # None
        /\ Direct(MovedWithHead(snap[h].name, n))
        /\ Moved(snap[h].name, n) \in Stores
        /\ Direct(Moved(snap[h].name, n))
    BY <1>0, <1>10, RenameNames, MovedType, MovedDirect
  <2> QED BY <2>1, PutKeepsInv
<1>11. ASSUME NEW n \in Name, NEW force \in BOOLEAN, Rename(h, n, force) \/ RenameFails(h, n, force)
       PROVE  ReferencesInv'
  BY <1>10, <1>11 DEF Rename, RenameFails
<1>12. ASSUME NEW n \in Name, NEW force \in BOOLEAN,
              BranchMove(h, n, force) \/ BranchMoveFails(h, n, force)
       PROVE  ReferencesInv'
  BY <1>10, <1>12 DEF BranchMove, BranchMoveFails
<1> QED BY <1>1, <1>2, <1>3, <1>4, <1>5, <1>6, <1>7, <1>8, <1>9, <1>11, <1>12

LEMMA Invariant == Spec => []ReferencesInv
<1>1. ReferencesInv /\ UNCHANGED vars => ReferencesInv'
  BY DEF vars, ReferencesInv, TypeOK, UpToDate, Outdated, BranchesDirect
<1>2. ReferencesInv /\ [Next]_vars => ReferencesInv'
  BY <1>1, RepositoryInv, ObjectInv DEF Next
<1> QED BY InitInv, <1>2, PTL DEF Spec

(* The references, snapshots and handles always have their types.           *)
THEOREM ReferencesTypeCorrect == Spec => []TypeOK
<1>1. ReferencesInv => TypeOK
  BY DEF ReferencesInv
<1> QED BY <1>1, Invariant, PTL

(* Only an object that another call passed over overwrites an update, or    *)
(* brings a deleted reference back.                                         *)
THEOREM OverwritesAreOutdated == Spec => OutdatedOverwrites
<1>1. ReferencesInv => \A h \in Handle : Outdated(h) => h \in behind
  BY DEF ReferencesInv, UpToDate
<1>2. ReferencesInv /\ [Next]_vars =>
        [\A h \in Handle : Outdated(h) /\ Overwriting(h) => h \in behind]_vars
  BY <1>1
<1> QED BY <1>2, Invariant, PTL DEF Spec, OutdatedOverwrites

(* No object takes a branch for symbolic, and none is.                      *)
THEOREM BranchesStayDirect == Spec => []BranchesDirect
<1>1. ReferencesInv => BranchesDirect
  BY DEF ReferencesInv
<1> QED BY <1>1, Invariant, PTL

-----------------------------------------------------------------------------
(* Detaching HEAD.                                                          *)

Detached == store[HEAD] \in Name /\ store'[HEAD] \in Oid

Excused == Detaching \/ \E h \in behind : snap[h].name = HEAD

(* Of the calls through the repository, only those that say so detach HEAD: *)
(* a commit goes to the end of the chain, which HEAD is not.                *)
LEMMA RepositoryDetaches == TypeOK /\ ThroughRepository /\ Detached => Excused
<1> SUFFICES ASSUME TypeOK, ThroughRepository, Detached PROVE Excused
  OBVIOUS
<1> USE ReferencesAssumption
<1>0. HEAD \in DOMAIN store
  BY DEF TypeOK
<1>1. ASSUME NEW n \in Name, DeleteTag(n) PROVE FALSE
  BY <1>0, <1>1 DEF DeleteTag, Put, Detached
<1>2. ASSUME NEW n \in Name, SetHead(n) PROVE Excused
  <2>1. store'[HEAD] = HeadAt(n, store)
    BY <1>0, <1>2 DEF SetHead, Put
  <2>2. n \notin Branch
    BY <2>1 DEF HeadAt, Detached
  <2> QED BY <1>2, <2>2 DEF Excused, Detaching
<1>3. ASSUME NEW n \in Name, NEW fresh \in Receiver, NEW v \in Value, NEW force \in BOOLEAN,
             Create(fresh, n, v, force)
      PROVE  FALSE
  BY <1>0, <1>3 DEF Create, Put, Detached
<1>4. ASSUME NEW n \in Name, NEW o \in Oid, CreateCommit(n, o) PROVE FALSE
  <2> DEFINE m == Terminal(n)
  <2>1. m \in Name
    BY TerminalIsName
  <2>2. store[m] \notin Name /\ store' = [store EXCEPT ![m] = o]
    BY <1>4 DEF CreateCommit, Put
  <2> HIDE DEF m
  <2> QED BY <1>0, <2>1, <2>2 DEF Detached
<1>5. ASSUME NEW o \in Oid, Reset(o) PROVE FALSE
  BY <1>4, <1>5 DEF Reset
<1>6. CASE DetachHead
  BY <1>6 DEF Excused, Detaching
<1> QED BY <1>1, <1>2, <1>3, <1>4, <1>5, <1>6 DEF ThroughRepository

(* Of the calls through an object, renaming away from the branches says so; *)
(* setTarget on HEAD needs a snapshot with an id, which is out of date.     *)
LEMMA ObjectDetaches == ReferencesInv /\ ThroughObject /\ Detached => Excused
<1> SUFFICES ASSUME ReferencesInv, Detached, NEW h \in Handle,
                    \/ LookupHead(h)
                    \/ Release(h)
                    \/ Delete(h)
                    \/ BranchDelete(h)
                    \/ \E g \in Handle : Copy(h, g) \/ Resolve(h, g)
                    \/ \E o \in Oid : SetTarget(h, o)
                    \/ \E n \in Name :
                         \/ Lookup(h, n)
                         \/ \E fresh \in Receiver : SetSymbolicTarget(h, fresh, n)
                         \/ \E force \in BOOLEAN :
                              \/ Rename(h, n, force)
                              \/ RenameFails(h, n, force)
                              \/ BranchMove(h, n, force)
                              \/ BranchMoveFails(h, n, force)
             PROVE  Excused
  BY DEF ThroughObject
<1> USE ReferencesAssumption
<1>0. TypeOK /\ HEAD \in DOMAIN store
  BY DEF ReferencesInv, TypeOK
<1>1. ASSUME store' = store PROVE FALSE
  BY <1>1 DEF Detached
<1>2. CASE LookupHead(h) \/ Release(h)
  BY <1>1, <1>2 DEF LookupHead, Release, Put
<1>3. CASE Delete(h)
  BY <1>0, <1>3 DEF Delete, Detached
<1>4. CASE BranchDelete(h)
  BY <1>0, <1>4 DEF BranchDelete, Put, Detached
<1>5. ASSUME NEW g \in Handle, Copy(h, g) \/ Resolve(h, g) PROVE Excused
  BY <1>1, <1>5 DEF Copy, Resolve, Put
<1>6. ASSUME NEW o \in Oid, SetTarget(h, o) PROVE Excused
  <2>1. snap[h] # None /\ snap[h].value \in Oid
    BY <1>6 DEF SetTarget
  <2>2. snap[h].name = HEAD
    BY <1>0, <1>6 DEF SetTarget, Put, Detached
  <2>3. h \in behind
    BY <2>1, <2>2 DEF ReferencesInv, UpToDate, Outdated, Detached
  <2> QED BY <2>2, <2>3 DEF Excused
<1>7. ASSUME NEW n \in Name, Lookup(h, n) PROVE Excused
  BY <1>1, <1>7 DEF Lookup, Put
<1>8. ASSUME NEW n \in Name, NEW fresh \in Receiver, SetSymbolicTarget(h, fresh, n)
      PROVE  Excused
  BY <1>0, <1>8 DEF SetSymbolicTarget, Put, Detached
<1>9. ASSUME NEW n \in Name, NEW force \in BOOLEAN,
             Renamable(h, n, force) \/ Movable(h, n, force),
             store' \in {Moved(snap[h].name, n), MovedWithHead(snap[h].name, n)}
      PROVE  store' = MovedWithHead(snap[h].name, n) /\ n \notin Branch
  <2>1. store'[HEAD] \in {store[HEAD], HeadAt(n, Moved(snap[h].name, n))}
    BY <1>0, <1>9, RenameNames, MovedType
  <2>2. n \notin Branch
    BY <2>1 DEF HeadAt, Detached
  <2>3. Moved(snap[h].name, n)[HEAD] = store[HEAD]
    BY <1>0, <1>9, RenameNames, MovedType
  <2> QED BY <1>9, <2>2, <2>3 DEF Detached
<1>10. ASSUME NEW n \in Name, NEW force \in BOOLEAN, Rename(h, n, force) PROVE Excused
  <2>1. n \notin Branch
    BY <1>9, <1>10 DEF Rename, Put
  <2> QED BY <1>10, <2>1 DEF Excused, Detaching
<1>11. ASSUME NEW n \in Name, NEW force \in BOOLEAN, RenameFails(h, n, force) PROVE FALSE
  <2>1. store'[HEAD] = store[HEAD]
    BY <1>0, <1>11, RenameNames, MovedType DEF RenameFails, Put
  <2> QED BY <2>1 DEF Detached
<1>12. ASSUME NEW n \in Name, NEW force \in BOOLEAN,
              BranchMove(h, n, force) \/ BranchMoveFails(h, n, force)
       PROVE  FALSE
  BY <1>9, <1>12 DEF BranchMove, BranchMoveFails, Movable, Put
<1> QED BY <1>2, <1>3, <1>4, <1>5, <1>6, <1>7, <1>8, <1>10, <1>11, <1>12

(* HEAD leaves its branch by a call that says so, or through an object that *)
(* is out of date.                                                          *)
THEOREM DetachedOnPurposeOnly == Spec => DetachedOnPurpose
<1>1. ReferencesInv /\ [Next]_vars =>
        [store[HEAD] \in Name /\ store'[HEAD] \in Oid =>
           \/ Detaching
           \/ \E h \in behind : snap[h].name = HEAD]_vars
  BY RepositoryDetaches, ObjectDetaches DEF ReferencesInv, Next, Detached, Excused
<1> QED BY <1>1, Invariant, PTL DEF Spec, DetachedOnPurpose

-----------------------------------------------------------------------------
(* Branches under HEAD.                                                     *)

(* Writing names that are direct, and stay so or go, changes no chain.      *)
LEMMA SameChains ==
  ASSUME NEW s \in Stores, NEW t \in Stores,
         \A n \in Name : s[n] = t[n] \/ (s[n] \notin Name /\ t[n] \notin Name)
  PROVE  Follow(s) = Follow(t)
  BY DEF Follow

(* Deleting a branch HEAD is not on: the chain from HEAD does not pass      *)
(* through a branch, and its end is another one.                            *)
LEMMA DeleteKeepsHead ==
  ASSUME ReferencesInv, NEW h \in Handle, BranchDelete(h), HeadBorn
  PROVE  HeadBorn'
<1> USE ReferencesAssumption
<1> DEFINE b == snap[h].name
<1>1. b \in Branch /\ b \in Name /\ store \in Stores /\ store[b] \notin Name
  BY DEF ReferencesInv, TypeOK, Stores, BranchDelete, BranchesDirect
<1>2. store' = [store EXCEPT ![b] = None]
  BY DEF BranchDelete, Put
<1>3. Terminal(HEAD) # b
  BY DEF BranchDelete, IsHead
<1> HIDE DEF b
<1>4. store' \in Stores /\ \A n \in Name : n # b => store'[n] = store[n]
  BY <1>1, <1>2 DEF Stores
<1>5. store'[b] \notin Name
  BY <1>1, <1>2 DEF Stores
<1>6. Follow(store') = Follow(store)
  BY <1>1, <1>4, <1>5, SameChains
<1>7. Terminal(HEAD)' = Terminal(HEAD)
  BY <1>6 DEF Terminal
<1>8. Terminal(HEAD) \in Name
  BY TerminalIsName DEF ReferencesInv
<1> QED BY <1>3, <1>4, <1>7, <1>8 DEF HeadBorn

(* Moving a branch: HEAD goes with it, and leads to the new name in one     *)
(* step, or was on another branch and stays there; when that one is moved   *)
(* over, HEAD is on the branch that took its place.                         *)
LEMMA MoveKeepsHead ==
  ASSUME ReferencesInv, NEW h \in Handle, NEW n \in Name, NEW force \in BOOLEAN,
         Movable(h, n, force), store' = MovedWithHead(snap[h].name, n), HeadBorn
  PROVE  HeadBorn'
<1> USE ReferencesAssumption
<1> DEFINE a == snap[h].name
           m == Moved(a, n)
<1>1. /\ a \in Branch /\ a \in Name /\ n \in Branch /\ n # HEAD /\ a # HEAD
      /\ store \in Stores /\ store[a] \in Oid /\ store[n] \notin Name
  BY DEF ReferencesInv, TypeOK, Stores, Value, Movable, Renamable, BranchesDirect
<1>2. store' = MovedWithHead(a, n)
  OBVIOUS
<1>3. m = IF a = n THEN store ELSE [store EXCEPT ![n] = store[a], ![a] = None]
  BY DEF Moved
<1> HIDE DEF a
<1>4. /\ m \in Stores /\ m[n] \in Oid /\ m[a] \notin Name
      /\ \A k \in Name : k \notin {a, n} => m[k] = store[k]
  BY <1>1, <1>3 DEF Stores, Value
<1>5. Terminal(HEAD) \in Name
  BY TerminalIsName DEF ReferencesInv
<1> HIDE DEF m
<1>6. CASE IsHead(a)
  <2>1. store' = [m EXCEPT ![HEAD] = n]
    BY <1>1, <1>2, <1>6 DEF MovedWithHead, HeadAt, m
  <2>2. store' \in Stores /\ store'[HEAD] = n /\ store'[n] \in Oid
    BY <1>1, <1>4, <2>1 DEF Stores, Value
  <2> DEFINE F == Follow(store')
  <2>3. F \in [Name -> Name] /\ F[HEAD] = n /\ F[n] = n
    BY <2>2, FollowType DEF Follow
  <2>4. Follow(store) \in [Name -> Name] /\ End(Follow(store), HEAD) = a
    BY <1>1, <1>6, FollowType DEF IsHead, Terminal
  <2>5. Nesting # 0
    BY <1>1, <2>4, EndOfNone
  <2> HIDE DEF F
  <2>6. End(F, HEAD) = n
    BY <2>3, <2>5, EndAfterOne
  <2> QED BY <2>2, <2>6 DEF HeadBorn, Terminal, F
<1>7. CASE ~IsHead(a)
  <2>1. store' = m
    BY <1>2, <1>7 DEF MovedWithHead, m
  <2>2. Terminal(HEAD) # a
    BY <1>7 DEF IsHead
  <2>3. Follow(store') = Follow(store)
    BY <1>1, <1>4, <2>1, SameChains
  <2>4. Terminal(HEAD)' = Terminal(HEAD)
    BY <2>3 DEF Terminal
  <2>5. store[Terminal(HEAD)] \in Oid
    BY DEF HeadBorn
  <2>6. store'[Terminal(HEAD)] \in Oid
    BY <1>4, <1>5, <2>1, <2>2, <2>5
  <2> QED BY <2>4, <2>6 DEF HeadBorn
<1> QED BY <1>6, <1>7

(* A move that throws half-way has moved HEAD as well, or did not need to,  *)
(* or leaves the branch of HEAD under its new name.                         *)
LEMMA FailingMoves ==
  ASSUME ReferencesInv, NEW h \in Handle, NEW n \in Name, NEW force \in BOOLEAN,
         BranchMoveFails(h, n, force), HeadBorn
  PROVE  HeadBorn' \/ MovedWithoutHead
<1> DEFINE a == snap[h].name
<1>1. Movable(h, n, force) /\ store' \in {Moved(a, n), MovedWithHead(a, n)}
  BY DEF BranchMoveFails, Put
<1>2. CASE store' = MovedWithHead(a, n)
  BY <1>1, <1>2, MoveKeepsHead
<1>3. CASE store' = Moved(a, n) /\ ~IsHead(a)
  BY <1>2, <1>3 DEF MovedWithHead
<1>4. CASE store' = Moved(a, n) /\ IsHead(a)
  <2>1. store \in Stores /\ n \in Name /\ a \in Name
    BY <1>1, SnapshotOf DEF ReferencesInv, TypeOK, Stores, Movable, Renamable
  <2>2. store'[n] = store[a]
    BY <1>4, <2>1 DEF Moved, Stores
  <2> QED BY <1>4, <2>2 DEF MovedWithoutHead
<1> QED BY <1>1, <1>2, <1>3, <1>4

(* Deleting or moving a branch, through however stale an object and however *)
(* deep references are followed, leaves HEAD on a branch that exists, or    *)
(* throws with the commit of HEAD at the new name.                          *)
THEOREM BranchCallsKeepHead == Spec => BranchesKeepHead
<1>1. ASSUME ReferencesInv, HeadBorn, NEW h \in Handle, NEW n \in Name, NEW force \in BOOLEAN,
             BranchMove(h, n, force)
      PROVE  HeadBorn'
  BY <1>1, MoveKeepsHead DEF BranchMove, Put
<1>2. ReferencesInv /\ HeadBorn /\ BranchCalls => HeadBorn' \/ MovedWithoutHead
  BY <1>1, DeleteKeepsHead, FailingMoves DEF BranchCalls
<1>3. ReferencesInv /\ [Next]_vars =>
        [HeadBorn /\ BranchCalls => HeadBorn' \/ MovedWithoutHead]_vars
  BY <1>2
<1> QED BY <1>3, Invariant, PTL DEF Spec, BranchesKeepHead
=============================================================================
