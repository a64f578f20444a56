---------------------------- MODULE HandlesProofs ----------------------------
(***************************************************************************)
(* Theorems about module Handles, for every number of wrapper objects,     *)
(* native objects and control blocks.  The type invariant holds of every   *)
(* client; the others of a client that copies no non-null object of an     *)
(* adopting class (Copied = {}).                                           *)
(***************************************************************************)
EXTENDS Handles, FiniteSetTheorems, TLAPS

(***************************************************************************)
(* Type correctness                                                        *)
(***************************************************************************)

\* giving back references leaves natural numbers
LEMMA LessType ==
  ASSUME refs \in [Native -> Nat], NEW S
  PROVE  Less(S) \in [Native -> Nat]
BY DEF Less

LEMMA RawWithoutType ==
  ASSUME raw \in [Block -> Native \cup {Null}], NEW h
  PROVE  RawWithout(h) \in [Block -> Native \cup {Null}]
BY DEF RawWithout

LEMMA TypeStep == TypeOK /\ [Next]_vars => TypeOK'
<1> SUFFICES ASSUME TypeOK, [Next]_vars PROVE TypeOK'
  OBVIOUS
<1> USE DEF TypeOK
<1>1. ASSUME NEW h \in Handle, ConstructNull(h) PROVE TypeOK'
  BY <1>1 DEF ConstructNull
<1>2. ASSUME NEW h \in Handle, Reset(h) PROVE TypeOK'
  BY <1>2, LessType, RawWithoutType DEF Reset, LetGo
<1>3. ASSUME NEW h \in Handle, Destroy(h) PROVE TypeOK'
  BY <1>3, LessType, RawWithoutType DEF Destroy, LetGo
<1>4. ASSUME NEW h \in Handle, NEW n \in Native, Open(h, n) PROVE TypeOK'
  BY <1>4 DEF Open, Construct, Unused
<1>5. ASSUME NEW h \in Handle, NEW n \in Native, Replace(h, n) PROVE TypeOK'
  <2>1. Less(Dropped(Freed(h))) \in [Native -> Nat]
    BY LessType
  <2>2. RawWithout(h) \in [Block -> Native \cup {Null}]
    BY RawWithoutType
  <2> QED
    BY <1>5, <2>1, <2>2 DEF Replace, LetGo, Unused
<1>6. ASSUME NEW h \in Handle, NEW g \in Handle, CopySharing(h, g) PROVE TypeOK'
  BY <1>6 DEF CopySharing
<1>7. ASSUME NEW h \in Handle, NEW g \in Handle, CopyAdopting(h, g) PROVE TypeOK'
  BY <1>7 DEF CopyAdopting, CopyPointer, Construct, Unused, Data
<1>8. ASSUME NEW h \in Handle, NEW g \in Handle, Assign(h, g) PROVE TypeOK'
  BY <1>8, LessType, RawWithoutType DEF Assign, LetGo
<1>9. ASSUME NEW h \in Handle, NEW g \in Handle, NEW n \in Native, HandOut(h, g, n)
      PROVE  TypeOK'
  BY <1>9 DEF HandOut, Construct, Unused, CountHandedOut
<1>10. ASSUME NEW n \in Native, Evict(n) PROVE TypeOK'
  BY <1>10, LessType DEF Evict
<1>11. CASE UNCHANGED vars
  BY <1>11 DEF vars
<1> QED
  BY <1>1, <1>2, <1>3, <1>4, <1>5, <1>6, <1>7, <1>8, <1>9, <1>10, <1>11 DEF Next

LEMMA TypeInit == Init => TypeOK
<1> SUFFICES ASSUME Init PROVE TypeOK
  OBVIOUS
<1>1. fault \in BOOLEAN
  BY Zenon DEF Init
<1>2. /\ scope \subseteq Handle
      /\ ptr \in [Handle -> Block \cup {Null}]
      /\ raw \in [Block -> Native \cup {Null}]
  BY DEF Init
<1>3. refs \in [Native -> Nat] /\ held \subseteq Native
  BY DEF Init
<1> QED
  BY <1>1, <1>2, <1>3 DEF TypeOK

(* The type invariant of the ownership machinery holds of every client,     *)
(* also of one that copies objects of adopting classes.                     *)
THEOREM TypeCorrect == Spec => []TypeOK
<1>1. Init => TypeOK
  BY TypeInit
<1>2. TypeOK /\ [Next]_vars => TypeOK'
  BY TypeStep
<1> QED
  BY <1>1, <1>2, PTL DEF Spec

(***************************************************************************)
(* Counting control blocks                                                 *)
(***************************************************************************)
CountOn(f, n) == Cardinality({b \in Block : f[b] = n})

\* f redirected at one block b from n to m: n loses one block, m gains one,
\* and every other object keeps its number
LEMMA RedirectCount ==
  ASSUME NEW f \in [Block -> Native \cup {Null}],
         NEW b \in Block, NEW m \in Native \cup {Null}, f[b] # m
  PROVE  LET g == [f EXCEPT ![b] = m] IN
           /\ \A n \in Native \cup {Null} : CountOn(f, n) \in Nat
           /\ CountOn(g, m) = CountOn(f, m) + 1
           /\ CountOn(g, f[b]) = CountOn(f, f[b]) - 1
           /\ \A n \in (Native \cup {Null}) \ {m, f[b]} : CountOn(g, n) = CountOn(f, n)
<1> DEFINE g == [f EXCEPT ![b] = m]
           On(e, n) == {a \in Block : e[a] = n}
<1>1. \A e, n : IsFiniteSet(On(e, n)) /\ Cardinality(On(e, n)) \in Nat
  BY HandlesAssumption, FS_Subset, FS_CardinalityType
<1>2. On(g, m) = On(f, m) \cup {b} /\ b \notin On(f, m)
  OBVIOUS
<1>3. On(g, f[b]) = On(f, f[b]) \ {b} /\ b \in On(f, f[b])
  OBVIOUS
<1>4. \A n \in (Native \cup {Null}) \ {m, f[b]} : On(g, n) = On(f, n)
  OBVIOUS
<1>5. /\ \A n \in Native \cup {Null} : CountOn(f, n) = Cardinality(On(f, n))
      /\ \A n \in Native \cup {Null} : CountOn(g, n) = Cardinality(On(g, n))
  BY DEF CountOn
<1> HIDE DEF On
<1>6. Cardinality(On(g, m)) = Cardinality(On(f, m)) + 1
  <2>1. IsFiniteSet(On(f, m))
    BY <1>1
  <2> QED
    BY <1>2, <2>1, FS_AddElement
<1>7. Cardinality(On(g, f[b])) = Cardinality(On(f, f[b])) - 1
  <2>1. IsFiniteSet(On(f, f[b]))
    BY <1>1
  <2> QED
    BY <1>3, <2>1, FS_RemoveElement
<1>8. f[b] \in Native \cup {Null}
  OBVIOUS
<1> HIDE DEF g
<1>9. \A n \in Native \cup {Null} : CountOn(f, n) \in Nat
  BY <1>1, <1>5
<1>10. CountOn(g, m) = CountOn(f, m) + 1
  BY <1>5, <1>6
<1>11. CountOn(g, f[b]) = CountOn(f, f[b]) - 1
  BY <1>5, <1>7, <1>8
<1>12. \A n \in (Native \cup {Null}) \ {m, f[b]} : CountOn(g, n) = CountOn(f, n)
  BY <1>4, <1>5
<1> QED
  BY <1>9, <1>10, <1>11, <1>12 DEF g

\* an object with a control block on it is counted
LEMMA BlockCounted ==
  ASSUME NEW b \in Block, RefsBalance, raw[b] \in Native, refs \in [Native -> Nat]
  PROVE  refs[raw[b]] > 0
<1> DEFINE S == BlocksOn(raw[b])
<1>1. IsFiniteSet(S)
  BY HandlesAssumption, FS_Subset DEF BlocksOn
<1>2. b \in S /\ S # {}
  BY DEF BlocksOn
<1>3. Cardinality(S) \in Nat /\ Cardinality(S) # 0
  BY <1>1, <1>2, FS_CardinalityType, FS_EmptySet
<1> QED
  BY <1>3 DEF RefsBalance

(***************************************************************************)
(* Letting go of a control block                                           *)
(***************************************************************************)
HeldAfter(h) == held \ (Dropped(Freed(h)) \ {Freed(h)})

\* every object a deleter takes a reference from has one
LEMMA DroppedCounted ==
  ASSUME OwnershipInv, NEW h \in Handle
  PROVE  \A n \in Dropped(Freed(h)) : n \in Native /\ refs[n] > 0
<1> USE DEF OwnershipInv, TypeOK
<1>1. ASSUME Freed(h) # Null
      PROVE  Freed(h) \in Native /\ refs[Freed(h)] > 0
  BY <1>1, BlockCounted DEF Freed, Last
<1>2. ASSUME NEW n \in held PROVE n \in Native /\ refs[n] > 0
  <2>1. Cardinality(BlocksOn(n)) \in Nat
    BY HandlesAssumption, FS_Subset, FS_CardinalityType DEF BlocksOn
  <2> QED
    BY <2>1 DEF RefsBalance
<1> QED
  BY <1>1, <1>2 DEF Dropped

\* the books still balance once h has let go of its control block
LEMMA LetGoBalance ==
  ASSUME OwnershipInv, NEW h \in Handle
  PROVE  \A n \in Native :
           Less(Dropped(Freed(h)))[n] =
             CountOn(RawWithout(h), n) + (IF n \in HeldAfter(h) THEN 1 ELSE 0)
<1> USE DEF OwnershipInv, TypeOK
<1>1. \A n \in Native : refs[n] = CountOn(raw, n) + (IF n \in held THEN 1 ELSE 0)
  BY DEF RefsBalance, BlocksOn, CountOn
<1>2. CASE ~Last(h)
  <2>1. Freed(h) = Null /\ RawWithout(h) = raw
    BY <1>2 DEF Freed, RawWithout
  <2>2. Dropped(Freed(h)) = {}
    BY <2>1 DEF Dropped
  <2>3. Less(Dropped(Freed(h))) = refs /\ HeldAfter(h) = held
    BY <2>2 DEF Less, HeldAfter
  <2> QED
    BY <1>1, <2>1, <2>3
<1>3. CASE Last(h)
  <2> DEFINE b == ptr[h]
             f == raw[b]
  <2>1. b \in Block /\ h \in scope /\ f \in Native
    BY <1>3 DEF Last, BlocksInUse
  <2>2. RawWithout(h) = [raw EXCEPT ![b] = Null] /\ Freed(h) = f /\ f # Null
    BY <1>3, <2>1, HandlesAssumption DEF RawWithout, Freed
  <2>3. /\ \A n \in Native : CountOn(raw, n) \in Nat
        /\ CountOn(RawWithout(h), f) = CountOn(raw, f) - 1
        /\ \A n \in Native \ {f} : CountOn(RawWithout(h), n) = CountOn(raw, n)
    <3>1. raw[b] # Null
      BY <2>2
    <3>2. /\ \A n \in Native \cup {Null} : CountOn(raw, n) \in Nat
          /\ CountOn([raw EXCEPT ![b] = Null], raw[b]) = CountOn(raw, raw[b]) - 1
          /\ \A n \in (Native \cup {Null}) \ {Null, raw[b]} :
               CountOn([raw EXCEPT ![b] = Null], n) = CountOn(raw, n)
      <4>1. raw \in [Block -> Native \cup {Null}] /\ Null \in Native \cup {Null}
        OBVIOUS
      <4> HIDE DEF OwnershipInv, TypeOK, b
      <4> QED
        BY <2>1, <3>1, <4>1, RedirectCount
    <3> QED
      BY <2>2, <3>2, HandlesAssumption
  <2>4. \A n \in Dropped(f) : refs[n] > 0
    BY <2>2, DroppedCounted
  <2>5. f \in Dropped(f) /\ Dropped(f) \ {f} \subseteq held
    BY <2>2 DEF Dropped
  <2>6. \A n \in Native :
          Less(Dropped(f))[n] = IF n \in Dropped(f) THEN refs[n] - 1 ELSE refs[n]
    BY <2>4 DEF Less
  <2>7. HeldAfter(h) = held \ (Dropped(f) \ {f})
    BY <2>2 DEF HeldAfter
  <2>8. HeldAfter(h) \subseteq held /\ (f \in held <=> f \in HeldAfter(h))
    BY <2>7
  <2>9. \A n \in Native \ {f} : n \in HeldAfter(h) <=> n \in held /\ n \notin Dropped(f)
    BY <2>7
  <2> HIDE DEF f, b
  <2> SUFFICES ASSUME NEW n \in Native
               PROVE  Less(Dropped(f))[n] =
                        CountOn(RawWithout(h), n) + (IF n \in HeldAfter(h) THEN 1 ELSE 0)
    BY <2>2
  <2>10. CASE n = f
    BY <1>1, <2>10, <2>1, <2>3, <2>5, <2>6, <2>8
  <2>11. CASE n # f
    <3>1. n \in Dropped(f) => n \in held
      BY <2>5, <2>11
    <3> QED
      BY <1>1, <2>11, <2>3, <2>6, <2>9, <3>1
  <2> QED
    BY <2>10, <2>11
<1> QED
  BY <1>2, <1>3

\* what is still held afterwards belongs to a repository that is still open
LEMMA LetGoHeld ==
  ASSUME OwnershipInv, NEW h \in Handle, NEW n \in HeldAfter(h)
  PROVE  /\ n \in held
         /\ HomeOf[n] \in Native
         /\ Less(Dropped(Freed(h)))[HomeOf[n]] > 0
<1> USE DEF OwnershipInv, TypeOK
<1> DEFINE r == HomeOf[n]
<1>1. n \in held /\ r \in Native /\ r # Null /\ refs[r] > 0
  BY HandlesAssumption DEF HeldAfter, HeldByOpenRepository
<1>2. r \notin held
  <2>1. KindOf[r] = "Repository"
    BY <1>1, HandlesAssumption
  <2> QED
    BY <2>1, <1>1, HandlesAssumption DEF HeldByOpenRepository
<1>3. n # r
  BY <1>1, <1>2
<1>4. CASE r \in Dropped(Freed(h))
  <2>1. Freed(h) = r
    BY <1>2, <1>4 DEF Dropped
  <2>2. refs[r] # 1 \/ n = Freed(h)
    BY <1>1, <2>1 DEF Dropped, HeldAfter
  <2>3. refs[r] # 1
    BY <2>1, <2>2, <1>3
  <2> QED
    BY <1>1, <2>3 DEF Less
<1>5. CASE r \notin Dropped(Freed(h))
  BY <1>1, <1>5 DEF Less
<1> QED
  BY <1>1, <1>4, <1>5

(***************************************************************************)
(* The two halves of a step: letting go and taking hold                    *)
(***************************************************************************)
LEMMA LetGoStep ==
  ASSUME OwnershipInv, NEW h \in Handle, LetGo(h),
         raw' = RawWithout(h), refs' = Less(Dropped(Freed(h)))
  PROVE  RefsBalance' /\ HeldByOpenRepository' /\ (fault' <=> fault)
<1>1. held' = HeldAfter(h)
  BY DEF LetGo, HeldAfter
<1>2. RefsBalance'
  <2>1. \A n \in Native :
          refs'[n] = CountOn(raw', n) + (IF n \in held' THEN 1 ELSE 0)
    BY <1>1, LetGoBalance
  <2> QED
    BY <2>1 DEF RefsBalance, BlocksOn, CountOn
<1>3. HeldByOpenRepository'
  BY <1>1, LetGoHeld, HandlesAssumption DEF HeldByOpenRepository
<1>4. fault' <=> fault
  <2>1. \A n \in Dropped(Freed(h)) : refs[n] # 0
    BY DroppedCounted DEF OwnershipInv, TypeOK
  <2> QED
    BY <2>1 DEF LetGo
<1> QED
  BY <1>2, <1>3, <1>4

LEMMA ConstructStep ==
  ASSUME OwnershipInv, NEW h \in Handle, h \notin scope, NEW n \in Native, Construct(h, n)
  PROVE  /\ BlocksInUse'
         /\ CountOn(raw, n) \in Nat
         /\ CountOn(raw', n) = CountOn(raw, n) + 1
         /\ \A m \in Native \ {n} : CountOn(raw', m) = CountOn(raw, m)
<1> PICK b \in Unused : /\ scope' = scope \cup {h}
                        /\ ptr' = [ptr EXCEPT ![h] = b]
                        /\ raw' = [raw EXCEPT ![b] = n]
  BY DEF Construct
<1>1. /\ b \in Block /\ raw[b] = Null /\ n # Null /\ b # Null
      /\ raw \in [Block -> Native \cup {Null}]
      /\ ptr \in [Handle -> Block \cup {Null}]
  BY HandlesAssumption DEF Unused, OwnershipInv, TypeOK
<1>2. BlocksInUse'
  <2>1. ASSUME NEW a \in Block
        PROVE  raw'[a] # Null <=> \E k \in scope' : ptr'[k] = a
    <3>1. CASE a = b
      BY <1>1, <3>1
    <3>2. CASE a # b
      BY <1>1, <3>2 DEF OwnershipInv, BlocksInUse, TypeOK
    <3> QED
      BY <3>1, <3>2
  <2>2. \A k \in Handle : ptr'[k] # Null => k \in scope'
    BY <1>1 DEF OwnershipInv, BlocksInUse
  <2> QED
    BY <2>1, <2>2 DEF BlocksInUse
<1>3. /\ \A m \in Native \cup {Null} : CountOn(raw, m) \in Nat
      /\ CountOn([raw EXCEPT ![b] = n], n) = CountOn(raw, n) + 1
      /\ \A m \in (Native \cup {Null}) \ {n, raw[b]} :
           CountOn([raw EXCEPT ![b] = n], m) = CountOn(raw, m)
  <2>1. /\ n \in Native \cup {Null} /\ raw[b] # n /\ b \in Block
        /\ raw \in [Block -> Native \cup {Null}]
    BY <1>1
  <2> QED
    BY ONLY <2>1, RedirectCount
<1> QED
  BY <1>1, <1>2, <1>3, HandlesAssumption

\* the blocks in use once h has let go of its own
LEMMA LetGoBlocks ==
  ASSUME OwnershipInv, NEW h \in scope, NEW a \in Block
  PROVE  RawWithout(h)[a] # Null <=> \E k \in scope \ {h} : ptr[k] = a
<1> USE DEF OwnershipInv, TypeOK, BlocksInUse
<1>1. CASE ptr[h] = a
  <2>1. Last(h) <=> ~\E k \in scope \ {h} : ptr[k] = a
    BY <1>1, HandlesAssumption DEF Last
  <2> QED
    BY <1>1, <2>1 DEF RawWithout
<1>2. CASE ptr[h] # a
  BY <1>2 DEF RawWithout
<1> QED
  BY <1>1, <1>2

(***************************************************************************)
(* The invariant                                                           *)
(***************************************************************************)
Inv == OwnershipInv /\ NoDoubleFree

LEMMA InitInv == Init => Inv
<1> SUFFICES ASSUME Init PROVE Inv
  OBVIOUS
<1>1. TypeOK
  BY TypeInit
<1>2. BlocksInUse /\ HeldByOpenRepository /\ NoDoubleFree
  BY DEF Init, BlocksInUse, HeldByOpenRepository, NoDoubleFree
<1>3. RefsBalance
  <2>1. \A n \in Native : BlocksOn(n) = {} /\ refs[n] = 0 /\ n \notin held
    BY HandlesAssumption DEF Init, BlocksOn
  <2> QED
    BY <2>1, FS_EmptySet DEF RefsBalance
<1> QED
  BY <1>1, <1>2, <1>3 DEF Inv, OwnershipInv

\* h goes out of scope, or keeps living as a null object
LEMMA DestroyStep ==
  ASSUME Inv, NEW h \in Handle, Destroy(h) \/ Reset(h)
  PROVE  BlocksInUse' /\ RefsBalance' /\ HeldByOpenRepository' /\ NoDoubleFree'
<1> USE DEF Inv
<1>1. /\ h \in scope /\ LetGo(h) /\ raw' = RawWithout(h)
      /\ refs' = Less(Dropped(Freed(h)))
      /\ ptr' = [ptr EXCEPT ![h] = Null]
      /\ scope' = scope \/ scope' = scope \ {h}
  BY DEF Destroy, Reset
<1>2. RefsBalance' /\ HeldByOpenRepository' /\ NoDoubleFree'
  BY <1>1, LetGoStep DEF NoDoubleFree
<1>3. /\ \A k \in Handle : ptr'[k] # Null => k \in scope'
      /\ \A a \in Block : (\E k \in scope' : ptr'[k] = a) <=> \E k \in scope \ {h} : ptr[k] = a
  BY <1>1, HandlesAssumption DEF OwnershipInv, TypeOK, BlocksInUse
<1>4. BlocksInUse'
  BY <1>1, <1>3, LetGoBlocks DEF BlocksInUse
<1> QED
  BY <1>2, <1>4

LEMMA AssignStep ==
  ASSUME Inv, NEW h \in Handle, NEW g \in Handle, Assign(h, g)
  PROVE  BlocksInUse' /\ RefsBalance' /\ HeldByOpenRepository' /\ NoDoubleFree'
<1> USE DEF Inv
<1>1. CASE ptr[h] = ptr[g]
  <2>1. ptr' = ptr /\ UNCHANGED <<scope, raw, refs, held, fault>>
    BY <1>1 DEF Assign, OwnershipInv, TypeOK
  <2> QED
    BY <2>1 DEF OwnershipInv, BlocksInUse, RefsBalance, BlocksOn, HeldByOpenRepository,
                NoDoubleFree
<1>2. CASE ptr[h] # ptr[g]
  <2>1. /\ h \in scope /\ g \in scope \ {h} /\ LetGo(h) /\ raw' = RawWithout(h)
        /\ refs' = Less(Dropped(Freed(h)))
        /\ ptr' = [ptr EXCEPT ![h] = ptr[g]]
        /\ scope' = scope
    BY <1>2 DEF Assign
  <2>2. RefsBalance' /\ HeldByOpenRepository' /\ NoDoubleFree'
    BY <2>1, LetGoStep DEF NoDoubleFree
  <2>3. /\ \A k \in Handle : ptr'[k] # Null => k \in scope'
        /\ \A a \in Block : (\E k \in scope' : ptr'[k] = a) <=> \E k \in scope \ {h} : ptr[k] = a
    BY <2>1 DEF OwnershipInv, TypeOK, BlocksInUse
  <2>4. BlocksInUse'
    BY <2>1, <2>3, LetGoBlocks DEF BlocksInUse
  <2> QED
    BY <2>2, <2>4
<1> QED
  BY <1>1, <1>2

LEMMA OpenStep ==
  ASSUME Inv, NEW h \in Handle, NEW n \in Native, Open(h, n)
  PROVE  BlocksInUse' /\ RefsBalance' /\ HeldByOpenRepository' /\ NoDoubleFree'
<1> USE DEF Inv, OwnershipInv, TypeOK
<1>1. /\ h \notin scope /\ Construct(h, n) /\ refs[n] = 0
      /\ refs' = [refs EXCEPT ![n] = 1]
      /\ held' = held /\ fault' = fault
  BY DEF Open
<1>2. /\ BlocksInUse' /\ CountOn(raw, n) \in Nat
      /\ CountOn(raw', n) = CountOn(raw, n) + 1
      /\ \A m \in Native \ {n} : CountOn(raw', m) = CountOn(raw, m)
  BY <1>1, ConstructStep
<1>3. \A m \in Native : refs[m] = CountOn(raw, m) + (IF m \in held THEN 1 ELSE 0)
  BY DEF RefsBalance, BlocksOn, CountOn
<1>4. \A m \in Native : refs'[m] = CountOn(raw', m) + (IF m \in held' THEN 1 ELSE 0)
  BY <1>1, <1>2, <1>3
<1>5. RefsBalance'
  BY <1>4 DEF RefsBalance, BlocksOn, CountOn
<1>6. HeldByOpenRepository' /\ NoDoubleFree'
  BY <1>1, HandlesAssumption DEF HeldByOpenRepository, NoDoubleFree
<1> QED
  BY <1>2, <1>5, <1>6

LEMMA HandOutStep ==
  ASSUME Inv, NEW h \in Handle, NEW g \in Handle, NEW n \in Native, HandOut(h, g, n)
  PROVE  BlocksInUse' /\ RefsBalance' /\ HeldByOpenRepository' /\ NoDoubleFree'
<1> USE DEF Inv, OwnershipInv, TypeOK
<1>1. /\ refs[n] = 0 \/ n \in held
      /\ HomeOf[n] # Null /\ refs[HomeOf[n]] > 0
      /\ refs' = [refs EXCEPT ![n] = CountHandedOut(n)]
      /\ held' = IF KindOf[n] \in CachedKind THEN held \cup {n} ELSE held
      /\ fault' = fault
  BY DEF HandOut
<1>2. h \notin scope /\ Construct(h, n)
  BY DEF HandOut
<1>3. /\ BlocksInUse' /\ CountOn(raw, n) \in Nat
      /\ CountOn(raw', n) = CountOn(raw, n) + 1
      /\ \A m \in Native \ {n} : CountOn(raw', m) = CountOn(raw, m)
  BY <1>2, ConstructStep
<1>4. \A m \in Native : refs[m] = CountOn(raw, m) + (IF m \in held THEN 1 ELSE 0)
  BY DEF RefsBalance, BlocksOn, CountOn
<1>5. \A m \in Native : refs'[m] = CountOn(raw', m) + (IF m \in held' THEN 1 ELSE 0)
  BY <1>1, <1>3, <1>4 DEF CountHandedOut
<1>6. RefsBalance'
  BY <1>5 DEF RefsBalance, BlocksOn, CountOn
<1>7. HeldByOpenRepository' /\ NoDoubleFree'
  BY <1>1, HandlesAssumption DEF HeldByOpenRepository, NoDoubleFree, CountHandedOut
<1> QED
  BY <1>3, <1>6, <1>7

\* the new object is wrapped, the old one is let go
LEMMA ReplaceStep ==
  ASSUME Inv, NEW h \in Handle, NEW n \in Native, Replace(h, n)
  PROVE  BlocksInUse' /\ RefsBalance' /\ HeldByOpenRepository' /\ NoDoubleFree'
<1> USE DEF Inv, OwnershipInv, TypeOK
<1> DEFINE raw1 == RawWithout(h)
           refs1 == Less(Dropped(Freed(h)))
<1>1. PICK b \in Unused : /\ ptr' = [ptr EXCEPT ![h] = b]
                          /\ raw' = [raw1 EXCEPT ![b] = n]
  BY DEF Replace
<1>2. /\ h \in scope /\ refs[n] = 0 /\ LetGo(h) /\ scope' = scope
      /\ refs' = [refs1 EXCEPT ![n] = 1]
  BY DEF Replace
<1>3. b \in Block /\ raw[b] = Null /\ b # Null /\ n # Null
  BY HandlesAssumption DEF Unused
<1>4. raw1 \in [Block -> Native \cup {Null}] /\ raw1[b] = Null
  BY <1>3, RawWithoutType DEF RawWithout
<1>5. held' = HeldAfter(h) /\ refs1 \in [Native -> Nat]
  BY <1>2, LessType DEF LetGo, HeldAfter
<1>6. n \notin Dropped(Freed(h)) /\ refs1[n] = 0
  <2>1. n \notin Dropped(Freed(h))
    BY <1>2, DroppedCounted
  <2> QED
    BY <1>2, <2>1 DEF Less
<1>7. \A m \in Native : refs1[m] = CountOn(raw1, m) + (IF m \in held' THEN 1 ELSE 0)
  BY <1>5, LetGoBalance
<1> HIDE DEF raw1, refs1
<1>8. /\ \A m \in Native \cup {Null} : CountOn(raw1, m) \in Nat
      /\ CountOn([raw1 EXCEPT ![b] = n], n) = CountOn(raw1, n) + 1
      /\ \A m \in (Native \cup {Null}) \ {n, raw1[b]} :
           CountOn([raw1 EXCEPT ![b] = n], m) = CountOn(raw1, m)
  <2>1. n \in Native \cup {Null} /\ raw1[b] # n
    BY <1>3, <1>4
  <2> QED
    BY ONLY <1>3, <1>4, <2>1, RedirectCount
<1>9. CountOn(raw1, n) = 0 /\ n \notin held'
  BY <1>6, <1>7, <1>8
<1>10. \A m \in Native : refs'[m] = CountOn(raw', m) + (IF m \in held' THEN 1 ELSE 0)
  <2> TAKE m \in Native
  <2>1. CASE m = n
    BY <1>1, <1>2, <1>5, <1>8, <1>9, <2>1
  <2>2. CASE m # n
    BY <1>1, <1>2, <1>4, <1>5, <1>7, <1>8, <2>2, HandlesAssumption
  <2> QED
    BY <2>1, <2>2
<1>11. RefsBalance'
  BY <1>10 DEF RefsBalance, BlocksOn, CountOn
<1>12. HeldByOpenRepository'
  <2> SUFFICES ASSUME NEW m \in held' PROVE HomeOf[m] # Null /\ refs'[HomeOf[m]] > 0
    BY DEF HeldByOpenRepository
  <2>1. HomeOf[m] \in Native /\ refs1[HomeOf[m]] > 0
    BY <1>5, LetGoHeld DEF refs1
  <2> QED
    BY <1>2, <1>5, <2>1, HandlesAssumption
<1>13. NoDoubleFree'
  BY <1>2, DroppedCounted DEF LetGo, NoDoubleFree
<1>14. BlocksInUse'
  <2>1. ASSUME NEW a \in Block PROVE raw'[a] # Null <=> \E k \in scope' : ptr'[k] = a
    <3>1. CASE a = b
      BY <1>1, <1>2, <1>3, <1>4, <3>1
    <3>2. CASE a # b
      <4>1. raw'[a] # Null <=> \E k \in scope \ {h} : ptr[k] = a
        BY <1>1, <1>2, <1>4, <3>2, LetGoBlocks DEF raw1
      <4> QED
        BY <1>1, <1>2, <3>2, <4>1
    <3> QED
      BY <3>1, <3>2
  <2>2. \A k \in Handle : ptr'[k] # Null => k \in scope'
    BY <1>1, <1>2 DEF BlocksInUse
  <2> QED
    BY <2>1, <2>2 DEF BlocksInUse
<1> QED
  BY <1>11, <1>12, <1>13, <1>14

\* the copies that share: another wrapper object on the same control block
LEMMA CopySharingStep ==
  ASSUME Inv, NEW h \in Handle, NEW g \in Handle, CopySharing(h, g)
  PROVE  BlocksInUse' /\ RefsBalance' /\ HeldByOpenRepository' /\ NoDoubleFree'
<1> USE DEF Inv, OwnershipInv, TypeOK
<1>1. /\ h \notin scope /\ g \in scope /\ scope' = scope \cup {h}
      /\ ptr' = [ptr EXCEPT ![h] = ptr[g]] \/ ptr' = [ptr EXCEPT ![h] = Null]
      /\ UNCHANGED <<raw, refs, held, fault>>
  BY DEF CopySharing
<1>2. BlocksInUse'
  <2>1. ptr[h] = Null
    BY <1>1 DEF BlocksInUse
  <2>2. ASSUME NEW a \in Block
        PROVE  (\E k \in scope' : ptr'[k] = a) <=> \E k \in scope : ptr[k] = a
    BY <1>1, <2>1, HandlesAssumption
  <2> QED
    BY <1>1, <2>2 DEF BlocksInUse
<1> QED
  BY <1>1, <1>2 DEF RefsBalance, BlocksOn, HeldByOpenRepository, NoDoubleFree

\* the copies that adopt: of null objects only, under Copied = {}
LEMMA CopyAdoptingStep ==
  ASSUME Inv, Copied = {}, NEW h \in Handle, NEW g \in Handle, CopyAdopting(h, g)
  PROVE  BlocksInUse' /\ RefsBalance' /\ HeldByOpenRepository' /\ NoDoubleFree'
<1> USE DEF Inv, OwnershipInv, TypeOK
<1>1. /\ h \notin scope /\ scope' = scope \cup {h}
      /\ UNCHANGED <<ptr, raw, refs, held, fault>>
  BY DEF CopyAdopting, CopyPointer
<1>2. BlocksInUse'
  BY <1>1, HandlesAssumption DEF BlocksInUse
<1> QED
  BY <1>1, <1>2 DEF RefsBalance, BlocksOn, HeldByOpenRepository, NoDoubleFree

LEMMA EvictStep ==
  ASSUME Inv, NEW n \in Native, Evict(n)
  PROVE  BlocksInUse' /\ RefsBalance' /\ HeldByOpenRepository' /\ NoDoubleFree'
<1> USE DEF Inv, OwnershipInv, TypeOK
<1>1. /\ n \in held /\ held' = held \ {n} /\ refs' = Less({n})
      /\ UNCHANGED <<scope, ptr, raw>>
  BY DEF Evict
<1>2. \A m \in Native : CountOn(raw, m) \in Nat
  BY HandlesAssumption, FS_Subset, FS_CardinalityType DEF CountOn
<1>3. \A m \in Native : refs[m] = CountOn(raw, m) + (IF m \in held THEN 1 ELSE 0)
  BY DEF RefsBalance, BlocksOn, CountOn
<1>4. \A m \in Native : refs'[m] = CountOn(raw', m) + (IF m \in held' THEN 1 ELSE 0)
  BY <1>1, <1>2, <1>3 DEF Less
<1>5. RefsBalance'
  BY <1>4 DEF RefsBalance, BlocksOn, CountOn
<1>6. HeldByOpenRepository'
  <2> SUFFICES ASSUME NEW m \in held' PROVE HomeOf[m] # Null /\ refs'[HomeOf[m]] > 0
    BY DEF HeldByOpenRepository
  <2>1. HomeOf[m] \in Native /\ HomeOf[m] # Null /\ refs[HomeOf[m]] > 0
    BY <1>1, HandlesAssumption DEF HeldByOpenRepository
  <2>2. KindOf[HomeOf[m]] = "Repository" /\ HomeOf[n] # Null
    BY <1>1, <2>1, HandlesAssumption DEF HeldByOpenRepository
  <2>3. HomeOf[m] # n
    BY <2>2, HandlesAssumption
  <2> QED
    BY <1>1, <2>1, <2>3 DEF Less
<1>7. BlocksInUse' /\ NoDoubleFree'
  BY <1>1, <1>2, <1>3 DEF Evict, BlocksInUse, NoDoubleFree
<1> QED
  BY <1>5, <1>6, <1>7

LEMMA NextInv == ASSUME Copied = {} PROVE Inv /\ [Next]_vars => Inv'
<1> SUFFICES ASSUME Inv, [Next]_vars
             PROVE  BlocksInUse' /\ RefsBalance' /\ HeldByOpenRepository' /\ NoDoubleFree'
  BY TypeStep DEF Inv, OwnershipInv
<1>1. ASSUME NEW h \in Handle, ConstructNull(h)
      PROVE  BlocksInUse' /\ RefsBalance' /\ HeldByOpenRepository' /\ NoDoubleFree'
  BY <1>1, HandlesAssumption
     DEF ConstructNull, Inv, OwnershipInv, TypeOK, BlocksInUse, RefsBalance, BlocksOn,
         HeldByOpenRepository, NoDoubleFree
<1>2. CASE UNCHANGED vars
  BY <1>2 DEF vars, Inv, OwnershipInv, BlocksInUse, RefsBalance, BlocksOn,
              HeldByOpenRepository, NoDoubleFree
<1> QED
  BY <1>1, <1>2, DestroyStep, AssignStep, OpenStep, HandOutStep, ReplaceStep, CopySharingStep,
     CopyAdoptingStep, EvictStep DEF Next

(***************************************************************************)
(* Theorems                                                                *)
(***************************************************************************)

(* A client that copies no non-null object of an adopting class keeps       *)
(* libgit2's reference counts equal to the number of wrappers' control      *)
(* blocks plus the repository's own reference, and never frees twice.       *)
THEOREM OwnershipInvariant ==
  ASSUME Copied = {} PROVE Spec => [](OwnershipInv /\ NoDoubleFree)
<1>1. Init => Inv
  BY InitInv
<1>2. Inv /\ [Next]_vars => Inv'
  BY NextInv
<1> QED
  BY <1>1, <1>2, PTL DEF Spec, Inv

(* The half of it that is about counts: they never go wrong by one, however *)
(* many wrapper objects share a native object with the repository.          *)
THEOREM CountsBalance == ASSUME Copied = {} PROVE Spec => []OwnershipInv
BY OwnershipInvariant, PTL

(* Under the same condition no wrapper object is ever left dangling.        *)
THEOREM NeverDangling == ASSUME Copied = {} PROVE Spec => []NoDangling
<1>1. OwnershipInv => NoDangling
  BY BlockCounted DEF OwnershipInv, TypeOK, NoDangling, Data
<1> QED
  BY <1>1, OwnershipInvariant, PTL

(* And when the last wrapper object is destroyed, nothing is left.          *)
THEOREM NothingLeaks == ASSUME Copied = {} PROVE Spec => []NoLeak
<1>1. OwnershipInv => NoLeak
  <2> SUFFICES ASSUME OwnershipInv, scope = {}, NEW n \in Native PROVE refs[n] = 0
    BY DEF NoLeak
  <2> USE DEF OwnershipInv, TypeOK
  <2>1. ASSUME NEW m \in Native PROVE refs[m] = IF m \in held THEN 1 ELSE 0
    <3>1. BlocksOn(m) = {}
      BY HandlesAssumption DEF BlocksOn, BlocksInUse
    <3> QED
      BY <3>1, FS_EmptySet DEF RefsBalance
  <2>2. n \notin held
    <3> SUFFICES ASSUME n \in held PROVE FALSE
      OBVIOUS
    <3>1. HomeOf[n] \in Native /\ HomeOf[n] # Null /\ refs[HomeOf[n]] > 0
      BY HandlesAssumption DEF HeldByOpenRepository
    <3>2. HomeOf[n] \in held
      BY <2>1, <3>1
    <3> QED
      BY <3>1, <3>2, HandlesAssumption DEF HeldByOpenRepository
  <2> QED
    BY <2>1, <2>2
<1> QED
  BY <1>1, OwnershipInvariant, PTL

(***************************************************************************)
(* Refinement                                                              *)
(***************************************************************************)

\* an object exists exactly while somebody owns it
OwnedIffLive == \A n \in Native : refs[n] > 0 <=> OwnersOf(n) # {}

LEMMA LiveWhileOwned == ASSUME OwnershipInv PROVE OwnedIffLive
<1> USE DEF OwnershipInv, TypeOK
<1> SUFFICES ASSUME NEW n \in Native PROVE refs[n] > 0 <=> OwnersOf(n) # {}
  BY DEF OwnedIffLive
<1>1. IsFiniteSet(BlocksOn(n)) /\ Cardinality(BlocksOn(n)) \in Nat
  BY HandlesAssumption, FS_Subset, FS_CardinalityType DEF BlocksOn
<1>2. refs[n] > 0 <=> BlocksOn(n) # {} \/ n \in held
  BY <1>1, FS_EmptySet DEF RefsBalance
<1>3. BlocksOn(n) # {} <=> \E h \in scope : Data(h) = n
  BY HandlesAssumption DEF BlocksOn, BlocksInUse, Data
<1> QED
  BY <1>2, <1>3 DEF OwnersOf

\* letting go of h's block leaves the data of every other wrapper object alone
LEMMA OthersKeepData ==
  ASSUME OwnershipInv, NEW h \in Handle, NEW k \in scope \ {h}, ptr[k] # Null
  PROVE  RawWithout(h)[ptr[k]] = raw[ptr[k]]
BY DEF OwnershipInv, TypeOK, RawWithout, Last

\* what one step changes for wrapper objects other than h
OthersUntouched(h) ==
  \A k \in Handle \ {h} : (k \in scope' <=> k \in scope) /\ (k \in scope => Data(k)' = Data(k))

LEMMA StepOthers ==
  ASSUME Inv, Inv', Next
  PROVE  \E h \in Handle : OthersUntouched(h)
<1> USE DEF Inv, OwnershipInv, TypeOK
<1> DEFINE Goal == \E h \in Handle : OthersUntouched(h)
<1>1. ASSUME NEW h \in Handle, ConstructNull(h) PROVE Goal
  BY <1>1 DEF ConstructNull, OthersUntouched, Data
<1>2. ASSUME NEW h \in Handle, Destroy(h) \/ Reset(h) PROVE Goal
  <2>1. /\ raw' = RawWithout(h) /\ ptr' = [ptr EXCEPT ![h] = Null]
        /\ scope' = scope \/ scope' = scope \ {h}
    BY <1>2 DEF Destroy, Reset
  <2>2. OthersUntouched(h)
    BY <2>1, OthersKeepData DEF OthersUntouched, Data
  <2> QED
    BY <2>2
<1>3. ASSUME NEW h \in Handle, NEW n \in Native, Construct(h, n) PROVE Goal
  <2> PICK b \in Unused : /\ scope' = scope \cup {h}
                          /\ ptr' = [ptr EXCEPT ![h] = b]
                          /\ raw' = [raw EXCEPT ![b] = n]
    BY <1>3 DEF Construct
  <2>1. ASSUME NEW k \in scope \ {h} PROVE Data(k)' = Data(k)
    <3>1. ptr'[k] = ptr[k] /\ ptr[k] # b
      BY HandlesAssumption DEF BlocksInUse, Unused
    <3> QED
      BY <3>1 DEF Data
  <2>2. OthersUntouched(h)
    BY <2>1 DEF OthersUntouched
  <2> QED
    BY <2>2
<1>4. ASSUME NEW h \in Handle, NEW n \in Native, Replace(h, n) PROVE Goal
  <2> PICK b \in Unused : /\ ptr' = [ptr EXCEPT ![h] = b]
                          /\ raw' = [RawWithout(h) EXCEPT ![b] = n]
    BY <1>4 DEF Replace
  <2>1. ASSUME NEW k \in scope \ {h} PROVE Data(k)' = Data(k)
    <3>1. ptr'[k] = ptr[k] /\ ptr[k] # b
      BY HandlesAssumption DEF BlocksInUse, Unused
    <3>2. RawWithout(h) \in [Block -> Native \cup {Null}]
      BY RawWithoutType
    <3> QED
      BY <3>1, <3>2, OthersKeepData DEF Data
  <2>2. OthersUntouched(h)
    BY <1>4, <2>1 DEF OthersUntouched, Replace
  <2> QED
    BY <2>2
<1>5. ASSUME NEW h \in Handle, NEW g \in Handle, CopySharing(h, g) PROVE Goal
  <2>1. OthersUntouched(h)
    BY <1>5 DEF CopySharing, OthersUntouched, Data
  <2> QED
    BY <2>1
<1>6. ASSUME NEW h \in Handle, NEW g \in Handle, CopyAdopting(h, g) PROVE Goal
  <2>1. CASE Data(g) = Null
    <3>1. OthersUntouched(h)
      BY <1>6, <2>1 DEF CopyAdopting, CopyPointer, OthersUntouched, Data
    <3> QED
      BY <3>1
  <2>2. CASE Data(g) # Null
    <3>1. Data(g) \in Native /\ Construct(h, Data(g))
      BY <1>6, <2>2 DEF CopyAdopting, CopyPointer, Data
    <3> QED
      BY <3>1, <1>3
  <2> QED
    BY <2>1, <2>2
<1>7. ASSUME NEW h \in Handle, NEW g \in Handle, Assign(h, g) PROVE Goal
  <2>1. /\ ptr' = [ptr EXCEPT ![h] = ptr[g]] /\ scope' = scope
        /\ raw' = raw \/ raw' = RawWithout(h)
    BY <1>7 DEF Assign
  <2>2. OthersUntouched(h)
    BY <2>1, OthersKeepData DEF OthersUntouched, Data
  <2> QED
    BY <2>2
<1>8. ASSUME NEW n \in Native, Evict(n) PROVE Goal
  <2>1. HomeOf[n] \in Native /\ refs[HomeOf[n]] > 0 /\ HomeOf[n] \notin held
    BY <1>8, HandlesAssumption DEF Evict, HeldByOpenRepository
  <2>2. PICK h \in scope : Data(h) = HomeOf[n]
    BY <2>1, LiveWhileOwned DEF OwnedIffLive, OwnersOf
  <2>3. OthersUntouched(h)
    BY <1>8 DEF Evict, OthersUntouched, Data
  <2> QED
    BY <2>3
<1> QED
  BY <1>1, <1>2, <1>3, <1>4, <1>5, <1>6, <1>7, <1>8 DEF Next, Open, HandOut

(* The wrappers implement the abstract promise: with who is on an object    *)
(* as its owners, every step keeps an object exactly as long as it is       *)
(* owned.                                                                   *)
THEOREM HandlesImplementOwnership == ASSUME Copied = {} PROVE Spec => ImplementsOwnership
<1>1. Init => Abstract!Init
  BY HandlesAssumption DEF Init, Abstract!Init, OwnersOf, Data
<1>2. Inv => OwnedIffLive
  BY LiveWhileOwned DEF Inv
<1>3. Inv /\ Inv' /\ [Next]_vars => [Abstract!Next]_(Abstract!vars)
  <2>1. CASE UNCHANGED vars
    BY <2>1 DEF vars, Abstract!vars, OwnersOf, Data
  <2>2. ASSUME Inv, Inv', Next PROVE Abstract!Next
    <3>1. \A n \in Native : refs'[n] > 0 <=> OwnersOf(n)' # {}
      <4>1. OwnedIffLive'
        BY <2>2, <1>2, PTL
      <4> QED
        BY <4>1 DEF OwnedIffLive
    <3>2. \A n \in Native : OwnersOf(n)' \ Handle \subseteq {m \in Native : refs'[m] > 0}
      BY <2>2, HandlesAssumption
         DEF Inv, OwnershipInv, TypeOK, OwnersOf, HeldByOpenRepository
    <3>3. \E h \in Handle : \A n \in Native :
            OwnersOf(n)' \cap (Handle \ {h}) = OwnersOf(n) \cap (Handle \ {h})
      <4> PICK h \in Handle : OthersUntouched(h)
        BY <2>2, StepOthers
      <4>1. ASSUME NEW n \in Native, NEW k \in Handle \ {h}
            PROVE  k \in OwnersOf(n)' <=> k \in OwnersOf(n)
        BY <2>2, HandlesAssumption
           DEF OthersUntouched, OwnersOf, Inv, OwnershipInv, TypeOK, HeldByOpenRepository
      <4> QED
        BY <4>1
    <3> QED
      BY <3>1, <3>2, <3>3
         DEF Abstract!Next, Abstract!LivesWhileOwned,
             Abstract!DeadOwnNothing, Abstract!OneHandleActs
  <2> QED
    BY <2>1, <2>2
<1>4. Spec => []Inv
  BY OwnershipInvariant DEF Inv
<1> QED
  BY <1>1, <1>3, <1>4, PTL DEF Spec, ImplementsOwnership, Abstract!Spec
=============================================================================
