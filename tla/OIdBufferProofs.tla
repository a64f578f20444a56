--------------------------- MODULE OIdBufferProofs ---------------------------
(***************************************************************************)
(* Theorems about module OIdBuffer, for ids of any size and any client: the *)
(* types and the allocations are always right; which OIds have room for a   *)
(* complete id is known exactly; and what an OId denotes.                   *)
(***************************************************************************)
EXTENDS OIdBuffer, TLAPS

\* one step on variable o that stores the first n bytes of v
LEMMA StoredType ==
  ASSUME TypeOK, NEW o \in Var, NEW n \in 0 .. RawSz, NEW v \in Value
  PROVE  Stored(o, n, v) \in Value
BY OIdAssumption DEF TypeOK, Stored, Value, Position

LEMMA PrefixType ==
  ASSUME NEW n \in 0 .. RawSz, NEW v \in Value
  PROVE  Prefix(n, v) \in Id
<1>1. Prefix(n, v).bytes \in Value
  BY OIdAssumption DEF Prefix, Value, Position
<1>2. 2 * n \in 0 .. 2 * RawSz
  BY OIdAssumption
<1>3. \A k \in Position : 2 * n <= 2 * (k - 1) => Prefix(n, v).bytes[k] = Zero
  BY OIdAssumption DEF Prefix, Position
<1> QED
  BY <1>1, <1>2, <1>3 DEF Prefix, Id

LEMMA CompleteType == ASSUME NEW v \in Value PROVE Complete(v) \in Id
<1>1. 2 * RawSz \in 0 .. 2 * RawSz
  BY OIdAssumption
<1>2. \A k \in Position : ~(2 * RawSz <= 2 * (k - 1))
  BY OIdAssumption DEF Position
<1> QED
  BY <1>1, <1>2 DEF Complete, Id

\* half of the digits of an id fits the vector
LEMMA HalfType == ASSUME NEW i \in Id PROVE i.digits \div 2 \in 0 .. RawSz
BY OIdAssumption DEF Id

LEMMA TypeInit == Init => TypeOK
<1> SUFFICES ASSUME Init PROVE TypeOK
  OBVIOUS
<1>1. Zeros \in Value
  BY OIdAssumption DEF Zeros, Value
<1>2. Complete(Zeros) \in Id
  BY <1>1, CompleteType
<1>3. size \in [Var -> 0 .. RawSz] /\ cap \in [Var -> 0 .. RawSz]
  BY OIdAssumption DEF Init
<1> QED
  BY <1>1, <1>2, <1>3 DEF Init, TypeOK

\* what is given to a variable keeps the types of the history
LEMMA GivenType ==
  ASSUME TypeOK, NEW o \in Var, NEW i \in Id \cup {NoId}, NEW g, Given(o, i, g)
  PROVE  want' \in [Var -> Id \cup {NoId}] /\ outgrown' \in SUBSET Var /\ fault' \in SUBSET Var
BY DEF TypeOK, Given

LEMMA CrashType == ASSUME TypeOK, NEW o \in Var, Crash(o) PROVE TypeOK'
BY DEF TypeOK, Crash

LEMMA TypeStep == TypeOK /\ [Next]_vars => TypeOK'
<1> SUFFICES ASSUME TypeOK, [Next]_vars PROVE TypeOK'
  OBVIOUS
<1>0. RawSz \in 0 .. RawSz
  BY OIdAssumption
<1>1. ASSUME NEW o \in Var, NEW v \in Value, Construct(o, v) PROVE TypeOK'
  <2>1. Complete(v) \in Id \cup {NoId} /\ Given(o, Complete(v), FALSE)
    BY <1>1, CompleteType DEF Construct
  <2>2. want' \in [Var -> Id \cup {NoId}] /\ outgrown' \in SUBSET Var /\ fault' \in SUBSET Var
    BY <2>1, GivenType
  <2> QED
    BY <1>0, <1>1, <2>2 DEF Construct, Counted, TypeOK
<1>2. ASSUME NEW o \in Var, NEW v \in Value, GitFills(o, v) PROVE TypeOK'
  <2>1. CASE Overrun(o)
    BY <1>2, <2>1, CrashType DEF GitFills
  <2>2. CASE ~Overrun(o)
    <3>1. Complete(v) \in Id \cup {NoId} /\ Given(o, Complete(v), size[o] < RawSz)
      BY <1>2, <2>2, CompleteType DEF GitFills
    <3>2. want' \in [Var -> Id \cup {NoId}] /\ outgrown' \in SUBSET Var /\ fault' \in SUBSET Var
      BY <3>1, GivenType
    <3> QED
      BY <1>2, <2>2, <3>2 DEF GitFills, TypeOK
  <2> QED
    BY <2>1, <2>2
<1>3. ASSUME NEW o \in Var, NEW p \in Var, CopyConstruct(o, p) PROVE TypeOK'
  <2>1. [k \in Position |-> IF k <= size[p] THEN mem[p][k] ELSE Zero] \in Value
    BY OIdAssumption DEF Value, TypeOK
  <2>2. want[p] \in Id \cup {NoId} /\ Given(o, want[p], p \in outgrown)
    BY <1>3 DEF CopyConstruct, TypeOK
  <2>3. want' \in [Var -> Id \cup {NoId}] /\ outgrown' \in SUBSET Var /\ fault' \in SUBSET Var
    BY <2>2, GivenType
  <2> QED
    BY <1>3, <2>1, <2>3 DEF CopyConstruct, TypeOK
<1>4. ASSUME NEW o \in Var, NEW p \in Var, Assign(o, p) PROVE TypeOK'
  <2>1. Stored(o, size[p], mem[p]) \in Value
    BY StoredType DEF TypeOK
  <2>2. want[p] \in Id \cup {NoId} /\ Given(o, want[p], p \in outgrown)
    BY <1>4 DEF Assign, TypeOK
  <2>3. want' \in [Var -> Id \cup {NoId}] /\ outgrown' \in SUBSET Var /\ fault' \in SUBSET Var
    BY <2>2, GivenType
  <2> QED
    BY <1>4, <2>1, <2>3 DEF Assign, SetVector, Counted, TypeOK
<1>5. ASSUME NEW o \in Var, NEW i \in Id, Parse(o, i) PROVE TypeOK'
  <2>1. CASE Overrun(o)
    BY <1>5, <2>1, CrashType DEF Parse
  <2>2. CASE ~Overrun(o)
    <3> DEFINE n == i.digits \div 2
    <3>1. n \in 0 .. RawSz
      BY HalfType
    <3>2. [k \in Position |-> IF size[o] < k /\ k <= n THEN Zero ELSE i.bytes[k]] \in Value
      BY OIdAssumption DEF Id, Value
    <3>3. Given(o, i, size[o] < n)
      BY <1>5, <2>2 DEF Parse
    <3>4. want' \in [Var -> Id \cup {NoId}] /\ outgrown' \in SUBSET Var /\ fault' \in SUBSET Var
      BY <3>3, GivenType
    <3>5. /\ size' = [size EXCEPT ![o] = n] /\ cap' = cap /\ Counted(o, n)
          /\ mem' = [mem EXCEPT ![o] = [k \in Position |->
                      IF size[o] < k /\ k <= n THEN Zero ELSE i.bytes[k]]]
      BY <1>5, <2>2 DEF Parse
    <3> HIDE DEF n
    <3> QED
      BY <3>1, <3>2, <3>4, <3>5 DEF Counted, TypeOK
  <2> QED
    BY <2>1, <2>2
<1>6. ASSUME NEW o \in Var, NEW v \in Value, NEW n \in 0 .. RawSz, ParseFails(o, n, v)
      PROVE  TypeOK'
  <2>1. CASE Overrun(o)
    BY <1>6, <2>1, CrashType DEF ParseFails
  <2>2. CASE ~Overrun(o)
    <3>1. [k \in Position |-> IF k <= n THEN v[k] ELSE mem[o][k]] \in Value
      BY DEF Value, TypeOK
    <3>2. Given(o, NoId, FALSE)
      BY <1>6, <2>2 DEF ParseFails
    <3>3. want' \in [Var -> Id \cup {NoId}] /\ outgrown' \in SUBSET Var /\ fault' \in SUBSET Var
      BY <3>2, GivenType
    <3> QED
      BY <1>6, <2>2, <3>1, <3>3 DEF ParseFails, TypeOK
  <2> QED
    BY <2>1, <2>2
<1>7. ASSUME NEW o \in Var, NEW v \in Value, NEW n \in 0 .. RawSz + 1, FromRawData(o, n, v)
      PROVE  TypeOK'
  <2> DEFINE kept == IF n < RawSz THEN n ELSE RawSz
  <2>1. kept \in 0 .. RawSz
    BY OIdAssumption
  <2>2. Stored(o, kept, v) \in Value /\ Prefix(kept, v) \in Id \cup {NoId}
    BY <2>1, StoredType, PrefixType
  <2>3. SetVector(o, kept, v) /\ Counted(o, kept) /\ Given(o, Prefix(kept, v), FALSE)
    BY <1>7 DEF FromRawData
  <2> HIDE DEF kept
  <2>4. want' \in [Var -> Id \cup {NoId}] /\ outgrown' \in SUBSET Var /\ fault' \in SUBSET Var
    BY <2>2, <2>3, GivenType
  <2> QED
    BY <2>1, <2>2, <2>3, <2>4 DEF SetVector, Counted, TypeOK
<1>8. ASSUME NEW o \in Var, GitReads(o) \/ LookupPrefix(o) PROVE TypeOK'
  <2>1. CASE Crash(o)
    BY <2>1, CrashType
  <2>2. CASE UNCHANGED vars
    BY <2>2 DEF vars, TypeOK
  <2> QED
    BY <1>8, <2>1, <2>2 DEF GitReads, LookupPrefix
<1>9. CASE UNCHANGED vars
  BY <1>9 DEF vars, TypeOK
<1> QED
  BY <1>1, <1>2, <1>3, <1>4, <1>5, <1>6, <1>7, <1>8, <1>9 DEF Next

(* The sizes and capacities of the OIds stay within a complete id, for any  *)
(* client: fromRawData cuts what is too long, and resize only shortens or   *)
(* grows up to a complete id.                                               *)
THEOREM OIdTypeCorrect == Spec => []TypeOK
BY TypeInit, TypeStep, PTL DEF Spec

(***************************************************************************)
(* Every step but a crash stores into one variable                         *)
(***************************************************************************)
Inv == TypeOK /\ Allocated /\ OverrunsAreShortCopies /\ Denotes /\ NeverMixed

\* the bytes counted are those of w
Exact(o, n, w) ==
  w # NoId => n = w.digits \div 2 /\ \A k \in 1 .. n : mem'[o][k] = w.bytes[k]

\* they are those of w or cleared
Unmixed(o, n, w) ==
  w # NoId => 2 * n <= w.digits /\ \A k \in 1 .. n : mem'[o][k] \in {w.bytes[k], Zero}

\* A step on o alone, which gives it the id w and leaves n bytes counted and c
\* allocated, as the invariant has it.
Storing(o, n, c, w) ==
  /\ n \in 0 .. RawSz /\ c \in 0 .. RawSz /\ n <= c
  /\ size' = [size EXCEPT ![o] = n]
  /\ cap' = [cap EXCEPT ![o] = c]
  /\ want' = [want EXCEPT ![o] = w]
  /\ \A q \in Var \ {o} : mem'[q] = mem[q]
  /\ \A q \in Var \ {o} : q \in held' <=> q \in held
  /\ \A q \in Var \ {o} : q \in outgrown' <=> q \in outgrown
  /\ fault' = fault
  /\ c < RawSz <=> o \notin held'
  /\ o \notin outgrown' => Exact(o, n, w)
  /\ Unmixed(o, n, w)

\* such a step keeps the invariant while nothing is undefined
LEMMA StoringKeeps ==
  ASSUME Inv, fault = {}, NEW o \in Var, NEW n, NEW c, NEW w, Storing(o, n, c, w)
  PROVE  Allocated' /\ OverrunsAreShortCopies' /\ Denotes' /\ NeverMixed'
<1>1. /\ size'[o] = n /\ cap'[o] = c /\ want'[o] = w
      /\ \A q \in Var \ {o} : size'[q] = size[q] /\ cap'[q] = cap[q] /\ want'[q] = want[q]
  BY DEF Storing, Inv, TypeOK
<1>2. Allocated'
  BY <1>1 DEF Storing, Inv, Allocated
<1>3. OverrunsAreShortCopies'
  BY <1>1 DEF Storing, Inv, OverrunsAreShortCopies, Overrun
<1>4. Denotes'
  BY <1>1 DEF Storing, Exact, Inv, Denotes
<1>5. NeverMixed'
  BY <1>1 DEF Storing, Unmixed, Inv, NeverMixed
<1> QED
  BY <1>2, <1>3, <1>4, <1>5

\* a crash is where the invariant says one may be
LEMMA CrashKeeps ==
  ASSUME Inv, NEW o \in Var, Crash(o), Overrun(o)
  PROVE  Allocated' /\ OverrunsAreShortCopies' /\ Denotes' /\ NeverMixed'
BY DEF Inv, Crash, Overrun, Allocated, OverrunsAreShortCopies, Denotes, NeverMixed

LEMMA NothingKeeps ==
  ASSUME Inv, UNCHANGED vars
  PROVE  Allocated' /\ OverrunsAreShortCopies' /\ Denotes' /\ NeverMixed'
BY DEF Inv, vars, Overrun, Allocated, OverrunsAreShortCopies, Denotes, NeverMixed

\* vector assignment of n bytes to o, of which it was given w
LEMMA SetVectorStores ==
  ASSUME Inv, NEW o \in Var, NEW n \in 0 .. RawSz, NEW v \in Value, NEW w, NEW g,
         SetVector(o, n, v), Counted(o, n), Given(o, w, g),
         ~g => (w # NoId => n = w.digits \div 2 /\ \A k \in 1 .. n : v[k] = w.bytes[k]),
         w # NoId => 2 * n <= w.digits /\ \A k \in 1 .. n : v[k] \in {w.bytes[k], Zero}
  PROVE  Storing(o, n, IF n <= cap[o] THEN cap[o] ELSE n, w)
<1> DEFINE c == IF n <= cap[o] THEN cap[o] ELSE n
<1>1. c \in 0 .. RawSz /\ n <= c
  BY DEF Inv, TypeOK
<1>2. \A k \in 1 .. n : mem'[o][k] = v[k]
  BY OIdAssumption DEF SetVector, Stored, Inv, TypeOK, Position
<1>3. c < RawSz <=> o \notin held'
  BY OIdAssumption DEF Counted, Inv, TypeOK, OverrunsAreShortCopies, Overrun
<1>4. o \notin outgrown' => ~g
  BY DEF Given
<1>5. Unmixed(o, n, w) /\ (o \notin outgrown' => Exact(o, n, w))
  BY <1>2, <1>4 DEF Unmixed, Exact
<1>6. /\ \A q \in Var \ {o} : mem'[q] = mem[q]
      /\ \A q \in Var \ {o} : q \in held' <=> q \in held
      /\ \A q \in Var \ {o} : q \in outgrown' <=> q \in outgrown
  BY DEF SetVector, Counted, Given
<1>7. size' = [size EXCEPT ![o] = n] /\ cap' = [cap EXCEPT ![o] = c]
  BY DEF SetVector
<1>8. want' = [want EXCEPT ![o] = w] /\ fault' = fault
  BY DEF Given
<1> QED
  BY <1>1, <1>3, <1>5, <1>6, <1>7, <1>8 DEF Storing

\* writing in place into an OId with room, of which n bytes count then
LEMMA InPlaceStores ==
  ASSUME Inv, NEW o \in Var, ~Overrun(o), NEW n \in 0 .. RawSz, NEW w, NEW g, NEW b,
         size' = [size EXCEPT ![o] = n], UNCHANGED cap, mem' = [mem EXCEPT ![o] = b],
         held' = held \/ held' = held \cup {o}, Given(o, w, g),
         ~g => (w # NoId => n = w.digits \div 2 /\ \A k \in 1 .. n : b[k] = w.bytes[k]),
         w # NoId => 2 * n <= w.digits /\ \A k \in 1 .. n : b[k] \in {w.bytes[k], Zero}
  PROVE  Storing(o, n, RawSz, w)
<1>1. cap[o] = RawSz /\ RawSz \in 0 .. RawSz /\ n <= RawSz
  BY OIdAssumption DEF Inv, TypeOK, Overrun
<1>2. mem'[o] = b
  BY DEF Inv, TypeOK
<1>3. o \in held' /\ ~(RawSz < RawSz)
  BY OIdAssumption DEF Inv, OverrunsAreShortCopies
<1>4. o \notin outgrown' => ~g
  BY DEF Given
<1>5. Unmixed(o, n, w) /\ (o \notin outgrown' => Exact(o, n, w))
  BY <1>2, <1>4 DEF Unmixed, Exact
<1>6. /\ \A q \in Var \ {o} : mem'[q] = mem[q]
      /\ \A q \in Var \ {o} : q \in held' <=> q \in held
      /\ \A q \in Var \ {o} : q \in outgrown' <=> q \in outgrown
  BY DEF Given
<1>7. cap' = [cap EXCEPT ![o] = RawSz]
  BY <1>1 DEF Inv, TypeOK
<1>8. want' = [want EXCEPT ![o] = w] /\ fault' = fault
  BY DEF Given
<1> QED
  BY <1>1, <1>3, <1>5, <1>6, <1>7, <1>8 DEF Storing

\* a complete id is exact in RawSz bytes, and fewer of them mix nothing
LEMMA CompleteStands ==
  ASSUME NEW v \in Value
  PROVE  /\ RawSz = Complete(v).digits \div 2
         /\ \A n \in 0 .. RawSz : 2 * n <= Complete(v).digits
         /\ \A k : Complete(v).bytes[k] = v[k]
BY OIdAssumption DEF Complete

LEMMA ConstructKeeps ==
  ASSUME Inv, fault = {}, NEW o \in Var, NEW v \in Value, Construct(o, v)
  PROVE  Allocated' /\ OverrunsAreShortCopies' /\ Denotes' /\ NeverMixed'
<1>1. RawSz \in 0 .. RawSz /\ ~(RawSz < RawSz)
  BY OIdAssumption
<1>2. mem'[o] = v /\ o \in held'
  BY DEF Construct, Counted, Inv, TypeOK
<1>3. Exact(o, RawSz, Complete(v)) /\ Unmixed(o, RawSz, Complete(v))
  BY <1>1, <1>2, CompleteStands DEF Exact, Unmixed
<1>4. Storing(o, RawSz, RawSz, Complete(v))
  BY <1>1, <1>2, <1>3 DEF Storing, Construct, Counted, Given
<1> QED
  BY <1>4, StoringKeeps

LEMMA CopyKeeps ==
  ASSUME Inv, fault = {}, NEW o \in Var, NEW p \in Var, CopyConstruct(o, p)
  PROVE  Allocated' /\ OverrunsAreShortCopies' /\ Denotes' /\ NeverMixed'
<1>1. size[p] \in 0 .. RawSz
  BY DEF Inv, TypeOK
<1>2. \A k \in 1 .. size[p] : mem'[o][k] = mem[p][k]
  BY <1>1, OIdAssumption DEF CopyConstruct, Inv, TypeOK, Position
<1>3. size[p] < RawSz <=> o \notin held'
  BY <1>1, OIdAssumption DEF CopyConstruct
<1>4. Unmixed(o, size[p], want[p])
  BY <1>2 DEF Unmixed, Inv, NeverMixed
<1>5. o \notin outgrown' => Exact(o, size[p], want[p])
  BY <1>2 DEF CopyConstruct, Given, Exact, Inv, Denotes
<1>6. Storing(o, size[p], size[p], want[p])
  BY <1>1, <1>3, <1>4, <1>5 DEF Storing, CopyConstruct, Given
<1> QED
  BY <1>6, StoringKeeps

LEMMA AssignKeeps ==
  ASSUME Inv, fault = {}, NEW o \in Var, NEW p \in Var, Assign(o, p)
  PROVE  Allocated' /\ OverrunsAreShortCopies' /\ Denotes' /\ NeverMixed'
<1>1. size[p] \in 0 .. RawSz /\ mem[p] \in Value
  BY DEF Inv, TypeOK
<1>2. SetVector(o, size[p], mem[p]) /\ Counted(o, size[p]) /\ Given(o, want[p], p \in outgrown)
  BY DEF Assign
<1>3. p \notin outgrown => (want[p] # NoId =>
        size[p] = want[p].digits \div 2 /\ \A k \in 1 .. size[p] : mem[p][k] = want[p].bytes[k])
  BY DEF Inv, Denotes
<1>4. want[p] # NoId =>
        2 * size[p] <= want[p].digits /\ \A k \in 1 .. size[p] : mem[p][k] \in {want[p].bytes[k], Zero}
  BY DEF Inv, NeverMixed
<1>5. Storing(o, size[p], IF size[p] <= cap[o] THEN cap[o] ELSE size[p], want[p])
  BY <1>1, <1>2, <1>3, <1>4, SetVectorStores
<1> QED
  BY <1>5, StoringKeeps

LEMMA ParseKeeps ==
  ASSUME Inv, fault = {}, NEW o \in Var, NEW i \in Id, Parse(o, i)
  PROVE  Allocated' /\ OverrunsAreShortCopies' /\ Denotes' /\ NeverMixed'
<1>1. CASE Overrun(o)
  BY <1>1, CrashKeeps DEF Parse
<1>2. CASE ~Overrun(o)
  <2> DEFINE n == i.digits \div 2
             b == [k \in Position |-> IF size[o] < k /\ k <= n THEN Zero ELSE i.bytes[k]]
  <2>1. n \in 0 .. RawSz /\ 2 * n <= i.digits
    BY OIdAssumption, HalfType DEF Id
  <2>2. \A k \in 1 .. n : b[k] \in {i.bytes[k], Zero}
    BY <2>1, OIdAssumption DEF Position
  <2>3. ~(size[o] < n) => \A k \in 1 .. n : b[k] = i.bytes[k]
    BY <2>1, OIdAssumption DEF Position, Inv, TypeOK
  <2>4. /\ size' = [size EXCEPT ![o] = n] /\ UNCHANGED cap /\ mem' = [mem EXCEPT ![o] = b]
        /\ held' = held \/ held' = held \cup {o}
        /\ Given(o, i, size[o] < n)
    BY <1>2 DEF Parse, Counted
  <2> HIDE DEF n, b
  <2>5. /\ ~(size[o] < n) => (i # NoId => n = i.digits \div 2 /\ \A k \in 1 .. n : b[k] = i.bytes[k])
        /\ i # NoId => 2 * n <= i.digits /\ \A k \in 1 .. n : b[k] \in {i.bytes[k], Zero}
    BY <2>1, <2>2, <2>3 DEF n
  <2>6. Storing(o, n, RawSz, i)
    BY <1>2, <2>1, <2>4, <2>5, InPlaceStores
  <2> QED
    BY <2>6, StoringKeeps
<1> QED
  BY <1>1, <1>2

LEMMA ParseFailsKeeps ==
  ASSUME Inv, fault = {}, NEW o \in Var, NEW v \in Value, NEW n \in 0 .. RawSz, ParseFails(o, n, v)
  PROVE  Allocated' /\ OverrunsAreShortCopies' /\ Denotes' /\ NeverMixed'
<1>1. CASE Overrun(o)
  BY <1>1, CrashKeeps DEF ParseFails
<1>2. CASE ~Overrun(o)
  <2> DEFINE b == [k \in Position |-> IF k <= n THEN v[k] ELSE mem[o][k]]
  <2>1. size[o] \in 0 .. RawSz /\ size' = [size EXCEPT ![o] = size[o]]
    BY <1>2 DEF ParseFails, Inv, TypeOK
  <2>2. UNCHANGED cap /\ mem' = [mem EXCEPT ![o] = b] /\ held' = held /\ Given(o, NoId, FALSE)
    BY <1>2 DEF ParseFails
  <2> HIDE DEF b
  <2>3. Storing(o, size[o], RawSz, NoId)
    BY <1>2, <2>1, <2>2, InPlaceStores
  <2> QED
    BY <2>3, StoringKeeps
<1> QED
  BY <1>1, <1>2

LEMMA FromRawDataKeeps ==
  ASSUME Inv, fault = {}, NEW o \in Var, NEW v \in Value, NEW n \in 0 .. RawSz + 1,
         FromRawData(o, n, v)
  PROVE  Allocated' /\ OverrunsAreShortCopies' /\ Denotes' /\ NeverMixed'
<1> DEFINE kept == IF n < RawSz THEN n ELSE RawSz
<1>1. kept \in 0 .. RawSz
  BY OIdAssumption
<1>2. SetVector(o, kept, v) /\ Counted(o, kept) /\ Given(o, Prefix(kept, v), FALSE)
  BY DEF FromRawData
<1> HIDE DEF kept
<1>3. /\ kept = Prefix(kept, v).digits \div 2 /\ 2 * kept <= Prefix(kept, v).digits
      /\ \A k \in 1 .. kept : v[k] = Prefix(kept, v).bytes[k]
  BY <1>1, OIdAssumption DEF Prefix, Position
<1>4. Storing(o, kept, IF kept <= cap[o] THEN cap[o] ELSE kept, Prefix(kept, v))
  BY <1>1, <1>2, <1>3, SetVectorStores
<1> QED
  BY <1>4, StoringKeeps

LEMMA GitFillsKeeps ==
  ASSUME Inv, fault = {}, NEW o \in Var, NEW v \in Value, GitFills(o, v)
  PROVE  Allocated' /\ OverrunsAreShortCopies' /\ Denotes' /\ NeverMixed'
<1>1. CASE Overrun(o)
  BY <1>1, CrashKeeps DEF GitFills
<1>2. CASE ~Overrun(o)
  <2>1. size[o] \in 0 .. RawSz /\ size' = [size EXCEPT ![o] = size[o]]
    BY <1>2 DEF GitFills, Inv, TypeOK
  <2>2. /\ UNCHANGED cap /\ mem' = [mem EXCEPT ![o] = v] /\ held' = held
        /\ Given(o, Complete(v), size[o] < RawSz)
    BY <1>2 DEF GitFills
  <2>3. ~(size[o] < RawSz) => size[o] = Complete(v).digits \div 2
    BY <2>1, CompleteStands, OIdAssumption
  <2>4. /\ 2 * size[o] <= Complete(v).digits
        /\ \A k \in 1 .. size[o] : v[k] = Complete(v).bytes[k]
    BY <2>1, CompleteStands
  <2>5. Storing(o, size[o], RawSz, Complete(v))
    BY <1>2, <2>1, <2>2, <2>3, <2>4, InPlaceStores
  <2> QED
    BY <2>5, StoringKeeps
<1> QED
  BY <1>1, <1>2

\* what reads alone changes nothing or crashes; a lookup never does
LEMMA ReadsKeep ==
  ASSUME Inv, NEW o \in Var, GitReads(o) \/ LookupPrefix(o)
  PROVE  Allocated' /\ OverrunsAreShortCopies' /\ Denotes' /\ NeverMixed'
<1>1. size[o] \in Nat /\ cap[o] \in Nat /\ size[o] <= cap[o]
  BY DEF Inv, TypeOK, Allocated
<1>2. UNCHANGED vars \/ (Overrun(o) /\ Crash(o))
  BY <1>1 DEF GitReads, LookupPrefix
<1> QED
  BY <1>2, NothingKeeps, CrashKeeps

LEMMA NextInv == Inv /\ [Next]_vars => Inv'
<1> SUFFICES ASSUME Inv, [Next]_vars
             PROVE  Allocated' /\ OverrunsAreShortCopies' /\ Denotes' /\ NeverMixed'
  BY TypeStep DEF Inv
<1>1. CASE UNCHANGED vars
  BY <1>1, NothingKeeps
<1>2. CASE Next
  <2>1. fault = {}
    BY <1>2 DEF Next
  <2> QED
    BY <1>2, <2>1, ConstructKeeps, GitFillsKeeps, CopyKeeps, AssignKeeps, ParseKeeps,
       ParseFailsKeeps, FromRawDataKeeps, ReadsKeep DEF Next
<1> QED
  BY <1>1, <1>2

LEMMA InitInv == Init => Inv
<1> SUFFICES ASSUME Init PROVE Allocated /\ OverrunsAreShortCopies /\ Denotes /\ NeverMixed
  BY TypeInit DEF Inv
<1>1. Allocated /\ OverrunsAreShortCopies
  BY OIdAssumption DEF Init, Allocated, OverrunsAreShortCopies, Overrun
<1>2. RawSz = (2 * RawSz) \div 2 /\ 2 * RawSz <= 2 * RawSz
  BY OIdAssumption
<1>3. Denotes /\ NeverMixed
  BY <1>2, OIdAssumption DEF Init, Denotes, NeverMixed, Complete
<1> QED
  BY <1>1, <1>3

LEMMA InvAlways == Spec => []Inv
BY InitInv, NextInv, PTL DEF Spec

(* The vector behind an OId has allocated at least its size, also when a     *)
(* parse resizes it and when a copy keeps only what is counted: a lookup by  *)
(* prefix never leaves it.                                                   *)
THEOREM OIdAllocates == Spec => []Allocated
<1>1. Inv => Allocated
  BY DEF Inv
<1> QED
  BY <1>1, InvAlways, PTL

(* For any client, git leaves the bytes an OId owns exactly if it is given   *)
(* one that was never complete since it was constructed.                     *)
THEOREM OverrunsNeedShortCopies == Spec => []OverrunsAreShortCopies
<1>1. Inv => OverrunsAreShortCopies
  BY DEF Inv
<1> QED
  BY <1>1, InvAlways, PTL

(* For any client, an OId that is not outgrown has the whole bytes of what   *)
(* it was last given, no more and no less.                                   *)
THEOREM OIdDenotes == Spec => []Denotes
<1>1. Inv => Denotes
  BY DEF Inv
<1> QED
  BY <1>1, InvAlways, PTL

(* For any client, no OId ever holds bytes of two ids.                       *)
THEOREM OIdNeverMixes == Spec => []NeverMixed
<1>1. Inv => NeverMixed
  BY DEF Inv
<1> QED
  BY <1>1, InvAlways, PTL
=============================================================================
