------------------------------ MODULE OIdBuffer ------------------------------
(***************************************************************************)
(* Class OId: an object id, or the prefix of one, in a std::vector of      *)
(* bytes.  libgit2 is given the address of the first byte and always reads *)
(* and writes RawSz bytes from there, whatever the size of the vector:     *)
(* bytes between the size and the capacity are written but do not count,   *)
(* bytes past the capacity belong to somebody else.  Nothing in the class  *)
(* keeps a shortened OId from such calls, and nothing here does either.    *)
(***************************************************************************)
EXTENDS Naturals

CONSTANTS
  Var,        \* the OId variables of the program
  RawSz,      \* GIT_OID_RAWSZ: bytes of a complete id, 20 in the code
  Byte,       \* the values of a byte
  Zero,       \* the byte 0
  NoId        \* the value of an OId after a parse error

ASSUME OIdAssumption ==
  /\ RawSz \in Nat \ {0}
  /\ Zero \in Byte

Position == 1 .. RawSz

Value == [Position -> Byte]

Zeros == [k \in Position |-> Zero]

\* An id or prefix as a client thinks of it: so many hexadecimal digits, here
\* packed in bytes, and zeros after them.
Id == {i \in [digits : 0 .. 2 * RawSz, bytes : Value] :
         \A k \in Position : i.digits <= 2 * (k - 1) => i.bytes[k] = Zero}

ASSUME NoIdAssumption == NoId \notin Id

VARIABLES
  size,   \* size[o]: bytes in the vector
  cap,    \* cap[o]: bytes allocated, RawSz standing for "RawSz or more"
  mem,    \* mem[o]: the allocated bytes
  fault,  \* the OId whose allocation libgit2 left; undefined from there on
  \* history variables
  want,     \* want[o]: the id that o was last given
  held,     \* OIds that were complete at some time since their construction
  outgrown  \* OIds last given more bytes than they counted at the time

vars == <<size, cap, mem, fault, want, held, outgrown>>

TypeOK ==
  /\ size \in [Var -> 0 .. RawSz]
  /\ cap \in [Var -> 0 .. RawSz]
  /\ mem \in [Var -> Value]
  /\ fault \in SUBSET Var
  /\ want \in [Var -> Id \cup {NoId}]
  /\ held \in SUBSET Var
  /\ outgrown \in SUBSET Var

Complete(v) == [digits |-> 2 * RawSz, bytes |-> v]

\* std::vector assignment of the first n bytes of v to o: in place when they
\* fit, keeping the bytes after them, else in a new allocation of n bytes
Stored(o, n, v) ==
  [k \in Position |-> IF k <= n THEN v[k]
                      ELSE IF n <= cap[o] THEN mem[o][k] ELSE Zero]

SetVector(o, n, v) ==
  /\ size' = [size EXCEPT ![o] = n]
  /\ cap' = [cap EXCEPT ![o] = IF n <= @ THEN @ ELSE n]
  /\ mem' = [mem EXCEPT ![o] = Stored(o, n, v)]

Overrun(o) == cap[o] < RawSz

\* the step in which libgit2 leaves the allocation of o
Crash(o) == fault' = {o} /\ UNCHANGED <<size, cap, mem, want, held, outgrown>>

\* o was given i, into more bytes than it counted or not
Given(o, i, growing) ==
  /\ want' = [want EXCEPT ![o] = i]
  /\ outgrown' = IF growing THEN outgrown \cup {o} ELSE outgrown \ {o}
  /\ UNCHANGED fault

Init ==
  /\ size = [o \in Var |-> RawSz]
  /\ cap = [o \in Var |-> RawSz]
  /\ mem = [o \in Var |-> Zeros]
  /\ fault = {}
  /\ want = [o \in Var |-> Complete(Zeros)]
  /\ held = Var
  /\ outgrown = {}

\* o has n bytes now
Counted(o, n) == held' = IF n = RawSz THEN held \cup {o} ELSE held

\* A new variable o, OId() or OId(const git_oid*): RawSz bytes.
Construct(o, v) ==
  /\ size' = [size EXCEPT ![o] = RawSz]
  /\ cap' = [cap EXCEPT ![o] = RawSz]
  /\ mem' = [mem EXCEPT ![o] = v]
  /\ Counted(o, RawSz)
  /\ Given(o, Complete(v), FALSE)

\* A new variable o, copied from p: a vector copy allocates what p's size
\* needs, not what its capacity was.
CopyConstruct(o, p) ==
  /\ o # p
  /\ size' = [size EXCEPT ![o] = size[p]]
  /\ cap' = [cap EXCEPT ![o] = size[p]]
  /\ mem' = [mem EXCEPT ![o] = [k \in Position |-> IF k <= size[p] THEN mem[p][k] ELSE Zero]]
  /\ held' = IF size[p] = RawSz THEN held \cup {o} ELSE held \ {o}
  /\ Given(o, want[p], p \in outgrown)

\* o = p, the vector's copy assignment.
Assign(o, p) ==
  /\ o # p
  /\ SetVector(o, size[p], mem[p])
  /\ Counted(o, size[p])
  /\ Given(o, want[p], p \in outgrown)

\* mutation: the vector is not resized to the prefix
ParseKeepingSize(o, i) ==
  /\ ~Overrun(o)
  /\ mem' = [mem EXCEPT ![o] = i.bytes]
  /\ UNCHANGED <<size, cap, held>>
  /\ Given(o, i, size[o] < i.digits \div 2)

\* mutation: the vector is shrunk to fit
ParseShrinking(o, i) ==
  /\ ~Overrun(o)
  /\ size' = [size EXCEPT ![o] = i.digits \div 2]
  /\ cap' = [cap EXCEPT ![o] = i.digits \div 2]
  /\ mem' = [mem EXCEPT ![o] = i.bytes]
  /\ Counted(o, i.digits \div 2)
  /\ Given(o, i, size[o] < i.digits \div 2)

\* fromHex, fromString on a well-formed input of at most 2 * RawSz digits
\* (longer ones are cut; how few are taken is up to libgit2):
\* git_oid_fromstrn writes the digits and zeros after them, then
\* resize(len / 2); a resize upwards clears what it adds.
Parse(o, i) ==
  IF Overrun(o) THEN Crash(o)
  ELSE /\ size' = [size EXCEPT ![o] = i.digits \div 2]
       /\ mem' = [mem EXCEPT ![o] = [k \in Position |->
                    IF size[o] < k /\ k <= i.digits \div 2 THEN Zero ELSE i.bytes[k]]]
       /\ UNCHANGED cap
       /\ Counted(o, i.digits \div 2)
       /\ Given(o, i, size[o] < i.digits \div 2)

\* The same on an input with a bad digit: the bytes before it (n of them, or
\* all of them when libgit2 clears the id first) are written, then an
\* Exception leaves the size as it was.
ParseFails(o, n, v) ==
  IF Overrun(o) THEN Crash(o)
  ELSE /\ mem' = [mem EXCEPT ![o] = [k \in Position |-> IF k <= n THEN v[k] ELSE mem[o][k]]]
       /\ UNCHANGED <<size, cap, held>>
       /\ Given(o, NoId, FALSE)

\* what the first n bytes of v stand for
Prefix(n, v) ==
  [digits |-> 2 * n, bytes |-> [k \in Position |-> IF k <= n THEN v[k] ELSE Zero]]

\* mutation: too many bytes are not cut off
FromRawDataUncut(o, n, v) ==
  /\ SetVector(o, n, v)
  /\ Counted(o, n)
  /\ Given(o, Prefix(n, v), FALSE)

\* mutation: the bytes are copied over those there are
FromRawDataInPlace(o, n, v) ==
  /\ mem' = [mem EXCEPT ![o] = [k \in Position |-> IF k <= n THEN v[k] ELSE @[k]]]
  /\ UNCHANGED <<size, cap, held>>
  /\ Given(o, Prefix(IF n < RawSz THEN n ELSE RawSz, v), FALSE)

\* fromRawData on n bytes, of which the first RawSz are kept.
FromRawData(o, n, v) ==
  LET kept == IF n < RawSz THEN n ELSE RawSz IN
    /\ SetVector(o, kept, v)
    /\ Counted(o, kept)
    /\ Given(o, Prefix(kept, v), FALSE)

\* A git call writes a complete id at o.data(), as RevWalk::next(o) does; the
\* size of a shortened OId stays what it was.
GitFills(o, v) ==
  IF Overrun(o) THEN Crash(o)
  ELSE /\ mem' = [mem EXCEPT ![o] = v]
       /\ UNCHANGED <<size, cap, held>>
       /\ Given(o, Complete(v), size[o] < RawSz)

\* A git call reads a complete id at o.constData(): the comparisons, format,
\* isZero, setTarget, push.
GitReads(o) == IF Overrun(o) THEN Crash(o) ELSE UNCHANGED vars

\* lookupCommit and the like pass length() along: libgit2 reads so many
\* digits and no more.
LookupPrefix(o) == IF size[o] > cap[o] THEN Crash(o) ELSE UNCHANGED vars

Next ==
  /\ fault = {}
  /\ \/ \E o \in Var, v \in Value : Construct(o, v) \/ GitFills(o, v)
     \/ \E o, p \in Var : CopyConstruct(o, p) \/ Assign(o, p)
     \/ \E o \in Var, i \in Id : Parse(o, i)
     \/ \E o \in Var, v \in Value, n \in 0 .. RawSz : ParseFails(o, n, v)
     \/ \E o \in Var, v \in Value, n \in 0 .. RawSz + 1 : FromRawData(o, n, v)
     \/ \E o \in Var : GitReads(o) \/ LookupPrefix(o)

Spec == Init /\ [][Next]_vars

(***************************************************************************)
(* Properties                                                              *)
(***************************************************************************)

(* An OId that was complete once, since it was constructed, has room for a  *)
(* complete id ever after, however short it got by parses, raw data and     *)
(* assignments, and only such an OId has: libgit2 leaves the allocation of  *)
(* one exactly where it is given an OId that was short from the start, a    *)
(* copy of a prefix (oid.hpp:61, "OId represented by this class may be      *)
(* shorter", next to operators and calls that take every OId for complete). *)
OverrunsAreShortCopies ==
  /\ \A o \in Var : Overrun(o) <=> o \notin held
  /\ fault \cap held = {}

(* Through any sequence of parses, copies, assignments and calls of git an  *)
(* OId counts as many bytes as the id or prefix it was last given has whole *)
(* bytes, and they are those: an odd last digit is all it loses.  It is not *)
(* so for the outgrown, which were parsed or filled while they counted      *)
(* fewer bytes, and for their copies.                                       *)
Denotes ==
  \A o \in Var \ outgrown : want[o] # NoId =>
    /\ size[o] = want[o].digits \div 2
    /\ \A k \in 1 .. size[o] : mem[o][k] = want[o].bytes[k]

(* Not even an outgrown OId mixes two ids: it counts no more bytes than it  *)
(* was last given, and each is the one it was given, or cleared.            *)
NeverMixed ==
  \A o \in Var : want[o] # NoId =>
    /\ 2 * size[o] <= want[o].digits
    /\ \A k \in 1 .. size[o] : mem[o][k] \in {want[o].bytes[k], Zero}

\* the vector never allocates less than its size
Allocated == \A o \in Var : size[o] <= cap[o]
=============================================================================
