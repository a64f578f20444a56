---------------------------- MODULE RevWalkProofs ----------------------------
(***************************************************************************)
(* Walks over commits: every walk of a client that has not been parted     *)
(* from its walker shows what the client asked for, for any graph of       *)
(* commits and any set of references.                                      *)
(***************************************************************************)
EXTENDS RevWalk, FiniteSetTheorems, TLAPS

(* What a client that has not gone astray knows of its walker: before and   *)
(* in a loop the walker has its marks, and between them the loop and the    *)
(* walker have the commits of the walk; a walk that is over has shown all,  *)
(* and one that was cut nothing else.                                       *)
Accounted ==
  astray = {} =>
    /\ ~Ended => meant = [starts |-> roots, hides |-> hidden]
    /\ client = "marking" => todo = None
    /\ todo = None /\ ~Ended => shown = {}
    /\ todo # None /\ ~Ended => shown \cup todo = Wanted(roots, hidden)
    /\ client = "over" => shown = Wanted(meant.starts, meant.hides)
    /\ client = "cut" => shown \subseteq Wanted(meant.starts, meant.hides)

IInv == TypeOK /\ Accounted

LEMMA WantedIsCommits == ASSUME NEW S, NEW T PROVE Wanted(S, T) \in SUBSET Commit
BY DEF Wanted, History

LEMMA TipsAreCommits ==
  ASSUME TypeOK, NEW N \in SUBSET Name PROVE Tips(N) \in SUBSET Commit
BY DEF TypeOK, Tips

LEMMA NothingIsMarks == Nothing \in Marks
BY DEF Nothing, Marks

LEMMA LeftIsCommits == ASSUME TypeOK PROVE Left \in SUBSET Commit
BY WantedIsCommits DEF TypeOK, Left

(* What marks are in the records the client keeps of them.                  *)
LEMMA MarksJoin ==
  ASSUME NEW m \in Marks, NEW M \in SUBSET Commit, NEW N \in SUBSET Commit
  PROVE  /\ [starts |-> M, hides |-> N] \in Marks
         /\ [starts |-> m.starts \cup M, hides |-> m.hides \cup N] \in Marks
BY DEF Marks

(* Marks on a walk under way leave a set of commits, none of them shown.    *)
LEMMA DisturbedIsCommits ==
  ASSUME TypeOK, todo # None, NEW S, NEW T, NEW U \in Disturbed(S, T)
  PROVE  /\ U \in SUBSET Commit /\ U # None
         /\ shown \cap todo = {} => shown \cap U = {}
<1>1. todo \in SUBSET Commit
  BY DEF TypeOK
<1>2. PICK X \in SUBSET (History(S) \ shown), Y \in SUBSET History(T) : U = (todo \cup X) \ Y
  BY DEF Disturbed
<1>3. X \subseteq Commit \ shown
  BY <1>2 DEF History
<1>4. U \in SUBSET Commit
  BY <1>1, <1>2, <1>3
<1>5. U # None
  BY <1>4, RevWalkAssumption
<1> QED
  BY <1>2, <1>3, <1>4, <1>5

LEMMA MarkTyped ==
  ASSUME TypeOK, NEW S \in SUBSET Commit, NEW T \in SUBSET Commit,
         NEW M \in SUBSET Commit, NEW N \in SUBSET Commit,
         NEW why \in SUBSET {"mixed", "reference"}, Mark(S, T, M, N, why)
  PROVE  TypeOK'
<1>1. meant' \in Marks
  BY MarksJoin, NothingIsMarks DEF Mark, TypeOK
<1>2. todo' \in {None} \cup SUBSET Commit
  BY DisturbedIsCommits DEF Mark
<1>3. astray' \subseteq {"mixed", "reference", "sorted"}
  BY DEF Mark, Parted, TypeOK
<1>4. client' \in {"marking", "looping", "left", "over", "cut"} /\ shown' \subseteq Commit
  BY DEF Mark, TypeOK
<1> QED
  BY <1>1, <1>2, <1>3, <1>4 DEF Mark, TypeOK, repository

(* A mark that reaches the walker keeps the walker and the client together. *)
LEMMA MarkAccounted ==
  ASSUME IInv, NEW S \in SUBSET Commit, NEW T \in SUBSET Commit, Mark(S, T, S, T, {})
  PROVE  IInv'
<1>1. TypeOK'
  BY MarkTyped DEF IInv
<1>2. ASSUME astray' = {} PROVE
        /\ ~Ended' /\ todo' = None /\ shown' = {}
        /\ meant' = [starts |-> roots', hides |-> hidden']
  <2>1. Parted = {} /\ todo = None /\ todo' = None
    BY <1>2 DEF Mark
  <2>2. CASE Ended
    <3>1. IsBlank
      BY <2>1, <2>2 DEF Parted
    <3>2. client' = "marking" /\ shown' = {} /\ meant' = [starts |-> S, hides |-> T]
      BY <1>2, <2>2 DEF Mark
    <3>3. roots' = S /\ hidden' = T
      BY <3>1 DEF Mark, IsBlank
    <3> QED
      BY <2>1, <3>2, <3>3 DEF Ended
  <2>3. CASE ~Ended
    <3>1. astray = {}
      BY <2>1, <2>3 DEF Parted
    <3>2. shown = {} /\ meant = [starts |-> roots, hides |-> hidden]
      BY <2>1, <2>3, <3>1 DEF IInv, Accounted
    <3>3. /\ client' = client /\ shown' = shown
          /\ meant' = [starts |-> meant.starts \cup S, hides |-> meant.hides \cup T]
      BY <1>2, <2>3 DEF Mark
    <3>4. meant' = [starts |-> roots \cup S, hides |-> hidden \cup T]
      BY <3>2, <3>3
    <3> QED
      BY <2>1, <2>3, <3>2, <3>3, <3>4 DEF Mark, Ended
  <2> QED
    BY <2>2, <2>3
<1> QED
  BY <1>1, <1>2 DEF IInv, Accounted, Ended

LEMMA PushOrHideAccounted ==
  ASSUME IInv, NEW S \in SUBSET Commit, PushOrHide(S) PROVE IInv'
<1>1. CASE Mark(S, {}, S, {}, {})
  BY <1>1, MarkAccounted
<1>2. CASE Mark({}, S, {}, S, {})
  BY <1>2, MarkAccounted
<1> QED
  BY <1>1, <1>2 DEF PushOrHide

(* One that parts them is accounted for by the reason.                      *)
LEMMA AstrayAccounted ==
  ASSUME IInv, NEW S \in SUBSET Commit, NEW T \in SUBSET Commit,
         NEW M \in SUBSET Commit, NEW N \in SUBSET Commit,
         NEW why \in SUBSET {"mixed", "reference"}, why # {}, Mark(S, T, M, N, why)
  PROVE  IInv'
<1>1. TypeOK'
  BY MarkTyped DEF IInv
<1>2. astray' # {}
  BY DEF Mark
<1> QED
  BY <1>1, <1>2 DEF IInv, Accounted

LEMMA MarkReferenceAccounted ==
  ASSUME IInv, NEW n \in Name, MarkReference(n) PROVE IInv'
<1>1. Tips({n}) \in SUBSET Commit
  BY TipsAreCommits DEF IInv
<1>2. CASE Mark({}, {}, Tips({n}), {}, {"reference"})
  BY <1>1, <1>2, AstrayAccounted
<1>3. CASE Mark({}, {}, {}, Tips({n}), {"reference"})
  BY <1>1, <1>3, AstrayAccounted
<1> QED
  BY <1>2, <1>3 DEF MarkReference

LEMMA MarkGlobFailsAccounted ==
  ASSUME IInv, NEW N \in SUBSET Name, NEW S \in SUBSET Commit, MarkGlobFails(N, S) PROVE IInv'
<1>1. CASE Mark(S, {}, {}, {}, {"mixed"})
  BY <1>1, AstrayAccounted
<1>2. CASE Mark({}, S, {}, {}, {"mixed"})
  BY <1>2, AstrayAccounted
<1> QED
  BY <1>1, <1>2 DEF MarkGlobFails

LEMMA ResetAccounted == ASSUME IInv, Reset PROVE IInv'
<1>1. TypeOK'
  BY NothingIsMarks DEF IInv, TypeOK, Reset, Blank, repository
<1>2. Accounted'
  BY DEF Accounted, Reset, Blank, Nothing, Ended
<1> QED
  BY <1>1, <1>2 DEF IInv

LEMMA SetSortingAccounted == ASSUME IInv, SetSorting PROVE IInv'
<1>1. CASE Reset
  BY <1>1, ResetAccounted
<1>2. CASE ~Reset
  <2>1. TypeOK'
    BY <1>2, NothingIsMarks DEF IInv, TypeOK, SetSorting
  <2>2. ASSUME astray' = {} PROVE IsBlank
    BY <1>2, <2>2 DEF SetSorting
  <2>3. Accounted'
    BY <1>2, <2>2 DEF Accounted, SetSorting, IsBlank, Nothing, Ended
  <2> QED
    BY <2>1, <2>3 DEF IInv
<1> QED
  BY <1>1, <1>2

LEMMA EnterAccounted == ASSUME IInv, Enter PROVE IInv'
<1>1. TypeOK'
  BY NothingIsMarks DEF IInv, TypeOK, Enter, Parted
<1>2. CASE Ended
  <2>1. ASSUME astray' = {} PROVE IsBlank
    BY <1>2, <2>1 DEF Enter, Parted
  <2> QED
    BY <1>1, <1>2, <2>1 DEF IInv, Accounted, Enter, IsBlank, Nothing, Ended
<1>3. CASE ~Ended
  BY <1>1, <1>3 DEF IInv, Accounted, Enter, Parted, Ended
<1> QED
  BY <1>2, <1>3

LEMMA LeaveAccounted == ASSUME IInv, Leave PROVE IInv'
BY DEF IInv, TypeOK, Accounted, Leave, Ended

(* Left is what the loop has not been given yet.                            *)
LEMMA LoopHasTheRest ==
  ASSUME IInv, astray = {}, client = "looping"
  PROVE  /\ shown \cup Left = Wanted(roots, hidden)
         /\ meant = [starts |-> roots, hides |-> hidden]
BY DEF IInv, Accounted, Left, Ended

LEMMA NextShowsAccounted == ASSUME IInv, NEW c \in Commit, NextShows(c) PROVE IInv'
<1>1. todo' \in SUBSET Commit /\ todo' # None
  <2>1. todo' \in SUBSET Commit
    BY LeftIsCommits DEF NextShows, IInv
  <2> QED
    BY <2>1, RevWalkAssumption
<1>2. TypeOK'
  BY <1>1 DEF IInv, TypeOK, NextShows
<1>3. ASSUME astray' = {} PROVE shown' \cup todo' = Wanted(roots', hidden')
  BY <1>3, LoopHasTheRest DEF NextShows
<1>4. Accounted'
  BY <1>1, <1>3, LoopHasTheRest DEF Accounted, NextShows, Ended
<1> QED
  BY <1>2, <1>4 DEF IInv

LEMMA NextEndsAccounted == ASSUME IInv, NextEnds PROVE IInv'
<1>1. TypeOK'
  BY DEF IInv, TypeOK, NextEnds, Blank, walker
<1>2. ASSUME astray' = {} PROVE shown' = Wanted(meant'.starts, meant'.hides)
  BY <1>2, LoopHasTheRest DEF NextEnds
<1> QED
  BY <1>1, <1>2 DEF IInv, Accounted, NextEnds, Ended

LEMMA NextFailsAccounted == ASSUME IInv, NextFails PROVE IInv'
<1>1. TypeOK'
  <2>1. todo' \in {None} \cup SUBSET Commit
    BY LeftIsCommits DEF IInv, TypeOK, NextFails
  <2> QED
    BY <2>1 DEF IInv, TypeOK, NextFails
<1>2. ASSUME astray' = {} PROVE shown' \subseteq Wanted(meant'.starts, meant'.hides)
  BY <1>2, LoopHasTheRest DEF NextFails
<1> QED
  BY <1>1, <1>2 DEF IInv, Accounted, NextFails, Ended

LEMMA OthersAccounted == ASSUME IInv, Others PROVE IInv'
<1>1. /\ store' \in [Name -> Commit \cup {None}]
      /\ damaged' \in SUBSET Commit
  BY RevWalkAssumption DEF Others, IInv, TypeOK
<1> QED
  BY <1>1 DEF IInv, TypeOK, Accounted, Others, Ended

-----------------------------------------------------------------------------

LEMMA InitAccounted == Init => IInv
<1> SUFFICES ASSUME Init PROVE IInv
  OBVIOUS
<1>1. TypeOK
  BY NothingIsMarks, RevWalkAssumption DEF Init, TypeOK
<1> QED
  BY <1>1 DEF Init, IInv, Accounted, Nothing, Ended

LEMMA StepAccounted == IInv /\ [Next]_vars => IInv'
<1> SUFFICES ASSUME IInv, [Next]_vars PROVE IInv'
  OBVIOUS
<1>1. ASSUME NEW c \in Commit, MarkOId(c) PROVE IInv'
  BY <1>1, PushOrHideAccounted DEF MarkOId
<1>2. ASSUME NEW n \in Name, MarkRef(n) PROVE IInv'
  <2>1. {store[n]} \in SUBSET Commit
    BY <1>2 DEF MarkRef, IInv, TypeOK
  <2> QED
    BY <1>2, <2>1, PushOrHideAccounted DEF MarkRef
<1>3. ASSUME NEW n \in Name, MarkReference(n) PROVE IInv'
  BY <1>3, MarkReferenceAccounted
<1>4. CASE MarkHead
  <2>1. {store[HEAD]} \in SUBSET Commit
    BY <1>4, RevWalkAssumption DEF MarkHead, IInv, TypeOK
  <2> QED
    BY <1>4, <2>1, PushOrHideAccounted DEF MarkHead
<1>5. ASSUME NEW N \in SUBSET Name, MarkGlob(N) PROVE IInv'
  BY <1>5, TipsAreCommits, PushOrHideAccounted DEF MarkGlob, IInv
<1>6. ASSUME NEW N \in SUBSET Name, NEW S \in SUBSET Commit, MarkGlobFails(N, S) PROVE IInv'
  BY <1>6, MarkGlobFailsAccounted
<1>7. ASSUME NEW a \in Commit, NEW b \in Commit, MarkRange(a, b) PROVE IInv'
  BY <1>7, MarkAccounted DEF MarkRange
<1>8. CASE Reset \/ SetSorting
  BY <1>8, ResetAccounted, SetSortingAccounted
<1>9. CASE Enter
  BY <1>9, EnterAccounted
<1>10. CASE Leave
  BY <1>10, LeaveAccounted
<1>11. CASE LoopStep
  BY <1>11, NextShowsAccounted, NextEndsAccounted, NextFailsAccounted DEF LoopStep
<1>12. CASE Others
  BY <1>12, OthersAccounted
<1>13. CASE UNCHANGED vars
  BY <1>13 DEF vars, IInv, TypeOK, Accounted, Ended
<1> QED
  BY <1>1, <1>2, <1>3, <1>4, <1>5, <1>6, <1>7, <1>8, <1>9, <1>10, <1>11, <1>12, <1>13 DEF Next

LEMMA AccountedAlways == Spec => []IInv
BY InitAccounted, StepAccounted, PTL DEF Spec

(* What next, the marks and the references hand each other are commits.     *)
THEOREM WalkTypeCorrect == Spec => []TypeOK
<1>1. IInv => TypeOK
  BY DEF IInv
<1> QED
  BY <1>1, AccountedAlways, PTL

(* In any graph of commits, and wherever in its loops the client marks, a   *)
(* walk shows only commits the client asked for, and one that is over has   *)
(* shown all of them, unless its marks met an older walk, or were made on a *)
(* Reference or before setSorting.                                          *)
THEOREM WalksStayExact == Spec => []WalksAreExact
<1>1. ASSUME IInv, astray = {}
      PROVE  /\ shown \subseteq Wanted(meant.starts, meant.hides)
             /\ client = "over" => shown = Wanted(meant.starts, meant.hides)
  <2>1. CASE Ended
    BY <1>1, <2>1 DEF IInv, Accounted, Ended
  <2>2. CASE ~Ended
    BY <1>1, <2>2 DEF IInv, Accounted, Ended
  <2> QED
    BY <2>1, <2>2
<1>2. IInv => WalksAreExact
  BY <1>1 DEF WalksAreExact
<1> QED
  BY <1>2, AccountedAlways, PTL

-----------------------------------------------------------------------------
(* Loops.                                                                   *)

(* A loop has not been shown what is left for it, and nothing before its    *)
(* walk began.  A client that has gone astray may begin a loop on a walk    *)
(* that is half done, or has marks it does not know of; it has been shown   *)
(* nothing then.                                                            *)
NotShown ==
  /\ client = "marking" => shown = {}
  /\ client \in {"looping", "left"} =>
       shown \cap Left = {} /\ (todo = None => shown = {})

LEMMA NotShownInit == Init => NotShown
BY DEF Init, NotShown

\* a mark of any kind
Marking ==
  \E S, T, M, N \in SUBSET Commit, why \in SUBSET {"mixed", "reference"} : Mark(S, T, M, N, why)

LEMMA MarksAreMarking ==
  ASSUME TypeOK,
         \/ \E c \in Commit : MarkOId(c)
         \/ \E n \in Name : MarkRef(n) \/ MarkReference(n)
         \/ MarkHead
         \/ \E N \in SUBSET Name : MarkGlob(N) \/ \E S \in SUBSET Commit : MarkGlobFails(N, S)
         \/ \E a, b \in Commit : MarkRange(a, b)
  PROVE  Marking
<1>1. ASSUME NEW S \in SUBSET Commit, PushOrHide(S) PROVE Marking
  <2>1. \/ Mark(S, {}, S, {}, {})
        \/ Mark({}, S, {}, S, {})
    BY <1>1 DEF PushOrHide
  <2> QED
    BY <2>1 DEF Marking
<1>2. ASSUME NEW c \in Commit, MarkOId(c) PROVE Marking
  BY <1>1, <1>2 DEF MarkOId
<1>3. ASSUME NEW n \in Name, MarkRef(n) PROVE Marking
  <2>1. {store[n]} \in SUBSET Commit
    BY <1>3 DEF MarkRef, TypeOK
  <2> QED
    BY <1>1, <1>3, <2>1 DEF MarkRef
<1>4. ASSUME NEW n \in Name, MarkReference(n) PROVE Marking
  <2>1. Tips({n}) \in SUBSET Commit
    BY TipsAreCommits
  <2>2. \/ Mark({}, {}, Tips({n}), {}, {"reference"})
        \/ Mark({}, {}, {}, Tips({n}), {"reference"})
    BY <1>4 DEF MarkReference
  <2> QED
    BY <2>1, <2>2 DEF Marking
<1>5. CASE MarkHead
  <2>1. {store[HEAD]} \in SUBSET Commit
    BY <1>5, RevWalkAssumption DEF MarkHead, TypeOK
  <2> QED
    BY <1>1, <1>5, <2>1 DEF MarkHead
<1>6. ASSUME NEW N \in SUBSET Name, MarkGlob(N) PROVE Marking
  BY <1>1, <1>6, TipsAreCommits DEF MarkGlob
<1>7. ASSUME NEW N \in SUBSET Name, NEW S \in SUBSET Commit, MarkGlobFails(N, S) PROVE Marking
  <2>1. \/ Mark(S, {}, {}, {}, {"mixed"})
        \/ Mark({}, S, {}, {}, {"mixed"})
    BY <1>7 DEF MarkGlobFails
  <2> QED
    BY <2>1 DEF Marking
<1>8. ASSUME NEW a \in Commit, NEW b \in Commit, MarkRange(a, b) PROVE Marking
  <2>1. Mark({b}, {a}, {b}, {a}, {})
    BY <1>8 DEF MarkRange
  <2> QED
    BY <2>1 DEF Marking
<1> QED
  BY <1>2, <1>3, <1>4, <1>5, <1>6, <1>7, <1>8

LEMMA MarksShowNothing == ASSUME TypeOK, NotShown, Marking PROVE NotShown'
<1>1. PICK S \in SUBSET Commit, T \in SUBSET Commit, M \in SUBSET Commit, N \in SUBSET Commit,
           why \in SUBSET {"mixed", "reference"} : Mark(S, T, M, N, why)
  BY DEF Marking
<1>2. CASE Ended
  BY <1>1, <1>2 DEF Mark, NotShown
<1>3. CASE ~Ended /\ todo = None
  BY <1>1, <1>3 DEF Mark, NotShown, Ended, TypeOK
<1>4. CASE ~Ended /\ todo # None
  <2>1. todo' \in Disturbed(S, T) /\ client' = client /\ shown' = shown
    BY <1>1, <1>4 DEF Mark
  <2>2. todo' # None /\ (shown \cap todo = {} => shown \cap todo' = {})
    BY <1>4, <2>1, DisturbedIsCommits
  <2>3. Left = todo /\ Left' = todo'
    BY <1>4, <2>2 DEF Left
  <2> QED
    BY <2>1, <2>2, <2>3 DEF NotShown
<1> QED
  BY <1>2, <1>3, <1>4

(* What is left once a commit was shown is a set of commits, not None.      *)
LEMMA LeftAfterShowing ==
  ASSUME TypeOK, NEW c \in Commit, NextShows(c)
  PROVE  Left' = Left \ {c} /\ todo' # None
<1>1. Left \ {c} \in SUBSET Commit
  BY LeftIsCommits
<1>2. todo' # None
  BY <1>1, RevWalkAssumption DEF NextShows
<1> QED
  BY <1>2 DEF NextShows, Left

LEMMA NotShownStep == TypeOK /\ NotShown /\ [Next]_vars => NotShown'
<1> SUFFICES ASSUME TypeOK, NotShown, [Next]_vars PROVE NotShown'
  OBVIOUS
<1>1. CASE \/ \E c \in Commit : MarkOId(c)
           \/ \E n \in Name : MarkRef(n) \/ MarkReference(n)
           \/ MarkHead
           \/ \E N \in SUBSET Name : MarkGlob(N) \/ \E S \in SUBSET Commit : MarkGlobFails(N, S)
           \/ \E a, b \in Commit : MarkRange(a, b)
  BY <1>1, MarksAreMarking, MarksShowNothing
<1>2. CASE Reset \/ SetSorting
  BY <1>2 DEF SetSorting, Reset, NotShown
<1>3. CASE Enter
  BY <1>3 DEF Enter, NotShown, Left, TypeOK, Ended
<1>4. CASE Leave
  BY <1>4 DEF Leave, NotShown, Left
<1>5. ASSUME NEW c \in Commit, NextShows(c) PROVE NotShown'
  BY <1>5, LeftAfterShowing DEF NextShows, NotShown
<1>6. CASE NextEnds \/ NextFails
  BY <1>6 DEF NextEnds, NextFails, NotShown
<1>7. CASE Others
  BY <1>7 DEF Others, NotShown, Left
<1>8. CASE UNCHANGED vars
  BY <1>8 DEF vars, NotShown, Left
<1> QED
  BY <1>1, <1>2, <1>3, <1>4, <1>5, <1>6, <1>7, <1>8 DEF Next, LoopStep

(* A step in which a loop goes on shows a commit or shows nothing.          *)
LEMMA LoopGoesOn ==
  ASSUME TypeOK, [Next]_vars, client = "looping", client' = "looping"
  PROVE  (\E c \in Commit : NextShows(c)) \/ (~LoopStep /\ shown' = shown)
<1>1. CASE \/ \E c \in Commit : MarkOId(c)
           \/ \E n \in Name : MarkRef(n) \/ MarkReference(n)
           \/ MarkHead
           \/ \E N \in SUBSET Name : MarkGlob(N) \/ \E S \in SUBSET Commit : MarkGlobFails(N, S)
           \/ \E a, b \in Commit : MarkRange(a, b)
  <2>1. Marking
    BY <1>1, MarksAreMarking
  <2>2. shown' = shown
    BY <2>1 DEF Marking, Mark, Ended
  <2> QED
    BY <2>2 DEF LoopStep, NextEnds, NextFails
<1>2. CASE Reset \/ SetSorting \/ Enter \/ Leave
  BY <1>2 DEF SetSorting, Reset, Enter, Leave
<1>3. CASE LoopStep
  BY <1>3 DEF LoopStep, NextEnds, NextFails
<1>4. CASE Others \/ UNCHANGED vars
  <2>1. shown' = shown
    BY <1>4 DEF Others, vars
  <2> QED
    BY <2>1 DEF LoopStep, NextEnds, NextFails
<1> QED
  BY <1>1, <1>2, <1>3, <1>4 DEF Next

LEMMA NotShownAlways == Spec => [](TypeOK /\ NotShown)
<1>1. IInv => TypeOK
  BY DEF IInv
<1> QED
  BY <1>1, AccountedAlways, NotShownInit, NotShownStep, PTL DEF Spec

(* No loop is shown a commit twice, and every call of next that lets one go *)
(* on shows it a new one, in any graph and whatever is marked meanwhile.    *)
THEOREM LoopsAlwaysAdvance == Spec => LoopsAdvance
<1>1. TypeOK /\ NotShown /\ [Next]_vars =>
        [client = "looping" /\ client' = "looping" =>
           /\ shown \subseteq shown' /\ Left' \cap shown' = {}
           /\ LoopStep => \E c \in Left \ shown :
                            shown' = shown \cup {c} /\ Left' = Left \ {c}]_vars
  <2> SUFFICES ASSUME TypeOK, NotShown, [Next]_vars, client = "looping", client' = "looping"
               PROVE  /\ shown \subseteq shown' /\ Left' \cap shown' = {}
                      /\ LoopStep => \E c \in Left \ shown :
                                       shown' = shown \cup {c} /\ Left' = Left \ {c}
    OBVIOUS
  <2>1. ASSUME NEW c \in Commit, NextShows(c)
        PROVE  /\ Left' = Left \ {c}
               /\ c \in Left \ shown /\ shown' = shown \cup {c}
    BY <2>1, LeftAfterShowing DEF NextShows, NotShown
  <2>2. Left' \cap shown' = {}
    BY NotShownStep DEF NotShown
  <2>3. CASE \E c \in Commit : NextShows(c)
    BY <2>1, <2>2, <2>3
  <2>4. CASE ~LoopStep /\ shown' = shown
    BY <2>2, <2>4
  <2> QED
    BY <2>3, <2>4, LoopGoesOn
<1> QED
  BY <1>1, NotShownAlways, PTL DEF Spec, LoopsAdvance

(* With finitely many commits every call of next that lets a loop go on     *)
(* leaves fewer that it was not shown: however the repository changes, and  *)
(* whatever is marked, a loop calls next at most once for each commit, and  *)
(* once more.                                                               *)
THEOREM LoopsAreBounded ==
  ASSUME IsFiniteSet(Commit)
  PROVE  Spec => [][LoopStep /\ client' = "looping" =>
                      /\ Cardinality(Commit \ shown) \in Nat
                      /\ Cardinality(Commit \ shown') \in Nat
                      /\ Cardinality(Commit \ shown') < Cardinality(Commit \ shown)]_vars
<1>1. ASSUME TypeOK, NotShown, [Next]_vars, LoopStep, client' = "looping"
      PROVE  /\ Cardinality(Commit \ shown) \in Nat
             /\ Cardinality(Commit \ shown') \in Nat
             /\ Cardinality(Commit \ shown') < Cardinality(Commit \ shown)
  <2>1. client = "looping"
    BY <1>1 DEF LoopStep, NextEnds, NextFails, NextShows
  <2>2. PICK c \in Commit : NextShows(c)
    BY <1>1, <2>1, LoopGoesOn
  <2> DEFINE R == Commit \ shown
  <2>3. Commit \ shown' = R \ {c} /\ c \in R
    BY <1>1, <2>1, <2>2 DEF NextShows, NotShown
  <2>4. IsFiniteSet(R)
    BY FS_Subset
  <2>5. Cardinality(R) \in Nat
    BY <2>4, FS_CardinalityType
  <2>6. Cardinality(R \ {c}) = Cardinality(R) - 1 /\ IsFiniteSet(R \ {c})
    BY <2>3, <2>4, FS_RemoveElement
  <2>7. Cardinality(R \ {c}) \in Nat
    BY <2>6, FS_CardinalityType
  <2> HIDE DEF R
  <2>8. Cardinality(R \ {c}) < Cardinality(R)
    BY <2>5, <2>6
  <2> QED
    BY <2>3, <2>5, <2>7, <2>8 DEF R
<1>2. TypeOK /\ NotShown /\ [Next]_vars =>
        [LoopStep /\ client' = "looping" =>
           /\ Cardinality(Commit \ shown) \in Nat
           /\ Cardinality(Commit \ shown') \in Nat
           /\ Cardinality(Commit \ shown') < Cardinality(Commit \ shown)]_vars
  BY <1>1
<1> QED
  BY <1>2, NotShownAlways, PTL DEF Spec
=============================================================================
