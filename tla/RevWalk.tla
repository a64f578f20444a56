------------------------------- MODULE RevWalk -------------------------------
(***************************************************************************)
(* A walk over commits: the client marks commits to start from and commits *)
(* to hide, then calls next in a loop until it returns false.  next has    *)
(* one false for the end of the walk, where libgit2 resets the walker, and *)
(* for an error, where it does not.  The client may leave its loop and come *)
(* back, and mark more commits at any time.  References are looked up when *)
(* they are marked; meanwhile others move them, and objects get unreadable. *)
(***************************************************************************)
EXTENDS Naturals, FiniteSets

CONSTANTS
  Commit,   \* commits
  Parents,  \* Parents[c]: the parents of c
  Name,     \* names of references, HEAD among them
  HEAD,
  Tip,      \* bound: the commits references lead to
  Fragile,  \* bound: the commits that get unreadable
  None      \* no commit, no walk under way

ASSUME RevWalkAssumption ==
  /\ Parents \in [Commit -> SUBSET Commit]
  /\ HEAD \in Name
  /\ Tip \subseteq Commit /\ Fragile \subseteq Commit
  /\ None \notin Commit /\ \A C \in SUBSET Commit : None # C

VARIABLES
  store,    \* store[n]: the commit n leads to
  damaged,  \* the commits that cannot be read at the moment
  roots,    \* the commits pushed to the walker
  hidden,   \* the commits hidden from it
  todo,     \* what is left of the walk under way, None without one
  client,   \* the client is marking, in its loop, or has left it, or its loop is
            \* over, as the walk is, or cut by a failing next
  shown,    \* the commits next gave to the loop
  meant,    \* what the client asked for since its last loop ended or it reset
            \* the walker: starts and hides, given up where marks met an older
            \* walk (a history variable)
  astray    \* what parted client and walker since then: marks that met an older
            \* walk, a mark on a Reference, setSorting (a history variable)

walker == <<roots, hidden, todo>>
repository == <<store, damaged>>
vars == <<store, damaged, roots, hidden, todo, client, shown, meant, astray>>

Marks == [starts : SUBSET Commit, hides : SUBSET Commit]

TypeOK ==
  /\ store \in [Name -> Commit \cup {None}]
  /\ damaged \subseteq Commit
  /\ roots \subseteq Commit
  /\ hidden \subseteq Commit
  /\ todo \in {None} \cup SUBSET Commit
  /\ client \in {"marking", "looping", "left", "over", "cut"}
  /\ shown \subseteq Commit
  /\ meant \in Marks
  /\ astray \subseteq {"mixed", "reference", "sorted"}

Nothing == [starts |-> {}, hides |-> {}]

Init ==
  /\ store \in [Name -> Tip \cup {None}]
  /\ damaged = {}
  /\ roots = {} /\ hidden = {} /\ todo = None
  /\ client = "marking" /\ shown = {} /\ meant = Nothing /\ astray = {}

\* the ancestors of each commit, itself among them
Ancestors ==
  [c \in Commit |->
     {d \in Commit : \A D \in SUBSET Commit :
        c \in D /\ (\A e \in D : Parents[e] \subseteq D) => d \in D}]

\* the commits of C and all their ancestors
History(C) == {d \in Commit : \E c \in C : d \in Ancestors[c]}

\* what a walk shows: git rev-list starts --not hides
Wanted(starts, hides) == History(starts) \ History(hides)

\* the commits the names in N lead to; names that lead nowhere are skipped
Tips(N) == {store[n] : n \in N} \ {None}

-----------------------------------------------------------------------------
(* Accounts.  A client whose loop has ended, for it cannot tell how, thinks *)
(* of a blank walker when it goes on.                                       *)

Ended == client \in {"over", "cut"}

IsBlank == roots = {} /\ hidden = {} /\ todo = None

\* what parts the client from the walker when it goes on
Parted == IF ~Ended THEN astray ELSE IF IsBlank THEN {} ELSE astray \cup {"mixed"}

-----------------------------------------------------------------------------
(* Marking, at any time.  A call that fails throws and marks nothing.       *)

\* what marks may do to a walk under way: libgit2 leaves it open whether it
\* still shows what is pushed or hidden now, but shows nothing twice
Disturbed(S, T) ==
  {(todo \cup X) \ Y : X \in SUBSET (History(S) \ shown), Y \in SUBSET History(T)}

\* S are pushed and T hidden; the client means to push M and to hide N, from
\* which the walker is apart for the reasons in why, and if a walk is under way.
Mark(S, T, M, N, why) ==
  /\ client' = IF Ended THEN "marking" ELSE client
  /\ roots' = roots \cup S
  /\ hidden' = hidden \cup T
  /\ todo' \in IF todo = None THEN {None} ELSE Disturbed(S, T)
  /\ astray' = Parted \cup why \cup IF todo = None THEN {} ELSE {"mixed"}
  /\ meant' = IF "mixed" \in astray' THEN Nothing
              ELSE IF Ended THEN [starts |-> M, hides |-> N]
              ELSE [starts |-> meant.starts \cup M, hides |-> meant.hides \cup N]
  /\ shown' = IF Ended THEN {} ELSE shown
  /\ UNCHANGED repository

PushOrHide(S) == Mark(S, {}, S, {}, {}) \/ Mark({}, S, {}, S, {})

\* push and hide of an OId or a Commit
MarkOId(c) == c \notin damaged /\ PushOrHide({c})

\* pushRef and hideRef: a name that leads nowhere, or to what cannot be read,
\* throws
MarkRef(n) == store[n] \notin damaged \cup {None} /\ PushOrHide({store[n]})

\* mutation: the code of the call is not looked at
MarkHeadUnborn == PushOrHide({store[HEAD]})

\* pushHead and hideHead
MarkHead == store[HEAD] \notin damaged \cup {None} /\ PushOrHide({store[HEAD]})

\* push and hide of a glob that matches the names in N, possibly none
MarkGlob(N) == Tips(N) \cap damaged = {} /\ PushOrHide(Tips(N))

\* The same where a tip cannot be read: the tips S before it are marked when
\* the call throws, and the client does not know them.
MarkGlobFails(N, S) ==
  /\ Tips(N) \cap damaged # {}
  /\ S \subseteq Tips(N) \ damaged
  /\ Mark(S, {}, {}, {}, {"mixed"}) \/ Mark({}, S, {}, {}, {"mixed"})

\* mutation: the ends exchanged
MarkRangeReversed(a, b) == {a, b} \cap damaged = {} /\ Mark({a}, {b}, {b}, {a}, {})

\* pushRange of a..b, both of which are read before one is marked
MarkRange(a, b) == {a, b} \cap damaged = {} /\ Mark({b}, {a}, {b}, {a}, {})

\* push and hide of a Reference take its name for a glob, to which libgit2
\* appends "/*": it matches what lies below the name, and nothing can
MarkReference(n) ==
  \/ Mark({}, {}, Tips({n}), {}, {"reference"})
  \/ Mark({}, {}, {}, Tips({n}), {"reference"})

-----------------------------------------------------------------------------
(* The walker.                                                              *)

Blank == roots' = {} /\ hidden' = {} /\ todo' = None

\* what the next call of next finds: the first one prepares the walk
Left == IF todo = None THEN Wanted(roots, hidden) ELSE todo

\* RevWalk::reset, in or out of a loop
Reset ==
  /\ Blank
  /\ client' = "marking"
  /\ shown' = {} /\ meant' = Nothing /\ astray' = {}
  /\ UNCHANGED repository

\* setSorting resets the walker when a walk is under way, and else keeps the
\* marks; the client takes it to be reset always.
SetSorting ==
  \/ todo # None /\ Reset
  \/ /\ todo = None
     /\ client' = "marking"
     /\ shown' = {} /\ meant' = Nothing
     /\ astray' = IF IsBlank THEN {} ELSE astray \cup {"sorted"}
     /\ UNCHANGED <<store, damaged, roots, hidden, todo>>

\* The client begins its loop, or goes on with one it had left.
Enter ==
  /\ client # "looping"
  /\ client' = "looping"
  /\ IF Ended THEN meant' = Nothing /\ shown' = {} ELSE UNCHANGED <<meant, shown>>
  /\ astray' = Parted
  /\ UNCHANGED <<store, damaged, roots, hidden, todo>>

Leave ==
  /\ client = "looping"
  /\ client' = "left"
  /\ UNCHANGED <<store, damaged, roots, hidden, todo, shown, meant, astray>>

\* next, GIT_OK: true
NextShows(c) ==
  /\ client = "looping"
  /\ c \in Left \ damaged
  /\ todo' = Left \ {c}
  /\ shown' = shown \cup {c}
  /\ UNCHANGED <<store, damaged, roots, hidden, client, meant, astray>>

\* mutation: GIT_ITEROVER is no error
NextEndsTrue ==
  /\ client = "looping"
  /\ Left = {}
  /\ IF roots = {} /\ todo = None THEN UNCHANGED walker ELSE Blank
  /\ UNCHANGED <<store, damaged, client, shown, meant, astray>>

\* next, GIT_ITEROVER: false.  libgit2 resets the walker, but not where nothing
\* was pushed and no walk began: the hides stay.
NextEnds ==
  /\ client = "looping"
  /\ Left = {}
  /\ IF roots = {} /\ todo = None THEN UNCHANGED walker ELSE Blank
  /\ client' = "over"
  /\ UNCHANGED <<store, damaged, shown, meant, astray>>

\* a commit that next may have to read cannot be read
Unreadable == roots # {} /\ History(roots \cup hidden) \cap damaged # {}

\* mutation: next is false at the end of the walk only
NextFailsTrue ==
  /\ client = "looping"
  /\ Unreadable
  /\ todo' \in {todo, Left}
  /\ UNCHANGED <<store, damaged, roots, hidden, client, shown, meant, astray>>

\* next, an error: false as well, and the walker is not reset
NextFails ==
  /\ client = "looping"
  /\ Unreadable
  /\ todo' \in {todo, Left}
  /\ client' = "cut"
  /\ UNCHANGED <<store, damaged, roots, hidden, shown, meant, astray>>

LoopStep == NextEnds \/ NextFails \/ \E c \in Commit : NextShows(c)

\* what other processes do to the repository
Others ==
  /\ \/ \E n \in Name, c \in Tip \cup {None} :
          store' = [store EXCEPT ![n] = c] /\ UNCHANGED damaged
     \/ damaged' \in SUBSET Fragile /\ UNCHANGED store
  /\ UNCHANGED <<roots, hidden, todo, client, shown, meant, astray>>

Next ==
  \/ \E c \in Commit : MarkOId(c)
  \/ \E n \in Name : MarkRef(n) \/ MarkReference(n)
  \/ MarkHead
  \/ \E N \in SUBSET Name : MarkGlob(N) \/ \E S \in SUBSET Commit : MarkGlobFails(N, S)
  \/ \E a, b \in Commit : MarkRange(a, b)
  \/ Reset \/ SetSorting \/ Enter \/ Leave
  \/ LoopStep
  \/ Others

\* while (walk.next(id)) calls next for as long as it returns true
Spec == Init /\ [][Next]_vars /\ WF_vars(LoopStep)

-----------------------------------------------------------------------------
(* Properties.                                                              *)

(* A walk never shows a commit the client did not ask for, and when it is   *)
(* over has shown all of them, however its loop was left and resumed,       *)
(* whatever marks earlier walks had, and wherever the references went in    *)
(* the meantime.  Nothing is said where the marks met a walk under way or   *)
(* one that an error had cut, of marks on a Reference, and of those made    *)
(* before setSorting, and only until the walker is blank again              *)
(* (revwalk.cpp:45-124).                                                    *)
WalksAreExact ==
  astray = {} =>
    /\ shown \subseteq Wanted(meant.starts, meant.hides)
    /\ client = "over" => shown = Wanted(meant.starts, meant.hides)

(* A loop is never shown a commit twice, whatever is marked in it, whether  *)
(* it is left and resumed, and whatever happens to the repository: every    *)
(* next it survives takes a new commit from what is left for it, and what   *)
(* is left never contains one it has been shown (revwalk.cpp:115-119).      *)
LoopsAdvance ==
  [][client = "looping" /\ client' = "looping" =>
       /\ shown \subseteq shown' /\ Left' \cap shown' = {}
       /\ LoopStep => \E c \in Left \ shown :
                        shown' = shown \cup {c} /\ Left' = Left \ {c}]_vars

(* A loop on next ends, or is left, even where a commit on its way cannot   *)
(* be read for good, or more is marked in it (revwalk.cpp:115-119).         *)
LoopsEnd == client = "looping" ~> client # "looping"
=============================================================================
