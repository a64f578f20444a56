------------------------------- MODULE Options -------------------------------
(***************************************************************************)
(* The methods that hand libgit2 an option structure, or take an array of  *)
(* strings from it, and what they allocate for one call: the array of a    *)
(* pathspec, freed by a StrArrayFiller in most methods and by hand in the  *)
(* diffs, and the diff list under construction, which the notification     *)
(* callback gets to see.  A call ends by returning, by an error of libgit2 *)
(* or by an exception of a callback that unwinds it, and a callback may    *)
(* make calls of its own.                                                  *)
(***************************************************************************)
EXTENDS Naturals, Sequences, FiniteSets

CONSTANTS
  Function,  \* the methods the client uses
  Addr,      \* addresses of arrays and diff lists
  Items,     \* what a native function reports on: deltas, paths
  MaxDepth,  \* bound: calls inside callbacks
  None       \* no address, a null pointer

\* diffs with options: array and list by hand, int verdicts
Diffing == {"diffTreeToTree", "diffTreeToIndex", "diffIndexToWorkdir", "diffTreeToWorkdir"}

\* a StrArrayFiller, and bool verdicts; a progress callback as well; neither
Checking == {"checkoutHead", "checkoutIndex", "checkoutTree"}
Showing  == {"statusForeach"}
Silent   == {"listStatus", "resetDefault"}
Filling  == Checking \cup Showing \cup Silent

\* the array comes from libgit2 and is copied into a vector
Fetching == {"getFetchRefspec", "getPushRefspec", "listTags", "listRemote", "listReferences"}

Method == Diffing \cup Filling \cup Fetching

ASSUME OptionsAssumption ==
  /\ Function \subseteq Method
  /\ Items \in Nat /\ MaxDepth \in Nat
  /\ None \notin Addr

\* A call: its array, the list it builds, whether the client gave it every
\* callback it takes, the reports made, and whether one of them is running.
Call == [fn : Method, array : Addr \cup {None}, list : Addr \cup {None},
         given : BOOLEAN, done : 0 .. Items, asking : BOOLEAN]

VARIABLES
  stack,     \* the calls under way, the innermost last
  arrays,    \* the arrays that are allocated
  lists,     \* the diff lists that are allocated
  held,      \* the lists the client's DiffList objects are on
  lost,      \* the arrays a diff left behind (a history variable)
  notified,  \* the lists a notification was made for (a history variable)
  fault      \* the lists freed twice or used after a free (a history variable)

vars == <<stack, arrays, lists, held, lost, notified, fault>>

TypeOK ==
  /\ stack \in Seq(Call)
  /\ {arrays, lists, held, lost, notified, fault} \subseteq SUBSET Addr

Init ==
  /\ stack = <<>>
  /\ arrays = {} /\ lists = {} /\ held = {}
  /\ lost = {} /\ notified = {} /\ fault = {}

Top == stack[Len(stack)]

SetTop(c) == [stack EXCEPT ![Len(stack)] = c]

Pop == SubSeq(stack, 1, Len(stack) - 1)

\* the client's code runs: its main program or one of its callbacks
ClientRuns == stack # <<>> => Top.asking

LibraryRuns == stack # <<>> /\ ~Top.asking

\* The allocator may return any address that is not in use; the ones that
\* went wrong are left out to keep the account of faults readable.
Fresh(a) ==
  /\ a \notin arrays \cup lists \cup held \cup fault
  /\ \A d \in DOMAIN stack : a \notin {stack[d].array, stack[d].list}

\* git_diff_list_free(l)
FreeList(l) ==
  /\ lists' = lists \ {l}
  /\ fault' = IF l \in lists THEN fault ELSE fault \cup {l}

\* delete of an array; delete NULL does nothing
FreeArray(a) == arrays' = arrays \ {a}

-----------------------------------------------------------------------------
(* Entering: the array is allocated and the native function called.         *)

\* StrArrayFiller::fill, which allocates for an empty pathspec too
EnterFilling(fn, a, given) ==
  /\ fn \in Filling /\ Fresh(a)
  /\ stack' = Append(stack, [fn |-> fn, array |-> a, list |-> None,
                             given |-> given, done |-> 0, asking |-> FALSE])
  /\ arrays' = arrays \cup {a}
  /\ UNCHANGED <<lists, notified>>

\* No array for an empty pathspec; libgit2 begins with an empty list.
EnterDiffing(fn, a, l, given) ==
  /\ fn \in Diffing /\ Fresh(l) /\ a # l
  /\ a # None => Fresh(a)
  /\ stack' = Append(stack, [fn |-> fn, array |-> a, list |-> l,
                             given |-> given, done |-> 0, asking |-> FALSE])
  /\ arrays' = arrays \cup ({a} \ {None})
  /\ lists' = lists \cup {l}
  /\ notified' = notified \ {l}

EnterFetching(fn) ==
  /\ fn \in Fetching
  /\ stack' = Append(stack, [fn |-> fn, array |-> None, list |-> None,
                             given |-> FALSE, done |-> 0, asking |-> FALSE])
  /\ UNCHANGED <<arrays, lists, notified>>

Enter ==
  /\ ClientRuns
  /\ Len(stack) < MaxDepth
  /\ \E fn \in Function :
       \/ EnterFetching(fn)
       \/ \E a \in Addr, given \in BOOLEAN : EnterFilling(fn, a, given)
       \/ \E a \in Addr \cup {None}, l \in Addr, given \in BOOLEAN :
            EnterDiffing(fn, a, l, given)
  /\ UNCHANGED <<held, lost, fault>>

-----------------------------------------------------------------------------
(* Leaving.                                                                 *)

\* mutation: the destructor runs when the method returns, not when it throws
UnwoundLeaky(c) ==
  /\ UNCHANGED arrays
  /\ lost' = IF c.fn \in Diffing THEN lost \cup ({c.array} \ {None}) ELSE lost

\* An exception of a callback passes the call: destructors run, the delete
\* of the diffs does not.
Unwound(c) ==
  IF c.fn \in Diffing
  THEN lost' = lost \cup ({c.array} \ {None}) /\ UNCHANGED arrays
  ELSE FreeArray(c.array) /\ UNCHANGED lost

\* mutation: the list is handed out before the code is looked at
FailsUnasserted ==
  /\ LibraryRuns
  /\ stack' = Pop
  /\ FreeArray(Top.array)
  /\ IF Top.fn \in Diffing THEN FreeList(Top.list) /\ held' = held \cup {Top.list}
     ELSE UNCHANGED <<lists, fault, held>>
  /\ UNCHANGED <<lost, notified>>

\* libgit2 returns an error, and has freed what it was building; the method
\* frees its array before it throws.
Fails ==
  /\ LibraryRuns
  /\ stack' = Pop
  /\ FreeArray(Top.array)
  /\ IF Top.fn \in Diffing THEN FreeList(Top.list) ELSE UNCHANGED <<lists, fault>>
  /\ UNCHANGED <<held, lost, notified>>

\* libgit2 fills the array of a Fetching method, which copies it and calls
\* git_strarray_free
Obtain(a) ==
  /\ LibraryRuns
  /\ Top.fn \in Fetching /\ Top.array = None /\ Fresh(a)
  /\ stack' = SetTop([Top EXCEPT !.array = a])
  /\ arrays' = arrays \cup {a}
  /\ UNCHANGED <<lists, held, lost, notified, fault>>

\* mutation: a list for every method
FinishAlways ==
  /\ LibraryRuns
  /\ Top.fn \in Fetching => Top.array # None
  /\ stack' = Pop
  /\ FreeArray(Top.array)
  /\ held' = held \cup {Top.list}
  /\ UNCHANGED <<lists, lost, notified, fault>>

\* The native function returns GIT_OK; the list of a diff goes into a
\* DiffList for the client.
Finish ==
  /\ LibraryRuns
  /\ Top.fn \in Fetching => Top.array # None
  /\ stack' = Pop
  /\ FreeArray(Top.array)
  /\ held' = IF Top.fn \in Diffing THEN held \cup {Top.list} ELSE held
  /\ UNCHANGED <<lists, lost, notified, fault>>

\* the client's last copy of a DiffList goes
Release(l) ==
  /\ ClientRuns
  /\ l \in held
  /\ held' = held \ {l}
  /\ FreeList(l)
  /\ UNCHANGED <<stack, arrays, lost, notified>>

-----------------------------------------------------------------------------
(* Callbacks.                                                               *)

Reporting == LibraryRuns /\ Top.done < Items /\ Top.fn \in Diffing \cup Checking \cup Showing

\* The trampolines test the address of the std::function, which is never
\* null, and not the function: an empty one throws when it is called.  A
\* diff without pathspec has no matched pathspec, and std::string(NULL)
\* throws as well.
Callable == Top.given /\ (Top.fn \in Diffing => Top.array # None)

\* The client's callback is called.  The trampoline of a diff has wrapped the
\* list in a DiffList, a temporary that lives until the callback returned.
Ask ==
  /\ Reporting /\ Callable
  /\ stack' = SetTop([Top EXCEPT !.done = @ + 1, !.asking = TRUE])
  /\ notified' = IF Top.fn \in Diffing THEN notified \cup {Top.list} ELSE notified
  /\ UNCHANGED <<arrays, lists, held, lost, fault>>

\* The trampoline throws before it gets there: with the DiffList already
\* constructed, or not.
AskNobody ==
  /\ Reporting /\ ~Callable
  /\ stack' = Pop
  /\ Unwound(Top)
  /\ IF Top.fn \in Diffing
     THEN /\ notified' = notified \cup {Top.list}
          /\ FreeList(Top.list) \/ UNCHANGED <<lists, fault>>
     ELSE UNCHANGED <<lists, fault, notified>>
  /\ UNCHANGED held

\* The callback of checkout or status returns; progress has no verdict, and
\* a stop makes libgit2 return GIT_EUSER (see Calls).
Answer(keep) ==
  /\ stack # <<>>
  /\ Top.asking /\ Top.fn \notin Diffing
  /\ IF keep
     THEN stack' = SetTop([Top EXCEPT !.asking = FALSE]) /\ UNCHANGED arrays
     ELSE stack' = Pop /\ FreeArray(Top.array)
  /\ UNCHANGED <<lists, held, lost, notified, fault>>

\* The callback of a diff returns and the temporary DiffList frees the list;
\* with a verdict of 0 or more libgit2 goes on with it, with less it frees it
\* and returns the verdict, for which the method frees its array and throws.
AnswerDiff(verdict) ==
  /\ stack # <<>>
  /\ Top.asking /\ Top.fn \in Diffing
  /\ lists' = lists \ {Top.list}
  /\ fault' = fault \cup {Top.list}
  /\ IF verdict = "abort"
     THEN stack' = Pop /\ FreeArray(Top.array)
     ELSE stack' = SetTop([Top EXCEPT !.asking = FALSE]) /\ UNCHANGED arrays
  /\ UNCHANGED <<held, lost, notified>>

\* the client's callback throws, or lets an exception of a call pass
Throw ==
  /\ stack # <<>>
  /\ Top.asking
  /\ stack' = Pop
  /\ Unwound(Top)
  /\ IF Top.fn \in Diffing THEN FreeList(Top.list) ELSE UNCHANGED <<lists, fault>>
  /\ UNCHANGED <<held, notified>>

Next ==
  \/ Enter
  \/ Fails
  \/ Finish
  \/ Ask
  \/ AskNobody
  \/ Throw
  \/ \E a \in Addr : Obtain(a)
  \/ \E l \in Addr : Release(l)
  \/ \E keep \in BOOLEAN : Answer(keep)
  \/ \E verdict \in {"insert", "skip", "abort"} : AnswerDiff(verdict)

Spec == Init /\ [][Next]_vars

-----------------------------------------------------------------------------
(* Properties.                                                              *)

ArrayOf(d) == stack[d].array

(* The array of a call is allocated exactly as long as the call is under    *)
(* way: whether it returns, fails, or is unwound from any depth of nested   *)
(* callbacks, no array stays behind but that of a diff whose callback threw *)
(* (common.hpp:88-121, repository.cpp:753-756), and none is freed while     *)
(* libgit2 still reads it or shared between two calls.                      *)
ArraysWithTheirCalls ==
  /\ arrays \ lost = {ArrayOf(d) : d \in DOMAIN stack} \ {None}
  /\ \A d, e \in DOMAIN stack : d # e /\ ArrayOf(d) # None => ArrayOf(d) # ArrayOf(e)

(* A diff list is never freed twice nor used after a free, unless libgit2   *)
(* made a notification while it built the list: the errors of libgit2, the  *)
(* exceptions of other callbacks and the calls inside them leave each list  *)
(* with one owner (repository.cpp:750-761).                                 *)
OnlyNotifiedListsFail ==
  /\ fault \subseteq notified
  /\ held \subseteq lists \cup notified
  /\ \A d \in DOMAIN stack : stack[d].list # None => stack[d].list \notin held
=============================================================================
