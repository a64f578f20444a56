-------------------------------- MODULE Calls --------------------------------
(***************************************************************************)
(* Calls into libgit2: what a method of the wrapper does with the code the *)
(* native function returns, with the codes of the callbacks it hands down, *)
(* and with libgit2's one pending error message (giterr_last).  Everything *)
(* runs in one thread, but a callback may call the library again, so that  *)
(* calls nest.  A native call that succeeds, and calls no callback, leaves *)
(* all of this alone and is a stuttering step.                             *)
(***************************************************************************)
EXTENDS Naturals, Sequences

CONSTANTS
  Function,   \* the methods the client uses
  Count,      \* items an iteration goes through
  MaxDepth,   \* bound: nested iterations
  MaxErrors,  \* bound: calls that fail
  None

\* The methods by their way with codes; a representative few of Asserting,
\* which holds every method that only passes the code to git2_assert.  In
\* Tolerating, get stands for Config::get of every type.
Keeping     == {"statusForeach", "stashForeach", "list"}
Notifying   == {"checkoutHead", "checkoutIndex", "checkoutTree"}
Naming      == {"foreachReference", "foreachReferenceName"}
Printing    == {"printCompact", "printRaw", "printPatch", "print"}
Misdirected == {"foreach"}
Asserting   == {"read", "write", "readTree", "writeTree"}
Tolerating  == {"find", "findSimilar", "next", "get", "addFile"}
Selecting   == {"stashSave", "getBranchUpstreamName", "getBranchRemoteName", "hunk"}

Iterating == Keeping \cup Notifying \cup Naming \cup Printing \cup Misdirected

\* the iterations found to do what their documentation says
Conforming == Keeping \cup Notifying

\* An iteration: its items passed to the trampoline, the client's verdicts
\* (TRUE to keep going), and whether the client's callback is running;
\* then an iteration that ended, with what its method returned.
Frame == [fn : Iterating, shown : 0 .. Count, told : Seq(BOOLEAN), asking : BOOLEAN]

Ended == [fn : Iterating, told : Seq(BOOLEAN), ret : {"true", "false", "void", "raised"}]

ASSUME CallsAssumption ==
  /\ Function \subseteq Iterating \cup Asserting \cup Tolerating \cup Selecting
  /\ Count \in Nat
  /\ MaxDepth \in Nat
  /\ MaxErrors \in Nat
  /\ None \notin Nat \cup Ended

VARIABLES
  stack,      \* the iterations under way, the innermost last
  ended,      \* the iteration that ended last
  failures,   \* calls that failed so far; the n-th failure sets message n
  slot,       \* the message giterr_last would return
  tolerated,  \* the failures the wrapper did not throw for (a history variable)
  thrown      \* the exceptions so far: failure and message (a history variable)

vars == <<stack, ended, failures, slot, tolerated, thrown>>

TypeOK ==
  /\ stack \in Seq(Frame)
  /\ ended \in Ended \cup {None}
  /\ failures \in Nat
  /\ slot \in Nat \cup {None}
  /\ tolerated \subseteq Nat
  /\ thrown \subseteq [call : Nat, msg : Nat \cup {None}]

Top == stack[Len(stack)]

SetTop(f) == [stack EXCEPT ![Len(stack)] = f]

Pop == SubSeq(stack, 1, Len(stack) - 1)

\* the client's code runs: its main program or one of its callbacks
ClientRuns == stack # <<>> => Top.asking

\* mutation: the two codes exchanged
CodeExchanged(fn, keep) == IF keep THEN "EUSER" ELSE "OK"

\* what the trampoline makes of a verdict: the bool is the C code itself
\* where no conversion was written
Code(fn, keep) ==
  IF fn \in Keeping \cup Notifying THEN IF keep THEN "OK" ELSE "EUSER"
  ELSE IF keep THEN "EUSER" ELSE "OK"

\* mutation: the code is returned as it is
ResultRaw(fn, code) == code

\* mutation: a stop of the user counts as a success
ResultForgiving(fn, code) == IF fn \in Notifying THEN "void" ELSE "true"

\* what the method makes of the code of the native iteration
Result(fn, code) ==
  IF fn \in Notifying THEN IF code = "OK" THEN "void" ELSE "raised"
  ELSE IF fn \in Naming THEN IF code = "EUSER" THEN "true" ELSE "false"
  ELSE IF code = "OK" THEN "true" ELSE "false"

Init ==
  /\ stack = <<>>
  /\ ended = None
  /\ failures = 0
  /\ slot = None
  /\ tolerated = {}
  /\ thrown = {}

-----------------------------------------------------------------------------
(* The error protocol.                                                      *)

\* mutation: the constructor without its giterr_clear
RaiseUncleared(m) ==
  /\ thrown' = thrown \cup {[call |-> failures + 1, msg |-> m]}
  /\ slot' = m

\* Exception(int): takes the pending message, if any, and clears it
Raise(m) ==
  /\ thrown' = thrown \cup {[call |-> failures + 1, msg |-> m]}
  /\ slot' = None

\* A native call fails: it sets a message, or leaves what was there.
Fails == failures < MaxErrors /\ failures' = failures + 1

Report == {failures + 1, slot}

\* git2_assert(ret) with ret < 0
CallAsserted(fn) ==
  /\ ClientRuns
  /\ fn \in Asserting \cup Selecting
  /\ Fails
  /\ \E m \in Report : Raise(m)
  /\ UNCHANGED <<stack, ended, tolerated>>

\* The code is turned into a false, an empty string or a null id and nobody
\* clears the message; at the end of a walk libgit2 does.
CallTolerated(fn) ==
  /\ ClientRuns
  /\ fn \in Tolerating \cup Selecting
  /\ Fails
  /\ slot' \in Report \cup {None}
  /\ tolerated' = tolerated \cup {failures + 1}
  /\ UNCHANGED <<stack, ended, thrown>>

-----------------------------------------------------------------------------
(* Iterations.                                                              *)

Enter(fn) ==
  /\ ClientRuns
  /\ Len(stack) < MaxDepth
  /\ fn \in Iterating
  /\ stack' = Append(stack, [fn |-> fn, shown |-> 0, told |-> <<>>, asking |-> FALSE])
  /\ UNCHANGED <<ended, failures, slot, tolerated, thrown>>

LibraryRuns == stack # <<>> /\ ~Top.asking

\* the innermost iteration ends
Leave(told, ret) ==
  /\ stack' = Pop
  /\ ended' = [fn |-> Top.fn, told |-> told, ret |-> ret]

\* The native function calls the trampoline, which calls the client.
Ask ==
  /\ LibraryRuns
  /\ Top.shown < Count
  /\ Top.fn \notin Misdirected
  /\ stack' = SetTop([Top EXCEPT !.shown = @ + 1, !.asking = TRUE])
  /\ UNCHANGED <<ended, failures, slot, tolerated, thrown>>

\* mutation: the exception for a stop is thrown without Exception(int)
StopKeeping(told, code) ==
  /\ Leave(told, Result(Top.fn, code))
  /\ UNCHANGED slot
  /\ IF Result(Top.fn, code) = "raised"
     THEN Fails /\ thrown' = thrown \cup {[call |-> failures + 1, msg |-> slot]}
     ELSE UNCHANGED <<failures, thrown>>

\* A stop of the user is GIT_EUSER: no failure of its own to libgit2, which
\* may clear an older message; where the method only asserts, it is thrown.
Stop(told, code) ==
  /\ Leave(told, Result(Top.fn, code))
  /\ IF Result(Top.fn, code) = "raised"
     THEN Fails /\ (\E m \in {slot, None} : Raise(m))
     ELSE slot' \in {slot, None} /\ UNCHANGED <<failures, thrown>>

\* The client's callback returns, and the trampoline with it.
Answer(keep) ==
  LET told == Append(Top.told, keep)
      code == Code(Top.fn, keep)
  IN /\ stack # <<>>
     /\ Top.asking
     /\ IF code = "OK"
        THEN /\ stack' = SetTop([Top EXCEPT !.told = told, !.asking = FALSE])
             /\ UNCHANGED <<ended, failures, slot, thrown>>
        ELSE Stop(told, code)
     /\ UNCHANGED tolerated

\* DiffList::foreach gives libgit2 the addresses of its own trampolines, so
\* that these call whatever lies there: an empty function, which throws, or
\* a return of anything.  The client is never asked.
AskNobody ==
  /\ LibraryRuns
  /\ Top.shown < Count
  /\ Top.fn \in Misdirected
  /\ \/ /\ stack' = SetTop([Top EXCEPT !.shown = @ + 1])
        /\ UNCHANGED <<ended, slot>>
     \/ Leave(Top.told, Result(Top.fn, "EUSER")) /\ slot' \in {slot, None}
     \/ Leave(Top.told, "raised") /\ UNCHANGED slot
  /\ UNCHANGED <<failures, tolerated, thrown>>

\* the native function has passed its last item
Exhaust ==
  /\ LibraryRuns
  /\ Top.shown = Count
  /\ Leave(Top.told, Result(Top.fn, "OK"))
  /\ UNCHANGED <<failures, slot, tolerated, thrown>>

\* the native function fails before, between or after its items
Break ==
  /\ LibraryRuns
  /\ Fails
  /\ \E m \in Report : Raise(m)
  /\ Leave(Top.told, "raised")
  /\ UNCHANGED tolerated

\* The client's callback throws, or is empty and std::function throws for
\* it: the exception unwinds the native frames.  Where these cannot be
\* unwound the program ends here, a behaviour that stops before this step.
Unwind ==
  /\ stack # <<>>
  /\ Top.asking
  /\ Leave(Top.told, "raised")
  /\ UNCHANGED <<failures, slot, tolerated, thrown>>

Next ==
  \/ \E fn \in Function : CallAsserted(fn)
  \/ \E fn \in Function : CallTolerated(fn)
  \/ \E fn \in Function : Enter(fn)
  \/ Ask
  \/ \E keep \in BOOLEAN : Answer(keep)
  \/ AskNobody
  \/ Exhaust
  \/ Break
  \/ Unwind

Spec == Init /\ [][Next]_vars

-----------------------------------------------------------------------------
(* Properties.                                                              *)

Stops(told) == {k \in DOMAIN told : ~told[k]}

\* the answer that tells the client that it saw everything, or stopped
SaysComplete(fn, ret) == ret = IF fn \in Notifying THEN "void"
                               ELSE IF fn \in Naming THEN "false" ELSE "true"
SaysStopped(fn, ret) == ret = IF fn \in Naming THEN "true" ELSE "false"

StopIsFinalFor(F) ==
  /\ \A d \in DOMAIN stack : stack[d].fn \in F => Stops(stack[d].told) = {}
  /\ ended # None /\ ended.fn \in F => Stops(ended.told) \subseteq {Len(ended.told)}

HonestReturnFor(F) ==
  ended # None /\ ended.fn \in F =>
    /\ SaysComplete(ended.fn, ended.ret) => Len(ended.told) = Count /\ Stops(ended.told) = {}
    /\ SaysStopped(ended.fn, ended.ret) => Stops(ended.told) # {}

(* A callback that returns false ends its iteration: nothing more is shown  *)
(* to it, whatever other iterations run and end inside its own              *)
(* (repository.hpp:689, repository.hpp:1244, remote.hpp:265).               *)
StopIsFinal == StopIsFinalFor(Conforming)

(* An iteration that returns "complete" showed every item to the callback,  *)
(* which wanted them all; one that returns "stopped by the user" was.       *)
HonestReturn == HonestReturnFor(Conforming)

(* An exception carries the message of the failure it was thrown for, or a  *)
(* message the wrapper left behind when it tolerated an earlier failure, or *)
(* none: never one of a failure that was thrown before.                     *)
MessageOrigin ==
  \A e \in thrown : e.msg # None => e.msg = e.call \/ e.msg \in tolerated

(* Messages reach the client in the order of the failures, each at most     *)
(* once: a later exception never carries the same or an older message.      *)
MessageOrder ==
  \A e, f \in thrown :
    e.call < f.call /\ e.msg # None /\ f.msg # None => e.msg < f.msg
=============================================================================
