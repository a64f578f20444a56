------------------------------ MODULE MCRevWalk ------------------------------
EXTENDS RevWalk, TLC

CONSTANTS c1, c2, c3

\* a commit with two children
MCCommit == {c1, c2, c3}
MCParents == (c1 :> {}) @@ (c2 :> {c1}) @@ (c3 :> {c1})
MCName == {HEAD}

(* revwalk.hpp:118, of push(const Reference&): "@param reference the        *)
(* reference to strat from."                                                *)
ReferencesAreStarts ==
  client = "over" /\ astray \subseteq {"reference"} =>
    shown = Wanted(meant.starts, meant.hides)

(* revwalk.hpp:229: "Changing the sorting mode resets the walker."          *)
SortingResets ==
  client = "over" /\ astray \subseteq {"sorted"} =>
    shown = Wanted(meant.starts, meant.hides)

(* revwalk.hpp:77: "The revision walk is automatically reset when a walk is *)
(* over."                                                                   *)
OverIsReset == client = "over" => IsBlank

(* revwalk.hpp:222, of next: "@return True if the object was found."  A     *)
(* client takes false for the end of the walk.                              *)
FalseIsTheEnd ==
  Ended /\ astray = {} => shown = Wanted(meant.starts, meant.hides)
=============================================================================
