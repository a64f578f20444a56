------------------------------ MODULE Ownership ------------------------------
(***************************************************************************)
(* What the classes of libgit2pp promise about native libgit2 objects,     *)
(* with no control blocks, no counters and no pointers: an object exists   *)
(* exactly as long as somebody owns it.  An owner is a C++ variable        *)
(* (Handle) or another native object (the repository, which keeps its      *)
(* index and its cached objects).  A client that handles an object in a    *)
(* way its class does not support forfeits the promise for this object,    *)
(* for good, and for no other.                                             *)
(***************************************************************************)
EXTENDS FiniteSets

CONSTANTS Handle, \* the variables of the program
          Native  \* the native objects libgit2 allocates, none of them a Handle

VARIABLES live,      \* the native objects that exist
          owners,    \* owners[n]: who keeps n alive
          forfeited  \* the native objects nothing is promised about any more

vars == <<live, owners, forfeited>>

Init ==
  /\ live = {}
  /\ owners = [n \in Native |-> {}]
  /\ forfeited \subseteq Native

(* An object dies in the very step in which its last owner lets go of it,   *)
(* never before and never later; this is also its only death.               *)
LivesWhileOwned ==
  \A n \in Native \ forfeited' : n \in live' <=> owners'[n] # {}

(* What owns an object is a variable, or a native object that exists: a     *)
(* dead one owns nothing, and what it kept goes with it.                    *)
DeadOwnNothing ==
  \A n \in Native \ forfeited' : owners'[n] \ Handle \subseteq live'

(* A step is taken on behalf of one variable: no other one gains or loses   *)
(* an object by it.                                                         *)
OneHandleActs ==
  \E h \in Handle : \A n \in Native :
    owners'[n] \cap (Handle \ {h}) = owners[n] \cap (Handle \ {h})

Next ==
  /\ DOMAIN owners' = Native
  /\ live' \subseteq Native
  /\ forfeited' \subseteq Native /\ forfeited \subseteq forfeited'
  /\ LivesWhileOwned
  /\ DeadOwnNothing
  /\ OneHandleActs

Spec == Init /\ [][Next]_vars
=============================================================================
