---------------------------- MODULE MCReferences ----------------------------
EXTENDS References, TLC

CONSTANTS main, topic, light, o1, o2, h1, h2

MCBranch == {main, topic}
MCName == {HEAD, main, topic, light}
MCOid == {o1, o2}
MCHandle == {h1, h2}

\* nothing tells the ids apart, nor the objects
MCSymmetry == Permutations(MCOid) \cup Permutations(MCHandle)

-----------------------------------------------------------------------------
(* What the documentation says, and the code does not do.                   *)

(* ref.hpp:178-180: setTarget "marks the reference as modified; changes     *)
(* won't take effect until it is manually written back to disk".  ref.cpp   *)
(* writes at once, and there is no method that writes back.                 *)
TargetsAreDeferred ==
  [][\A h \in Handle, o \in Oid : SetTarget(h, o) => store' = store]_vars
=============================================================================
