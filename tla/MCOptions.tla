------------------------------ MODULE MCOptions ------------------------------
EXTENDS Options, TLC

CONSTANTS a1, a2, a3, a4, a5

MCAddr == {a1, a2, a3, a4, a5}

\* one method of each kind
Typical == {"diffTreeToTree", "checkoutTree", "resetDefault", "listTags"}

MCSymmetry == Permutations(MCAddr)

(* diff.hpp:51-52, of the notification callback of a diff: "returns 0, the  *)
(* delta is inserted into the diff list, and the diff process continues."   *)
NotifiedDiffContinues ==
  \A d \in DOMAIN stack : stack[d].list # None => stack[d].list \in lists
=============================================================================
