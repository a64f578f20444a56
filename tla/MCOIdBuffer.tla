----------------------------- MODULE MCOIdBuffer -----------------------------
(***************************************************************************)
(* Two OId variables, ids of a few bytes, a byte that is zero or not, and   *)
(* what the documentation says of OIds that the code does not keep.          *)
(***************************************************************************)
EXTENDS OIdBuffer, TLC

VarSymmetry == Permutations(Var)

(* What git is given stays in the bytes of the vector (oid.hpp:61: an OId   *)
(* "may be shorter"; the operators of oid.cpp:132 take any OId).            *)
NoOverrun == fault = {}

(* length() is the number of digits given (oid.hpp:72, "If the array        *)
(* contains less than 40 values the resulting OId will be a shortened OId,  *)
(* or a prefix").                                                           *)
LengthIsDigits ==
  \A o \in Var \ outgrown : want[o] # NoId => 2 * size[o] = want[o].digits

(* fromHex sets "the value of the object parsing a hex array" (oid.hpp:66), *)
(* and next gives "The oid of the next object" (revwalk.hpp:221), whatever  *)
(* the OId was before.                                                      *)
DenotesAlways ==
  \A o \in Var : want[o] # NoId =>
    /\ size[o] = want[o].digits \div 2
    /\ \A k \in 1 .. size[o] : mem[o][k] = want[o].bytes[k]
=============================================================================
