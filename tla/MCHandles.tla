------------------------------ MODULE MCHandles ------------------------------
(***************************************************************************)
(* Two repository handles, an object and a commit handle for a cached      *)
(* commit and a cached tag, two index handles for the repository's index   *)
(* and a stand-alone one, and a reference handle for two native references.*)
(***************************************************************************)
EXTENDS Handles, TLC

CONSTANTS p, q, o, c, i1, i2, r,  \* wrapper objects
          R, C, T, I, J, F, G     \* native objects

MCHandle == {p, q, o, c, i1, i2, r}
MCNative == {R, C, T, I, J, F, G}

MCClassOf ==
  [h \in MCHandle |->
    CASE h \in {p, q}   -> "Repository"
      [] h = o          -> "Object"
      [] h = c          -> "Commit"
      [] h \in {i1, i2} -> "Index"
      [] h = r          -> "Reference"]

MCKindOf ==
  [n \in MCNative |->
    CASE n = R          -> "Repository"
      [] n = C          -> "Commit"
      [] n = T          -> "Tag"
      [] n \in {I, J}   -> "Index"
      [] n \in {F, G}   -> "Reference"]

MCHomeOf == [n \in MCNative |-> IF n \in {R, J} THEN Null ELSE R]

NoCopies == {}

\* the client copies an Index, or passes one by value
CopiesIndex == {"Index"}

\* the control blocks are interchangeable
BlockSymmetry == Permutations(Block)
=============================================================================
