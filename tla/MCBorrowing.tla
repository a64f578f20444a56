---------------------------- MODULE MCBorrowing ----------------------------
EXTENDS Borrowing, TLC

CONSTANTS v1, v2, v3, v4, n1, n2, n3

MCVar == {v1, v2, v3, v4}
MCNative == {n1, n2, n3}

MCUsed == Class

MCSymmetry == Permutations(MCVar) \cup Permutations(MCNative)
=============================================================================
