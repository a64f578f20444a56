---------------------------- MODULE MCIndexFile ----------------------------
EXTENDS IndexFile, TLC

CONSTANTS repo, other, a, b, x, y

MCMemory == {repo, other}
MCPath == {a, b}
MCBlob == {x, y}
\* trees with a file at one path and none at the other
MCTree == {t \in [MCPath -> MCBlob \cup {None}] : t[a] \in MCBlob /\ t[b] = None}

MCPathspec == {{}, {a}}

MCSymmetry == Permutations(MCBlob)
=============================================================================
