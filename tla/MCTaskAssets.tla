---------------------------- MODULE MCTaskAssets ----------------------------
(* Two roots, two commands of any kind at once.  One source has both roots, *)
(* the other lacks one.                                                     *)
EXTENDS TaskAssets, TLC

CONSTANTS p1, p2, v1, v2, s1, s2, s3, s4

MCProcs    == {p1, p2}
MCRoots    == 1..2
MCOrder    == [r \in MCRoots |-> r]
MCVersions == {v1, v2}
MCStamps   == {s1, s2, s3, s4}
MCSources  == {[r \in MCRoots |-> v1], [r \in MCRoots |-> IF r = 1 THEN v2 ELSE NoFiles]}

Interchangeable == Permutations(MCProcs) \cup Permutations(MCStamps)
=============================================================================
