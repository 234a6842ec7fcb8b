----------------------------- MODULE MCAsBuilt -----------------------------
(* Instances of AsBuilt for TLC.                                            *)
EXTENDS AsBuilt, TLC

CONSTANTS p1, p2, p3, s1, s2

\* p3 needs ArcFM; the others are alike, and so are the sessions.
MCSymmetry == Permutations({p1, p2}) \cup Permutations({s1, s2})
                \cup Permutations(Batches)
=============================================================================
