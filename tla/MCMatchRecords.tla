---------------------------- MODULE MCMatchRecords ----------------------------
(* Model values for MatchRecords.                                            *)
EXTENDS MatchRecords, TLC

CONSTANTS r1, r2, r3, k1, k2, d1, d2

MCKey == r1 :> k1 @@ r2 :> k1 @@ r3 :> k2
AlikeSymmetry == Permutations({r1, r2}) \cup Permutations({d1, d2})
=============================================================================
