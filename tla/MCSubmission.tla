---------------------------- MODULE MCSubmission ----------------------------
(* Model values for Submission.                                              *)
EXTENDS Submission, TLC

CONSTANTS r1, r2, r3, r4, b1, b2

\* The first request, its retries, and one that reuses the key for another body.
MCBody == r1 :> b1 @@ r2 :> b1 @@ r3 :> b1 @@ r4 :> b2
MCSameBody == r1 :> b1 @@ r2 :> b1

RetrySymmetry == Permutations({r1, r2, r3})
=============================================================================
