----------------------------- MODULE MCJobMatch -----------------------------
(* Model values for JobMatch.                                                *)
EXTENDS JobMatch, TLC

CONSTANTS m1, c1, c2, c3, i1, match, tailoring, interview

MCJobOf == m1 :> match @@ c1 :> tailoring @@ c2 :> tailoring @@ c3 :> tailoring
MCJobType == match :> "jobMatch" @@ tailoring :> "resumeTailoring"
MCInitialStatus == match :> "QUEUED_PENDING_DISPATCH" @@ tailoring :> "waiting"

MCTwoJobOf == m1 :> match @@ c1 :> tailoring @@ i1 :> interview
MCTwoJobType == MCJobType @@ interview :> "interviewPreparation"
MCTwoInitialStatus == MCInitialStatus @@ interview :> "waiting"

ChildMessageSymmetry == Permutations({c1, c2, c3})
=============================================================================
