------------------------------ MODULE MCWorker ------------------------------
(* Model values for Worker.                                                  *)
EXTENDS Worker, TLC

CONSTANTS m1, m2, j1

MCJobOf == m1 :> j1 @@ m2 :> j1
MCJobOfOne == m1 :> j1
MCAnalysis == j1 :> "resumeAnalysis"
MCQueued == j1 :> "QUEUED_PENDING_DISPATCH"
=============================================================================
