--------------------------- MODULE WorkflowState ---------------------------
(***************************************************************************)
(* The workflow status vocabulary and its transition matrix                 *)
(* (core/workflow_state.py), and the statuses a worker may claim from.       *)
(***************************************************************************)

FailedStatus == {"FAILED_PERMANENT", "FAILED_RETRY_EXHAUSTED"}
TERMINAL_STATUSES == FailedStatus \cup {"completed"}

\* RESULT_READY is RESULT_READY_PENDING_CHILD_DISPATCH.
WORKFLOW_TRANSITIONS ==
    [ANALYSIS_IN_PROGRESS |-> {"QUEUED_PENDING_DISPATCH", "WORKER_PROCESSING"},
     processing |-> {"QUEUED_PENDING_DISPATCH", "WORKER_PROCESSING"},
     waiting |-> {"QUEUED_PENDING_DISPATCH", "WORKER_PROCESSING"},
     QUEUED_PENDING_DISPATCH |-> {"QUEUED", "WORKER_PROCESSING"},
     QUEUED |-> {"WORKER_PROCESSING"},
     WORKER_PROCESSING |->
        {"WORKER_PROCESSING", "RESULT_READY", "FAILED_RETRYABLE"}
            \cup TERMINAL_STATUSES,
     RESULT_READY |-> {"WORKER_PROCESSING", "completed"},
     FAILED_RETRYABLE |-> {"WORKER_PROCESSING"},
     completed |-> {},
     FAILED_PERMANENT |-> {},
     FAILED_RETRY_EXHAUSTED |-> {}]

known_statuses == DOMAIN WORKFLOW_TRANSITIONS

can_transition(current, target) ==
    current \in known_statuses /\ target \in WORKFLOW_TRANSITIONS[current]

claimable_statuses(jobType) ==
    {s \in {"processing", "QUEUED_PENDING_DISPATCH", "QUEUED",
            "FAILED_RETRYABLE", "waiting", "RESULT_READY"} :
        /\ can_transition(s, "WORKER_PROCESSING")
        /\ s = "waiting" => jobType \in {"resumeTailoring", "interviewPreparation"}
        /\ s = "RESULT_READY" => jobType = "jobMatch"}

=============================================================================
