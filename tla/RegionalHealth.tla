---------------------------- MODULE RegionalHealth ----------------------------
(***************************************************************************)
(* The health of a region: core/regional_health.py, and the readiness        *)
(* endpoint of core/health.py that reports it.  An observation is the        *)
(* outcome of one check, with its age in seconds when it is evaluated.       *)
(***************************************************************************)
EXTENDS Integers

HealthDimension == {"processing", "persistence", "configuration"}
HealthCheckStatus == {"pass", "fail", "unknown"}

HealthObservation ==
    [dimension : HealthDimension, status : HealthCheckStatus,
     age : Int, freshness : Nat \ {0}]

DEFAULT_OBSERVATION_FRESHNESS_SECONDS == 60

is_fresh(o) == 0 <= o.age /\ o.age <= o.freshness

\* observation_from_check, for a check evaluated when it is observed.
observation(name, ok) ==
    [dimension |-> CASE name = "configuration" -> "configuration"
                     [] name = "dynamodb" -> "persistence"
                     [] name = "sqs" -> "processing",
     status |-> IF ok THEN "pass" ELSE "fail",
     age |-> 0,
     freshness |-> DEFAULT_OBSERVATION_FRESHNESS_SECONDS]

-----------------------------------------------------------------------------
(* classify_observations.                                                    *)

Runtime(obs) == {o \in obs : o.dimension # "configuration"}
Classified(obs) == IF Runtime(obs) # {} THEN Runtime(obs) ELSE obs
Statuses(obs) == {o.status : o \in obs}

\* Why the observations say nothing of the region, "" if they do.
Inconclusive(obs) ==
    CASE obs = {} -> "OBSERVATION_MISSING"
      [] \E o \in obs : ~is_fresh(o) -> "OBSERVATION_STALE"
      [] /\ obs # {} /\ \A o \in obs : is_fresh(o)
         /\ "unknown" \in Statuses(obs) -> "OBSERVATION_UNRECOGNIZED"
      [] /\ obs # {} /\ \A o \in obs : is_fresh(o)
         /\ "unknown" \notin Statuses(obs)
         /\ Runtime(obs) = {} /\ "fail" \in Statuses(obs) -> "CONFIGURATION_INVALID"
      [] OTHER -> ""

\* Seeded bug: one dependency that answers makes the region healthy.
classify_observations_Any(obs) ==
    CASE Inconclusive(obs) # "" -> "UNKNOWN"
      [] Inconclusive(obs) = "" /\ "pass" \in Statuses(Classified(obs)) -> "HEALTHY"
      [] OTHER -> "UNAVAILABLE"

classify_observations(obs) ==
    LET statuses == Statuses(Classified(obs)) IN
    CASE Inconclusive(obs) # "" -> "UNKNOWN"
      [] Inconclusive(obs) = "" /\ statuses = {"pass"} -> "HEALTHY"
      [] Inconclusive(obs) = "" /\ statuses = {"fail"} -> "UNAVAILABLE"
      [] OTHER -> "DEGRADED"

-----------------------------------------------------------------------------
(* The readiness endpoint of a site with a loaded configuration.             *)

Dependencies == {"dynamodb", "sqs"}

\* deps: the dependencies that answer the probe.
checks(deps) ==
    {observation("configuration", TRUE)}
        \cup {observation(name, name \in deps) : name \in Dependencies}

ready(deps) ==
    [code |-> IF \A o \in checks(deps) : o.status = "pass" THEN 200 ELSE 503,
     health |-> classify_observations(checks(deps))]

=============================================================================
