-------------------------------- MODULE Regions --------------------------------
(***************************************************************************)
(* The decisions about regions, as operators: core/region_routing.py,        *)
(* core/work_placement.py, core/regional_transport.py,                       *)
(* core/processing_ownership.py and core/synthetic_placement.py.             *)
(*                                                                           *)
(* A region is a name; None is the blank one.  The sites of a deployment are *)
(* configured with the same topology.                                        *)
(***************************************************************************)

CONSTANTS
    Regions,     \* region names
    Configured,  \* primary_region and secondary_regions of the topology
    Witness,     \* witness_region of the table, or None
    Queues,      \* regions whose queue name the publishers are configured with
    None

ASSUME RegionsAssumption ==
    /\ Configured \subseteq Regions
    /\ Queues \subseteq Regions
    /\ None \notin Regions
    /\ Witness \in Regions \cup {None}

MaybeRegion == Regions \cup {None}

-----------------------------------------------------------------------------
(* work_placement and region_routing.                                        *)

\* WorkOwnershipResolver.resolve.
resolve(current, owner, allowDefault) ==
    CASE owner = None /\ ~allowDefault -> [status |-> "UNRESOLVED", owner |-> None]
      [] owner = None /\ allowDefault -> [status |-> "RESOLVED", owner |-> current]
      [] owner # None /\ owner \notin Configured -> [status |-> "INVALID", owner |-> owner]
      [] OTHER -> [status |-> "RESOLVED", owner |-> owner]

\* RegionRoutingService.decide.
decide(current, owner) ==
    CASE owner \in {None, current} -> [action |-> "EXECUTE_LOCAL", region |-> current]
      [] owner \in Configured \ {current} ->
            [action |-> "NON_LOCAL_REGION", region |-> owner]
      [] OTHER -> [action |-> "REJECT", region |-> None]

\* Seeded bug: an event without an owner is not placed.
evaluate_Strict(current, owner) ==
    LET ownership == resolve(current, owner, FALSE) IN
    IF ownership.status = "RESOLVED" THEN decide(current, ownership.owner)
    ELSE [action |-> ownership.status, region |-> None]

\* WorkPlacementService.evaluate: without an owner there is no routing decision.
evaluate(current, owner) ==
    LET ownership == resolve(current, owner, TRUE) IN
    IF ownership.status = "RESOLVED" THEN decide(current, ownership.owner)
    ELSE [action |-> ownership.status, region |-> None]

\* resolve_synthetic_owner_region: the owners a validation header may ask for.
AllowedOverrides(current) ==
    {owner \in Regions \ {Witness} :
        resolve(current, owner, FALSE).status = "RESOLVED"}

-----------------------------------------------------------------------------
(* Sending.                                                                  *)

\* SqsRegionalTransport.deliver; reachable: the regions whose SQS answers.
deliver(current, owner, reachable) ==
    CASE owner = current -> "NOOP_LOCAL"
      [] owner # current /\ owner \notin Queues -> "UNSUPPORTED_REGION"
      [] OTHER -> IF owner \in reachable THEN "DELIVERED" ELSE "DELIVERY_FAILED"

\* Seeded bug: a delivery that is not local goes to the local queue.
publish_Local(current, owner, reachable) ==
    IF current \in reachable THEN current ELSE None

\* PlacementAwareEventPublisher.publish: the region whose queue gets the message
\* of an event with this owner, None if publish raises.
publish(current, owner, reachable) ==
    LET placement == evaluate(current, owner) IN
    CASE placement.action = "EXECUTE_LOCAL" ->
            IF current \in reachable THEN current ELSE None
      [] placement.action = "NON_LOCAL_REGION" ->
            IF deliver(current, placement.region, reachable) = "DELIVERED"
            THEN placement.region ELSE None
      [] OTHER -> None

-----------------------------------------------------------------------------
(* Ownership of records and of their processing.                             *)

\* storage.item_with_owner_region.
OwnerOf(owner, created) == IF owner # None THEN owner ELSE created

\* Seeded bug: any configured region passes for the owner.
evaluate_processing_ownership_Any(current, messageOwner, persistedOwner) ==
    IF current \in Configured THEN "AUTHORIZED" ELSE "REJECTED"

\* evaluate_processing_ownership.
evaluate_processing_ownership(current, messageOwner, persistedOwner) ==
    LET authoritative == IF persistedOwner # None THEN persistedOwner ELSE messageOwner IN
    CASE current = None -> "REJECTED"
      [] current # None /\ persistedOwner # None /\ messageOwner # None
            /\ persistedOwner # messageOwner -> "REJECTED"
      [] OTHER -> CASE authoritative = None -> "LEGACY_LOCAL"
                    [] authoritative = current -> "AUTHORIZED"
                    [] OTHER -> "REJECTED"

authorized(current, messageOwner, persistedOwner) ==
    evaluate_processing_ownership(current, messageOwner, persistedOwner)
        \in {"AUTHORIZED", "LEGACY_LOCAL"}

=============================================================================
