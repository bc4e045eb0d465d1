---------------------------- MODULE AtLeastOnce ----------------------------
(***************************************************************************)
(* What an outbox promises the code that writes to it (the module docstring *)
(* of core/storage.py and OUTBOX_OPERATIONS.md): from its activation on an  *)
(* event is owed to the processing queue; it is offered there any number of *)
(* times, and it ends delivered, after at least one offer was accepted, or  *)
(* abandoned to an operator, who may reopen it.                             *)
(***************************************************************************)
EXTENDS Naturals

CONSTANT Events

VARIABLES
    state,      \* state[e]: where event e stands
    accepted    \* accepted[e]: messages the queue has accepted for e

vars == <<state, accepted>>

Init ==
    /\ state = [e \in Events |-> "unpublished"]
    /\ accepted = [e \in Events |-> 0]

\* Moves e between two states.
Move(e, from, to) ==
    /\ state[e] = from
    /\ state' = [state EXCEPT ![e] = to]
    /\ UNCHANGED accepted

Publish(e) == Move(e, "unpublished", "owed")

Accept(e) ==
    /\ state[e] = "owed"
    /\ accepted' = [accepted EXCEPT ![e] = @ + 1]
    /\ UNCHANGED state

Deliver(e) == accepted[e] > 0 /\ Move(e, "owed", "delivered")

Abandon(e) == Move(e, "owed", "abandoned")

Reopen(e) == Move(e, "abandoned", "owed")

Next == \E e \in Events :
    Publish(e) \/ Accept(e) \/ Deliver(e) \/ Abandon(e) \/ Reopen(e)

Spec ==
    /\ Init
    /\ [][Next]_vars
    /\ \A e \in Events : WF_vars(Deliver(e) \/ Abandon(e))

=============================================================================
