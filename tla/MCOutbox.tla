------------------------------ MODULE MCOutbox ------------------------------
(* Model values for Outbox.  The delays keep their order in the code (the    *)
(* delay of an attempt never exceeds the maximum) at one or two ticks.       *)
EXTENDS Outbox, TLC

MCEvents == {1, 2}
MCOneEvent == {1}
MCRetryDelay == (1 :> 1)

\* Two invocations of the same code are interchangeable.
PublisherSymmetry == Permutations(Publishers)
=============================================================================
