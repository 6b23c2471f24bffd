------------------------------ MODULE MCErasure ------------------------------
(* Instances of ErasureWorkflow for TLC: one post with one or two offers. *)
EXTENDS ErasureWorkflow

CONSTANTS a1, l1, l2, p1, p2

OneOffer == [l \in {l1} |-> a1]
TwoOffers == [l \in {l1, l2} |-> a1]
=============================================================================
