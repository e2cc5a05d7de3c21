------------------------------- MODULE MCStop --------------------------------
(* Two callers of Stop against a run of delegated work and a writer.          *)
EXTENDS DelegationRefinement

MCCallers == {"c1", "c2"}
=============================================================================
