------------------------- MODULE DelegationRefinement --------------------------
(* The processes that stop a delegation implement DelegationLedger.           *)
EXTENDS DelegationStop

RequestStands == pending # {}
OpenKind == IF State.open = "admission" THEN "other" ELSE State.open
\* What is open was charged by the event that opened it.
Paid == ~Settled /\ State.charged > journal[HeadSequence - 1].charged

Ledger == INSTANCE DelegationLedger
  WITH grant <- State.grant, governs <- Governs, asked <- RequestStands,
       stopped <- State.stopped, open <- OpenKind, paid <- Paid,
       closed <- Closed

\* Whoever opens, asks, folds, dies or recovers, and in whatever order, the
\* Journal and the retained request are a ledger of the delegation.
ImplementsLedger == Ledger!Spec
==============================================================================
