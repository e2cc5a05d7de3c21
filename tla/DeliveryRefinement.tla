------------------------- MODULE DeliveryRefinement --------------------------
(***************************************************************************)
(* The Delivery reducer implements DeliveryLifecycle and DelegationLedger. *)
(***************************************************************************)
EXTENDS DeliveryInvariants

\* Closure binds the admitted boundary on acceptance only: no-ship may also
\* bind one that was merely established.
Verdict ==
  [kind |-> closure.disposition,
   mandate |-> IF closure.disposition = "accepted" THEN closure.boundary ELSE 0,
   work |-> IF closure = NoClosure THEN 0 ELSE closure.candidate]

Lifecycle == INSTANCE DeliveryLifecycle
  WITH standing <- Standing, mandate <- active, work <- candidate.revision,
       verdict <- Verdict

\* The reducer implements the Lifecycle: DELIVERY.md's standings, as derived by
\* replay, move only as a Director was promised, whatever the activities do.
ImplementsLifecycle == Lifecycle!Spec

Doing(ops) == \E a \in Open : acts[a].op \in ops
OpenKind ==
  IF Settled THEN "none"
  ELSE IF Doing(ProductiveOperations) THEN "work"
  ELSE IF Doing(TerminalOperations) THEN "terminal" ELSE "other"

Paid == \E a \in Open : acts[a].reserved
Closed == closure # NoClosure

Ledger == INSTANCE DelegationLedger
  WITH grant <- grant.revision, governs <- GrantGoverns, asked <- FALSE,
       stopped <- grant.stopped, open <- OpenKind, paid <- Paid,
       closed <- Closed

\* The reducer keeps the ledger of a delegation: only a delegation that governs
\* pays, no work goes past one that does, and none is replaced, stopped or left
\* behind under work it paid for.
ImplementsLedger == Ledger!Spec
==============================================================================
