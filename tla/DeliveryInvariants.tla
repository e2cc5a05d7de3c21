------------------------- MODULE DeliveryInvariants --------------------------
(***************************************************************************)
(* What must hold of every journal the Delivery reducer accepts.           *)
(***************************************************************************)
EXTENDS DeliveryReducer

\* At most one activity is open, and an open activity always owes an exact
\* recovery obligation: eligibleDeliveryOperations is the only thing that keeps
\* a second activity from opening, and every reducer step rewrites the
\* obligation (delivery-reducer.ts, operation-registry.ts).
OneOpenActivity ==
  /\ \A a, b \in Open : a = b
  /\ \A a \in Open : acts[a].resumes # "none"

\* Seal, Evidence Packet and readiness always speak of the current candidate
\* under the current boundary: whatever moves one of the two discards them.
ProofIsCurrent ==
  /\ seal # NoSeal =>
       seal.candidate = candidate.revision /\ seal.boundary = active
  /\ evidence # NoEvidence =>
       /\ evidence.seal = seal.serial
       /\ evidence.candidate = candidate.revision /\ evidence.boundary = active
  /\ (readiness # "none") <=> (evidence # NoEvidence)

\* A boundary's complete required baseline set is legal for its modalities.
BaselineEstablished(b) ==
  /\ boundaries[b].mandate.baseline \subseteq Received(boundaries[b].checks)
  /\ LegalBaselineSet(boundaries[b].checks)

\* Only a boundary whose whole baseline was established is ever proposed or
\* admitted, even when earlier attempts at that revision's activity failed.
AdmittedBaseline ==
  /\ proposed # 0 => BaselineEstablished(proposed)
  /\ active # 0 => BaselineEstablished(active)

\* Acceptance-ready evidence was produced on an integrated candidate, from
\* every required final Check of the admitted mandate, each acceptable.
AcceptanceReadyIsProven ==
  readiness = "acceptance-ready" =>
    /\ integrated
    /\ boundaries[active].mandate.final \subseteq Received(evidence.final)
    /\ LegalFinalSet(evidence.final)
    /\ BaselineEstablished(active)

\* An accepted Closure names the very candidate, boundary and Seal that the
\* acceptance-ready packet was made for, and no condition was pending.
AcceptedIsProven ==
  closure.disposition = "accepted" =>
    /\ readiness = "acceptance-ready" /\ condition = "none" /\ integrated
    /\ closure.candidate = evidence.candidate /\ closure.candidate # 0
    /\ closure.boundary = evidence.boundary
    /\ closure.seal = evidence.seal /\ closure.seal = seal.serial

\* Acceptance rests on proof at both ends: when it becomes possible and in the
\* Closure that retains it, however many steps and retries lie between.
AcceptanceIsProven == AcceptanceReadyIsProven /\ AcceptedIsProven

\* Between its authentication and its observed effect a Director Decision
\* still selects the current subjects: nothing it was made about has moved.
DecisionIsCurrent ==
  \A a \in Open :
    acts[a].decision # NoDecision /\ acts[a].observed = "none" =>
      acts[a].decision = SelectedSubjects(DecisionKind(acts[a]))

\* A candidate exists only under an admitted boundary and is governed by it,
\* except while an applied readmission has not yet rebound the candidate; then
\* the open admission owes exactly that observation.
CandidateIsGoverned ==
  candidate # NoCandidate =>
    /\ active # 0
    /\ \/ candidate.boundary = active
       \/ \E a \in Open : /\ acts[a].op = "admit" /\ acts[a].observed = "applied"
                          /\ acts[a].resumes = "candidate-revision-observed"

\* The mandate governs: what is admitted had its whole baseline, and what is
\* built is built under what is admitted.
MandateGoverns == AdmittedBaseline /\ CandidateIsGoverned

\* Closure is terminal for the whole Delivery: no activity is left open, which
\* assertSealableState relies on.
ClosureSettles == closure # NoClosure => Settled

\* A Delivery that is not closed always offers its Director something to do:
\* an eligible operation, or the recovery of the open activity.
NoAccidentalSink == Live => MustRecover \/ EligibleOperations # {}

\* The candidate condition published to readers agrees with the operations the
\* registry offers: they are computed from different facts.
PublishedConditionAgrees ==
  Live /\ Settled /\ candidate # NoCandidate =>
    /\ (CandidateCondition = "ready-for-decision") <=> ("accept" \in EligibleOperations)
    /\ (CandidateCondition = "paused-for-boundary") <=>
         (Standing \in {"boundary-paused", "awaiting-readmission"})
    /\ CandidateCondition \notin {"terminal-recovery", "in-progress"}

\* What a Director is shown and offered is sound: something can always be done,
\* and the published condition says the same as the eligible operations.
OfferIsSound == NoAccidentalSink /\ PublishedConditionAgrees

\* While a Material Condition is unresolved the frozen candidate does not
\* change: no integration, builder or admission step may slip past it.
FrozenCandidate ==
  [][condition # "none" /\ condition' # "none" => candidate' = candidate]_vars

\* Work is charged within the current delegation, across replacements: a
\* replacement may not erase what is already reserved.
ChargedWithinCeilings ==
  grant.revision # 0 => \A r \in Resource : charged[r] <= grant.ceilings[r]

\* Work opened on a reservation stays under the delegation that paid for it:
\* until it settles the delegation is neither stopped, replaced nor left behind
\* by another boundary.
ReservedWorkIsGoverned ==
  \A a \in Open : acts[a].reserved =>
    /\ GrantGoverns /\ ~grant.stopped
    /\ acts[a].op \in grant.operations

------------------------------------------------------------------------------
(* Inductive strengthenings.  None is a property of its own: they say how  *)
(* far an open activity has come, which the reducer's guards rely on.      *)

\* The boundary an activity finalized is retained, and only an idle slot is
\* without an operation.
ActivityFacts ==
  \A a \in Activity :
    /\ acts[a].boundary <= Len(boundaries)
    /\ a \in Open => acts[a].op \in Operations

TypeInv == TypeOK /\ ActivityFacts

\* A Seal an activity carries is the current one and belongs to an evaluation.
OwnSeal(t) == t.seal # NoSeal => t.op = "evaluate" /\ t.seal = seal

\* Effects come after their intent, and a transaction's after its decision.
EffectOrder(t) ==
  /\ t.outcome # "none" => t.intended
  /\ t.observed # "none" => t.intended
  /\ Family(t.op) = "transaction" /\ t.intended => t.decision # NoDecision
  /\ t.decision # NoDecision => Family(t.op) = "transaction"

\* An activity that finalized a boundary has nothing left but its baseline,
\* and offers completion only after the last required receipt.
BaselineOrder(t) ==
  t.boundary # 0 =>
    /\ t.op \in BoundaryOperations
    /\ CoreTerminal(t) /\ t.receipt
    /\ t.resumes \in {"baseline-checks", "activity-completed"}
    /\ t.resumes = "activity-completed" =>
         boundaries[t.boundary].mandate.baseline
           \subseteq Received(boundaries[t.boundary].checks)

\* An evaluation is of an integrated candidate, and its attempt comes after
\* every final Check of the mandate.
EvaluationOrder(t) ==
  t.op = "evaluate" =>
    /\ integrated
    /\ t.attempt => active # 0 /\ boundaries[active].mandate.final
                                    \subseteq Received(t.checks)

\* An open acceptance still stands on the evidence that made it eligible.
AcceptanceStands(t) ==
  t.op = "accept" => readiness = "acceptance-ready" /\ condition = "none"

OpenFacts ==
  \A a \in Open :
    /\ OwnSeal(acts[a]) /\ EffectOrder(acts[a]) /\ BaselineOrder(acts[a])
    /\ EvaluationOrder(acts[a]) /\ AcceptanceStands(acts[a])

\* A current candidate has a revision, and readiness needs an admitted boundary.
SubjectsNumbered ==
  /\ candidate # NoCandidate => candidate.revision # 0
  /\ readiness # "none" => active # 0

SafetyInv ==
  /\ TypeInv /\ OneOpenActivity /\ OpenFacts /\ SubjectsNumbered
  /\ ProofIsCurrent /\ AdmittedBaseline /\ AcceptanceReadyIsProven
  /\ AcceptedIsProven /\ DecisionIsCurrent /\ CandidateIsGoverned
  /\ ClosureSettles

------------------------------------------------------------------------------
\* The recovery registry, DELIVERY.md "compile the exact next Work Boundary
\* revision, or retain unsuccessful activity completion when the frozen
\* semantics and exact basis deterministically refuse compilation": the next
\* revision is still free when the activity has to finalize it.
NextBoundaryIsFree ==
  \A a \in Open :
    acts[a].resumes = "work-boundary-finalized" =>
      RevisionFree(NextBoundary(acts[a].op))
==============================================================================
