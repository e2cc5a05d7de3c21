--------------------- MODULE DeliveryImplementationProofs ---------------------
(***************************************************************************)
(* The Delivery reducer implements DeliveryLifecycle, and what it offers   *)
(* and charges is sound, for every value of its constants.                 *)
(*                                                                         *)
(* SafetyInv says what an open activity has done.  Here it is joined with  *)
(* why that was still allowed when it was done: while an activity is open  *)
(* the Delivery stays where the operation may stand (Stands), and what is  *)
(* proposed is later than what is admitted (Ordered).                      *)
(***************************************************************************)
EXTENDS DeliveryRefinement, DeliverySafetyProofs

\* A proposal is of a later boundary and stands only while work is paused or
\* has not begun; a packet keeps its Seal.
Ordered ==
  /\ proposed # 0 => proposed > active
  /\ active # 0 /\ condition = "none" => proposed = 0
  /\ evidence # NoEvidence => seal # NoSeal

\* Where the Delivery stands while an activity of this operation is open.
Stands(t) ==
  /\ t.op = "prepare" => active = 0 /\ proposed = 0 /\ condition = "none"
  /\ t.op \in {"revise", "reaffirm"} => condition # "none" /\ proposed = 0
  /\ t.op = "admit" /\ t.observed = "applied" => condition = "none"
  /\ t.op = "admit" /\ t.observed # "applied" => proposed # 0
  /\ t.op = "integrate" /\ t.successor = 0 => condition = "none"
  /\ t.op = "continue" =>
       condition = "none" \/ t.receipt \/ (t.refusal # "absent" /\ ~t.attempt)
  /\ t.op = "evaluate" /\ ~t.packet => readiness # "acceptance-ready"
  /\ t.packet => t.seal # NoSeal
  /\ t.boundary # 0 => t.boundary > active

OpenStands == \A a \in Open : Stands(acts[a])

OrderInv == SafetyInv /\ Ordered /\ OpenStands

\* What is shown of every step besides.
Advances == [Lifecycle!Next]_(Lifecycle!vars)
Frozen == condition # "none" /\ condition' # "none" => candidate' = candidate
Holds == Ordered' /\ OpenStands' /\ Advances /\ Frozen

------------------------------------------------------------------------------
(* Steps that leave the subjects alone                                     *)

Subjects == <<proposed, active, candidate, condition, seal, evidence, readiness,
              closure>>

LEMMA SubjectsStay ==
  ASSUME OrderInv, UNCHANGED Subjects
  PROVE  Ordered' /\ Advances /\ Frozen
<1>1. /\ proposed' = proposed /\ active' = active /\ candidate' = candidate
      /\ condition' = condition /\ seal' = seal /\ evidence' = evidence
      /\ readiness' = readiness /\ closure' = closure
  BY DEF Subjects
<1>2. Ordered'
  BY <1>1 DEF OrderInv, Ordered
<1>3. UNCHANGED Lifecycle!vars
  BY <1>1 DEF Lifecycle!vars, Standing, Verdict
<1> QED
  BY <1>1, <1>2, <1>3 DEF Advances, Frozen

\* Only the activity of the step can lose its standing.
LEMMA OthersStand ==
  ASSUME OneOpenActivity, NEW a \in Open,
         \A b \in Activity : b # a => acts'[b] = acts[b],
         acts'[a].stage # "idle" => Stands(acts[a])'
  PROVE  OpenStands'
<1>1. \A b \in Activity : b \in Open' => b = a
  BY DEF OneOpenActivity, Open
<1>2. \A b \in Open' : b \in Activity /\ b = a /\ acts'[b].stage # "idle"
  BY <1>1 DEF Open
<1> QED
  BY <1>2 DEF OpenStands

\* What an event that changes its activity alone may not take back.
Keeps(t, u) ==
  /\ u.op = t.op /\ u.successor = t.successor /\ u.packet = t.packet
  /\ u.boundary = t.boundary /\ u.seal = t.seal
  /\ t.receipt => u.receipt
  /\ t.refusal # "absent" /\ ~t.attempt => u.refusal # "absent" /\ ~u.attempt
  /\ t.op = "admit" => ((u.observed = "applied") <=> (t.observed = "applied"))

LEMMA ActivityAlone ==
  ASSUME OrderInv, NEW a \in Open, UNCHANGED Subjects,
         \A b \in Activity : b # a => acts'[b] = acts[b],
         Keeps(acts[a], acts'[a])
  PROVE  Holds
<1>1. Ordered' /\ Advances /\ Frozen
  BY SubjectsStay
<1>2. Stands(acts[a])
  BY DEF OrderInv, OpenStands
<1>3. Stands(acts[a])'
  BY <1>2 DEF Stands, Keeps, Subjects
<1>4. OpenStands'
  BY <1>3, OthersStand DEF OrderInv, SafetyInv
<1> QED
  BY <1>1, <1>4 DEF Holds

LEMMA Typed ==
  ASSUME OrderInv, NEW a \in Open
  PROVE  /\ a \in Activity /\ acts \in [Activity -> ActivityType]
         /\ acts[a] \in ActivityType /\ acts[a].op \in Operations
         /\ OneOpenActivity /\ Stands(acts[a])
BY DEF OrderInv, SafetyInv, TypeInv, TypeOK, ActivityFacts, Open, OpenStands

\* The events of an agent that select no subject.
LEMMA AgentAlone ==
  ASSUME OrderInv, NEW a \in Activity,
         \/ \E x \in {"none", "projection-condition-required"} :
              RefuseAgentBeforeIntent(a, x)
         \/ PrepareAttempt(a)
         \/ IntendProviderEffect(a)
         \/ \E x \in {"completed", "failed", "not-started"} : ObserveProviderEffect(a, x)
         \/ \E x \in {"ordinary", "material-condition"} : SubmitWorkProduct(a, x)
         \/ AbandonWorkProduct(a)
         \/ RecordReceipt(a)
         \/ \E s \in Selection, d \in Dispositions : RecordFinalReceipt(a, s, d)
  PROVE  Holds
<1> DEFINE t == acts[a]
<1>1. a \in Open /\ OnlyActivity
  BY DEF RefuseAgentBeforeIntent, PrepareAttempt, IntendProviderEffect,
     ObserveProviderEffect, SubmitWorkProduct, AbandonWorkProduct, DisposeWorkProduct,
     RecordReceipt, RecordFinalReceipt, On
<1>2. t \in ActivityType /\ acts \in [Activity -> ActivityType]
  BY <1>1, Typed
<1>3. UNCHANGED Subjects
  BY <1>1 DEF OnlyActivity, subjectVars, Subjects
<1>4. Keeps(t, acts'[a]) /\ \A b \in Activity : b # a => acts'[b] = acts[b]
  <2>1. CASE \E x \in {"none", "projection-condition-required"} :
               RefuseAgentBeforeIntent(a, x)
    BY <1>2, <2>1 DEF Keeps, RefuseAgentBeforeIntent, Advance, ActivityType
  <2>2. CASE PrepareAttempt(a)
    BY <1>2, <2>2 DEF Keeps, PrepareAttempt, Advance, ActivityType
  <2>3. CASE IntendProviderEffect(a)
    BY <1>2, <2>3 DEF Keeps, IntendProviderEffect, Advance, ActivityType
  <2>4. CASE \E x \in {"completed", "failed", "not-started"} :
               ObserveProviderEffect(a, x)
    BY <1>2, <2>4 DEF Keeps, ObserveProviderEffect, Advance, ActivityType
  <2>5. CASE \E x \in {"ordinary", "material-condition"} : SubmitWorkProduct(a, x)
    BY <1>2, <2>5 DEF Keeps, SubmitWorkProduct, DisposeWorkProduct, Advance, ActivityType
  <2>6. CASE AbandonWorkProduct(a)
    BY <1>2, <2>6 DEF Keeps, AbandonWorkProduct, DisposeWorkProduct, Advance, ActivityType
  <2>7. CASE RecordReceipt(a)
    BY <1>2, <2>7 DEF Keeps, RecordReceipt, Advance, ActivityType
  <2>8. CASE \E s \in Selection, d \in Dispositions : RecordFinalReceipt(a, s, d)
    <3>1. PICK c : acts' = [acts EXCEPT ![a] =
                              [t EXCEPT !.checks = c, !.resumes = "evaluation-checks"]]
      BY <2>8 DEF RecordFinalReceipt, Advance
    <3> QED
      BY <1>2, <3>1 DEF Keeps, ActivityType
  <2> QED
    BY <2>1, <2>2, <2>3, <2>4, <2>5, <2>6, <2>7, <2>8
<1> QED
  BY <1>1, <1>3, <1>4, ActivityAlone

\* The events of an integration or a transaction that select no subject.
LEMMA OtherAlone ==
  ASSUME OrderInv, NEW a \in Activity,
         \/ \E x \in {"unchanged", "requires-readmission", "not-constructed"} :
              AssessIntegration(a, x)
         \/ AuthenticateDecision(a)
         \/ IntendTransactionEffect(a)
         \/ ObserveIndeterminate(a)
         \/ ObserveNotApplied(a)
  PROVE  Holds
<1> DEFINE t == acts[a]
<1>1. a \in Open /\ OnlyActivity
  BY DEF AssessIntegration, AuthenticateDecision, IntendTransactionEffect,
     ObserveIndeterminate, ObserveNotApplied, On
<1>2. t \in ActivityType /\ acts \in [Activity -> ActivityType]
  BY <1>1, Typed
<1>3. UNCHANGED Subjects
  BY <1>1 DEF OnlyActivity, subjectVars, Subjects
<1>4. Keeps(t, acts'[a]) /\ \A b \in Activity : b # a => acts'[b] = acts[b]
  <2>1. CASE \E x \in {"unchanged", "requires-readmission", "not-constructed"} :
               AssessIntegration(a, x)
    BY <1>2, <2>1 DEF Keeps, AssessIntegration, Advance, ActivityType
  <2>2. CASE AuthenticateDecision(a)
    BY <1>2, <2>2 DEF Keeps, AuthenticateDecision, Advance, ActivityType
  <2>3. CASE IntendTransactionEffect(a)
    BY <1>2, <2>3 DEF Keeps, IntendTransactionEffect, Advance, ActivityType
  <2>4. CASE ObserveIndeterminate(a)
    BY <1>2, <2>4 DEF Keeps, ObserveIndeterminate, Advance, ActivityType
  <2>5. CASE ObserveNotApplied(a)
    BY <1>2, <2>5 DEF Keeps, ObserveNotApplied, Advance, ActivityType
  <2> QED
    BY <2>1, <2>2, <2>3, <2>4, <2>5
<1> QED
  BY <1>1, <1>3, <1>4, ActivityAlone

------------------------------------------------------------------------------
(* The Director, and boundaries                                            *)

\* What lets an operation open is where it goes on standing.
LEMMA StartStands ==
  ASSUME OrderInv, NEW a \in Activity, NEW op \in Operations, NEW reserved \in BOOLEAN,
         StartActivity(a, op, reserved)
  PROVE  Holds
<1> DEFINE u == [Idle EXCEPT !.op = op, !.origin = Standing, !.stage = "started",
                             !.resumes = FirstStep(op), !.reserved = reserved]
<1>1. /\ acts \in [Activity -> ActivityType] /\ acts' = [acts EXCEPT ![a] = u]
      /\ UNCHANGED Subjects /\ Settled /\ op \in EligibleOperations /\ Live
  BY DEF OrderInv, SafetyInv, TypeInv, TypeOK, StartActivity, Advance, subjectVars,
     Subjects, EligibleOperations
<1>2. acts'[a] = u /\ \A b \in Activity : b # a => acts'[b] = acts[b]
  BY <1>1
<1>3. /\ u.op = op /\ u.observed = "none" /\ u.successor = 0 /\ ~u.packet
      /\ u.boundary = 0 /\ u.seal = NoSeal
  BY DEF Idle
<1>4. Standing \in LegalStandings(op) /\ closure = NoClosure
  BY <1>1 DEF EligibleOperations, Live
<1>5. Ordered' /\ Advances /\ Frozen
  BY <1>1, SubjectsStay
<1>6. readiness # "none" => active # 0
  BY DEF OrderInv, SafetyInv, SubjectsNumbered
<1> HIDE DEF u
<1>7. Stands(acts[a])'
  <2>1. CASE op = "prepare"
    BY <1>1, <1>2, <1>3, <1>4, <2>1 DEF Stands, LegalStandings, Standing, Subjects
  <2>2. CASE op \in {"revise", "reaffirm"}
    BY <1>1, <1>2, <1>3, <1>4, <2>2 DEF Stands, LegalStandings, Standing, Subjects
  <2>3. CASE op = "admit"
    BY <1>1, <1>2, <1>3, <1>4, <2>3 DEF Stands, LegalStandings, Standing, Subjects
  <2>4. CASE op \in {"continue", "evaluate"}
    BY <1>1, <1>2, <1>3, <1>4, <2>4 DEF Stands, LegalStandings, Standing, Subjects
  <2>5. CASE op = "integrate"
    BY <1>1, <1>2, <1>3, <1>4, <2>5 DEF Stands, LegalStandings, Standing, Subjects
  <2>6. CASE op \in {"accept", "no-ship"}
    BY <1>1, <1>2, <1>3, <2>6 DEF Stands, Subjects
  <2> QED
    BY <2>1, <2>2, <2>3, <2>4, <2>5, <2>6 DEF Operations, AgentOperations,
       BoundaryOperations, TransactionOperations, TerminalOperations
<1>8. \A b \in Open' : b \in Activity /\ b = a
  BY <1>1, <1>2 DEF Settled, Open
<1>9. OpenStands'
  BY <1>7, <1>8 DEF OpenStands
<1> QED
  BY <1>5, <1>9 DEF Holds

\* A boundary is finalized under a number the admitted one has not reached.
LEMMA FinalizeBoundaryStands ==
  ASSUME OrderInv, NEW a \in Activity, NEW m \in Mandates, FinalizeBoundary(a, m)
  PROVE  Holds
<1> DEFINE t == acts[a]
           n == NextBoundary(t.op)
<1>1. /\ a \in Open /\ UNCHANGED Subjects /\ t.op \in BoundaryOperations
      /\ acts' = [acts EXCEPT ![a] = [t EXCEPT !.boundary = n, !.stage = "finalizing",
                                               !.resumes = "baseline-checks"]]
  BY DEF FinalizeBoundary, On, Advance, Subjects
<1>2. t \in ActivityType /\ acts \in [Activity -> ActivityType] /\ Stands(t)
      /\ OneOpenActivity
  BY <1>1, Typed
<1>3. /\ acts'[a].op = t.op /\ acts'[a].packet = t.packet /\ acts'[a].seal = t.seal
      /\ acts'[a].boundary = n
  BY <1>1, <1>2 DEF ActivityType
<1>4. \A b \in Activity : b # a => acts'[b] = acts[b]
  BY <1>1, <1>2
<1>5. n > active
  <2>1. active \in Nat
    BY DEF OrderInv, SafetyInv, TypeInv, TypeOK
  <2> QED
    BY <1>2, <2>1 DEF NextBoundary, Stands
<1> HIDE DEF n
<1>6. Stands(acts[a])'
  BY <1>1, <1>2, <1>3, <1>5 DEF Stands, Subjects, BoundaryOperations
<1>7. OpenStands'
  BY <1>1, <1>2, <1>4, <1>6, OthersStand
<1> QED
  BY <1>1, <1>7, SubjectsStay DEF Holds

LEMMA RecordBaselineReceiptStands ==
  ASSUME OrderInv, NEW a \in Activity, NEW s \in Selection, NEW d \in Dispositions,
         RecordBaselineReceipt(a, s, d)
  PROVE  Holds
<1>1. a \in Open /\ UNCHANGED Subjects
  BY DEF RecordBaselineReceipt, On, Subjects
<1>2. acts[a] \in ActivityType /\ acts \in [Activity -> ActivityType]
  BY <1>1, Typed
<1>3. Keeps(acts[a], acts'[a]) /\ \A b \in Activity : b # a => acts'[b] = acts[b]
  BY <1>2 DEF RecordBaselineReceipt, Advance, Keeps, ActivityType
<1> QED
  BY <1>1, <1>3, ActivityAlone

------------------------------------------------------------------------------
(* Evaluation                                                              *)

\* An evaluation seals before anything is proven: sealing takes no readiness
\* away from the Director.
LEMMA SealCandidateStands ==
  ASSUME OrderInv, NEW a \in Activity, SealCandidate(a)
  PROVE  Holds
<1> DEFINE t == acts[a]
           sealed == [serial |-> seals + 1, candidate |-> candidate.revision,
                      boundary |-> active]
<1>1. /\ a \in Open /\ t.op = "evaluate" /\ t.seal = NoSeal
      /\ acts' = [acts EXCEPT ![a] = [t EXCEPT !.seal = sealed, !.stage = "finalizing",
                                               !.resumes = "evaluation-checks"]]
      /\ seal' = sealed /\ evidence' = NoEvidence /\ readiness' = "none"
      /\ UNCHANGED <<proposed, active, candidate, condition, closure>>
  BY DEF SealCandidate, On, Advance
<1>2. t \in ActivityType /\ acts \in [Activity -> ActivityType] /\ Stands(t)
      /\ OneOpenActivity /\ Ordered
  BY <1>1, Typed DEF OrderInv
<1>3. /\ acts'[a].op = t.op /\ acts'[a].packet = t.packet
      /\ acts'[a].boundary = t.boundary
  BY <1>1, <1>2 DEF ActivityType
<1>4. \A b \in Activity : b # a => acts'[b] = acts[b]
  BY <1>1, <1>2
<1>5. ~t.packet /\ readiness # "acceptance-ready"
  BY <1>1, <1>2 DEF Stands
<1>6. Stands(acts[a])'
  BY <1>1, <1>2, <1>3, <1>5 DEF Stands
<1>7. OpenStands'
  BY <1>1, <1>2, <1>4, <1>6, OthersStand
<1>8. Ordered'
  BY <1>1, <1>2 DEF Ordered
<1>9. UNCHANGED Lifecycle!vars
  BY <1>1, <1>5 DEF Lifecycle!vars, Standing, Verdict
<1> QED
  BY <1>1, <1>7, <1>8, <1>9 DEF Holds, Advances, Frozen

\* Evidence that finds the work acceptable proves it, unless a condition has
\* paused it meanwhile.
LEMMA FinalizeEvidenceStands ==
  ASSUME OrderInv, NEW a \in Activity, NEW ready \in Readinesses, FinalizeEvidence(a, ready)
  PROVE  Holds
<1> DEFINE t == acts[a]
<1>1. /\ a \in Open /\ Live /\ t.op = "evaluate" /\ t.seal # NoSeal /\ ~t.packet
      /\ active # 0 /\ candidate # NoCandidate
      /\ acts' = [acts EXCEPT ![a] = [t EXCEPT !.packet = TRUE, !.stage = "finalizing",
                                               !.resumes = "activity-completed"]]
      /\ readiness' = ready
      /\ UNCHANGED <<proposed, active, candidate, condition, seal, closure>>
  BY DEF FinalizeEvidence, On, Advance
<1>2. t \in ActivityType /\ acts \in [Activity -> ActivityType] /\ Stands(t)
      /\ OneOpenActivity /\ Ordered
  BY <1>1, Typed DEF OrderInv
<1>3. /\ acts'[a].op = t.op /\ acts'[a].packet /\ acts'[a].seal = t.seal
      /\ acts'[a].boundary = t.boundary
  BY <1>1, <1>2 DEF ActivityType
<1>4. \A b \in Activity : b # a => acts'[b] = acts[b]
  BY <1>1, <1>2
<1>5. readiness # "acceptance-ready"
  BY <1>1, <1>2 DEF Stands
<1>6. Stands(acts[a])'
  BY <1>1, <1>2, <1>3 DEF Stands
<1>7. OpenStands'
  BY <1>1, <1>2, <1>4, <1>6, OthersStand
<1>8. seal # NoSeal /\ candidate.revision # 0
  BY <1>1 DEF OrderInv, SafetyInv, OpenFacts, OwnSeal, SubjectsNumbered
<1>9. Ordered'
  BY <1>1, <1>2, <1>8 DEF Ordered
<1>10. Advances
  <2>1. CASE condition = "none" /\ ready = "acceptance-ready"
    <3>1. Lifecycle!Prove
      BY <1>1, <1>5, <1>8, <2>1 DEF Lifecycle!Prove, Standing, Verdict, Live
    <3> QED
      BY <3>1 DEF Advances, Lifecycle!Next
  <2>2. CASE ~(condition = "none" /\ ready = "acceptance-ready")
    <3>1. UNCHANGED Lifecycle!vars
      BY <1>1, <1>5, <2>2 DEF Lifecycle!vars, Standing, Verdict
    <3> QED
      BY <3>1 DEF Advances
  <2> QED
    BY <2>1, <2>2
<1> QED
  BY <1>1, <1>7, <1>9, <1>10 DEF Holds, Frozen

------------------------------------------------------------------------------
(* The Candidate and its conditions                                        *)

\* Whoever observes the next revision still works, and nothing has paused it.
LEMMA ObserveCandidateRevisionStands ==
  ASSUME OrderInv, NEW a \in Activity, ObserveCandidateRevision(a)
  PROVE  Holds
<1> DEFINE t == acts[a]
<1>1. /\ a \in Open /\ Live /\ ~t.receipt /\ t.successor = 0 /\ active # 0
      /\ MayObserveCandidate(t)
      /\ candidate' = [revision |-> candidate.revision + 1, boundary |-> active]
      /\ seal' = NoSeal /\ evidence' = NoEvidence /\ readiness' = "none"
      /\ UNCHANGED <<proposed, active, condition, closure>>
  BY DEF ObserveCandidateRevision, DiscardProof
<1>2. t \in ActivityType /\ acts \in [Activity -> ActivityType] /\ Stands(t)
      /\ OneOpenActivity /\ Ordered /\ candidate \in [revision : Nat, boundary : Nat]
  BY <1>1, Typed DEF OrderInv, SafetyInv, TypeInv, TypeOK
<1> DEFINE next == IF t.op = "continue" THEN "execution-receipt-recorded"
                   ELSE IF t.assessed = "requires-readmission"
                     THEN "activity-finalization" ELSE "activity-completed"
<1>3. acts' = [acts EXCEPT ![a] = [t EXCEPT !.successor = candidate.revision + 1,
                                            !.stage = "finalizing", !.resumes = next]]
  BY DEF ObserveCandidateRevision, Advance
<1>4. /\ acts'[a].op = t.op /\ acts'[a].packet = t.packet /\ acts'[a].seal = t.seal
      /\ acts'[a].boundary = t.boundary /\ acts'[a].successor # 0
      /\ acts'[a].observed = t.observed
  BY <1>1, <1>2, <1>3 DEF ActivityType
<1>5. \A b \in Activity : b # a => acts'[b] = acts[b]
  BY <1>2, <1>3
<1>6. t.op \in {"integrate", "continue", "admit"} /\ condition = "none"
  BY <1>1, <1>2 DEF MayObserveCandidate, Stands
<1>7. Stands(acts[a])'
  BY <1>1, <1>2, <1>4, <1>6 DEF Stands
<1>8. OpenStands'
  BY <1>1, <1>2, <1>5, <1>7, OthersStand
<1>9. Ordered'
  BY <1>1, <1>2 DEF Ordered
<1>10. Lifecycle!Work
  BY <1>1, <1>2, <1>6 DEF Lifecycle!Work, Lifecycle!Working, Standing, Verdict, Live
<1> QED
  BY <1>6, <1>8, <1>9, <1>10 DEF Holds, Advances, Frozen, Lifecycle!Next

\* A condition pauses work that was in force.
LEMMA FreezeMaterialConditionStands ==
  ASSUME OrderInv, NEW a \in Activity, NEW source \in Sources,
         FreezeMaterialCondition(a, source)
  PROVE  Holds
<1> DEFINE t == acts[a]
           next == IF source = "agent-proposal" /\ t.op = "evaluate"
                   THEN "activity-finalization" ELSE "activity-completed"
<1>1. /\ a \in Open /\ Live /\ condition = "none" /\ active # 0
      /\ ConditionSource(t, source) /\ condition' = source
      /\ acts' = [acts EXCEPT ![a] = [t EXCEPT !.froze = TRUE, !.stage = "finalizing",
                                               !.resumes = next]]
      /\ UNCHANGED <<proposed, active, candidate, seal, evidence, readiness, closure>>
  BY DEF FreezeMaterialCondition, Advance
<1>2. t \in ActivityType /\ acts \in [Activity -> ActivityType] /\ Stands(t)
      /\ OneOpenActivity /\ Ordered
  BY <1>1, Typed DEF OrderInv
<1> HIDE DEF next
<1>3. Keeps(t, acts'[a]) /\ acts'[a].receipt = t.receipt
      /\ acts'[a].refusal = t.refusal /\ acts'[a].attempt = t.attempt
  BY <1>1, <1>2 DEF ActivityType, Keeps
<1>4. \A b \in Activity : b # a => acts'[b] = acts[b]
  BY <1>1, <1>2
<1>5. source # "none"
  BY DEF Sources
<1>6. Stands(acts[a])'
  <2>1. CASE t.op = "integrate"
    BY <1>1, <1>2, <1>3, <2>1 DEF Stands, Keeps, ConditionSource, Sources
  <2>2. CASE t.op = "continue"
    BY <1>1, <1>2, <1>3, <2>2 DEF Stands, Keeps, ConditionSource, Sources
  <2>3. CASE t.op = "evaluate"
    BY <1>1, <1>2, <1>3, <2>3 DEF Stands, Keeps
  <2> QED
    BY <1>1, <2>1, <2>2, <2>3 DEF ConditionSource, Sources
<1>7. OpenStands'
  BY <1>1, <1>2, <1>4, <1>6, OthersStand
<1>8. Ordered'
  BY <1>1, <1>2, <1>5 DEF Ordered
<1>9. Lifecycle!Pause
  BY <1>1, <1>2, <1>5 DEF Lifecycle!Pause, Lifecycle!Working, Standing, Verdict, Live,
     Ordered
<1> QED
  BY <1>1, <1>7, <1>8, <1>9 DEF Holds, Advances, Frozen, Lifecycle!Next

------------------------------------------------------------------------------
(* Director transactions                                                   *)

\* An applied admission admits what was proposed, which is later than what was
\* admitted before.
LEMMA ObserveAppliedStands ==
  ASSUME OrderInv, NEW a \in Activity, ObserveApplied(a)
  PROVE  Holds
<1> DEFINE t == acts[a]
<1>1. /\ a \in Open /\ Live /\ t.observed = "none" /\ Family(t.op) = "transaction"
      /\ acts' = [acts EXCEPT ![a] = [t EXCEPT !.observed = "applied",
                                               !.stage = "effect-observed",
                                               !.resumes = AfterApplied(t.op)]]
      /\ UNCHANGED <<candidate, closure>>
  BY DEF ObserveApplied, On, Advance
<1>2. t \in ActivityType /\ acts \in [Activity -> ActivityType] /\ Stands(t)
      /\ OneOpenActivity /\ Ordered /\ t.op \in TransactionOperations
  BY <1>1, Typed, Families DEF OrderInv, SafetyInv
<1>3. /\ acts'[a].op = t.op /\ acts'[a].packet = t.packet /\ acts'[a].seal = t.seal
      /\ acts'[a].boundary = t.boundary /\ acts'[a].observed = "applied"
  BY <1>1, <1>2 DEF ActivityType
<1>4. \A b \in Activity : b # a => acts'[b] = acts[b]
  BY <1>1, <1>2
<1>5. CASE t.op = "admit"
  <2>1. /\ active' = proposed /\ proposed' = 0 /\ condition' = "none"
        /\ seal' = NoSeal /\ evidence' = NoEvidence /\ readiness' = "none"
    BY <1>5 DEF ObserveApplied, DiscardProof
  <2>2. proposed # 0 /\ proposed > active
    BY <1>1, <1>2, <1>5 DEF Stands, Ordered
  <2>3. t.boundary = 0
    <3>1. BaselineOrder(t)
      BY <1>1 DEF OrderInv, SafetyInv, OpenFacts
    <3> QED
      BY <1>5, <3>1 DEF BaselineOrder, BoundaryOperations
  <2>4. Stands(acts[a])'
    BY <1>2, <1>3, <1>5, <2>1, <2>3 DEF Stands
  <2>5. OpenStands'
    BY <1>1, <1>2, <1>4, <2>4, OthersStand
  <2>6. Ordered'
    BY <2>1 DEF Ordered
  <2>7. readiness # "none" => active # 0
    BY DEF OrderInv, SafetyInv, SubjectsNumbered
  <2>8. Standing \in Lifecycle!Waiting
    BY <1>1, <1>2, <2>2, <2>7 DEF Lifecycle!Waiting, Standing, Live, Ordered
  <2>9. Standing' = "active"
    BY <1>1, <2>1, <2>2 DEF Standing, Live
  <2>10. Verdict' = Verdict
    BY <1>1 DEF Verdict
  <2>11. Lifecycle!Admit
    BY <1>1, <2>1, <2>2, <2>8, <2>9, <2>10 DEF Lifecycle!Admit
  <2> QED
    BY <2>1, <2>5, <2>6, <2>11 DEF Holds, Advances, Frozen, Lifecycle!Next
<1>6. CASE t.op # "admit"
  <2>1. UNCHANGED Subjects
    BY <1>1, <1>6 DEF ObserveApplied, Subjects
  <2>2. Stands(acts[a])'
    BY <1>2, <1>3, <1>6, <2>1 DEF Stands, Subjects, TransactionOperations,
       TerminalOperations
  <2>3. OpenStands'
    BY <1>1, <1>2, <1>4, <2>2, OthersStand
  <2> QED
    BY <2>1, <2>3, SubjectsStay DEF Holds
<1> QED
  BY <1>5, <1>6

\* An accepted Closure is of work that stood ready; no-ship may end any.
LEMMA RecordClosureStands ==
  ASSUME OrderInv, NEW a \in Activity, RecordClosure(a)
  PROVE  Holds
<1> DEFINE t == acts[a]
<1>1. /\ a \in Open /\ Live /\ t.op \in TerminalOperations
      /\ t.op = "accept" => active # 0 /\ candidate # NoCandidate
      /\ acts' = [acts EXCEPT ![a] = Idle]
      /\ closure'.disposition = IF t.op = "accept" THEN "accepted" ELSE "no-ship"
      /\ t.op = "accept" => closure'.boundary = active
      /\ closure'.candidate = candidate.revision
      /\ UNCHANGED <<proposed, active, candidate, condition, seal, evidence, readiness>>
  BY DEF RecordClosure, On, Advance
<1>2. acts \in [Activity -> ActivityType] /\ OneOpenActivity /\ Ordered
  BY <1>1, Typed DEF OrderInv
<1>3. acts'[a] = Idle /\ \A b \in Activity : b # a => acts'[b] = acts[b]
  BY <1>1, <1>2
<1>4. OpenStands'
  BY <1>1, <1>2, <1>3, OthersStand DEF Idle
<1>5. Ordered'
  BY <1>1, <1>2 DEF Ordered
<1>6. closure' # NoClosure /\ closure = NoClosure
  BY <1>1 DEF NoClosure, Live
<1>7. Standing' = "closed" /\ Standing # "closed"
  BY <1>6 DEF Standing
<1>8. Advances
  <2>1. CASE t.op = "accept"
    <3>1. readiness = "acceptance-ready" /\ condition = "none"
      BY <1>1, <2>1 DEF OrderInv, SafetyInv, OpenFacts, AcceptanceStands
    <3>2. Standing = "decision-ready"
      BY <1>6, <3>1 DEF Standing
    <3>3. Verdict' = [kind |-> "accepted", mandate |-> active,
                      work |-> candidate.revision]
      BY <1>1, <1>6, <2>1 DEF Verdict
    <3>4. Lifecycle!Accept
      BY <1>1, <1>7, <3>2, <3>3 DEF Lifecycle!Accept
    <3> QED
      BY <3>4 DEF Advances, Lifecycle!Next
  <2>2. CASE t.op # "accept"
    <3>1. Verdict' = [kind |-> "no-ship", mandate |-> 0, work |-> candidate.revision]
      BY <1>1, <1>6, <2>2 DEF Verdict
    <3>2. Lifecycle!NoShip
      BY <1>1, <1>7, <3>1 DEF Lifecycle!NoShip
    <3> QED
      BY <3>2 DEF Advances, Lifecycle!Next
  <2> QED
    BY <2>1, <2>2
<1> QED
  BY <1>1, <1>4, <1>5, <1>8 DEF Holds, Frozen

\* A completed boundary operation proposes; any other completion is unseen.
LEMMA CompleteActivityStands ==
  ASSUME OrderInv, NEW a \in Activity, NEW outcome \in {"completed", "failed", "abandoned"},
         CompleteActivity(a, outcome)
  PROVE  Holds
<1> DEFINE t == acts[a]
<1>1. /\ a \in Open /\ Live /\ acts' = [acts EXCEPT ![a] = Idle]
      /\ UNCHANGED <<active, candidate, condition, seal, evidence, readiness, closure>>
  BY DEF CompleteActivity, Advance
<1>2. t \in ActivityType /\ acts \in [Activity -> ActivityType] /\ Stands(t)
      /\ OneOpenActivity /\ Ordered
  BY <1>1, Typed DEF OrderInv
<1>3. acts'[a] = Idle /\ \A b \in Activity : b # a => acts'[b] = acts[b]
  BY <1>1, <1>2
<1>4. OpenStands'
  BY <1>1, <1>2, <1>3, OthersStand DEF Idle
<1>5. CASE outcome = "completed" /\ t.op \in BoundaryOperations
  <2>1. proposed' = t.boundary
    BY <1>5 DEF CompleteActivity
  <2>2. t.boundary # 0 /\ t.boundary > active
    <3>1. t.boundary # 0
      BY <1>5 DEF CompleteActivity, Family, AgentOperations, AgentMayComplete
    <3> QED
      BY <1>2, <3>1 DEF Stands
  <2>3. Ordered'
    BY <1>1, <1>2, <1>5, <2>1, <2>2 DEF Ordered, Stands, BoundaryOperations
  <2>4. readiness # "none" => active # 0
    BY DEF OrderInv, SafetyInv, SubjectsNumbered
  <2>5. Lifecycle!Propose
    <3>1. CASE t.op = "prepare"
      BY <1>1, <1>2, <2>1, <2>2, <2>4, <3>1 DEF Lifecycle!Propose, Stands, Standing,
         Verdict, Live
    <3>2. CASE t.op \in {"revise", "reaffirm"}
      BY <1>1, <1>2, <2>1, <2>2, <3>2 DEF Lifecycle!Propose, Stands, Standing,
         Verdict, Live
    <3> QED
      BY <1>5, <3>1, <3>2 DEF BoundaryOperations
  <2> QED
    BY <1>1, <1>4, <2>3, <2>5 DEF Holds, Advances, Frozen, Lifecycle!Next
<1>6. CASE ~(outcome = "completed" /\ t.op \in BoundaryOperations)
  <2>1. UNCHANGED Subjects
    BY <1>1, <1>6 DEF CompleteActivity, Subjects
  <2> QED
    BY <1>4, <2>1, SubjectsStay DEF Holds
<1> QED
  BY <1>5, <1>6

------------------------------------------------------------------------------
(* The invariant, and the refinement                                       *)

LEMMA InitOrder == Init => OrderInv
<1> SUFFICES ASSUME Init PROVE OrderInv
  OBVIOUS
<1>1. Open = {}
  BY DEF Init, Open, Idle
<1>2. Ordered
  BY DEF Init, Ordered
<1> QED
  BY <1>1, <1>2, InitSafe DEF OrderInv, OpenStands

LEMMA NextHolds ==
  ASSUME OrderInv, [Next]_vars
  PROVE  Holds
<1>1. CASE DirectorStep
  <2>1. ASSUME NEW a \in Activity, NEW op \in Operations, NEW reserved \in BOOLEAN,
               StartActivity(a, op, reserved)
        PROVE  Holds
    BY <2>1, StartStands
  <2>2. ASSUME \/ CreateDelivery \/ \E a \in Activity : SubmitDirectorBrief(a)
               \/ \E op \in (UNION Grantable) \ {"integrate"} : SubmitStandingBrief(op)
               \/ \E ops \in Grantable, c \in Ceilings : SetWorkDelegation(ops, c)
               \/ StopWorkDelegation \/ DelegationExpires
        PROVE  Holds
    <3>1. acts' = acts /\ UNCHANGED Subjects
      BY <2>2 DEF CreateDelivery, SubmitDirectorBrief, SubmitStandingBrief,
         SetWorkDelegation, StopWorkDelegation, DelegationExpires, subjectVars, Subjects
    <3>2. OpenStands'
      BY <3>1 DEF OrderInv, OpenStands, Open, Stands, Subjects
    <3> QED
      BY <3>1, <3>2, SubjectsStay DEF Holds
  <2> QED
    BY <1>1, <2>1, <2>2 DEF DirectorStep
<1>2. ASSUME NEW a \in Activity, AgentStep(a) PROVE Holds
  BY <1>2, AgentAlone, FinalizeBoundaryStands, RecordBaselineReceiptStands,
     SealCandidateStands, FinalizeEvidenceStands DEF AgentStep
<1>3. ASSUME NEW a \in Activity, CandidateStep(a) PROVE Holds
  BY <1>3, OtherAlone, ObserveCandidateRevisionStands, FreezeMaterialConditionStands
     DEF CandidateStep
<1>4. ASSUME NEW a \in Activity, TransactionStep(a) PROVE Holds
  BY <1>4, OtherAlone, ObserveAppliedStands, RecordClosureStands DEF TransactionStep
<1>5. CASE UNCHANGED vars
  <2>1. acts' = acts /\ UNCHANGED Subjects
    BY <1>5 DEF vars, subjectVars, Subjects
  <2>2. OpenStands'
    BY <2>1 DEF OrderInv, OpenStands, Open, Stands, Subjects
  <2> QED
    BY <2>1, <2>2, SubjectsStay DEF Holds
<1> QED
  BY <1>1, <1>2, <1>3, <1>4, <1>5, CompleteActivityStands DEF Next

LEMMA NextOrder == OrderInv /\ [Next]_vars => OrderInv'
  BY NextHolds, NextSafe DEF OrderInv, Holds

LEMMA Orderly == Spec => []OrderInv
  BY InitOrder, NextOrder, PTL DEF Spec

\* Every journal the reducer accepts is a Lifecycle: standing, mandate, work
\* and verdict move only as DeliveryLifecycle promises a Director.
THEOREM Implements == Spec => ImplementsLifecycle
<1>1. Init => Lifecycle!Init
  BY DEF Init, Lifecycle!Init, Lifecycle!NoVerdict, Standing, Verdict, NoClosure,
     NoCandidate
<1>2. OrderInv /\ [Next]_vars => Advances
  BY NextHolds DEF Holds
<1> QED
  BY <1>1, <1>2, Orderly, PTL DEF Spec, Advances, ImplementsLifecycle, Lifecycle!Spec

\* The candidate does not change while a Material Condition is unresolved.
THEOREM CandidateIsFrozen == Spec => FrozenCandidate
<1>1. OrderInv /\ [Next]_vars => Frozen
  BY NextHolds DEF Holds
<1>2. OrderInv /\ [Next]_vars =>
        [condition # "none" /\ condition' # "none" => candidate' = candidate]_vars
  BY <1>1 DEF Frozen
<1> QED
  BY <1>2, Orderly, PTL DEF Spec, FrozenCandidate

------------------------------------------------------------------------------
(* What is offered                                                         *)

\* A Delivery that is not closed always has something its Director can do:
\* recover what is open, prepare while nothing was, or end it.
LEMMA SomethingIsOffered == ASSUME OrderInv PROVE NoAccidentalSink
<1> SUFFICES ASSUME Live, ~MustRecover PROVE EligibleOperations # {}
  BY DEF NoAccidentalSink
<1>1. Open = {} /\ Settled
  BY DEF OrderInv, SafetyInv, OneOpenActivity, MustRecover, Settled
<1>2. Standing # "closed" /\ Standing \in Standings
  BY DEF Live, Standing, Standings
<1>3. "prepare" \in Operations /\ "no-ship" \in Operations
  BY DEF Operations, AgentOperations, BoundaryOperations, TransactionOperations,
     TerminalOperations
<1>4. CASE Standing # "framing" \/ prepared
  <2>1. Standing \in LegalStandings("no-ship") /\ CandidateSatisfies("no-ship")
    BY <1>2 DEF LegalStandings, CandidateSatisfies, ProductiveOperations
  <2> QED
    BY <1>1, <1>2, <1>3, <1>4, <2>1 DEF EligibleOperations
<1>5. CASE Standing = "framing" /\ ~prepared
  <2>1. active = 0
    BY <1>5 DEF Standing
  <2>2. candidate = NoCandidate
    BY <2>1 DEF OrderInv, SafetyInv, CandidateIsGoverned
  <2>3. Standing \in LegalStandings("prepare") /\ CandidateSatisfies("prepare")
    BY <1>5, <2>2 DEF LegalStandings, CandidateSatisfies, ProductiveOperations
  <2>4. ~HasPreparation
    BY <1>1, <1>5 DEF HasPreparation
  <2> QED
    BY <1>1, <1>2, <1>3, <2>3, <2>4 DEF EligibleOperations
<1> QED
  BY <1>4, <1>5

LEMMA PublishedAgrees == ASSUME OrderInv PROVE PublishedConditionAgrees
<1> SUFFICES ASSUME Live, Settled, candidate # NoCandidate
             PROVE  /\ (CandidateCondition = "ready-for-decision")
                         <=> ("accept" \in EligibleOperations)
                    /\ (CandidateCondition = "paused-for-boundary") <=>
                         (Standing \in {"boundary-paused", "awaiting-readmission"})
                    /\ CandidateCondition \notin {"terminal-recovery", "in-progress"}
  BY DEF PublishedConditionAgrees
<1>1. Open = {} /\ ~MustRecover /\ closure = NoClosure
  BY DEF Settled, MustRecover, Live
<1>2. CandidateCondition =
        IF condition # "none" THEN "paused-for-boundary"
        ELSE IF readiness = "acceptance-ready" THEN "ready-for-decision"
        ELSE IF readiness \in {"correctable", "no-ship-recommended"}
          THEN "needs-correction"
        ELSE IF seal # NoSeal /\ evidence = NoEvidence
          THEN "sealed-under-evaluation" ELSE "ready-for-work"
  BY <1>1 DEF CandidateCondition
<1>3. readiness = "acceptance-ready" => seal # NoSeal /\ evidence # NoEvidence
  BY DEF OrderInv, SafetyInv, Ordered, ProofIsCurrent
<1>4. ("accept" \in EligibleOperations) <=> Standing = "decision-ready"
  <2>1. "accept" \in Operations
    BY DEF Operations, TransactionOperations, TerminalOperations
  <2>2. LegalStandings("accept") = {"decision-ready"}
    BY DEF LegalStandings
  <2>3. Standing = "decision-ready" => readiness = "acceptance-ready"
    BY DEF Standing
  <2>4. CandidateSatisfies("accept") <=>
          (candidate # NoCandidate /\ seal # NoSeal /\ evidence # NoEvidence)
    BY DEF CandidateSatisfies, ProductiveOperations
  <2>5. Standing = "decision-ready" => CandidateSatisfies("accept")
    BY <1>3, <2>3, <2>4
  <2> QED
    BY <1>1, <2>1, <2>2, <2>5 DEF EligibleOperations
<1>5. Standing = "decision-ready" <=>
        (condition = "none" /\ readiness = "acceptance-ready")
  BY <1>1 DEF Standing
<1>6. Standing \in {"boundary-paused", "awaiting-readmission"} <=> condition # "none"
  BY <1>1 DEF Standing
<1> QED
  BY <1>2, <1>4, <1>5, <1>6

\* There is always something to do, and what readers are shown of a candidate
\* agrees with what its Director may do.
THEOREM OfferSound == Spec => []OfferIsSound
<1>1. OrderInv => OfferIsSound
  BY SomethingIsOffered, PublishedAgrees DEF OfferIsSound
<1> QED
  BY <1>1, Orderly, PTL

------------------------------------------------------------------------------
(* Delegated work                                                          *)

DelegationInv == SafetyInv /\ ChargedWithinCeilings /\ ReservedWorkIsGoverned

\* Neither charges nor grant move, and no open activity is reserved anew.
LEMMA DelegationStays ==
  ASSUME DelegationInv, UNCHANGED <<grant, charged, active>>,
         \A b \in Open' : /\ b \in Open /\ acts'[b].op = acts[b].op
                          /\ acts'[b].reserved = acts[b].reserved
  PROVE  ChargedWithinCeilings' /\ ReservedWorkIsGoverned'
<1>1. ChargedWithinCeilings'
  BY DEF DelegationInv, ChargedWithinCeilings
<1>2. ASSUME NEW b \in Open', acts'[b].reserved
      PROVE  (GrantGoverns /\ ~grant.stopped /\ acts[b].op \in grant.operations)'
  <2>1. b \in Open /\ acts[b].reserved /\ acts'[b].op = acts[b].op
    BY <1>2
  <2>2. GrantGoverns /\ ~grant.stopped /\ acts[b].op \in grant.operations
    BY <2>1 DEF DelegationInv, ReservedWorkIsGoverned
  <2> QED
    BY <2>1, <2>2 DEF GrantGoverns
<1> QED
  BY <1>1, <1>2 DEF ReservedWorkIsGoverned

\* What an activity is and how it was paid for never changes while it is open.
Lasting(a) ==
  \/ acts'[a].stage = "idle"
  \/ acts'[a].op = acts[a].op /\ acts'[a].reserved = acts[a].reserved

LEMMA LastingStays ==
  ASSUME DelegationInv, NEW a \in Open, UNCHANGED <<grant, charged, active>>,
         Lasting(a), \A b \in Activity : b # a => acts'[b] = acts[b]
  PROVE  ChargedWithinCeilings' /\ ReservedWorkIsGoverned'
<1>1. \A b \in Open' : /\ b \in Open /\ acts'[b].op = acts[b].op
                       /\ acts'[b].reserved = acts[b].reserved
  BY DEF Lasting, Open
<1> QED
  BY <1>1, DelegationStays

LEMMA StartGoverned ==
  ASSUME DelegationInv, NEW a \in Activity, NEW op \in Operations,
         NEW reserved \in BOOLEAN, StartActivity(a, op, reserved)
  PROVE  ChargedWithinCeilings' /\ ReservedWorkIsGoverned'
<1> DEFINE u == [Idle EXCEPT !.op = op, !.origin = Standing, !.stage = "started",
                             !.resumes = FirstStep(op), !.reserved = reserved]
<1>1. /\ acts \in [Activity -> ActivityType] /\ acts' = [acts EXCEPT ![a] = u]
      /\ UNCHANGED <<grant, active>> /\ Settled /\ Financed(a, op, reserved)
      /\ charged' = IF reserved THEN [r \in Resource |-> charged[r] + Charge[op][r]]
                    ELSE charged
  BY DEF DelegationInv, SafetyInv, TypeInv, TypeOK, StartActivity, Advance, subjectVars,
     EligibleOperations
<1>2. acts'[a] = u /\ \A b \in Activity : b # a => acts'[b] = acts[b]
  BY <1>1
<1>3. u.op = op /\ u.reserved = reserved
  BY DEF Idle
<1> HIDE DEF u
<1>4. \A b \in Open' : b = a
  BY <1>1, <1>2 DEF Settled, Open
<1>5. ChargedWithinCeilings'
  <2>1. CASE reserved
    BY <1>1, <2>1 DEF Financed, WithinAllowance, ChargedWithinCeilings
  <2>2. CASE ~reserved
    BY <1>1, <2>2 DEF DelegationInv, ChargedWithinCeilings
  <2> QED
    BY <2>1, <2>2
<1>6. ReservedWorkIsGoverned'
  <2>1. reserved => GrantGoverns /\ ~grant.stopped /\ op \in grant.operations
    BY <1>1 DEF Financed, WithinAllowance
  <2>2. GrantGoverns' <=> GrantGoverns
    BY <1>1 DEF GrantGoverns
  <2> QED
    BY <1>1, <1>2, <1>3, <1>4, <2>1, <2>2 DEF ReservedWorkIsGoverned
<1> QED
  BY <1>5, <1>6

\* The Director's other acts: a grant is set or stopped while nothing is open.
LEMMA DirectorGoverned ==
  ASSUME DelegationInv,
         \/ CreateDelivery \/ \E a \in Activity : SubmitDirectorBrief(a)
         \/ \E op \in (UNION Grantable) \ {"integrate"} : SubmitStandingBrief(op)
         \/ \E ops \in Grantable, c \in Ceilings : SetWorkDelegation(ops, c)
         \/ StopWorkDelegation \/ DelegationExpires
  PROVE  ChargedWithinCeilings' /\ ReservedWorkIsGoverned'
<1>1. acts' = acts /\ active' = active /\ charged' = charged /\ Open' = Open
  <2>1. acts' = acts /\ active' = active /\ charged' = charged
    BY DEF CreateDelivery, SubmitDirectorBrief, SubmitStandingBrief, SetWorkDelegation,
       StopWorkDelegation, DelegationExpires, subjectVars, delegationVars
  <2> QED
    BY <2>1 DEF Open
<1>2. charged \in [Resource -> Nat] /\ grant \in GrantType
  BY DEF DelegationInv, SafetyInv, TypeInv, TypeOK
<1>3. CASE grant' = grant
  BY <1>1, <1>3, DelegationStays
<1>4. ASSUME NEW ops \in Grantable, NEW c \in Ceilings, SetWorkDelegation(ops, c)
      PROVE  ChargedWithinCeilings' /\ ReservedWorkIsGoverned'
  <2>1. Settled /\ grant'.ceilings = c /\ \A r \in Resource : c[r] >= charged[r]
    BY <1>4 DEF SetWorkDelegation
  <2>2. c \in [Resource -> Nat]
    BY ConstantsAssumption
  <2>3. ChargedWithinCeilings'
    BY <1>1, <1>2, <2>1, <2>2 DEF ChargedWithinCeilings
  <2>4. ReservedWorkIsGoverned'
    BY <1>1, <2>1 DEF ReservedWorkIsGoverned, Settled
  <2> QED
    BY <2>3, <2>4
<1>5. CASE StopWorkDelegation
  <2>1. Settled /\ grant'.ceilings = grant.ceilings /\ grant'.revision = grant.revision
    BY <1>2, <1>5 DEF StopWorkDelegation, GrantType
  <2>2. ChargedWithinCeilings'
    BY <1>1, <2>1 DEF DelegationInv, ChargedWithinCeilings
  <2>3. ReservedWorkIsGoverned'
    BY <1>1, <2>1 DEF ReservedWorkIsGoverned, Settled
  <2> QED
    BY <2>2, <2>3
<1>6. CASE DelegationExpires
  <2>1. /\ grant'.ceilings = grant.ceilings /\ grant'.revision = grant.revision
        /\ grant'.stopped = grant.stopped /\ grant'.boundary = grant.boundary
        /\ grant'.operations = grant.operations
    BY <1>2, <1>6 DEF DelegationExpires, GrantType
  <2>2. ChargedWithinCeilings'
    BY <1>1, <2>1 DEF DelegationInv, ChargedWithinCeilings
  <2>3. GrantGoverns' <=> GrantGoverns
    BY <1>1, <2>1 DEF GrantGoverns
  <2>4. ReservedWorkIsGoverned'
    BY <1>1, <2>1, <2>3 DEF DelegationInv, ReservedWorkIsGoverned
  <2> QED
    BY <2>2, <2>4
<1> QED
  BY <1>3, <1>4, <1>5, <1>6 DEF CreateDelivery, SubmitDirectorBrief,
     SubmitStandingBrief, delegationVars

\* Every event of an open activity but an applied admission.
LEMMA StepLasts ==
  ASSUME SafetyInv, NEW a \in Activity,
         \/ AgentStep(a) \/ CandidateStep(a)
         \/ TransactionStep(a) /\ ~ObserveApplied(a)
         \/ \E o \in {"completed", "failed", "abandoned"} : CompleteActivity(a, o)
  PROVE  /\ Live /\ a \in Open /\ UNCHANGED <<grant, charged, active>>
         /\ Lasting(a) /\ \A b \in Activity : b # a => acts'[b] = acts[b]
         /\ closure' = closure \/ RecordClosure(a)
<1> DEFINE t == acts[a]
<1>1. t \in ActivityType /\ acts \in [Activity -> ActivityType]
  BY DEF SafetyInv, TypeInv, TypeOK
<1>2. CASE AgentStep(a)
  <2>1. Live /\ a \in Open /\ UNCHANGED <<grant, charged, active, closure>>
    BY <1>2 DEF AgentStep, RefuseAgentBeforeIntent, PrepareAttempt, IntendProviderEffect,
       ObserveProviderEffect, SubmitWorkProduct, AbandonWorkProduct, DisposeWorkProduct,
       RecordReceipt, FinalizeBoundary, RecordBaselineReceipt, SealCandidate,
       RecordFinalReceipt, FinalizeEvidence, On, OnlyActivity, subjectVars,
       delegationVars
  <2>2. Lasting(a) /\ \A b \in Activity : b # a => acts'[b] = acts[b]
    <3>1. CASE \E r \in {"none", "projection-condition-required"} :
                 RefuseAgentBeforeIntent(a, r)
      BY <1>1, <3>1 DEF RefuseAgentBeforeIntent, Advance, Lasting, ActivityType
    <3>2. CASE PrepareAttempt(a)
      BY <1>1, <3>2 DEF PrepareAttempt, Advance, Lasting, ActivityType
    <3>3. CASE IntendProviderEffect(a)
      BY <1>1, <3>3 DEF IntendProviderEffect, Advance, Lasting, ActivityType
    <3>4. CASE \E o \in {"completed", "failed", "not-started"} :
                 ObserveProviderEffect(a, o)
      BY <1>1, <3>4 DEF ObserveProviderEffect, Advance, Lasting, ActivityType
    <3>5. CASE \E p \in {"ordinary", "material-condition"} : SubmitWorkProduct(a, p)
      BY <1>1, <3>5 DEF SubmitWorkProduct, DisposeWorkProduct, Advance, Lasting,
         ActivityType
    <3>6. CASE AbandonWorkProduct(a)
      BY <1>1, <3>6 DEF AbandonWorkProduct, DisposeWorkProduct, Advance, Lasting,
         ActivityType
    <3>7. CASE RecordReceipt(a)
      BY <1>1, <3>7 DEF RecordReceipt, Advance, Lasting, ActivityType
    <3>8. CASE \E m \in Mandates : FinalizeBoundary(a, m)
      BY <1>1, <3>8 DEF FinalizeBoundary, Advance, Lasting, ActivityType
    <3>9. CASE \E s \in Selection, d \in Dispositions : RecordBaselineReceipt(a, s, d)
      BY <1>1, <3>9 DEF RecordBaselineReceipt, Advance, Lasting, ActivityType
    <3>10. CASE SealCandidate(a)
      BY <1>1, <3>10 DEF SealCandidate, Advance, Lasting, ActivityType
    <3>11. CASE \E s \in Selection, d \in Dispositions : RecordFinalReceipt(a, s, d)
      BY <1>1, <3>11 DEF RecordFinalReceipt, Advance, Lasting, ActivityType
    <3>12. CASE \E r \in Readinesses : FinalizeEvidence(a, r)
      BY <1>1, <3>12 DEF FinalizeEvidence, Advance, Lasting, ActivityType
    <3> QED
      BY <1>2, <3>1, <3>2, <3>3, <3>4, <3>5, <3>6, <3>7, <3>8, <3>9, <3>10, <3>11,
         <3>12 DEF AgentStep
  <2> QED
    BY <2>1, <2>2
<1>3. CASE CandidateStep(a)
  <2>1. Live /\ a \in Open /\ UNCHANGED <<grant, charged, active, closure>>
    BY <1>3 DEF CandidateStep, AssessIntegration, ObserveCandidateRevision,
       FreezeMaterialCondition, On, OnlyActivity, subjectVars, delegationVars
  <2>2. Lasting(a) /\ \A b \in Activity : b # a => acts'[b] = acts[b]
    <3>1. CASE \E r \in {"unchanged", "requires-readmission", "not-constructed"} :
                 AssessIntegration(a, r)
      BY <1>1, <3>1 DEF AssessIntegration, Advance, Lasting, ActivityType
    <3>2. CASE ObserveCandidateRevision(a)
      BY <1>1, <3>2 DEF ObserveCandidateRevision, Advance, Lasting, ActivityType
    <3>3. CASE \E s \in Sources : FreezeMaterialCondition(a, s)
      BY <1>1, <3>3 DEF FreezeMaterialCondition, Advance, Lasting, ActivityType
    <3> QED
      BY <1>3, <3>1, <3>2, <3>3 DEF CandidateStep
  <2> QED
    BY <2>1, <2>2
<1>4. CASE TransactionStep(a) /\ ~ObserveApplied(a)
  <2>1. Live /\ a \in Open /\ UNCHANGED <<grant, charged, active>>
        /\ (closure' = closure \/ RecordClosure(a))
    BY <1>4 DEF TransactionStep, AuthenticateDecision, IntendTransactionEffect,
       ObserveIndeterminate, ObserveNotApplied, RecordClosure, On, OnlyActivity,
       subjectVars, delegationVars
  <2>2. Lasting(a) /\ \A b \in Activity : b # a => acts'[b] = acts[b]
    <3>1. CASE AuthenticateDecision(a)
      BY <1>1, <3>1 DEF AuthenticateDecision, Advance, Lasting, ActivityType
    <3>2. CASE IntendTransactionEffect(a)
      BY <1>1, <3>2 DEF IntendTransactionEffect, Advance, Lasting, ActivityType
    <3>3. CASE ObserveIndeterminate(a)
      BY <1>1, <3>3 DEF ObserveIndeterminate, Advance, Lasting, ActivityType
    <3>4. CASE ObserveNotApplied(a)
      BY <1>1, <3>4 DEF ObserveNotApplied, Advance, Lasting, ActivityType
    <3>5. CASE RecordClosure(a)
      BY <1>1, <3>5 DEF RecordClosure, Advance, Lasting, Idle
    <3> QED
      BY <1>4, <3>1, <3>2, <3>3, <3>4, <3>5 DEF TransactionStep
  <2> QED
    BY <2>1, <2>2
<1>5. ASSUME NEW o \in {"completed", "failed", "abandoned"}, CompleteActivity(a, o)
      PROVE  /\ Live /\ a \in Open /\ UNCHANGED <<grant, charged, active>>
             /\ Lasting(a) /\ \A b \in Activity : b # a => acts'[b] = acts[b]
             /\ closure' = closure
  <2>1. Live /\ a \in Open /\ UNCHANGED <<grant, charged, active, closure>>
    BY <1>5 DEF CompleteActivity, delegationVars
  <2>2. Lasting(a) /\ \A b \in Activity : b # a => acts'[b] = acts[b]
    BY <1>1, <1>5 DEF CompleteActivity, Advance, Lasting, Idle
  <2> QED
    BY <2>1, <2>2
<1> QED
  BY <1>2, <1>3, <1>4, <1>5

LEMMA StepGoverned ==
  ASSUME DelegationInv, NEW a \in Activity,
         \/ AgentStep(a) \/ CandidateStep(a)
         \/ TransactionStep(a) /\ ~ObserveApplied(a)
         \/ \E o \in {"completed", "failed", "abandoned"} : CompleteActivity(a, o)
  PROVE  ChargedWithinCeilings' /\ ReservedWorkIsGoverned'
BY StepLasts, LastingStays DEF DelegationInv

\* A Director's transaction is never paid for.
LEMMA TransactionUnpaid ==
  ASSUME DelegationInv, NEW a \in Open, Family(acts[a].op) = "transaction"
  PROVE  ~acts[a].reserved /\ acts[a].op \in TransactionOperations
<1>1. grant \in GrantType /\ acts[a].op \in TransactionOperations
  BY Families DEF DelegationInv, SafetyInv, TypeInv, TypeOK
<1>2. acts[a].reserved => acts[a].op \in grant.operations
  BY DEF DelegationInv, ReservedWorkIsGoverned
<1> QED
  BY <1>1, <1>2 DEF GrantType, ProductiveOperations, TransactionOperations,
     TerminalOperations

\* An admission is not, and nothing else is open beside it.
LEMMA AppliedGoverned ==
  ASSUME DelegationInv, NEW a \in Activity, ObserveApplied(a)
  PROVE  ChargedWithinCeilings' /\ ReservedWorkIsGoverned'
<1> DEFINE t == acts[a]
<1>1. /\ a \in Open /\ Family(t.op) = "transaction" /\ UNCHANGED <<grant, charged>>
      /\ acts' = [acts EXCEPT ![a] = [t EXCEPT !.observed = "applied",
                                               !.stage = "effect-observed",
                                               !.resumes = AfterApplied(t.op)]]
  BY DEF ObserveApplied, On, Advance, delegationVars
<1>2. t \in ActivityType /\ acts \in [Activity -> ActivityType] /\ OneOpenActivity
  BY DEF DelegationInv, SafetyInv, TypeInv, TypeOK
<1>3. ~t.reserved
  BY <1>1, TransactionUnpaid
<1>4. acts'[a].reserved = t.reserved /\ \A b \in Activity : b # a => acts'[b] = acts[b]
  BY <1>1, <1>2 DEF ActivityType
<1>5. \A b \in Open' : b = a
  BY <1>1, <1>2, <1>4 DEF OneOpenActivity, Open
<1>6. ReservedWorkIsGoverned'
  BY <1>3, <1>4, <1>5 DEF ReservedWorkIsGoverned
<1>7. ChargedWithinCeilings'
  BY <1>1 DEF DelegationInv, ChargedWithinCeilings
<1> QED
  BY <1>6, <1>7

LEMMA InitDelegation == Init => DelegationInv
<1> SUFFICES ASSUME Init PROVE DelegationInv
  OBVIOUS
<1>1. Open = {} /\ grant.revision = 0
  BY DEF Init, Open, Idle, NoGrant
<1> QED
  BY <1>1, InitSafe DEF DelegationInv, ChargedWithinCeilings, ReservedWorkIsGoverned

LEMMA NextDelegation == DelegationInv /\ [Next]_vars => DelegationInv'
<1> SUFFICES ASSUME DelegationInv, [Next]_vars
             PROVE  ChargedWithinCeilings' /\ ReservedWorkIsGoverned'
  BY NextSafe DEF DelegationInv
<1>1. CASE DirectorStep
  BY <1>1, StartGoverned, DirectorGoverned DEF DirectorStep
<1>2. ASSUME NEW a \in Activity,
             \/ AgentStep(a) \/ CandidateStep(a) \/ TransactionStep(a)
             \/ \E o \in {"completed", "failed", "abandoned"} : CompleteActivity(a, o)
      PROVE  ChargedWithinCeilings' /\ ReservedWorkIsGoverned'
  BY <1>2, StepGoverned, AppliedGoverned
<1>3. CASE UNCHANGED vars
  BY <1>3, DelegationStays DEF vars, subjectVars, delegationVars, Open
<1> QED
  BY <1>1, <1>2, <1>3 DEF Next

LEMMA Delegated == Spec => []DelegationInv
  BY InitDelegation, NextDelegation, PTL DEF Spec

\* What is charged, over all replacements of a grant, is within its ceilings.
THEOREM ChargesAreWithin == Spec => []ChargedWithinCeilings
<1>1. DelegationInv => ChargedWithinCeilings
  BY DEF DelegationInv
<1> QED
  BY <1>1, Delegated, PTL

\* Work opened on a reservation stays under the grant that paid for it.
THEOREM ReservedIsGoverned == Spec => []ReservedWorkIsGoverned
<1>1. DelegationInv => ReservedWorkIsGoverned
  BY DEF DelegationInv
<1> QED
  BY <1>1, Delegated, PTL

------------------------------------------------------------------------------
(* The ledger of the delegation                                            *)

\* No grant is of a boundary that is yet to be admitted.
GrantIsOfThePast == grant.revision # 0 => grant.boundary <= active
LedgerInv == OrderInv /\ DelegationInv /\ GrantIsOfThePast

LedgerStep == GrantIsOfThePast' /\ [Ledger!Next]_(Ledger!vars)

KindOf(op) ==
  IF op \in ProductiveOperations THEN "work"
  ELSE IF op \in TerminalOperations THEN "terminal" ELSE "other"

LEMMA LedgerTyped ==
  ASSUME LedgerInv
  PROVE  /\ acts \in [Activity -> ActivityType] /\ grant \in GrantType
         /\ grant.revision \in Nat /\ grant.boundary \in Nat
         /\ active \in Nat /\ proposed \in Nat
         /\ OneOpenActivity /\ SafetyInv
<1>1. /\ acts \in [Activity -> ActivityType] /\ grant \in GrantType
      /\ boundaries \in Seq(BoundaryType)
      /\ proposed \in 0 .. Len(boundaries) /\ active \in 0 .. Len(boundaries)
      /\ OneOpenActivity /\ SafetyInv
  BY DEF LedgerInv, DelegationInv, SafetyInv, TypeInv, TypeOK
<1> QED
  BY <1>1 DEF GrantType

LEMMA Booleans ==
  /\ GrantGoverns \in BOOLEAN /\ GrantGoverns' \in BOOLEAN
  /\ Paid \in BOOLEAN /\ Paid' \in BOOLEAN
  /\ Closed \in BOOLEAN /\ Closed' \in BOOLEAN
  BY DEF GrantGoverns, Paid, Closed

\* What the ledger reads of the activities.
LEMMA NothingOpen ==
  /\ Open = {} => Settled /\ OpenKind = "none" /\ ~Paid
  /\ Open' = {} => OpenKind' = "none" /\ ~Paid'
  BY DEF Settled, OpenKind, Paid

LEMMA ThisOpen ==
  ASSUME NEW a \in Activity
  PROVE  /\ Open = {a} => /\ OpenKind = KindOf(acts[a].op)
                          /\ Paid <=> acts[a].reserved
         /\ Open' = {a} => /\ OpenKind' = KindOf(acts'[a].op)
                           /\ Paid' <=> acts'[a].reserved
  BY DEF OpenKind, Settled, Doing, KindOf, Paid

LEMMA SomeKind == \A op : KindOf(op) # "none" /\ KindOf(op) \in Ledger!Kinds
  BY DEF KindOf, Ledger!Kinds

\* Events that leave the ledger alone.
LEMMA LedgerStays ==
  ASSUME LedgerInv, UNCHANGED <<grant, active, closure, OpenKind, Paid>>
  PROVE  LedgerStep
<1>1. GrantGoverns' = GrantGoverns /\ Closed' = Closed
  BY DEF GrantGoverns, Closed
<1>2. GrantIsOfThePast'
  BY DEF LedgerInv, GrantIsOfThePast
<1> QED
  BY <1>1, <1>2 DEF LedgerStep, Ledger!vars, Ledger!delegation, Ledger!activity

LEMMA SameActivities ==
  ASSUME acts' = acts
  PROVE  Open' = Open /\ OpenKind' = OpenKind /\ Paid' = Paid
<1>1. Open' = Open
  BY DEF Open
<1> QED
  BY <1>1 DEF OpenKind, Settled, Doing, Paid

LEMMA StepKeepsLedger ==
  ASSUME LedgerInv, NEW a \in Activity,
         \/ AgentStep(a) \/ CandidateStep(a)
         \/ TransactionStep(a) /\ ~ObserveApplied(a)
         \/ \E o \in {"completed", "failed", "abandoned"} : CompleteActivity(a, o)
  PROVE  LedgerStep
<1>1. /\ Live /\ a \in Open /\ UNCHANGED <<grant, active>>
      /\ Lasting(a) /\ \A b \in Activity : b # a => acts'[b] = acts[b]
      /\ closure' = closure \/ RecordClosure(a)
  BY StepLasts, LedgerTyped
<1>2. Open = {a} /\ ~Closed
  BY <1>1, LedgerTyped DEF OneOpenActivity, Live, Closed
<1>3. GrantGoverns' = GrantGoverns /\ GrantIsOfThePast'
  BY <1>1 DEF GrantGoverns, LedgerInv, GrantIsOfThePast
<1>4. OpenKind = KindOf(acts[a].op) /\ OpenKind # "none"
  BY <1>2, ThisOpen, SomeKind
<1>5. CASE acts'[a].stage # "idle" /\ closure' = closure
  <2>1. \A b \in Activity : b \in Open' <=> b = a
    BY <1>1, <1>2, <1>5 DEF Open
  <2>2. Open' = {a}
    BY <2>1 DEF Open
  <2>3. OpenKind' = OpenKind /\ Paid' = Paid
    BY <1>1, <1>2, <1>5, <2>2, ThisOpen, Booleans DEF Lasting
  <2> QED
    BY <1>1, <1>5, <2>3, LedgerStays
<1>6. ASSUME acts'[a].stage = "idle"
      PROVE  OpenKind' = "none" /\ Paid' = FALSE
  <2>1. Open' = {}
    BY <1>1, <1>2, <1>6 DEF Open
  <2> QED
    BY <2>1, NothingOpen, Booleans
<1>7. CASE acts'[a].stage = "idle" /\ closure' = closure
  <2>1. Closed' = Closed
    BY <1>7 DEF Closed
  <2>2. Ledger!Settle
    BY <1>1, <1>3, <1>4, <1>6, <1>7, <2>1 DEF Ledger!Settle, Ledger!delegation
  <2> QED
    BY <1>3, <2>2 DEF LedgerStep, Ledger!Next
<1>8. CASE RecordClosure(a)
  <2>1. acts[a].op \in TerminalOperations /\ acts' = [acts EXCEPT ![a] = Idle]
        /\ closure'.disposition \in {"accepted", "no-ship"}
    BY <1>8 DEF RecordClosure, Advance
  <2>2. acts'[a].stage = "idle"
    BY <2>1, LedgerTyped DEF Idle
  <2>3. Closed' = TRUE
    BY <2>1 DEF Closed, NoClosure
  <2>4. OpenKind = "terminal"
    BY <1>4, <2>1 DEF KindOf, TerminalOperations, ProductiveOperations
  <2>5. Ledger!Close
    BY <1>1, <1>3, <1>6, <2>2, <2>3, <2>4 DEF Ledger!Close, Ledger!delegation
  <2> QED
    BY <1>3, <2>5 DEF LedgerStep, Ledger!Next
<1> QED
  BY <1>1, <1>5, <1>7, <1>8

\* An applied admission leaves the grant behind.
LEMMA AppliedKeepsLedger ==
  ASSUME LedgerInv, NEW a \in Activity, ObserveApplied(a)
  PROVE  LedgerStep
<1> DEFINE t == acts[a]
<1>1. /\ a \in Open /\ Family(t.op) = "transaction" /\ Live
      /\ grant' = grant /\ closure' = closure
      /\ acts' = [acts EXCEPT ![a] = [t EXCEPT !.observed = "applied",
                                               !.stage = "effect-observed",
                                               !.resumes = AfterApplied(t.op)]]
  BY DEF ObserveApplied, On, Advance, delegationVars
<1>2. /\ t \in ActivityType /\ acts \in [Activity -> ActivityType]
      /\ OneOpenActivity
  BY LedgerTyped
<1>3. /\ acts'[a].op = t.op /\ acts'[a].reserved = t.reserved
      /\ acts'[a].stage = "effect-observed"
      /\ \A b \in Activity : b # a => acts'[b] = acts[b]
  BY <1>1, <1>2 DEF ActivityType
<1>4. Open = {a} /\ Open' = {a}
  <2>1. Open = {a}
    BY <1>1, <1>2 DEF OneOpenActivity
  <2>2. \A b \in Activity : b \in Open' <=> b = a
    BY <1>3, <2>1 DEF Open
  <2> QED
    BY <2>1, <2>2 DEF Open
<1>5. OpenKind = KindOf(t.op) /\ OpenKind' = OpenKind /\ Paid = FALSE /\ Paid' = FALSE
  <2>1. ~t.reserved
    BY <1>1, TransactionUnpaid DEF LedgerInv
  <2> QED
    BY <1>3, <1>4, <2>1, ThisOpen, Booleans
<1>6. CASE t.op = "admit"
  <2>1. active' = proposed /\ proposed # 0
    BY <1>6 DEF ObserveApplied
  <2>2. proposed > active
    BY <2>1 DEF LedgerInv, OrderInv, Ordered
  <2>3. grant.revision # 0 => grant.boundary <= active
    BY DEF LedgerInv, GrantIsOfThePast
  <2>4. GrantGoverns' = FALSE /\ GrantIsOfThePast'
    BY <1>1, <2>1, <2>2, <2>3, LedgerTyped DEF GrantGoverns, GrantIsOfThePast
  <2>5. Closed' = Closed
    BY <1>1 DEF Closed
  <2>6. OpenKind = "other"
    BY <1>5, <1>6 DEF KindOf, ProductiveOperations, TerminalOperations
  <2>7. Ledger!Readmit
    BY <1>1, <1>5, <2>4, <2>5, <2>6 DEF Ledger!Readmit
  <2> QED
    BY <2>4, <2>7 DEF LedgerStep, Ledger!Next
<1>7. CASE t.op # "admit"
  <2>1. active' = active
    BY <1>7 DEF ObserveApplied
  <2> QED
    BY <1>1, <1>5, <2>1, LedgerStays
<1> QED
  BY <1>6, <1>7

\* What opens is paid for by the grant that governs, or goes past none.
LEMMA StartKeepsLedger ==
  ASSUME LedgerInv, NEW a \in Activity, NEW op \in Operations,
         NEW reserved \in BOOLEAN, StartActivity(a, op, reserved)
  PROVE  LedgerStep
<1> DEFINE u == [Idle EXCEPT !.op = op, !.origin = Standing, !.stage = "started",
                             !.resumes = FirstStep(op), !.reserved = reserved]
<1>1. /\ Live /\ acts' = [acts EXCEPT ![a] = u] /\ UNCHANGED <<grant, active, closure>>
      /\ Open = {} /\ Financed(a, op, reserved)
  BY DEF StartActivity, Advance, subjectVars, EligibleOperations, Settled
<1>2. acts'[a] = u /\ \A b \in Activity : b # a => acts'[b] = acts[b]
  BY <1>1, LedgerTyped
<1>3. u.op = op /\ u.reserved = reserved /\ u.stage = "started"
  BY DEF Idle
<1> HIDE DEF u
<1>4. Open' = {a}
  <2>1. \A b \in Activity : b \in Open' <=> b = a
    BY <1>1, <1>2, <1>3 DEF Open
  <2> QED
    BY <2>1 DEF Open
<1>5. OpenKind = "none" /\ OpenKind' = KindOf(op) /\ Paid' = reserved
  BY <1>1, <1>2, <1>3, <1>4, NothingOpen, ThisOpen, Booleans
<1>6. /\ GrantGoverns' = GrantGoverns /\ Closed' = Closed /\ ~Closed
      /\ GrantIsOfThePast'
  BY <1>1 DEF GrantGoverns, Closed, Live, LedgerInv, GrantIsOfThePast
<1>7. CASE reserved
  <2>1. GrantGoverns /\ ~grant.stopped /\ op \in ProductiveOperations
    BY <1>1, <1>7 DEF Financed, WithinAllowance
  <2>2. Ledger!OpenPaid
    BY <1>1, <1>5, <1>6, <1>7, <2>1
    DEF KindOf, Ledger!OpenPaid, Ledger!Settled, Ledger!Pays, Ledger!delegation
  <2> QED
    BY <1>6, <2>2 DEF LedgerStep, Ledger!Next
<1>8. CASE ~reserved
  <2>1. KindOf(op) = "work" => ~(GrantGoverns /\ ~grant.stopped)
    BY <1>1, <1>8 DEF Financed, KindOf
  <2>2. Ledger!OpenFree(KindOf(op))
    BY <1>1, <1>5, <1>6, <1>8, <2>1
    DEF Ledger!OpenFree, Ledger!Settled, Ledger!Pays, Ledger!delegation
  <2> QED
    BY <1>6, <2>2, SomeKind DEF LedgerStep, Ledger!Next
<1> QED
  BY <1>7, <1>8

LEMMA DirectorKeepsLedger ==
  ASSUME LedgerInv,
         \/ CreateDelivery \/ \E a \in Activity : SubmitDirectorBrief(a)
         \/ \E op \in (UNION Grantable) \ {"integrate"} : SubmitStandingBrief(op)
         \/ \E ops \in Grantable, c \in Ceilings : SetWorkDelegation(ops, c)
         \/ StopWorkDelegation \/ DelegationExpires
  PROVE  LedgerStep
<1>1. acts' = acts /\ UNCHANGED <<active, closure>>
  BY DEF CreateDelivery, SubmitDirectorBrief, SubmitStandingBrief, SetWorkDelegation,
     StopWorkDelegation, DelegationExpires, subjectVars, delegationVars
<1>2. OpenKind' = OpenKind /\ Paid' = Paid /\ Closed' = Closed
  BY <1>1, SameActivities DEF Closed
<1>3. CASE grant' = grant
  BY <1>1, <1>2, <1>3, LedgerStays
<1>4. ASSUME NEW ops \in Grantable, NEW c \in Ceilings, SetWorkDelegation(ops, c)
      PROVE  LedgerStep
  <2>1. /\ Live /\ active # 0 /\ Open = {}
        /\ grant' = [revision |-> grant.revision + 1, boundary |-> active,
                     operations |-> ops, ceilings |-> c, stopped |-> FALSE,
                     expired |-> FALSE]
    BY <1>4 DEF SetWorkDelegation, Settled
  <2>2. /\ grant'.revision = grant.revision + 1 /\ grant'.boundary = active
        /\ grant'.stopped = FALSE
    BY <2>1
  <2>3. GrantGoverns' = TRUE /\ GrantIsOfThePast'
    BY <1>1, <2>1, <2>2, LedgerTyped DEF GrantGoverns, GrantIsOfThePast
  <2>4. OpenKind = "none" /\ ~Closed
    BY <2>1, NothingOpen DEF Live, Closed
  <2>5. Ledger!Grant
    BY <1>2, <2>2, <2>3, <2>4 DEF Ledger!Grant, Ledger!Settled, Ledger!activity
  <2> QED
    BY <2>3, <2>5 DEF LedgerStep, Ledger!Next
<1>5. CASE StopWorkDelegation
  <2>1. Live /\ Open = {} /\ grant.revision # 0 /\ ~grant.stopped
        /\ grant' = [grant EXCEPT !.stopped = TRUE]
    BY <1>5 DEF StopWorkDelegation, Settled
  <2>2. /\ grant'.revision = grant.revision /\ grant'.boundary = grant.boundary
        /\ grant'.stopped = TRUE
    BY <2>1, LedgerTyped DEF GrantType
  <2>3. GrantGoverns' = GrantGoverns /\ GrantIsOfThePast'
    BY <1>1, <2>2 DEF GrantGoverns, LedgerInv, GrantIsOfThePast
  <2>4. OpenKind = "none" /\ ~Closed
    BY <2>1, NothingOpen DEF Live, Closed
  <2>5. Ledger!Stop
    BY <1>2, <2>1, <2>2, <2>3, <2>4 DEF Ledger!Stop, Ledger!Settled, Ledger!activity
  <2> QED
    BY <2>3, <2>5 DEF LedgerStep, Ledger!Next
<1>6. CASE DelegationExpires
  <2>1. grant' = [grant EXCEPT !.expired = TRUE]
    BY <1>6 DEF DelegationExpires
  <2>2. /\ grant'.revision = grant.revision /\ grant'.boundary = grant.boundary
        /\ grant'.stopped = grant.stopped
    BY <2>1, LedgerTyped DEF GrantType
  <2>3. GrantGoverns' = GrantGoverns /\ GrantIsOfThePast'
    BY <1>1, <2>2 DEF GrantGoverns, LedgerInv, GrantIsOfThePast
  <2> QED
    BY <1>2, <2>2, <2>3 DEF LedgerStep, Ledger!vars, Ledger!delegation,
       Ledger!activity
<1> QED
  BY <1>3, <1>4, <1>5, <1>6 DEF CreateDelivery, SubmitDirectorBrief,
     SubmitStandingBrief, delegationVars

LEMMA InitLedger == Init => LedgerInv /\ Ledger!Init
<1> SUFFICES ASSUME Init PROVE LedgerInv /\ Ledger!Init
  OBVIOUS
<1>1. /\ Open = {} /\ grant = NoGrant /\ closure = NoClosure
  BY DEF Init, Open, Idle
<1>2. grant.revision = 0 /\ grant.stopped = FALSE
  BY <1>1 DEF NoGrant
<1>3. OpenKind = "none" /\ Paid = FALSE /\ Closed = FALSE /\ GrantGoverns = FALSE
  BY <1>1, <1>2, NothingOpen, Booleans DEF Closed, GrantGoverns
<1> QED
  BY <1>2, <1>3, InitOrder, InitDelegation DEF LedgerInv, GrantIsOfThePast, Ledger!Init

LEMMA NextKeepsLedger ==
  ASSUME LedgerInv, [Next]_vars
  PROVE  LedgerStep
<1>1. CASE DirectorStep
  BY <1>1, StartKeepsLedger, DirectorKeepsLedger DEF DirectorStep
<1>2. ASSUME NEW a \in Activity,
             \/ AgentStep(a) \/ CandidateStep(a) \/ TransactionStep(a)
             \/ \E o \in {"completed", "failed", "abandoned"} : CompleteActivity(a, o)
      PROVE  LedgerStep
  BY <1>2, StepKeepsLedger, AppliedKeepsLedger
<1>3. CASE UNCHANGED vars
  BY <1>3, SameActivities, LedgerStays DEF vars, subjectVars, delegationVars
<1> QED
  BY <1>1, <1>2, <1>3 DEF Next

\* Whatever the journal is made to say, it is a ledger of the delegation: only
\* the grant under the admitted boundary pays, and only while it is not stopped;
\* no productive operation goes past it; none is granted or stopped, and no
\* boundary admitted, under work it paid for (the reducer's cases of
\* work-delegation-set, work-delegation-stopped and activity-started in
\* delivery-reducer.ts).
THEOREM KeepsLedger == Spec => ImplementsLedger
<1>1. LedgerInv /\ [Next]_vars => LedgerInv' /\ [Ledger!Next]_(Ledger!vars)
  BY NextKeepsLedger, NextOrder, NextDelegation DEF LedgerInv, LedgerStep
<1> QED
  BY <1>1, InitLedger, PTL DEF Spec, ImplementsLedger, Ledger!Spec
==============================================================================
