------------------------- MODULE DeliveryTypeProofs --------------------------
(***************************************************************************)
(* Type correctness of the Delivery reducer, for every mandate, modality,  *)
(* delegation and bound: lemmas about activity records first, then one     *)
(* lemma per event.                                                        *)
(***************************************************************************)
EXTENDS DeliveryInvariants, TLAPS

------------------------------------------------------------------------------
(* Activity records                                                        *)

LEMMA IdleType == Idle \in ActivityType
  BY ConstantsAssumption
  DEF Idle, ActivityType, Stages, Standings, NoSeal, SealType, NoChecks, ChecksType,
      NoDecision, DecisionType

\* What an event may record of its activity, with the stage it reaches and the
\* obligation it leaves, is again an activity record.
LEMMA RecordedFact ==
  ASSUME NEW t \in ActivityType, NEW s \in Stages, NEW r \in Steps \cup {"none"}
  PROVE  /\ [t EXCEPT !.stage = s, !.resumes = r] \in ActivityType
         /\ \A x \in BOOLEAN :
              [t EXCEPT !.attempt = x, !.stage = s, !.resumes = r] \in ActivityType
         /\ \A x \in BOOLEAN :
              [t EXCEPT !.intended = x, !.stage = s, !.resumes = r] \in ActivityType
         /\ \A x \in {"completed", "failed", "not-started"} :
              [t EXCEPT !.outcome = x, !.stage = s, !.resumes = r] \in ActivityType
         /\ \A x \in {"none", "projection-condition-required"} :
              [t EXCEPT !.refusal = x, !.stage = s, !.resumes = r] \in ActivityType
         /\ \A x \in {"abandoned", "ordinary", "material-condition"} :
              [t EXCEPT !.product = x, !.stage = s, !.resumes = r] \in ActivityType
         /\ \A x \in Nat :
              [t EXCEPT !.successor = x, !.stage = s, !.resumes = r] \in ActivityType
         /\ \A x \in {"unchanged", "requires-readmission", "not-constructed"} :
              [t EXCEPT !.assessed = x, !.stage = s, !.resumes = r] \in ActivityType
         /\ \A x \in BOOLEAN :
              [t EXCEPT !.receipt = x, !.stage = s, !.resumes = r] \in ActivityType
         /\ \A x \in Nat :
              [t EXCEPT !.boundary = x, !.stage = s, !.resumes = r] \in ActivityType
         /\ \A x \in BOOLEAN :
              [t EXCEPT !.froze = x, !.stage = s, !.resumes = r] \in ActivityType
         /\ \A x \in SealType :
              [t EXCEPT !.seal = x, !.stage = s, !.resumes = r] \in ActivityType
         /\ \A x \in ChecksType :
              [t EXCEPT !.checks = x, !.stage = s, !.resumes = r] \in ActivityType
         /\ \A x \in BOOLEAN :
              [t EXCEPT !.packet = x, !.stage = s, !.resumes = r] \in ActivityType
         /\ \A x \in DecisionType :
              [t EXCEPT !.decision = x, !.stage = s, !.resumes = r] \in ActivityType
         /\ \A x \in {"applied", "not-applied"} :
              [t EXCEPT !.observed = x, !.stage = s, !.resumes = r] \in ActivityType
<1>1. \A u \in ActivityType : [u EXCEPT !.stage = s] \in ActivityType
  BY DEF ActivityType
<1>2. \A u \in ActivityType : [u EXCEPT !.resumes = r] \in ActivityType
  BY DEF ActivityType
<1>3. \A u \in ActivityType : [u EXCEPT !.stage = s, !.resumes = r] \in ActivityType
  BY <1>1, <1>2
<1>4. \A x \in BOOLEAN :
         [t EXCEPT !.attempt = x, !.stage = s, !.resumes = r] \in ActivityType
  <2>1. \A x \in BOOLEAN : [t EXCEPT !.attempt = x] \in ActivityType
    BY DEF ActivityType
  <2> QED
    BY <1>3, <2>1
<1>5. \A x \in BOOLEAN :
         [t EXCEPT !.intended = x, !.stage = s, !.resumes = r] \in ActivityType
  <2>1. \A x \in BOOLEAN : [t EXCEPT !.intended = x] \in ActivityType
    BY DEF ActivityType
  <2> QED
    BY <1>3, <2>1
<1>6. \A x \in {"completed", "failed", "not-started"} :
         [t EXCEPT !.outcome = x, !.stage = s, !.resumes = r] \in ActivityType
  <2>1. \A x \in {"completed", "failed", "not-started"} : [t EXCEPT !.outcome = x] \in ActivityType
    BY DEF ActivityType
  <2> QED
    BY <1>3, <2>1
<1>7. \A x \in {"none", "projection-condition-required"} :
         [t EXCEPT !.refusal = x, !.stage = s, !.resumes = r] \in ActivityType
  <2>1. \A x \in {"none", "projection-condition-required"} : [t EXCEPT !.refusal = x] \in ActivityType
    BY DEF ActivityType
  <2> QED
    BY <1>3, <2>1
<1>8. \A x \in {"abandoned", "ordinary", "material-condition"} :
         [t EXCEPT !.product = x, !.stage = s, !.resumes = r] \in ActivityType
  <2>1. \A x \in {"abandoned", "ordinary", "material-condition"} : [t EXCEPT !.product = x] \in ActivityType
    BY DEF ActivityType
  <2> QED
    BY <1>3, <2>1
<1>9. \A x \in Nat :
         [t EXCEPT !.successor = x, !.stage = s, !.resumes = r] \in ActivityType
  <2>1. \A x \in Nat : [t EXCEPT !.successor = x] \in ActivityType
    BY DEF ActivityType
  <2> QED
    BY <1>3, <2>1
<1>10. \A x \in {"unchanged", "requires-readmission", "not-constructed"} :
         [t EXCEPT !.assessed = x, !.stage = s, !.resumes = r] \in ActivityType
  <2>1. \A x \in {"unchanged", "requires-readmission", "not-constructed"} : [t EXCEPT !.assessed = x] \in ActivityType
    BY DEF ActivityType
  <2> QED
    BY <1>3, <2>1
<1>11. \A x \in BOOLEAN :
         [t EXCEPT !.receipt = x, !.stage = s, !.resumes = r] \in ActivityType
  <2>1. \A x \in BOOLEAN : [t EXCEPT !.receipt = x] \in ActivityType
    BY DEF ActivityType
  <2> QED
    BY <1>3, <2>1
<1>12. \A x \in Nat :
         [t EXCEPT !.boundary = x, !.stage = s, !.resumes = r] \in ActivityType
  <2>1. \A x \in Nat : [t EXCEPT !.boundary = x] \in ActivityType
    BY DEF ActivityType
  <2> QED
    BY <1>3, <2>1
<1>13. \A x \in BOOLEAN :
         [t EXCEPT !.froze = x, !.stage = s, !.resumes = r] \in ActivityType
  <2>1. \A x \in BOOLEAN : [t EXCEPT !.froze = x] \in ActivityType
    BY DEF ActivityType
  <2> QED
    BY <1>3, <2>1
<1>14. \A x \in SealType :
         [t EXCEPT !.seal = x, !.stage = s, !.resumes = r] \in ActivityType
  <2>1. \A x \in SealType : [t EXCEPT !.seal = x] \in ActivityType
    BY DEF ActivityType
  <2> QED
    BY <1>3, <2>1
<1>15. \A x \in ChecksType :
         [t EXCEPT !.checks = x, !.stage = s, !.resumes = r] \in ActivityType
  <2>1. \A x \in ChecksType : [t EXCEPT !.checks = x] \in ActivityType
    BY DEF ActivityType
  <2> QED
    BY <1>3, <2>1
<1>16. \A x \in BOOLEAN :
         [t EXCEPT !.packet = x, !.stage = s, !.resumes = r] \in ActivityType
  <2>1. \A x \in BOOLEAN : [t EXCEPT !.packet = x] \in ActivityType
    BY DEF ActivityType
  <2> QED
    BY <1>3, <2>1
<1>17. \A x \in DecisionType :
         [t EXCEPT !.decision = x, !.stage = s, !.resumes = r] \in ActivityType
  <2>1. \A x \in DecisionType : [t EXCEPT !.decision = x] \in ActivityType
    BY DEF ActivityType
  <2> QED
    BY <1>3, <2>1
<1>18. \A x \in {"applied", "not-applied"} :
         [t EXCEPT !.observed = x, !.stage = s, !.resumes = r] \in ActivityType
  <2>1. \A x \in {"applied", "not-applied"} : [t EXCEPT !.observed = x] \in ActivityType
    BY DEF ActivityType
  <2> QED
    BY <1>3, <2>1
<1> QED
  BY <1>3, <1>4, <1>5, <1>6, <1>7, <1>8, <1>9, <1>10, <1>11, <1>12, <1>13, <1>14, <1>15, <1>16, <1>17, <1>18

------------------------------------------------------------------------------
(* Types                                                                   *)

LEMMA AdvanceType ==
  ASSUME acts \in [Activity -> ActivityType], NEW a \in Activity,
         NEW u \in ActivityType, Advance(a, u)
  PROVE  /\ acts' \in [Activity -> ActivityType]
         /\ acts'[a] = u
         /\ \A b \in Activity : b # a => acts'[b] = acts[b]
  BY DEF Advance

\* An event that changes its own activity only.
LEMMA ActivityStep ==
  ASSUME TypeInv, NEW a \in Activity, NEW u \in ActivityType, Advance(a, u),
         u.boundary <= Len(boundaries)',
         u.stage # "idle" => u.op \in Operations,
         Len(boundaries) <= Len(boundaries)', Len(boundaries)' \in Nat
  PROVE  /\ acts' \in [Activity -> ActivityType]
         /\ ActivityFacts'
<1>1. /\ acts' \in [Activity -> ActivityType]
      /\ acts'[a] = u
      /\ \A b \in Activity : b # a => acts'[b] = acts[b]
  BY AdvanceType DEF TypeInv, TypeOK
<1>2. Len(boundaries) \in Nat /\ \A b \in Activity : acts[b].boundary \in Nat
  BY DEF TypeInv, TypeOK, ActivityType
<1>3. ASSUME NEW b \in Activity
      PROVE  /\ acts'[b].boundary <= Len(boundaries)'
             /\ b \in Open' => acts'[b].op \in Operations
  <2>1. CASE b = a
    BY <2>1, <1>1 DEF Open
  <2>2. CASE b # a
    <3>1. acts'[b] = acts[b]
      BY <2>2, <1>1
    <3>2. acts[b].boundary <= Len(boundaries)
      BY DEF TypeInv, ActivityFacts
    <3>3. b \in Open' => acts[b].op \in Operations
      BY <3>1 DEF TypeInv, ActivityFacts, Open
    <3> QED
      BY <3>1, <3>2, <3>3, <1>2
  <2> QED
    BY <2>1, <2>2
<1> QED
  BY <1>1, <1>3 DEF ActivityFacts

LEMMA OwnStep ==
  ASSUME TypeInv, NEW a \in Activity, a \in Open, NEW u \in ActivityType,
         Advance(a, u), OnlyActivity,
         u.boundary = acts[a].boundary, u.op = acts[a].op
  PROVE  TypeInv'
<1>1. u.boundary <= Len(boundaries)' /\ u.op \in Operations /\ Len(boundaries) \in Nat
      /\ Len(boundaries)' = Len(boundaries)
  BY DEF TypeInv, TypeOK, ActivityFacts, OnlyActivity, subjectVars
<1>2. acts' \in [Activity -> ActivityType] /\ ActivityFacts'
  BY <1>1, ActivityStep
<1>3. TypeOK'
  BY <1>2 DEF TypeInv, TypeOK, OnlyActivity, subjectVars, delegationVars
<1> QED
  BY <1>2, <1>3 DEF TypeInv

LEMMA InitType == Init => TypeInv
<1> SUFFICES ASSUME Init PROVE TypeInv
  OBVIOUS
<1>1. acts \in [Activity -> ActivityType] /\ boundaries \in Seq(BoundaryType)
      /\ Len(boundaries) = 0
  BY IdleType DEF Init
<1>2. seal \in SealType /\ candidate \in [revision : Nat, boundary : Nat]
  BY DEF Init, NoSeal, SealType, NoCandidate
<1>3. evidence \in [seal : Nat, candidate : Nat, boundary : Nat, final : ChecksType]
  BY DEF Init, NoEvidence, NoChecks, ChecksType
<1>4. closure \in [disposition : {"none", "accepted", "no-ship"},
                  boundary : Nat, candidate : Nat, seal : Nat]
  BY DEF Init, NoClosure
<1>5. grant \in GrantType /\ charged \in [Resource -> Nat]
  BY DEF Init, NoGrant, GrantType
<1>6. TypeOK
  <2>1. /\ created = FALSE /\ briefs = {} /\ prepared = FALSE /\ proposed = 0
        /\ active = 0 /\ integrated = FALSE /\ condition = "none" /\ seals = 0
        /\ readiness = "none" /\ standingBriefs = {}
    BY DEF Init
  <2>2. /\ proposed \in 0 .. Len(boundaries) /\ active \in 0 .. Len(boundaries)
        /\ seals \in Nat
    BY <1>1, <2>1
  <2>3. briefs \subseteq Activity /\ standingBriefs \subseteq (Nat \X {"continue", "evaluate"})
    BY <2>1
  <2>4. created \in BOOLEAN /\ prepared \in BOOLEAN /\ integrated \in BOOLEAN
    BY <2>1
  <2> QED
    BY <1>1, <1>2, <1>3, <1>4, <1>5, <2>1, <2>2, <2>3, <2>4 DEF TypeOK
<1>7. ActivityFacts
  <2>1. Idle.boundary = 0 /\ Idle.stage = "idle"
    BY DEF Idle
  <2>2. \A a \in Activity : acts[a] = Idle
    BY DEF Init
  <2> QED
    BY <2>1, <2>2, <1>1 DEF ActivityFacts, Open
<1> QED
  BY <1>6, <1>7 DEF TypeInv

LEMMA RefuseAgentBeforeIntentType ==
  ASSUME TypeInv, NEW a \in Activity, NEW x \in {"none", "projection-condition-required"},
         RefuseAgentBeforeIntent(a, x)
  PROVE  TypeInv'
<1> DEFINE t == acts[a]
           r == IF x = "none" THEN "activity-completed"
                ELSE "activity-finalization"
           u == [t EXCEPT !.refusal = x, !.stage = "finalizing", !.resumes = r]
<1>1. t \in ActivityType /\ a \in Open /\ Advance(a, u) /\ OnlyActivity
  BY DEF TypeInv, TypeOK, RefuseAgentBeforeIntent, On
<1>2. r \in Steps /\ "finalizing" \in Stages
  BY DEF Steps, Stages
<1>3. u \in ActivityType
  BY <1>1, <1>2, RecordedFact
<1>4. u.boundary = t.boundary /\ u.op = t.op
  BY <1>1 DEF ActivityType
<1> QED
  BY <1>1, <1>3, <1>4, OwnStep

LEMMA PrepareAttemptType ==
  ASSUME TypeInv, NEW a \in Activity, PrepareAttempt(a)
  PROVE  TypeInv'
<1> DEFINE t == acts[a]
           r == "provider-effect-intended"
           u == [t EXCEPT !.attempt = TRUE, !.stage = "prepared", !.resumes = r]
<1>1. t \in ActivityType /\ a \in Open /\ Advance(a, u) /\ OnlyActivity
  BY DEF TypeInv, TypeOK, PrepareAttempt, On
<1>2. r \in Steps /\ "prepared" \in Stages
  BY DEF Steps, Stages
<1>3. u \in ActivityType
  BY <1>1, <1>2, RecordedFact
<1>4. u.boundary = t.boundary /\ u.op = t.op
  BY <1>1 DEF ActivityType
<1> QED
  BY <1>1, <1>3, <1>4, OwnStep

LEMMA IntendProviderEffectType ==
  ASSUME TypeInv, NEW a \in Activity, IntendProviderEffect(a)
  PROVE  TypeInv'
<1> DEFINE t == acts[a]
           r == "provider-effect-observed"
           u == [t EXCEPT !.intended = TRUE, !.stage = "effect-intended", !.resumes = r]
<1>1. t \in ActivityType /\ a \in Open /\ Advance(a, u) /\ OnlyActivity
  BY DEF TypeInv, TypeOK, IntendProviderEffect, On
<1>2. r \in Steps /\ "effect-intended" \in Stages
  BY DEF Steps, Stages
<1>3. u \in ActivityType
  BY <1>1, <1>2, RecordedFact
<1>4. u.boundary = t.boundary /\ u.op = t.op
  BY <1>1 DEF ActivityType
<1> QED
  BY <1>1, <1>3, <1>4, OwnStep

LEMMA ObserveProviderEffectType ==
  ASSUME TypeInv, NEW a \in Activity, NEW x \in {"completed", "failed", "not-started"},
         ObserveProviderEffect(a, x)
  PROVE  TypeInv'
<1> DEFINE t == acts[a]
           r == "work-product-observation"
           u == [t EXCEPT !.outcome = x, !.stage = "effect-observed", !.resumes = r]
<1>1. t \in ActivityType /\ a \in Open /\ Advance(a, u) /\ OnlyActivity
  BY DEF TypeInv, TypeOK, ObserveProviderEffect, On
<1>2. r \in Steps /\ "effect-observed" \in Stages
  BY DEF Steps, Stages
<1>3. u \in ActivityType
  BY <1>1, <1>2, RecordedFact
<1>4. u.boundary = t.boundary /\ u.op = t.op
  BY <1>1 DEF ActivityType
<1> QED
  BY <1>1, <1>3, <1>4, OwnStep

LEMMA SubmitWorkProductType ==
  ASSUME TypeInv, NEW a \in Activity, NEW x \in {"ordinary", "material-condition"},
         SubmitWorkProduct(a, x)
  PROVE  TypeInv'
<1> DEFINE t == acts[a]
           r == IF t.op = "continue" THEN "candidate-revision-observed"
                ELSE "execution-receipt-recorded"
           u == [t EXCEPT !.product = x, !.stage = "submitted", !.resumes = r]
<1>1. t \in ActivityType /\ a \in Open /\ Advance(a, u) /\ OnlyActivity
  BY DEF TypeInv, TypeOK, SubmitWorkProduct, DisposeWorkProduct, On
<1>2. r \in Steps /\ "submitted" \in Stages
  BY DEF Steps, Stages
<1>3. u \in ActivityType
  BY <1>1, <1>2, RecordedFact
<1>4. u.boundary = t.boundary /\ u.op = t.op
  BY <1>1 DEF ActivityType
<1> QED
  BY <1>1, <1>3, <1>4, OwnStep

LEMMA AbandonWorkProductType ==
  ASSUME TypeInv, NEW a \in Activity, AbandonWorkProduct(a)
  PROVE  TypeInv'
<1> DEFINE t == acts[a]
           r == IF t.op = "continue" THEN "candidate-revision-observed"
                ELSE "execution-receipt-recorded"
           u == [t EXCEPT !.product = "abandoned", !.stage = "submitted", !.resumes = r]
<1>1. t \in ActivityType /\ a \in Open /\ Advance(a, u) /\ OnlyActivity
  BY DEF TypeInv, TypeOK, AbandonWorkProduct, DisposeWorkProduct, On
<1>2. r \in Steps /\ "submitted" \in Stages
  BY DEF Steps, Stages
<1>3. u \in ActivityType
  BY <1>1, <1>2, RecordedFact
<1>4. u.boundary = t.boundary /\ u.op = t.op
  BY <1>1 DEF ActivityType
<1> QED
  BY <1>1, <1>3, <1>4, OwnStep

LEMMA RecordReceiptType ==
  ASSUME TypeInv, NEW a \in Activity, RecordReceipt(a)
  PROVE  TypeInv'
<1> DEFINE t == acts[a]
           r == IF ~Submitted(t) THEN "activity-completed"
                ELSE IF t.op \in BoundaryOperations THEN "work-boundary-finalized"
                ELSE "activity-finalization"
           u == [t EXCEPT !.receipt = TRUE, !.stage = "finalizing", !.resumes = r]
<1>1. t \in ActivityType /\ a \in Open /\ Advance(a, u) /\ OnlyActivity
  BY DEF TypeInv, TypeOK, RecordReceipt, On
<1>2. r \in Steps /\ "finalizing" \in Stages
  BY DEF Steps, Stages
<1>3. u \in ActivityType
  BY <1>1, <1>2, RecordedFact
<1>4. u.boundary = t.boundary /\ u.op = t.op
  BY <1>1 DEF ActivityType
<1> QED
  BY <1>1, <1>3, <1>4, OwnStep

LEMMA AssessIntegrationType ==
  ASSUME TypeInv, NEW a \in Activity, NEW x \in {"unchanged", "requires-readmission", "not-constructed"},
         AssessIntegration(a, x)
  PROVE  TypeInv'
<1> DEFINE t == acts[a]
           r == IF x = "not-constructed" THEN "activity-completed"
                ELSE "candidate-revision-observed"
           u == [t EXCEPT !.assessed = x, !.stage = "finalizing", !.resumes = r]
<1>1. t \in ActivityType /\ a \in Open /\ Advance(a, u) /\ OnlyActivity
  BY DEF TypeInv, TypeOK, AssessIntegration, On
<1>2. r \in Steps /\ "finalizing" \in Stages
  BY DEF Steps, Stages
<1>3. u \in ActivityType
  BY <1>1, <1>2, RecordedFact
<1>4. u.boundary = t.boundary /\ u.op = t.op
  BY <1>1 DEF ActivityType
<1> QED
  BY <1>1, <1>3, <1>4, OwnStep

LEMMA IntendTransactionEffectType ==
  ASSUME TypeInv, NEW a \in Activity, IntendTransactionEffect(a)
  PROVE  TypeInv'
<1> DEFINE t == acts[a]
           r == "transaction-effect-observed"
           u == [t EXCEPT !.intended = TRUE, !.stage = "effect-intended", !.resumes = r]
<1>1. t \in ActivityType /\ a \in Open /\ Advance(a, u) /\ OnlyActivity
  BY DEF TypeInv, TypeOK, IntendTransactionEffect, On
<1>2. r \in Steps /\ "effect-intended" \in Stages
  BY DEF Steps, Stages
<1>3. u \in ActivityType
  BY <1>1, <1>2, RecordedFact
<1>4. u.boundary = t.boundary /\ u.op = t.op
  BY <1>1 DEF ActivityType
<1> QED
  BY <1>1, <1>3, <1>4, OwnStep

LEMMA ObserveIndeterminateType ==
  ASSUME TypeInv, NEW a \in Activity, ObserveIndeterminate(a)
  PROVE  TypeInv'
<1> DEFINE t == acts[a]
           r == "transaction-effect-observed"
           u == [t EXCEPT !.stage = "effect-intended", !.resumes = r]
<1>1. t \in ActivityType /\ a \in Open /\ Advance(a, u) /\ OnlyActivity
  BY DEF TypeInv, TypeOK, ObserveIndeterminate, On
<1>2. r \in Steps /\ "effect-intended" \in Stages
  BY DEF Steps, Stages
<1>3. u \in ActivityType
  BY <1>1, <1>2, RecordedFact
<1>4. u.boundary = t.boundary /\ u.op = t.op
  BY <1>1 DEF ActivityType
<1> QED
  BY <1>1, <1>3, <1>4, OwnStep

LEMMA ObserveNotAppliedType ==
  ASSUME TypeInv, NEW a \in Activity, ObserveNotApplied(a)
  PROVE  TypeInv'
<1> DEFINE t == acts[a]
           r == "activity-completed"
           u == [t EXCEPT !.observed = "not-applied", !.stage = "effect-observed", !.resumes = r]
<1>1. t \in ActivityType /\ a \in Open /\ Advance(a, u) /\ OnlyActivity
  BY DEF TypeInv, TypeOK, ObserveNotApplied, On
<1>2. r \in Steps /\ "effect-observed" \in Stages
  BY DEF Steps, Stages
<1>3. u \in ActivityType
  BY <1>1, <1>2, RecordedFact
<1>4. u.boundary = t.boundary /\ u.op = t.op
  BY <1>1 DEF ActivityType
<1> QED
  BY <1>1, <1>3, <1>4, OwnStep

LEMMA AuthenticateDecisionType ==
  ASSUME TypeInv, NEW a \in Activity, AuthenticateDecision(a)
  PROVE  TypeInv'
<1> DEFINE t == acts[a]
           d == SelectedSubjects(DecisionKind(t))
           u == [t EXCEPT !.decision = d, !.resumes = "transaction-effect-intended"]
           v == [t EXCEPT !.decision = d, !.stage = t.stage,
                          !.resumes = "transaction-effect-intended"]
<1>1. t \in ActivityType /\ a \in Open /\ Advance(a, u) /\ OnlyActivity
  BY DEF TypeInv, TypeOK, AuthenticateDecision, On
<1>2. /\ "transaction-effect-intended" \in Steps
      /\ t.stage \in Stages /\ t.op \in Operations
  BY <1>1 DEF Steps, ActivityType, TypeInv, ActivityFacts
<1>3. DecisionKind(t) \in DecisionKinds
  BY <1>2 DEF DecisionKind, DecisionKinds, AuthenticateDecision, On, Family,
     Operations, TransactionOperations, TerminalOperations
<1>4. EstablishedBoundary \in Nat /\ proposed \in Nat /\ active \in Nat
      /\ candidate.revision \in Nat /\ seal.serial \in Nat
      /\ condition \in Sources \cup {"none"}
  BY DEF EstablishedBoundary, TypeInv, TypeOK, SealType
<1>5. d \in DecisionType
  BY <1>3, <1>4 DEF SelectedSubjects, DecisionType, DecisionKinds
<1>6. u = v
  BY <1>1 DEF ActivityType
<1>7. v \in ActivityType
  BY <1>1, <1>2, <1>5, RecordedFact
<1>8. u.boundary = t.boundary /\ u.op = t.op
  BY <1>1 DEF ActivityType
<1> QED
  BY <1>1, <1>6, <1>7, <1>8, OwnStep

LEMMA RecordFinalReceiptType ==
  ASSUME TypeInv, NEW a \in Activity, NEW s \in Selection, NEW x \in Dispositions,
         RecordFinalReceipt(a, s, x)
  PROVE  TypeInv'
<1> DEFINE t == acts[a]
           c == [t.checks EXCEPT ![s] = x]
           u == [t EXCEPT !.checks = c, !.resumes = "evaluation-checks"]
           v == [t EXCEPT !.checks = c, !.stage = t.stage,
                          !.resumes = "evaluation-checks"]
<1>1. t \in ActivityType /\ a \in Open /\ OnlyActivity
  BY DEF TypeInv, TypeOK, RecordFinalReceipt, On
<1>2. "evaluation-checks" \in Steps /\ t.stage \in Stages /\ t.checks \in ChecksType
  BY <1>1 DEF Steps, ActivityType
<1>3. Advance(a, u)
  BY DEF RecordFinalReceipt
<1>4. c \in ChecksType
  BY <1>2 DEF ChecksType
<1>5. u = v
  BY <1>1 DEF ActivityType
<1>6. v \in ActivityType
  BY <1>1, <1>2, <1>4, RecordedFact
<1>7. u.boundary = t.boundary /\ u.op = t.op
  BY <1>1 DEF ActivityType
<1> QED
  BY <1>1, <1>3, <1>5, <1>6, <1>7, OwnStep

LEMMA DirectorType ==
  ASSUME TypeInv,
         \/ CreateDelivery \/ \E a \in Activity : SubmitDirectorBrief(a)
         \/ \E op \in (UNION Grantable) \ {"integrate"} : SubmitStandingBrief(op)
         \/ StopWorkDelegation \/ DelegationExpires
  PROVE  TypeInv'
<1>1. CASE CreateDelivery \/ \E a \in Activity : SubmitDirectorBrief(a)
  BY <1>1 DEF TypeInv, TypeOK, ActivityFacts, Open, CreateDelivery, SubmitDirectorBrief,
     subjectVars, delegationVars
<1>2. CASE \E op \in (UNION Grantable) \ {"integrate"} : SubmitStandingBrief(op)
  <2>1. PICK op \in (UNION Grantable) \ {"integrate"} : SubmitStandingBrief(op)
    BY <1>2
  <2>2. op \in {"continue", "evaluate"}
    BY ConstantsAssumption DEF ProductiveOperations
  <2>3. grant.revision + 1 \in Nat
    BY DEF TypeInv, TypeOK, GrantType
  <2>4. standingBriefs' \subseteq (Nat \X {"continue", "evaluate"})
    BY <2>1, <2>2, <2>3 DEF SubmitStandingBrief, TypeInv, TypeOK
  <2> QED
    BY <2>1, <2>4 DEF TypeInv, TypeOK, ActivityFacts, Open, SubmitStandingBrief, subjectVars
<1>3. CASE StopWorkDelegation \/ DelegationExpires
  <2>1. grant' \in GrantType
    BY <1>3 DEF StopWorkDelegation, DelegationExpires, GrantType, TypeInv, TypeOK
  <2> QED
    BY <1>3, <2>1 DEF TypeInv, TypeOK, ActivityFacts, Open, StopWorkDelegation,
       DelegationExpires, subjectVars
<1> QED
  BY <1>1, <1>2, <1>3

LEMMA SetWorkDelegationType ==
  ASSUME TypeInv, NEW ops \in Grantable, NEW c \in Ceilings, SetWorkDelegation(ops, c)
  PROVE  TypeInv'
<1>1. /\ grant.revision + 1 \in Nat /\ active \in Nat
      /\ ops \in SUBSET ProductiveOperations /\ c \in [Resource -> Nat]
  BY ConstantsAssumption DEF TypeInv, TypeOK, GrantType
<1>2. grant' \in GrantType
  BY <1>1 DEF SetWorkDelegation, GrantType
<1>3. standingBriefs' \subseteq standingBriefs
  BY DEF SetWorkDelegation
<1> QED
  BY <1>2, <1>3 DEF TypeInv, TypeOK, ActivityFacts, Open, SetWorkDelegation, subjectVars

LEMMA StartActivityType ==
  ASSUME TypeInv, NEW a \in Activity, NEW op \in Operations, NEW reserved \in BOOLEAN,
         StartActivity(a, op, reserved)
  PROVE  TypeInv'
<1> DEFINE i == [Idle EXCEPT !.op = op]
           j == [i EXCEPT !.origin = Standing]
           k == [j EXCEPT !.reserved = reserved]
           u == [k EXCEPT !.stage = "started", !.resumes = FirstStep(op)]
           v == [Idle EXCEPT !.op = op, !.origin = Standing, !.stage = "started",
                             !.resumes = FirstStep(op), !.reserved = reserved]
<1>1. Standing \in Standings /\ FirstStep(op) \in Steps /\ "started" \in Stages
  BY DEF Standing, Standings, FirstStep, Steps, Stages
<1>2. i \in ActivityType
  BY IdleType DEF ActivityType
<1>3. j \in ActivityType
  BY <1>1, <1>2 DEF ActivityType
<1>4. k \in ActivityType
  BY <1>3 DEF ActivityType
<1>5. u \in ActivityType
  BY <1>1, <1>4, RecordedFact
<1>6. u = v /\ u.boundary = 0 /\ u.op = op
  BY DEF Idle
<1>7. Advance(a, u) /\ boundaries' = boundaries
  BY <1>6 DEF StartActivity, subjectVars
<1>8. Len(boundaries) \in Nat
  BY DEF TypeInv, TypeOK
<1>9. acts' \in [Activity -> ActivityType] /\ ActivityFacts'
  <2>1. /\ u.boundary <= Len(boundaries)' /\ u.op \in Operations
        /\ Len(boundaries) <= Len(boundaries)' /\ Len(boundaries)' \in Nat
    BY <1>6, <1>7, <1>8
  <2> QED
    BY <2>1, <1>5, <1>7, ActivityStep
<1>10. charged' \in [Resource -> Nat]
  <2>1. charged \in [Resource -> Nat]
    BY DEF TypeInv, TypeOK
  <2>2. CASE reserved
    <3>1. op \in ProductiveOperations
      BY <2>2 DEF StartActivity, Financed
    <3>2. Charge[op] \in [Resource -> Nat]
      BY <3>1, ConstantsAssumption
    <3> QED
      BY <2>1, <2>2, <3>2 DEF StartActivity
  <2>3. CASE ~reserved
    BY <2>1, <2>3 DEF StartActivity
  <2> QED
    BY <2>2, <2>3
<1>11. TypeOK'
  BY <1>9, <1>10 DEF StartActivity, TypeInv, TypeOK, subjectVars
<1> QED
  BY <1>9, <1>11 DEF TypeInv

LEMMA FinalizeBoundaryType ==
  ASSUME TypeInv, NEW a \in Activity, NEW m \in Mandates, FinalizeBoundary(a, m)
  PROVE  TypeInv'
<1> DEFINE t == acts[a]
           n == NextBoundary(t.op)
           b == [mandate |-> m, checks |-> NoChecks]
           u == [t EXCEPT !.boundary = n, !.stage = "finalizing",
                          !.resumes = "baseline-checks"]
<1>1. t \in ActivityType /\ a \in Open /\ Advance(a, u) /\ active \in Nat
  BY DEF TypeInv, TypeOK, FinalizeBoundary, On
<1>2. b \in BoundaryType
  BY DEF BoundaryType, NoChecks, ChecksType
<1>3. boundaries \in Seq(BoundaryType) /\ boundaries' = Append(boundaries, b)
  BY DEF TypeInv, TypeOK, FinalizeBoundary
<1>4. /\ boundaries' \in Seq(BoundaryType) /\ Len(boundaries) \in Nat
      /\ Len(boundaries)' = Len(boundaries) + 1
  BY <1>2, <1>3
<1>5. n = Len(boundaries) + 1 /\ n \in Nat
  BY <1>4 DEF FinalizeBoundary, RevisionFree
<1>6. u \in ActivityType
  BY <1>1, <1>5, RecordedFact DEF Steps, Stages
<1>7. u.boundary = n /\ u.op = t.op /\ t.op \in Operations
  BY <1>1 DEF ActivityType, TypeInv, ActivityFacts
<1>8. acts' \in [Activity -> ActivityType] /\ ActivityFacts'
  <2>1. /\ u.boundary <= Len(boundaries)' /\ u.op \in Operations
        /\ Len(boundaries) <= Len(boundaries)' /\ Len(boundaries)' \in Nat
    BY <1>4, <1>5, <1>7
  <2> QED
    BY <2>1, <1>1, <1>6, ActivityStep
<1>9. proposed \in 0 .. Len(boundaries)' /\ active \in 0 .. Len(boundaries)'
  BY <1>4 DEF TypeInv, TypeOK
<1>10. TypeOK'
  BY <1>4, <1>8, <1>9 DEF FinalizeBoundary, TypeInv, TypeOK, delegationVars
<1> QED
  BY <1>8, <1>10 DEF TypeInv

LEMMA RecordBaselineReceiptType ==
  ASSUME TypeInv, NEW a \in Activity, NEW s \in Selection, NEW x \in Dispositions,
         RecordBaselineReceipt(a, s, x)
  PROVE  TypeInv'
<1> DEFINE t == acts[a]
           n == t.boundary
           received == [boundaries[n].checks EXCEPT ![s] = x]
           r == IF boundaries[n].mandate.baseline \subseteq Received(received)
                THEN "activity-completed" ELSE "baseline-checks"
           u == [t EXCEPT !.resumes = r]
           v == [t EXCEPT !.stage = t.stage, !.resumes = r]
<1>1. t \in ActivityType /\ a \in Open /\ Advance(a, u)
  BY DEF TypeInv, TypeOK, RecordBaselineReceipt, On
<1>2. boundaries \in Seq(BoundaryType) /\ Len(boundaries) \in Nat
  BY DEF TypeInv, TypeOK
<1>3. n \in 1 .. Len(boundaries)
  BY <1>1, <1>2 DEF RecordBaselineReceipt, TypeInv, ActivityFacts, ActivityType
<1>4. boundaries[n] \in BoundaryType
  BY <1>2, <1>3
<1>5. received \in ChecksType
  BY <1>4 DEF BoundaryType, ChecksType
<1>6. [boundaries[n] EXCEPT !.checks = received] \in BoundaryType
  BY <1>4, <1>5 DEF BoundaryType
<1>7. boundaries' = [boundaries EXCEPT ![n] = [boundaries[n] EXCEPT !.checks = received]]
  BY DEF RecordBaselineReceipt
<1>8. boundaries' \in Seq(BoundaryType) /\ Len(boundaries)' = Len(boundaries)
  BY <1>2, <1>3, <1>6, <1>7
<1>9. r \in Steps /\ t.stage \in Stages
  BY <1>1 DEF Steps, ActivityType
<1>10. v \in ActivityType
  BY <1>1, <1>9, RecordedFact
<1>11. u = v /\ u.boundary = t.boundary /\ u.op = t.op /\ t.op \in Operations
       /\ t.boundary <= Len(boundaries)
  BY <1>1 DEF ActivityType, TypeInv, ActivityFacts
<1>12. acts' \in [Activity -> ActivityType] /\ ActivityFacts'
  <2>1. /\ u.boundary <= Len(boundaries)' /\ u.op \in Operations
        /\ Len(boundaries) <= Len(boundaries)' /\ Len(boundaries)' \in Nat
    BY <1>2, <1>8, <1>11
  <2> QED
    BY <2>1, <1>1, <1>10, <1>11, ActivityStep
<1>13. TypeOK'
  BY <1>8, <1>12 DEF RecordBaselineReceipt, TypeInv, TypeOK, delegationVars
<1> QED
  BY <1>12, <1>13 DEF TypeInv

\* An event of an open activity that finalizes no boundary.
LEMMA SubjectStep ==
  ASSUME TypeInv, NEW a \in Activity, NEW u \in ActivityType, a \in Open,
         Advance(a, u), boundaries' = boundaries,
         u.boundary = acts[a].boundary, u.op = acts[a].op
  PROVE  acts' \in [Activity -> ActivityType] /\ ActivityFacts'
<1>1. /\ u.boundary <= Len(boundaries)' /\ u.op \in Operations
      /\ Len(boundaries) <= Len(boundaries)' /\ Len(boundaries)' \in Nat
  BY DEF TypeInv, TypeOK, ActivityFacts
<1> QED
  BY <1>1, ActivityStep

LEMMA SealCandidateType ==
  ASSUME TypeInv, NEW a \in Activity, SealCandidate(a)
  PROVE  TypeInv'
<1> DEFINE t == acts[a]
           sealed == [serial |-> seals + 1, candidate |-> candidate.revision,
                      boundary |-> active]
           u == [t EXCEPT !.seal = sealed, !.stage = "finalizing",
                          !.resumes = "evaluation-checks"]
<1>1. t \in ActivityType /\ a \in Open /\ Advance(a, u) /\ boundaries' = boundaries
  BY DEF TypeInv, TypeOK, SealCandidate, On
<1>2. sealed \in SealType
  BY DEF TypeInv, TypeOK, SealType
<1>3. u \in ActivityType
  BY <1>1, <1>2, RecordedFact DEF Steps, Stages
<1>4. u.boundary = t.boundary /\ u.op = t.op
  BY <1>1 DEF ActivityType
<1>5. acts' \in [Activity -> ActivityType] /\ ActivityFacts'
  BY <1>1, <1>3, <1>4, SubjectStep
<1>6. /\ seals' \in Nat /\ seal' \in SealType /\ readiness' \in Readinesses \cup {"none"}
      /\ evidence' \in [seal : Nat, candidate : Nat, boundary : Nat, final : ChecksType]
  BY <1>2 DEF SealCandidate, TypeInv, TypeOK, NoEvidence, NoChecks, ChecksType
<1>7. TypeOK'
  BY <1>5, <1>6 DEF SealCandidate, TypeInv, TypeOK, delegationVars
<1> QED
  BY <1>5, <1>7 DEF TypeInv

LEMMA FinalizeEvidenceType ==
  ASSUME TypeInv, NEW a \in Activity, NEW ready \in Readinesses, FinalizeEvidence(a, ready)
  PROVE  TypeInv'
<1> DEFINE t == acts[a]
           u == [t EXCEPT !.packet = TRUE, !.stage = "finalizing",
                          !.resumes = "activity-completed"]
<1>1. t \in ActivityType /\ a \in Open /\ Advance(a, u) /\ boundaries' = boundaries
  BY DEF TypeInv, TypeOK, FinalizeEvidence, On
<1>2. t.seal \in SealType /\ t.checks \in ChecksType
  BY <1>1 DEF ActivityType
<1>3. u \in ActivityType
  BY <1>1, RecordedFact DEF Steps, Stages
<1>4. u.boundary = t.boundary /\ u.op = t.op
  BY <1>1 DEF ActivityType
<1>5. acts' \in [Activity -> ActivityType] /\ ActivityFacts'
  BY <1>1, <1>3, <1>4, SubjectStep
<1>6. evidence' \in [seal : Nat, candidate : Nat, boundary : Nat, final : ChecksType]
  BY <1>2 DEF FinalizeEvidence, TypeInv, TypeOK, SealType
<1>7. TypeOK'
  BY <1>5, <1>6 DEF FinalizeEvidence, TypeInv, TypeOK, delegationVars
<1> QED
  BY <1>5, <1>7 DEF TypeInv

\* Discarding the proof of a candidate leaves absent subjects.
LEMMA DiscardType ==
  ASSUME DiscardProof
  PROVE  /\ seal' \in SealType /\ readiness' \in Readinesses \cup {"none"}
         /\ evidence' \in [seal : Nat, candidate : Nat, boundary : Nat,
                           final : ChecksType]
  BY DEF DiscardProof, NoSeal, SealType, NoEvidence, NoChecks, ChecksType

LEMMA ObserveCandidateRevisionType ==
  ASSUME TypeInv, NEW a \in Activity, ObserveCandidateRevision(a)
  PROVE  TypeInv'
<1> DEFINE t == acts[a]
           r == IF t.op = "continue" THEN "execution-receipt-recorded"
                ELSE IF t.assessed = "requires-readmission" THEN "activity-finalization"
                ELSE "activity-completed"
           u == [t EXCEPT !.successor = candidate.revision + 1,
                          !.stage = "finalizing", !.resumes = r]
<1>1. t \in ActivityType /\ a \in Open /\ Advance(a, u) /\ boundaries' = boundaries
  BY DEF TypeInv, TypeOK, ObserveCandidateRevision
<1>2. candidate.revision + 1 \in Nat /\ active \in Nat /\ r \in Steps
  BY DEF TypeInv, TypeOK, Steps
<1>3. u \in ActivityType
  <2>1. "finalizing" \in Stages
    BY DEF Stages
  <2>2. ASSUME NEW q \in Steps \cup {"none"}
        PROVE  \A x \in Nat : [t EXCEPT !.successor = x, !.stage = "finalizing",
                                         !.resumes = q] \in ActivityType
    BY <1>1, <2>1, RecordedFact
  <2>3. r \in Steps \cup {"none"}
    BY <1>2
  <2> QED
    BY <1>2, <2>2, <2>3
<1>4. u.boundary = t.boundary /\ u.op = t.op
  BY <1>1 DEF ActivityType
<1>5. acts' \in [Activity -> ActivityType] /\ ActivityFacts'
  BY <1>1, <1>3, <1>4, SubjectStep
<1>6. candidate' \in [revision : Nat, boundary : Nat] /\ integrated' \in BOOLEAN
  <2>1. candidate' = [revision |-> candidate.revision + 1, boundary |-> active]
    BY DEF ObserveCandidateRevision
  <2>2. integrated \in BOOLEAN
    BY DEF TypeInv, TypeOK
  <2>3. integrated' \in {TRUE, FALSE, integrated}
    BY DEF ObserveCandidateRevision
  <2> QED
    BY <1>2, <2>1, <2>2, <2>3
<1>7. DiscardProof
  BY DEF ObserveCandidateRevision
<1>8. TypeOK'
  BY <1>5, <1>6, <1>7, DiscardType
  DEF ObserveCandidateRevision, TypeInv, TypeOK, delegationVars
<1> QED
  BY <1>5, <1>8 DEF TypeInv

LEMMA FreezeMaterialConditionType ==
  ASSUME TypeInv, NEW a \in Activity, NEW source \in Sources,
         FreezeMaterialCondition(a, source)
  PROVE  TypeInv'
<1> DEFINE t == acts[a]
           r == IF source = "agent-proposal" /\ t.op = "evaluate"
                THEN "activity-finalization" ELSE "activity-completed"
           u == [t EXCEPT !.froze = TRUE, !.stage = "finalizing", !.resumes = r]
<1>1. t \in ActivityType /\ a \in Open /\ Advance(a, u) /\ boundaries' = boundaries
  BY DEF TypeInv, TypeOK, FreezeMaterialCondition
<1>2. u \in ActivityType
  BY <1>1, RecordedFact DEF Steps, Stages
<1>3. u.boundary = t.boundary /\ u.op = t.op
  BY <1>1 DEF ActivityType
<1>4. acts' \in [Activity -> ActivityType] /\ ActivityFacts'
  BY <1>1, <1>2, <1>3, SubjectStep
<1>5. TypeOK'
  BY <1>4 DEF FreezeMaterialCondition, TypeInv, TypeOK, delegationVars
<1> QED
  BY <1>4, <1>5 DEF TypeInv

LEMMA ObserveAppliedType ==
  ASSUME TypeInv, NEW a \in Activity, ObserveApplied(a)
  PROVE  TypeInv'
<1> DEFINE t == acts[a]
           r == AfterApplied(t.op)
           u == [t EXCEPT !.observed = "applied", !.stage = "effect-observed",
                          !.resumes = r]
<1>1. t \in ActivityType /\ a \in Open /\ Advance(a, u) /\ boundaries' = boundaries
  BY DEF TypeInv, TypeOK, ObserveApplied, On
<1>2. r \in Steps
  BY DEF AfterApplied, Steps
<1>3. u \in ActivityType
  BY <1>1, <1>2, RecordedFact DEF Stages
<1>4. u.boundary = t.boundary /\ u.op = t.op
  BY <1>1 DEF ActivityType
<1>5. acts' \in [Activity -> ActivityType] /\ ActivityFacts'
  BY <1>1, <1>3, <1>4, SubjectStep
<1>6. /\ proposed' \in 0 .. Len(boundaries)' /\ active' \in 0 .. Len(boundaries)'
      /\ condition' \in Sources \cup {"none"}
  BY <1>1 DEF ObserveApplied, TypeInv, TypeOK
<1>7. /\ seal' \in SealType /\ readiness' \in Readinesses \cup {"none"}
      /\ evidence' \in [seal : Nat, candidate : Nat, boundary : Nat, final : ChecksType]
  BY DiscardType DEF ObserveApplied, TypeInv, TypeOK
<1>8. TypeOK'
  BY <1>5, <1>6, <1>7 DEF ObserveApplied, TypeInv, TypeOK, delegationVars
<1> QED
  BY <1>5, <1>8 DEF TypeInv

\* An activity that ends leaves its slot idle.
LEMMA IdleStep ==
  ASSUME TypeInv, NEW a \in Activity, Advance(a, Idle), boundaries' = boundaries
  PROVE  acts' \in [Activity -> ActivityType] /\ ActivityFacts'
<1>1. Idle.boundary = 0 /\ Idle.stage = "idle"
  BY DEF Idle
<1>2. /\ Idle.boundary <= Len(boundaries)' /\ Len(boundaries)' \in Nat
      /\ Len(boundaries) <= Len(boundaries)'
  BY <1>1 DEF TypeInv, TypeOK
<1> QED
  BY <1>1, <1>2, IdleType, ActivityStep

LEMMA RecordClosureType ==
  ASSUME TypeInv, NEW a \in Activity, RecordClosure(a)
  PROVE  TypeInv'
<1>1. EstablishedBoundary \in Nat /\ active \in Nat /\ candidate.revision \in Nat
      /\ evidence.seal \in Nat
  BY DEF EstablishedBoundary, TypeInv, TypeOK
<1>2. closure' \in [disposition : {"none", "accepted", "no-ship"},
                   boundary : Nat, candidate : Nat, seal : Nat]
  BY <1>1 DEF RecordClosure
<1>3. acts' \in [Activity -> ActivityType] /\ ActivityFacts'
  BY IdleStep DEF RecordClosure
<1>4. TypeOK'
  BY <1>2, <1>3 DEF RecordClosure, TypeInv, TypeOK, delegationVars
<1> QED
  BY <1>3, <1>4 DEF TypeInv

LEMMA CompleteActivityType ==
  ASSUME TypeInv, NEW a \in Activity, NEW outcome, CompleteActivity(a, outcome)
  PROVE  TypeInv'
<1>1. acts' \in [Activity -> ActivityType] /\ ActivityFacts'
  BY IdleStep DEF CompleteActivity
<1>2. acts[a].boundary \in 0 .. Len(boundaries)
  BY DEF TypeInv, TypeOK, ActivityFacts, ActivityType
<1>3. proposed' \in 0 .. Len(boundaries)' /\ prepared' \in BOOLEAN
  BY <1>2 DEF CompleteActivity, TypeInv, TypeOK
<1>4. TypeOK'
  BY <1>1, <1>3 DEF CompleteActivity, TypeInv, TypeOK, delegationVars
<1> QED
  BY <1>1, <1>4 DEF TypeInv

LEMMA NextType == TypeInv /\ [Next]_vars => TypeInv'
<1> SUFFICES ASSUME TypeInv, [Next]_vars PROVE TypeInv'
  OBVIOUS
<1>1. CASE DirectorStep
  BY <1>1, DirectorType, SetWorkDelegationType, StartActivityType DEF DirectorStep
<1>2. ASSUME NEW a \in Activity, AgentStep(a) PROVE TypeInv'
  BY <1>2, RefuseAgentBeforeIntentType, PrepareAttemptType, IntendProviderEffectType,
     ObserveProviderEffectType, SubmitWorkProductType, AbandonWorkProductType,
     RecordReceiptType, FinalizeBoundaryType, RecordBaselineReceiptType,
     SealCandidateType, RecordFinalReceiptType, FinalizeEvidenceType DEF AgentStep
<1>3. ASSUME NEW a \in Activity, CandidateStep(a) PROVE TypeInv'
  BY <1>3, AssessIntegrationType, ObserveCandidateRevisionType,
     FreezeMaterialConditionType DEF CandidateStep
<1>4. ASSUME NEW a \in Activity, TransactionStep(a) PROVE TypeInv'
  BY <1>4, AuthenticateDecisionType, IntendTransactionEffectType, ObserveIndeterminateType,
     ObserveNotAppliedType, ObserveAppliedType, RecordClosureType DEF TransactionStep
<1>5. CASE UNCHANGED vars
  BY <1>5 DEF TypeInv, TypeOK, ActivityFacts, Open, vars, subjectVars, delegationVars
<1> QED
  BY <1>1, <1>2, <1>3, <1>4, <1>5, CompleteActivityType DEF Next

\* Every accepted journal replays to a state of the declared types: counters,
\* bindings and obligations stay in their ranges.
THEOREM TypeCorrect == Spec => []TypeOK
<1>1. TypeInv => TypeOK
  BY DEF TypeInv
<1> QED
  BY <1>1, InitType, NextType, PTL DEF Spec
==============================================================================
