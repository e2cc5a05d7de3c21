------------------------ MODULE DeliverySafetyProofs -------------------------
(***************************************************************************)
(* The safety invariants of the Delivery reducer, for every value of its   *)
(* constants.  SafetyInv is inductive; each event's lemma shows that the   *)
(* event preserves it.                                                     *)
(***************************************************************************)
EXTENDS DeliveryTypeProofs

------------------------------------------------------------------------------
(* The shape of a step                                                     *)

\* An event of open activity a that leaves it open, owing something.
Progress(a) ==
  /\ a \in Open
  /\ \A b \in Activity : b # a => acts'[b] = acts[b]
  /\ acts'[a].stage # "idle" /\ acts'[a].resumes # "none"
  /\ acts'[a].op = acts[a].op /\ acts'[a].origin = acts[a].origin

LEMMA Families ==
  ASSUME TypeInv, NEW a \in Open
  PROVE  /\ acts[a].op \in AgentOperations <=> Family(acts[a].op) = "agent"
         /\ acts[a].op = "integrate" <=> Family(acts[a].op) = "integration"
         /\ acts[a].op \in TransactionOperations <=> Family(acts[a].op) = "transaction"
  BY DEF TypeInv, ActivityFacts, Open, Operations, AgentOperations, BoundaryOperations,
     TransactionOperations, TerminalOperations, Family

LEMMA OnlyOpen ==
  ASSUME OneOpenActivity, NEW a \in Activity, Progress(a)
  PROVE  Open = {a} /\ Open' = {a} /\ OneOpenActivity'
<1>1. Open = {a}
  BY DEF OneOpenActivity, Progress
<1>2. \A b \in Activity : b \in Open' <=> b = a
  BY <1>1 DEF Progress, Open
<1>3. Open' = {a}
  BY <1>2 DEF Open
<1> QED
  BY <1>1, <1>3 DEF OneOpenActivity, Progress

\* The parts of SafetyInv an event can disturb that changes no subject.
LEMMA QuietStep ==
  ASSUME SafetyInv, NEW a \in Activity, Live, Progress(a), TypeInv',
         UNCHANGED subjectVars,
         OwnSeal(acts[a])', EffectOrder(acts[a])', BaselineOrder(acts[a])',
         EvaluationOrder(acts[a])',
         \/ acts'[a].decision = acts[a].decision
         \/ acts'[a].decision = SelectedSubjects(DecisionKind(acts[a])),
         acts'[a].observed = acts[a].observed \/ acts'[a].observed # "none",
         ~(acts[a].op = "admit" /\ acts[a].observed = "applied")
  PROVE  SafetyInv'
<1>1. Open = {a} /\ Open' = {a} /\ OneOpenActivity'
  BY OnlyOpen DEF SafetyInv
<1>2. AcceptanceStands(acts[a])'
  BY <1>1 DEF SafetyInv, OpenFacts, AcceptanceStands, Progress, subjectVars
<1>3. OpenFacts'
  BY <1>1, <1>2 DEF OpenFacts
<1>4. ProofIsCurrent' /\ AdmittedBaseline' /\ AcceptanceReadyIsProven' /\ AcceptedIsProven'
      /\ SubjectsNumbered'
  BY DEF SafetyInv, ProofIsCurrent, AdmittedBaseline, AcceptanceReadyIsProven,
     AcceptedIsProven, BaselineEstablished, Received, LegalBaselineSet, LegalBaseline,
     LegalFinalSet, LegalAcceptance, SubjectsNumbered, subjectVars
<1>5. DecisionIsCurrent'
  <2>1. DecisionKind(acts[a])' = DecisionKind(acts[a])
    BY DEF DecisionKind, Progress
  <2>2. \A k : SelectedSubjects(k)' = SelectedSubjects(k)
    BY DEF SelectedSubjects, EstablishedBoundary, subjectVars
  <2>3. ASSUME acts'[a].decision # NoDecision, acts'[a].observed = "none"
        PROVE  acts'[a].decision = SelectedSubjects(DecisionKind(acts[a]))
    BY <2>3, <1>1 DEF SafetyInv, DecisionIsCurrent
  <2> QED
    BY <1>1, <2>1, <2>2, <2>3 DEF DecisionIsCurrent
<1>6. CandidateIsGoverned'
  BY <1>1 DEF SafetyInv, CandidateIsGoverned, subjectVars
<1>7. ClosureSettles'
  BY DEF ClosureSettles, Live, subjectVars
<1> QED
  BY <1>1, <1>3, <1>4, <1>5, <1>6, <1>7 DEF SafetyInv

------------------------------------------------------------------------------
(* Events that change their activity alone                                 *)

LEMMA RefuseAgentBeforeIntentSafe ==
  ASSUME SafetyInv, NEW a \in Activity, NEW x \in {"none", "projection-condition-required"},
         RefuseAgentBeforeIntent(a, x)
  PROVE  SafetyInv'
<1> DEFINE t == acts[a]
           u == [t EXCEPT !.refusal = x, !.stage = "finalizing",
                 !.resumes = IF x = "none" THEN "activity-completed"
                             ELSE "activity-finalization"]
<1>1. /\ t \in ActivityType /\ a \in Open /\ Live /\ Family(t.op) = "agent"
      /\ acts' = [acts EXCEPT ![a] = u] /\ OnlyActivity
      /\ acts \in [Activity -> ActivityType]
  BY DEF SafetyInv, TypeInv, TypeOK, RefuseAgentBeforeIntent, On, Advance
<1>2. acts'[a] = u /\ \A b \in Activity : b # a => acts'[b] = acts[b]
  BY <1>1
<1>3. Progress(a)
  BY <1>1, <1>2 DEF Progress, ActivityType
<1>4. OwnSeal(t) /\ EffectOrder(t) /\ BaselineOrder(t) /\ EvaluationOrder(t)
  BY <1>1 DEF SafetyInv, OpenFacts
<1>5. TypeInv' /\ UNCHANGED subjectVars
  BY <1>1, RefuseAgentBeforeIntentType DEF SafetyInv, OnlyActivity
<1>6. u.op = t.op /\ u.seal = t.seal /\ u.decision = t.decision
      /\ u.boundary = t.boundary /\ u.checks = t.checks
  BY <1>1 DEF ActivityType
<1>7. OwnSeal(acts[a])' /\ (u.observed = t.observed \/ u.observed # "none")
  BY <1>1, <1>2, <1>4, <1>5, <1>6 DEF OwnSeal, subjectVars, ActivityType
<1>8. EffectOrder(acts[a])'
  BY <1>1, <1>2, <1>4, <1>6 DEF EffectOrder, Family, RefuseAgentBeforeIntent, ActivityType
<1>9. BaselineOrder(acts[a])'
  BY <1>1, <1>2, <1>4, <1>5, <1>6 DEF BaselineOrder, RefuseAgentBeforeIntent, subjectVars, CoreTerminal,
     EffectOrder, Family, ActivityType, Received
<1>10. EvaluationOrder(acts[a])'
  BY <1>1, <1>2, <1>4, <1>5, <1>6 DEF EvaluationOrder, RefuseAgentBeforeIntent, subjectVars, ActivityType,
     Received
<1>11. ~(t.op = "admit" /\ t.observed = "applied")
  BY <1>1, <1>4 DEF RefuseAgentBeforeIntent, EffectOrder, Family, AgentOperations, BoundaryOperations
<1> QED
  BY <1>1, <1>2, <1>3, <1>5, <1>6, <1>7, <1>8, <1>9, <1>10, <1>11, QuietStep

LEMMA PrepareAttemptSafe ==
  ASSUME SafetyInv, NEW a \in Activity,
         PrepareAttempt(a)
  PROVE  SafetyInv'
<1> DEFINE t == acts[a]
           u == [t EXCEPT !.attempt = TRUE, !.stage = "prepared",
                 !.resumes = "provider-effect-intended"]
<1>1. /\ t \in ActivityType /\ a \in Open /\ Live /\ Family(t.op) = "agent"
      /\ acts' = [acts EXCEPT ![a] = u] /\ OnlyActivity
      /\ acts \in [Activity -> ActivityType]
  BY DEF SafetyInv, TypeInv, TypeOK, PrepareAttempt, On, Advance
<1>2. acts'[a] = u /\ \A b \in Activity : b # a => acts'[b] = acts[b]
  BY <1>1
<1>3. Progress(a)
  BY <1>1, <1>2 DEF Progress, ActivityType
<1>4. OwnSeal(t) /\ EffectOrder(t) /\ BaselineOrder(t) /\ EvaluationOrder(t)
  BY <1>1 DEF SafetyInv, OpenFacts
<1>5. TypeInv' /\ UNCHANGED subjectVars
  BY <1>1, PrepareAttemptType DEF SafetyInv, OnlyActivity
<1>6. u.op = t.op /\ u.seal = t.seal /\ u.decision = t.decision
      /\ u.boundary = t.boundary /\ u.checks = t.checks
  BY <1>1 DEF ActivityType
<1>7. OwnSeal(acts[a])' /\ (u.observed = t.observed \/ u.observed # "none")
  BY <1>1, <1>2, <1>4, <1>5, <1>6 DEF OwnSeal, subjectVars, ActivityType
<1>8. EffectOrder(acts[a])'
  BY <1>1, <1>2, <1>4, <1>6 DEF EffectOrder, Family, PrepareAttempt, ActivityType
<1>9. BaselineOrder(acts[a])'
  BY <1>1, <1>2, <1>4, <1>5, <1>6 DEF BaselineOrder, PrepareAttempt, subjectVars, CoreTerminal,
     EffectOrder, Family, ActivityType, Received
<1>10. EvaluationOrder(acts[a])'
  BY <1>1, <1>2, <1>4, <1>5, <1>6 DEF EvaluationOrder, PrepareAttempt, subjectVars, ActivityType,
     Received
<1>11. ~(t.op = "admit" /\ t.observed = "applied")
  BY <1>1, <1>4 DEF PrepareAttempt, EffectOrder, Family, AgentOperations, BoundaryOperations
<1> QED
  BY <1>1, <1>2, <1>3, <1>5, <1>6, <1>7, <1>8, <1>9, <1>10, <1>11, QuietStep

LEMMA IntendProviderEffectSafe ==
  ASSUME SafetyInv, NEW a \in Activity,
         IntendProviderEffect(a)
  PROVE  SafetyInv'
<1> DEFINE t == acts[a]
           u == [t EXCEPT !.intended = TRUE, !.stage = "effect-intended",
                 !.resumes = "provider-effect-observed"]
<1>1. /\ t \in ActivityType /\ a \in Open /\ Live /\ Family(t.op) = "agent"
      /\ acts' = [acts EXCEPT ![a] = u] /\ OnlyActivity
      /\ acts \in [Activity -> ActivityType]
  BY DEF SafetyInv, TypeInv, TypeOK, IntendProviderEffect, On, Advance
<1>2. acts'[a] = u /\ \A b \in Activity : b # a => acts'[b] = acts[b]
  BY <1>1
<1>3. Progress(a)
  BY <1>1, <1>2 DEF Progress, ActivityType
<1>4. OwnSeal(t) /\ EffectOrder(t) /\ BaselineOrder(t) /\ EvaluationOrder(t)
  BY <1>1 DEF SafetyInv, OpenFacts
<1>5. TypeInv' /\ UNCHANGED subjectVars
  BY <1>1, IntendProviderEffectType DEF SafetyInv, OnlyActivity
<1>6. u.op = t.op /\ u.seal = t.seal /\ u.decision = t.decision
      /\ u.boundary = t.boundary /\ u.checks = t.checks
  BY <1>1 DEF ActivityType
<1>7. OwnSeal(acts[a])' /\ (u.observed = t.observed \/ u.observed # "none")
  BY <1>1, <1>2, <1>4, <1>5, <1>6 DEF OwnSeal, subjectVars, ActivityType
<1>8. EffectOrder(acts[a])'
  BY <1>1, <1>2, <1>4, <1>6 DEF EffectOrder, Family, IntendProviderEffect, ActivityType
<1>9. BaselineOrder(acts[a])'
  BY <1>1, <1>2, <1>4, <1>5, <1>6 DEF BaselineOrder, IntendProviderEffect, subjectVars, CoreTerminal,
     EffectOrder, Family, ActivityType, Received
<1>10. EvaluationOrder(acts[a])'
  BY <1>1, <1>2, <1>4, <1>5, <1>6 DEF EvaluationOrder, IntendProviderEffect, subjectVars, ActivityType,
     Received
<1>11. ~(t.op = "admit" /\ t.observed = "applied")
  BY <1>1, <1>4 DEF IntendProviderEffect, EffectOrder, Family, AgentOperations, BoundaryOperations
<1> QED
  BY <1>1, <1>2, <1>3, <1>5, <1>6, <1>7, <1>8, <1>9, <1>10, <1>11, QuietStep

LEMMA ObserveProviderEffectSafe ==
  ASSUME SafetyInv, NEW a \in Activity, NEW x \in {"completed", "failed", "not-started"},
         ObserveProviderEffect(a, x)
  PROVE  SafetyInv'
<1> DEFINE t == acts[a]
           u == [t EXCEPT !.outcome = x, !.stage = "effect-observed",
                 !.resumes = "work-product-observation"]
<1>1. /\ t \in ActivityType /\ a \in Open /\ Live /\ Family(t.op) = "agent"
      /\ acts' = [acts EXCEPT ![a] = u] /\ OnlyActivity
      /\ acts \in [Activity -> ActivityType]
  BY DEF SafetyInv, TypeInv, TypeOK, ObserveProviderEffect, On, Advance
<1>2. acts'[a] = u /\ \A b \in Activity : b # a => acts'[b] = acts[b]
  BY <1>1
<1>3. Progress(a)
  BY <1>1, <1>2 DEF Progress, ActivityType
<1>4. OwnSeal(t) /\ EffectOrder(t) /\ BaselineOrder(t) /\ EvaluationOrder(t)
  BY <1>1 DEF SafetyInv, OpenFacts
<1>5. TypeInv' /\ UNCHANGED subjectVars
  BY <1>1, ObserveProviderEffectType DEF SafetyInv, OnlyActivity
<1>6. u.op = t.op /\ u.seal = t.seal /\ u.decision = t.decision
      /\ u.boundary = t.boundary /\ u.checks = t.checks
  BY <1>1 DEF ActivityType
<1>7. OwnSeal(acts[a])' /\ (u.observed = t.observed \/ u.observed # "none")
  BY <1>1, <1>2, <1>4, <1>5, <1>6 DEF OwnSeal, subjectVars, ActivityType
<1>8. EffectOrder(acts[a])'
  BY <1>1, <1>2, <1>4, <1>6 DEF EffectOrder, Family, ObserveProviderEffect, ActivityType
<1>9. BaselineOrder(acts[a])'
  BY <1>1, <1>2, <1>4, <1>5, <1>6 DEF BaselineOrder, ObserveProviderEffect, subjectVars, CoreTerminal,
     EffectOrder, Family, ActivityType, Received
<1>10. EvaluationOrder(acts[a])'
  BY <1>1, <1>2, <1>4, <1>5, <1>6 DEF EvaluationOrder, ObserveProviderEffect, subjectVars, ActivityType,
     Received
<1>11. ~(t.op = "admit" /\ t.observed = "applied")
  BY <1>1, <1>4 DEF ObserveProviderEffect, EffectOrder, Family, AgentOperations, BoundaryOperations
<1> QED
  BY <1>1, <1>2, <1>3, <1>5, <1>6, <1>7, <1>8, <1>9, <1>10, <1>11, QuietStep

LEMMA SubmitWorkProductSafe ==
  ASSUME SafetyInv, NEW a \in Activity, NEW x \in {"ordinary", "material-condition"},
         SubmitWorkProduct(a, x)
  PROVE  SafetyInv'
<1> DEFINE t == acts[a]
           u == [t EXCEPT !.product = x, !.stage = "submitted",
                 !.resumes = IF t.op = "continue" THEN "candidate-revision-observed"
                             ELSE "execution-receipt-recorded"]
<1>1. /\ t \in ActivityType /\ a \in Open /\ Live /\ Family(t.op) = "agent"
      /\ acts' = [acts EXCEPT ![a] = u] /\ OnlyActivity
      /\ acts \in [Activity -> ActivityType]
  BY DEF SafetyInv, TypeInv, TypeOK, SubmitWorkProduct, DisposeWorkProduct, On, Advance
<1>2. acts'[a] = u /\ \A b \in Activity : b # a => acts'[b] = acts[b]
  BY <1>1
<1>3. Progress(a)
  BY <1>1, <1>2 DEF Progress, ActivityType
<1>4. OwnSeal(t) /\ EffectOrder(t) /\ BaselineOrder(t) /\ EvaluationOrder(t)
  BY <1>1 DEF SafetyInv, OpenFacts
<1>5. TypeInv' /\ UNCHANGED subjectVars
  BY <1>1, SubmitWorkProductType DEF SafetyInv, OnlyActivity
<1>6. u.op = t.op /\ u.seal = t.seal /\ u.decision = t.decision
      /\ u.boundary = t.boundary /\ u.checks = t.checks
  BY <1>1 DEF ActivityType
<1>7. OwnSeal(acts[a])' /\ (u.observed = t.observed \/ u.observed # "none")
  BY <1>1, <1>2, <1>4, <1>5, <1>6 DEF OwnSeal, subjectVars, ActivityType
<1>8. EffectOrder(acts[a])'
  BY <1>1, <1>2, <1>4, <1>6 DEF EffectOrder, Family, SubmitWorkProduct, DisposeWorkProduct, ActivityType
<1>9. BaselineOrder(acts[a])'
  BY <1>1, <1>2, <1>4, <1>5, <1>6 DEF BaselineOrder, SubmitWorkProduct, DisposeWorkProduct, subjectVars, CoreTerminal,
     EffectOrder, Family, ActivityType, Received
<1>10. EvaluationOrder(acts[a])'
  BY <1>1, <1>2, <1>4, <1>5, <1>6 DEF EvaluationOrder, SubmitWorkProduct, DisposeWorkProduct, subjectVars, ActivityType,
     Received
<1>11. ~(t.op = "admit" /\ t.observed = "applied")
  BY <1>1, <1>4 DEF SubmitWorkProduct, DisposeWorkProduct, EffectOrder, Family, AgentOperations, BoundaryOperations
<1> QED
  BY <1>1, <1>2, <1>3, <1>5, <1>6, <1>7, <1>8, <1>9, <1>10, <1>11, QuietStep

LEMMA AbandonWorkProductSafe ==
  ASSUME SafetyInv, NEW a \in Activity,
         AbandonWorkProduct(a)
  PROVE  SafetyInv'
<1> DEFINE t == acts[a]
           u == [t EXCEPT !.product = "abandoned", !.stage = "submitted",
                 !.resumes = IF t.op = "continue" THEN "candidate-revision-observed"
                             ELSE "execution-receipt-recorded"]
<1>1. /\ t \in ActivityType /\ a \in Open /\ Live /\ Family(t.op) = "agent"
      /\ acts' = [acts EXCEPT ![a] = u] /\ OnlyActivity
      /\ acts \in [Activity -> ActivityType]
  BY DEF SafetyInv, TypeInv, TypeOK, AbandonWorkProduct, DisposeWorkProduct, On, Advance
<1>2. acts'[a] = u /\ \A b \in Activity : b # a => acts'[b] = acts[b]
  BY <1>1
<1>3. Progress(a)
  BY <1>1, <1>2 DEF Progress, ActivityType
<1>4. OwnSeal(t) /\ EffectOrder(t) /\ BaselineOrder(t) /\ EvaluationOrder(t)
  BY <1>1 DEF SafetyInv, OpenFacts
<1>5. TypeInv' /\ UNCHANGED subjectVars
  BY <1>1, AbandonWorkProductType DEF SafetyInv, OnlyActivity
<1>6. u.op = t.op /\ u.seal = t.seal /\ u.decision = t.decision
      /\ u.boundary = t.boundary /\ u.checks = t.checks
  BY <1>1 DEF ActivityType
<1>7. OwnSeal(acts[a])' /\ (u.observed = t.observed \/ u.observed # "none")
  BY <1>1, <1>2, <1>4, <1>5, <1>6 DEF OwnSeal, subjectVars, ActivityType
<1>8. EffectOrder(acts[a])'
  BY <1>1, <1>2, <1>4, <1>6 DEF EffectOrder, Family, AbandonWorkProduct, DisposeWorkProduct, ActivityType
<1>9. BaselineOrder(acts[a])'
  BY <1>1, <1>2, <1>4, <1>5, <1>6 DEF BaselineOrder, AbandonWorkProduct, DisposeWorkProduct, subjectVars, CoreTerminal,
     EffectOrder, Family, ActivityType, Received
<1>10. EvaluationOrder(acts[a])'
  BY <1>1, <1>2, <1>4, <1>5, <1>6 DEF EvaluationOrder, AbandonWorkProduct, DisposeWorkProduct, subjectVars, ActivityType,
     Received
<1>11. ~(t.op = "admit" /\ t.observed = "applied")
  BY <1>1, <1>4 DEF AbandonWorkProduct, DisposeWorkProduct, EffectOrder, Family, AgentOperations, BoundaryOperations
<1> QED
  BY <1>1, <1>2, <1>3, <1>5, <1>6, <1>7, <1>8, <1>9, <1>10, <1>11, QuietStep

LEMMA RecordReceiptSafe ==
  ASSUME SafetyInv, NEW a \in Activity,
         RecordReceipt(a)
  PROVE  SafetyInv'
<1> DEFINE t == acts[a]
           u == [t EXCEPT !.receipt = TRUE, !.stage = "finalizing",
                 !.resumes = IF ~Submitted(t) THEN "activity-completed"
                             ELSE IF t.op \in BoundaryOperations
                               THEN "work-boundary-finalized"
                             ELSE "activity-finalization"]
<1>1. /\ t \in ActivityType /\ a \in Open /\ Live /\ Family(t.op) = "agent"
      /\ acts' = [acts EXCEPT ![a] = u] /\ OnlyActivity
      /\ acts \in [Activity -> ActivityType]
  BY DEF SafetyInv, TypeInv, TypeOK, RecordReceipt, On, Advance
<1>2. acts'[a] = u /\ \A b \in Activity : b # a => acts'[b] = acts[b]
  BY <1>1
<1>3. Progress(a)
  BY <1>1, <1>2 DEF Progress, ActivityType
<1>4. OwnSeal(t) /\ EffectOrder(t) /\ BaselineOrder(t) /\ EvaluationOrder(t)
  BY <1>1 DEF SafetyInv, OpenFacts
<1>5. TypeInv' /\ UNCHANGED subjectVars
  BY <1>1, RecordReceiptType DEF SafetyInv, OnlyActivity
<1>6. u.op = t.op /\ u.seal = t.seal /\ u.decision = t.decision
      /\ u.boundary = t.boundary /\ u.checks = t.checks
  BY <1>1 DEF ActivityType
<1>7. OwnSeal(acts[a])' /\ (u.observed = t.observed \/ u.observed # "none")
  BY <1>1, <1>2, <1>4, <1>5, <1>6 DEF OwnSeal, subjectVars, ActivityType
<1>8. EffectOrder(acts[a])'
  BY <1>1, <1>2, <1>4, <1>6 DEF EffectOrder, Family, RecordReceipt, ActivityType
<1>9. BaselineOrder(acts[a])'
  BY <1>1, <1>2, <1>4, <1>5, <1>6 DEF BaselineOrder, RecordReceipt, subjectVars, CoreTerminal,
     EffectOrder, Family, ActivityType, Received
<1>10. EvaluationOrder(acts[a])'
  BY <1>1, <1>2, <1>4, <1>5, <1>6 DEF EvaluationOrder, RecordReceipt, subjectVars, ActivityType,
     Received
<1>11. ~(t.op = "admit" /\ t.observed = "applied")
  BY <1>1, <1>4 DEF RecordReceipt, EffectOrder, Family, AgentOperations, BoundaryOperations
<1> QED
  BY <1>1, <1>2, <1>3, <1>5, <1>6, <1>7, <1>8, <1>9, <1>10, <1>11, QuietStep

LEMMA AssessIntegrationSafe ==
  ASSUME SafetyInv, NEW a \in Activity, NEW x \in {"unchanged", "requires-readmission", "not-constructed"},
         AssessIntegration(a, x)
  PROVE  SafetyInv'
<1> DEFINE t == acts[a]
           u == [t EXCEPT !.assessed = x, !.stage = "finalizing",
                 !.resumes = IF x = "not-constructed" THEN "activity-completed"
                             ELSE "candidate-revision-observed"]
<1>1. /\ t \in ActivityType /\ a \in Open /\ Live /\ Family(t.op) = "integration"
      /\ acts' = [acts EXCEPT ![a] = u] /\ OnlyActivity
      /\ acts \in [Activity -> ActivityType]
  BY DEF SafetyInv, TypeInv, TypeOK, AssessIntegration, On, Advance
<1>2. acts'[a] = u /\ \A b \in Activity : b # a => acts'[b] = acts[b]
  BY <1>1
<1>3. Progress(a)
  BY <1>1, <1>2 DEF Progress, ActivityType
<1>4. OwnSeal(t) /\ EffectOrder(t) /\ BaselineOrder(t) /\ EvaluationOrder(t)
  BY <1>1 DEF SafetyInv, OpenFacts
<1>5. TypeInv' /\ UNCHANGED subjectVars
  BY <1>1, AssessIntegrationType DEF SafetyInv, OnlyActivity
<1>6. u.op = t.op /\ u.seal = t.seal /\ u.decision = t.decision
      /\ u.boundary = t.boundary /\ u.checks = t.checks
  BY <1>1 DEF ActivityType
<1>7. OwnSeal(acts[a])' /\ (u.observed = t.observed \/ u.observed # "none")
  BY <1>1, <1>2, <1>4, <1>5, <1>6 DEF OwnSeal, subjectVars, ActivityType
<1>8. EffectOrder(acts[a])'
  BY <1>1, <1>2, <1>4, <1>6 DEF EffectOrder, Family, AssessIntegration, ActivityType
<1>9. BaselineOrder(acts[a])'
  BY <1>1, <1>2, <1>4, <1>5, <1>6 DEF BaselineOrder, AssessIntegration, subjectVars, CoreTerminal,
     EffectOrder, Family, ActivityType, Received
<1>10. EvaluationOrder(acts[a])'
  BY <1>1, <1>2, <1>4, <1>5, <1>6 DEF EvaluationOrder, AssessIntegration, subjectVars, ActivityType,
     Received
<1>11. ~(t.op = "admit" /\ t.observed = "applied")
  BY <1>1, <1>4 DEF AssessIntegration, EffectOrder, Family, AgentOperations, BoundaryOperations
<1> QED
  BY <1>1, <1>2, <1>3, <1>5, <1>6, <1>7, <1>8, <1>9, <1>10, <1>11, QuietStep

LEMMA IntendTransactionEffectSafe ==
  ASSUME SafetyInv, NEW a \in Activity,
         IntendTransactionEffect(a)
  PROVE  SafetyInv'
<1> DEFINE t == acts[a]
           u == [t EXCEPT !.intended = TRUE, !.stage = "effect-intended",
                 !.resumes = "transaction-effect-observed"]
<1>1. /\ t \in ActivityType /\ a \in Open /\ Live /\ Family(t.op) = "transaction"
      /\ acts' = [acts EXCEPT ![a] = u] /\ OnlyActivity
      /\ acts \in [Activity -> ActivityType]
  BY DEF SafetyInv, TypeInv, TypeOK, IntendTransactionEffect, On, Advance
<1>2. acts'[a] = u /\ \A b \in Activity : b # a => acts'[b] = acts[b]
  BY <1>1
<1>3. Progress(a)
  BY <1>1, <1>2 DEF Progress, ActivityType
<1>4. OwnSeal(t) /\ EffectOrder(t) /\ BaselineOrder(t) /\ EvaluationOrder(t)
  BY <1>1 DEF SafetyInv, OpenFacts
<1>5. TypeInv' /\ UNCHANGED subjectVars
  BY <1>1, IntendTransactionEffectType DEF SafetyInv, OnlyActivity
<1>6. u.op = t.op /\ u.seal = t.seal /\ u.decision = t.decision
      /\ u.boundary = t.boundary /\ u.checks = t.checks
  BY <1>1 DEF ActivityType
<1>7. OwnSeal(acts[a])' /\ (u.observed = t.observed \/ u.observed # "none")
  BY <1>1, <1>2, <1>4, <1>5, <1>6 DEF OwnSeal, subjectVars, ActivityType
<1>8. EffectOrder(acts[a])'
  BY <1>1, <1>2, <1>4, <1>6 DEF EffectOrder, Family, IntendTransactionEffect, ActivityType
<1>9. BaselineOrder(acts[a])'
  BY <1>1, <1>2, <1>4, <1>5, <1>6 DEF BaselineOrder, IntendTransactionEffect, subjectVars, CoreTerminal,
     EffectOrder, Family, ActivityType, Received
<1>10. EvaluationOrder(acts[a])'
  BY <1>1, <1>2, <1>4, <1>5, <1>6 DEF EvaluationOrder, IntendTransactionEffect, subjectVars, ActivityType,
     Received
<1>11. ~(t.op = "admit" /\ t.observed = "applied")
  BY <1>1, <1>4 DEF IntendTransactionEffect, EffectOrder, Family, AgentOperations, BoundaryOperations
<1> QED
  BY <1>1, <1>2, <1>3, <1>5, <1>6, <1>7, <1>8, <1>9, <1>10, <1>11, QuietStep

LEMMA ObserveIndeterminateSafe ==
  ASSUME SafetyInv, NEW a \in Activity,
         ObserveIndeterminate(a)
  PROVE  SafetyInv'
<1> DEFINE t == acts[a]
           u == [t EXCEPT !.stage = "effect-intended",
                 !.resumes = "transaction-effect-observed"]
<1>1. /\ t \in ActivityType /\ a \in Open /\ Live /\ Family(t.op) = "transaction"
      /\ acts' = [acts EXCEPT ![a] = u] /\ OnlyActivity
      /\ acts \in [Activity -> ActivityType]
  BY DEF SafetyInv, TypeInv, TypeOK, ObserveIndeterminate, On, Advance
<1>2. acts'[a] = u /\ \A b \in Activity : b # a => acts'[b] = acts[b]
  BY <1>1
<1>3. Progress(a)
  BY <1>1, <1>2 DEF Progress, ActivityType
<1>4. OwnSeal(t) /\ EffectOrder(t) /\ BaselineOrder(t) /\ EvaluationOrder(t)
  BY <1>1 DEF SafetyInv, OpenFacts
<1>5. TypeInv' /\ UNCHANGED subjectVars
  BY <1>1, ObserveIndeterminateType DEF SafetyInv, OnlyActivity
<1>6. u.op = t.op /\ u.seal = t.seal /\ u.decision = t.decision
      /\ u.boundary = t.boundary /\ u.checks = t.checks
  BY <1>1 DEF ActivityType
<1>7. OwnSeal(acts[a])' /\ (u.observed = t.observed \/ u.observed # "none")
  BY <1>1, <1>2, <1>4, <1>5, <1>6 DEF OwnSeal, subjectVars, ActivityType
<1>8. EffectOrder(acts[a])'
  <2>1. t.intended /\ u.intended = t.intended /\ u.outcome = t.outcome
    BY <1>1 DEF ObserveIndeterminate, ActivityType
  <2> QED
    BY <1>1, <1>2, <1>4, <1>6, <2>1 DEF EffectOrder
<1>9. BaselineOrder(acts[a])'
  BY <1>1, <1>2, <1>4, <1>6 DEF BaselineOrder, Family, AgentOperations
<1>10. EvaluationOrder(acts[a])'
  BY <1>1, <1>2, <1>4, <1>5, <1>6 DEF EvaluationOrder, ObserveIndeterminate, subjectVars, ActivityType,
     Received
<1>11. ~(t.op = "admit" /\ t.observed = "applied")
  BY <1>1, <1>4 DEF ObserveIndeterminate, EffectOrder, Family, AgentOperations, BoundaryOperations
<1> QED
  BY <1>1, <1>2, <1>3, <1>5, <1>6, <1>7, <1>8, <1>9, <1>10, <1>11, QuietStep

LEMMA ObserveNotAppliedSafe ==
  ASSUME SafetyInv, NEW a \in Activity,
         ObserveNotApplied(a)
  PROVE  SafetyInv'
<1> DEFINE t == acts[a]
           u == [t EXCEPT !.observed = "not-applied", !.stage = "effect-observed",
                 !.resumes = "activity-completed"]
<1>1. /\ t \in ActivityType /\ a \in Open /\ Live /\ Family(t.op) = "transaction"
      /\ acts' = [acts EXCEPT ![a] = u] /\ OnlyActivity
      /\ acts \in [Activity -> ActivityType]
  BY DEF SafetyInv, TypeInv, TypeOK, ObserveNotApplied, On, Advance
<1>2. acts'[a] = u /\ \A b \in Activity : b # a => acts'[b] = acts[b]
  BY <1>1
<1>3. Progress(a)
  BY <1>1, <1>2 DEF Progress, ActivityType
<1>4. OwnSeal(t) /\ EffectOrder(t) /\ BaselineOrder(t) /\ EvaluationOrder(t)
  BY <1>1 DEF SafetyInv, OpenFacts
<1>5. TypeInv' /\ UNCHANGED subjectVars
  BY <1>1, ObserveNotAppliedType DEF SafetyInv, OnlyActivity
<1>6. u.op = t.op /\ u.seal = t.seal /\ u.decision = t.decision
      /\ u.boundary = t.boundary /\ u.checks = t.checks
  BY <1>1 DEF ActivityType
<1>7. OwnSeal(acts[a])' /\ (u.observed = t.observed \/ u.observed # "none")
  BY <1>1, <1>2, <1>4, <1>5, <1>6 DEF OwnSeal, subjectVars, ActivityType
<1>8. EffectOrder(acts[a])'
  <2>1. t.intended /\ u.intended = t.intended /\ u.outcome = t.outcome
    BY <1>1 DEF ObserveNotApplied, ActivityType
  <2> QED
    BY <1>1, <1>2, <1>4, <1>6, <2>1 DEF EffectOrder
<1>9. BaselineOrder(acts[a])'
  BY <1>1, <1>2, <1>4, <1>6 DEF BaselineOrder, Family, AgentOperations
<1>10. EvaluationOrder(acts[a])'
  BY <1>1, <1>2, <1>4, <1>5, <1>6 DEF EvaluationOrder, ObserveNotApplied, subjectVars, ActivityType,
     Received
<1>11. ~(t.op = "admit" /\ t.observed = "applied")
  BY <1>1, <1>4 DEF ObserveNotApplied, EffectOrder, Family, AgentOperations, BoundaryOperations
<1> QED
  BY <1>1, <1>2, <1>3, <1>5, <1>6, <1>7, <1>8, <1>9, <1>10, <1>11, QuietStep

LEMMA AuthenticateDecisionSafe ==
  ASSUME SafetyInv, NEW a \in Activity, AuthenticateDecision(a)
  PROVE  SafetyInv'
<1> DEFINE t == acts[a]
           d == SelectedSubjects(DecisionKind(t))
           u == [t EXCEPT !.decision = d, !.resumes = "transaction-effect-intended"]
<1>1. /\ t \in ActivityType /\ a \in Open /\ Live /\ Family(t.op) = "transaction"
      /\ acts' = [acts EXCEPT ![a] = u] /\ OnlyActivity
      /\ acts \in [Activity -> ActivityType] /\ t.decision = NoDecision
  BY DEF SafetyInv, TypeInv, TypeOK, AuthenticateDecision, On, Advance
<1>2. acts'[a] = u /\ \A b \in Activity : b # a => acts'[b] = acts[b]
  BY <1>1
<1>3. /\ u.op = t.op /\ u.origin = t.origin /\ u.stage = t.stage /\ u.seal = t.seal
      /\ u.resumes = "transaction-effect-intended" /\ u.decision = d
      /\ u.observed = t.observed /\ u.boundary = t.boundary /\ u.intended = t.intended
      /\ u.outcome = t.outcome
  BY <1>1 DEF ActivityType
<1>4. OwnSeal(t) /\ EffectOrder(t) /\ BaselineOrder(t) /\ EvaluationOrder(t)
  BY <1>1 DEF SafetyInv, OpenFacts
<1>5. ~t.intended /\ t.observed = "none"
  BY <1>1, <1>4 DEF EffectOrder
<1>6. Progress(a)
  BY <1>1, <1>2, <1>3 DEF Progress, Open
<1>7. TypeInv' /\ UNCHANGED subjectVars
  BY <1>1, AuthenticateDecisionType DEF SafetyInv, OnlyActivity
<1>8. t.op # "evaluate" /\ t.op \notin BoundaryOperations
  BY <1>1 DEF Family, AgentOperations
<1>9. /\ OwnSeal(acts[a])' /\ EffectOrder(acts[a])' /\ BaselineOrder(acts[a])'
      /\ EvaluationOrder(acts[a])'
  <2>1. t.seal = NoSeal /\ t.boundary = 0
    BY <1>4, <1>8 DEF OwnSeal, BaselineOrder
  <2> QED
    BY <1>1, <1>2, <1>3, <1>4, <1>5, <1>8, <2>1
    DEF OwnSeal, EffectOrder, BaselineOrder, EvaluationOrder
<1> QED
  BY <1>1, <1>2, <1>3, <1>5, <1>6, <1>7, <1>9, QuietStep

LEMMA RecordFinalReceiptSafe ==
  ASSUME SafetyInv, NEW a \in Activity, NEW s \in Selection, NEW x \in Dispositions,
         RecordFinalReceipt(a, s, x)
  PROVE  SafetyInv'
<1> DEFINE t == acts[a]
           u == [t EXCEPT !.checks = [@ EXCEPT ![s] = x], !.resumes = "evaluation-checks"]
<1>1. /\ t \in ActivityType /\ a \in Open /\ Live /\ t.op = "evaluate" /\ ~t.attempt
      /\ acts' = [acts EXCEPT ![a] = u] /\ OnlyActivity
      /\ acts \in [Activity -> ActivityType]
  BY DEF SafetyInv, TypeInv, TypeOK, RecordFinalReceipt, On, Advance
<1>2. acts'[a] = u /\ \A b \in Activity : b # a => acts'[b] = acts[b]
  BY <1>1
<1>3. /\ u.op = t.op /\ u.origin = t.origin /\ u.stage = t.stage /\ u.seal = t.seal
      /\ u.resumes = "evaluation-checks" /\ u.decision = t.decision
      /\ u.observed = t.observed /\ u.boundary = t.boundary /\ u.intended = t.intended
      /\ u.outcome = t.outcome /\ u.attempt = t.attempt
  BY <1>1 DEF ActivityType
<1>4. OwnSeal(t) /\ EffectOrder(t) /\ BaselineOrder(t) /\ EvaluationOrder(t)
  BY <1>1 DEF SafetyInv, OpenFacts
<1>5. Progress(a)
  BY <1>1, <1>2, <1>3 DEF Progress, Open
<1>6. TypeInv' /\ UNCHANGED subjectVars
  BY <1>1, RecordFinalReceiptType DEF SafetyInv, OnlyActivity
<1>7. t.boundary = 0
  BY <1>1, <1>4 DEF BaselineOrder, CoreTerminal
<1>8. /\ OwnSeal(acts[a])' /\ EffectOrder(acts[a])' /\ BaselineOrder(acts[a])'
      /\ EvaluationOrder(acts[a])'
  BY <1>1, <1>2, <1>3, <1>4, <1>6, <1>7
  DEF OwnSeal, EffectOrder, BaselineOrder, EvaluationOrder, subjectVars
<1> QED
  BY <1>1, <1>2, <1>3, <1>5, <1>6, <1>8, QuietStep

------------------------------------------------------------------------------
(* The Director's events                                                   *)

LEMMA StillStep ==
  ASSUME SafetyInv, TypeInv', UNCHANGED <<acts, subjectVars>>
  PROVE  SafetyInv'
<1>1. Open' = Open /\ OneOpenActivity'
  BY DEF SafetyInv, OneOpenActivity, Open
<1>2. OpenFacts'
  BY <1>1 DEF SafetyInv, OpenFacts, OwnSeal, EffectOrder, BaselineOrder, EvaluationOrder,
     AcceptanceStands, subjectVars, Received
<1>3. ProofIsCurrent' /\ AdmittedBaseline' /\ AcceptanceReadyIsProven' /\ AcceptedIsProven'
      /\ SubjectsNumbered'
  BY DEF SafetyInv, ProofIsCurrent, AdmittedBaseline, AcceptanceReadyIsProven,
     AcceptedIsProven, BaselineEstablished, Received, LegalBaselineSet, LegalBaseline,
     LegalFinalSet, LegalAcceptance, SubjectsNumbered, subjectVars
<1>4. DecisionIsCurrent'
  <2>1. \A k : SelectedSubjects(k)' = SelectedSubjects(k)
    BY DEF SelectedSubjects, EstablishedBoundary, subjectVars
  <2> QED
    BY <1>1, <2>1 DEF SafetyInv, DecisionIsCurrent, DecisionKind
<1>5. CandidateIsGoverned' /\ ClosureSettles'
  BY <1>1 DEF SafetyInv, CandidateIsGoverned, ClosureSettles, Settled, subjectVars
<1> QED
  BY <1>1, <1>2, <1>3, <1>4, <1>5 DEF SafetyInv

LEMMA StartActivitySafe ==
  ASSUME SafetyInv, NEW a \in Activity, NEW op \in Operations, NEW reserved \in BOOLEAN,
         StartActivity(a, op, reserved)
  PROVE  SafetyInv'
<1> DEFINE u == [Idle EXCEPT !.op = op, !.origin = Standing, !.stage = "started",
                             !.resumes = FirstStep(op), !.reserved = reserved]
<1>1. /\ Live /\ op \in EligibleOperations /\ Open = {} /\ UNCHANGED subjectVars
      /\ acts' = [acts EXCEPT ![a] = u] /\ acts \in [Activity -> ActivityType]
  BY DEF StartActivity, Advance, EligibleOperations, Settled, SafetyInv, TypeInv, TypeOK
<1>2. acts'[a] = u /\ \A b \in Activity : b # a => acts'[b] = acts[b]
  BY <1>1
<1>3. /\ u.op = op /\ u.stage = "started" /\ u.resumes = FirstStep(op) /\ u.seal = NoSeal
      /\ u.outcome = "none" /\ u.observed = "none" /\ ~u.intended /\ ~u.attempt
      /\ u.decision = NoDecision /\ u.boundary = 0
  BY DEF Idle
<1>4. Open' = {a}
  <2>1. \A b \in Activity : b \in Open' <=> b = a
    BY <1>1, <1>2, <1>3 DEF Open
  <2> QED
    BY <2>1 DEF Open
<1>5. OneOpenActivity'
  <2>1. FirstStep(op) # "none"
    BY DEF FirstStep
  <2> QED
    BY <1>2, <1>3, <1>4, <2>1 DEF OneOpenActivity
<1>6. op = "evaluate" => integrated
  BY <1>1 DEF EligibleOperations
<1>7. op = "accept" => readiness = "acceptance-ready" /\ condition = "none"
  <2> SUFFICES ASSUME op = "accept"
               PROVE  readiness = "acceptance-ready" /\ condition = "none"
    OBVIOUS
  <2>1. Standing = "decision-ready"
    BY <1>1 DEF EligibleOperations, LegalStandings, ProductiveOperations
  <2> QED
    BY <2>1 DEF Standing
<1>8. OpenFacts'
  BY <1>1, <1>2, <1>3, <1>4, <1>6, <1>7
  DEF OpenFacts, OwnSeal, EffectOrder, BaselineOrder, EvaluationOrder, AcceptanceStands,
      subjectVars
<1>9. ProofIsCurrent' /\ AdmittedBaseline' /\ AcceptanceReadyIsProven' /\ AcceptedIsProven'
      /\ SubjectsNumbered'
  BY <1>1 DEF SafetyInv, ProofIsCurrent, AdmittedBaseline, AcceptanceReadyIsProven,
     AcceptedIsProven, BaselineEstablished, Received, LegalBaselineSet, LegalBaseline,
     LegalFinalSet, LegalAcceptance, SubjectsNumbered, subjectVars
<1>10. DecisionIsCurrent'
  BY <1>2, <1>3, <1>4 DEF DecisionIsCurrent
<1>11. CandidateIsGoverned' /\ ClosureSettles'
  BY <1>1 DEF SafetyInv, CandidateIsGoverned, ClosureSettles, Live, subjectVars
<1>12. TypeInv'
  BY StartActivityType DEF SafetyInv
<1> QED
  BY <1>5, <1>8, <1>9, <1>10, <1>11, <1>12 DEF SafetyInv

------------------------------------------------------------------------------
(* Events that change a subject                                            *)

LEMMA SealCandidateSafe ==
  ASSUME SafetyInv, NEW a \in Activity, SealCandidate(a)
  PROVE  SafetyInv'
<1> DEFINE t == acts[a]
           sealed == [serial |-> seals + 1, candidate |-> candidate.revision,
                      boundary |-> active]
           u == [t EXCEPT !.seal = sealed, !.stage = "finalizing",
                          !.resumes = "evaluation-checks"]
<1>1. /\ t \in ActivityType /\ a \in Open /\ Live /\ t.op = "evaluate" /\ ~t.attempt
      /\ acts' = [acts EXCEPT ![a] = u] /\ seal' = sealed /\ evidence' = NoEvidence
      /\ readiness' = "none"
      /\ UNCHANGED <<boundaries, proposed, active, candidate, integrated, condition,
                     closure>>
      /\ acts \in [Activity -> ActivityType]
  BY DEF SafetyInv, TypeInv, TypeOK, SealCandidate, On, Advance
<1>2. acts'[a] = u /\ \A b \in Activity : b # a => acts'[b] = acts[b]
  BY <1>1
<1>3. /\ u.op = t.op /\ u.origin = t.origin /\ u.stage = "finalizing" /\ u.seal = sealed
      /\ u.resumes = "evaluation-checks" /\ u.decision = t.decision
      /\ u.observed = t.observed /\ u.boundary = t.boundary /\ u.intended = t.intended
      /\ u.outcome = t.outcome /\ u.attempt = t.attempt
  BY <1>1 DEF ActivityType
<1>4. EffectOrder(t) /\ BaselineOrder(t) /\ EvaluationOrder(t)
  BY <1>1 DEF SafetyInv, OpenFacts
<1>5. Progress(a)
  BY <1>1, <1>2, <1>3 DEF Progress
<1>6. Open' = {a} /\ OneOpenActivity'
  BY <1>5, OnlyOpen DEF SafetyInv
<1>7. t.boundary = 0
  BY <1>1, <1>4 DEF BaselineOrder, CoreTerminal
<1>8. OpenFacts'
  BY <1>1, <1>2, <1>3, <1>4, <1>6, <1>7
  DEF OpenFacts, OwnSeal, EffectOrder, BaselineOrder, EvaluationOrder, AcceptanceStands
<1>9. ProofIsCurrent'
  BY <1>1 DEF ProofIsCurrent
<1>10. AdmittedBaseline' /\ AcceptanceReadyIsProven' /\ SubjectsNumbered'
  BY <1>1 DEF SafetyInv, AdmittedBaseline, AcceptanceReadyIsProven, BaselineEstablished,
     Received, LegalBaselineSet, LegalBaseline, SubjectsNumbered
<1>11. AcceptedIsProven' /\ ClosureSettles'
  BY <1>1 DEF AcceptedIsProven, ClosureSettles, Live, NoClosure
<1>12. DecisionIsCurrent'
  <2>1. t.decision = NoDecision
    BY <1>1, <1>4 DEF EffectOrder, Family, AgentOperations
  <2> QED
    BY <1>2, <1>3, <1>6, <2>1 DEF DecisionIsCurrent
<1>13. CandidateIsGoverned'
  BY <1>1, <1>6 DEF SafetyInv, CandidateIsGoverned, OneOpenActivity
<1>14. TypeInv'
  BY SealCandidateType DEF SafetyInv
<1> QED
  BY <1>6, <1>8, <1>9, <1>10, <1>11, <1>12, <1>13, <1>14 DEF SafetyInv

LEMMA FinalizeEvidenceSafe ==
  ASSUME SafetyInv, NEW a \in Activity, NEW ready \in Readinesses,
         FinalizeEvidence(a, ready)
  PROVE  SafetyInv'
<1> DEFINE t == acts[a]
           u == [t EXCEPT !.packet = TRUE, !.stage = "finalizing",
                          !.resumes = "activity-completed"]
           packet == [seal |-> t.seal.serial, candidate |-> candidate.revision,
                      boundary |-> active, final |-> t.checks]
<1>1. /\ t \in ActivityType /\ a \in Open /\ Live /\ t.op = "evaluate" /\ t.attempt
      /\ t.seal # NoSeal /\ t.checks # NoChecks /\ active # 0
      /\ acts' = [acts EXCEPT ![a] = u] /\ evidence' = packet /\ readiness' = ready
      /\ ready = "acceptance-ready" =>
           LegalBaselineSet(boundaries[active].checks) /\ LegalFinalSet(t.checks)
      /\ UNCHANGED <<boundaries, proposed, active, candidate, integrated, condition,
                     seal, closure>>
      /\ acts \in [Activity -> ActivityType]
  BY DEF SafetyInv, TypeInv, TypeOK, FinalizeEvidence, On, Advance, CoreTerminal
<1>2. acts'[a] = u /\ \A b \in Activity : b # a => acts'[b] = acts[b]
  BY <1>1
<1>3. /\ u.op = t.op /\ u.origin = t.origin /\ u.stage = "finalizing" /\ u.seal = t.seal
      /\ u.resumes = "activity-completed" /\ u.decision = t.decision
      /\ u.observed = t.observed /\ u.boundary = t.boundary /\ u.intended = t.intended
      /\ u.outcome = t.outcome /\ u.attempt = t.attempt /\ u.checks = t.checks
  BY <1>1 DEF ActivityType
<1>4. OwnSeal(t) /\ EffectOrder(t) /\ BaselineOrder(t) /\ EvaluationOrder(t)
  BY <1>1 DEF SafetyInv, OpenFacts
<1>5. Progress(a)
  BY <1>1, <1>2, <1>3 DEF Progress
<1>6. Open' = {a} /\ OneOpenActivity'
  BY <1>5, OnlyOpen DEF SafetyInv
<1>7. t.boundary = 0
  BY <1>1, <1>4 DEF BaselineOrder, BoundaryOperations
<1>8. OpenFacts'
  BY <1>1, <1>2, <1>3, <1>4, <1>6, <1>7
  DEF OpenFacts, OwnSeal, EffectOrder, BaselineOrder, EvaluationOrder, AcceptanceStands,
      Received
<1>9. ProofIsCurrent'
  <2>1. seal = t.seal /\ seal # NoSeal
    BY <1>1, <1>4 DEF OwnSeal
  <2>2. packet # NoEvidence /\ ready # "none"
    BY <1>1 DEF NoEvidence, Readinesses
  <2> QED
    BY <1>1, <2>1, <2>2 DEF SafetyInv, ProofIsCurrent
<1>10. AdmittedBaseline' /\ SubjectsNumbered'
  BY <1>1 DEF SafetyInv, AdmittedBaseline, BaselineEstablished, Received,
     LegalBaselineSet, LegalBaseline, SubjectsNumbered
<1>11. AcceptanceReadyIsProven'
  <2>1. integrated /\ boundaries[active].mandate.final \subseteq Received(t.checks)
    BY <1>1, <1>4 DEF EvaluationOrder
  <2>2. BaselineEstablished(active)'
    BY <1>1, <1>10 DEF AdmittedBaseline
  <2> QED
    BY <1>1, <2>1, <2>2 DEF AcceptanceReadyIsProven, Received, LegalFinalSet, LegalAcceptance
<1>12. AcceptedIsProven' /\ ClosureSettles'
  BY <1>1 DEF AcceptedIsProven, ClosureSettles, Live, NoClosure
<1>13. DecisionIsCurrent'
  <2>1. t.decision = NoDecision
    BY <1>1, <1>4 DEF EffectOrder, Family, AgentOperations
  <2> QED
    BY <1>2, <1>3, <1>6, <2>1 DEF DecisionIsCurrent
<1>14. CandidateIsGoverned'
  BY <1>1, <1>6 DEF SafetyInv, CandidateIsGoverned, OneOpenActivity
<1>15. TypeInv'
  BY FinalizeEvidenceType DEF SafetyInv
<1> QED
  BY <1>6, <1>8, <1>9, <1>10, <1>11, <1>12, <1>13, <1>14, <1>15 DEF SafetyInv

LEMMA FreezeMaterialConditionSafe ==
  ASSUME SafetyInv, NEW a \in Activity, NEW source \in Sources,
         FreezeMaterialCondition(a, source)
  PROVE  SafetyInv'
<1> DEFINE t == acts[a]
           u == [t EXCEPT !.froze = TRUE, !.stage = "finalizing",
                          !.resumes = IF source = "agent-proposal" /\ t.op = "evaluate"
                                      THEN "activity-finalization"
                                      ELSE "activity-completed"]
<1>1. /\ t \in ActivityType /\ a \in Open /\ Live
      /\ t.op \in {"evaluate", "continue", "integrate"}
      /\ acts' = [acts EXCEPT ![a] = u]
      /\ UNCHANGED <<boundaries, proposed, active, candidate, integrated, seals, seal,
                     evidence, readiness, closure>>
      /\ acts \in [Activity -> ActivityType]
  BY DEF SafetyInv, TypeInv, TypeOK, FreezeMaterialCondition, Advance, ConditionSource,
     Sources
<1>2. acts'[a] = u /\ \A b \in Activity : b # a => acts'[b] = acts[b]
  BY <1>1
<1>3. /\ u.op = t.op /\ u.origin = t.origin /\ u.stage = "finalizing" /\ u.seal = t.seal
      /\ u.resumes # "none" /\ u.decision = t.decision
      /\ u.observed = t.observed /\ u.boundary = t.boundary /\ u.intended = t.intended
      /\ u.outcome = t.outcome /\ u.attempt = t.attempt /\ u.checks = t.checks
  BY <1>1 DEF ActivityType
<1>4. OwnSeal(t) /\ EffectOrder(t) /\ BaselineOrder(t) /\ EvaluationOrder(t)
  BY <1>1 DEF SafetyInv, OpenFacts
<1>5. Progress(a)
  BY <1>1, <1>2, <1>3 DEF Progress
<1>6. Open' = {a} /\ Open = {a} /\ OneOpenActivity'
  BY <1>5, OnlyOpen DEF SafetyInv
<1>7. t.boundary = 0 /\ t.op # "accept"
  BY <1>1, <1>4 DEF BaselineOrder, BoundaryOperations
<1>8. OpenFacts'
  BY <1>1, <1>2, <1>3, <1>4, <1>6, <1>7
  DEF OpenFacts, OwnSeal, EffectOrder, BaselineOrder, EvaluationOrder, AcceptanceStands,
      Received
<1>9. /\ ProofIsCurrent' /\ AdmittedBaseline' /\ AcceptanceReadyIsProven'
      /\ SubjectsNumbered'
  BY <1>1 DEF SafetyInv, ProofIsCurrent, AdmittedBaseline, AcceptanceReadyIsProven,
     BaselineEstablished, Received, LegalBaselineSet, LegalBaseline, LegalFinalSet,
     LegalAcceptance, SubjectsNumbered
<1>10. AcceptedIsProven' /\ ClosureSettles'
  BY <1>1 DEF AcceptedIsProven, ClosureSettles, Live, NoClosure
<1>11. DecisionIsCurrent'
  <2>1. t.decision = NoDecision
    BY <1>1, <1>4 DEF EffectOrder, Family, AgentOperations
  <2> QED
    BY <1>2, <1>3, <1>6, <2>1 DEF DecisionIsCurrent
<1>12. CandidateIsGoverned'
  BY <1>1, <1>6 DEF SafetyInv, CandidateIsGoverned
<1>13. TypeInv'
  BY FreezeMaterialConditionType DEF SafetyInv
<1> QED
  BY <1>6, <1>8, <1>9, <1>10, <1>11, <1>12, <1>13 DEF SafetyInv

LEMMA ObserveCandidateRevisionSafe ==
  ASSUME SafetyInv, NEW a \in Activity, ObserveCandidateRevision(a)
  PROVE  SafetyInv'
<1> DEFINE t == acts[a]
           r == IF t.op = "continue" THEN "execution-receipt-recorded"
                ELSE IF t.assessed = "requires-readmission" THEN "activity-finalization"
                ELSE "activity-completed"
           u == [t EXCEPT !.successor = candidate.revision + 1,
                          !.stage = "finalizing", !.resumes = r]
<1>1. /\ t \in ActivityType /\ a \in Open /\ Live /\ active # 0
      /\ t.op \in {"integrate", "continue", "admit"}
      /\ t.op = "admit" => t.observed = "applied"
      /\ acts' = [acts EXCEPT ![a] = u]
      /\ candidate' = [revision |-> candidate.revision + 1, boundary |-> active]
      /\ seal' = NoSeal /\ evidence' = NoEvidence /\ readiness' = "none"
      /\ UNCHANGED <<boundaries, proposed, active, condition, closure>>
      /\ acts \in [Activity -> ActivityType] /\ candidate.revision \in Nat
  BY DEF SafetyInv, TypeInv, TypeOK, ObserveCandidateRevision, Advance, DiscardProof,
     MayObserveCandidate
<1>2. acts'[a] = u /\ \A b \in Activity : b # a => acts'[b] = acts[b]
  BY <1>1
<1>3. /\ u.op = t.op /\ u.origin = t.origin /\ u.stage = "finalizing" /\ u.seal = t.seal
      /\ u.resumes = r /\ u.decision = t.decision
      /\ u.observed = t.observed /\ u.boundary = t.boundary /\ u.intended = t.intended
      /\ u.outcome = t.outcome /\ u.attempt = t.attempt /\ u.checks = t.checks
  BY <1>1 DEF ActivityType
<1>4. OwnSeal(t) /\ EffectOrder(t) /\ BaselineOrder(t)
  BY <1>1 DEF SafetyInv, OpenFacts
<1>5. Progress(a)
  BY <1>1, <1>2, <1>3 DEF Progress
<1>6. Open' = {a} /\ Open = {a} /\ OneOpenActivity'
  BY <1>5, OnlyOpen DEF SafetyInv
<1>7. t.boundary = 0 /\ t.seal = NoSeal
  BY <1>1, <1>4 DEF BaselineOrder, BoundaryOperations, OwnSeal
<1>8. OpenFacts'
  BY <1>1, <1>2, <1>3, <1>4, <1>6, <1>7
  DEF OpenFacts, OwnSeal, EffectOrder, BaselineOrder, EvaluationOrder, AcceptanceStands
<1>9. ProofIsCurrent' /\ AcceptanceReadyIsProven' /\ SubjectsNumbered'
  BY <1>1 DEF ProofIsCurrent, AcceptanceReadyIsProven, SubjectsNumbered
<1>10. AdmittedBaseline'
  BY <1>1 DEF SafetyInv, AdmittedBaseline, BaselineEstablished, Received,
     LegalBaselineSet, LegalBaseline
<1>11. AcceptedIsProven' /\ ClosureSettles'
  BY <1>1 DEF AcceptedIsProven, ClosureSettles, Live, NoClosure
<1>12. DecisionIsCurrent'
  <2>1. t.op # "admit" => t.decision = NoDecision
    BY <1>1, <1>4 DEF EffectOrder, Family, AgentOperations
  <2> QED
    BY <1>1, <1>2, <1>3, <1>6, <2>1 DEF DecisionIsCurrent
<1>13. CandidateIsGoverned'
  BY <1>1 DEF CandidateIsGoverned
<1>14. TypeInv'
  BY ObserveCandidateRevisionType DEF SafetyInv
<1> QED
  BY <1>6, <1>8, <1>9, <1>10, <1>11, <1>12, <1>13, <1>14 DEF SafetyInv

LEMMA ObserveAppliedSafe ==
  ASSUME SafetyInv, NEW a \in Activity, ObserveApplied(a)
  PROVE  SafetyInv'
<1> DEFINE t == acts[a]
           u == [t EXCEPT !.observed = "applied", !.stage = "effect-observed",
                          !.resumes = AfterApplied(t.op)]
<1>1. /\ t \in ActivityType /\ a \in Open /\ Live /\ Family(t.op) = "transaction"
      /\ t.intended /\ acts' = [acts EXCEPT ![a] = u]
      /\ UNCHANGED <<boundaries, candidate, integrated, closure>>
      /\ acts \in [Activity -> ActivityType]
  BY DEF SafetyInv, TypeInv, TypeOK, ObserveApplied, On, Advance
<1>2. \/ /\ t.op = "admit" /\ proposed # 0 /\ active' = proposed /\ proposed' = 0
         /\ condition' = "none" /\ seal' = NoSeal /\ evidence' = NoEvidence
         /\ readiness' = "none"
      \/ /\ t.op # "admit"
         /\ UNCHANGED <<active, proposed, condition, seal, evidence, readiness>>
  BY DEF ObserveApplied, DiscardProof
<1>3. acts'[a] = u /\ \A b \in Activity : b # a => acts'[b] = acts[b]
  BY <1>1
<1>4. /\ u.op = t.op /\ u.origin = t.origin /\ u.stage = "effect-observed"
      /\ u.seal = t.seal /\ u.resumes = AfterApplied(t.op) /\ u.decision = t.decision
      /\ u.observed = "applied" /\ u.boundary = t.boundary /\ u.intended = t.intended
      /\ u.outcome = t.outcome
  BY <1>1 DEF ActivityType
<1>5. OwnSeal(t) /\ EffectOrder(t) /\ BaselineOrder(t) /\ AcceptanceStands(t)
  BY <1>1 DEF SafetyInv, OpenFacts
<1>6. Progress(a)
  BY <1>1, <1>3, <1>4 DEF Progress, AfterApplied
<1>7. Open' = {a} /\ Open = {a} /\ OneOpenActivity'
  BY <1>6, OnlyOpen DEF SafetyInv
<1>8. t.op \notin BoundaryOperations /\ t.op # "evaluate"
  BY <1>1 DEF Family, AgentOperations
<1>9. t.boundary = 0 /\ t.seal = NoSeal
  BY <1>5, <1>8 DEF BaselineOrder, OwnSeal
<1>10. OpenFacts'
  BY <1>1, <1>2, <1>3, <1>4, <1>5, <1>7, <1>8, <1>9
  DEF OpenFacts, OwnSeal, EffectOrder, BaselineOrder, EvaluationOrder, AcceptanceStands
<1>11. ProofIsCurrent' /\ SubjectsNumbered'
  BY <1>1, <1>2 DEF SafetyInv, ProofIsCurrent, SubjectsNumbered
<1>12. AdmittedBaseline' /\ AcceptanceReadyIsProven'
  BY <1>1, <1>2 DEF SafetyInv, AdmittedBaseline, AcceptanceReadyIsProven,
     BaselineEstablished, Received, LegalBaselineSet, LegalBaseline, LegalFinalSet,
     LegalAcceptance
<1>13. AcceptedIsProven' /\ ClosureSettles'
  BY <1>1 DEF AcceptedIsProven, ClosureSettles, Live, NoClosure
<1>14. DecisionIsCurrent'
  BY <1>3, <1>4, <1>7 DEF DecisionIsCurrent
<1>15. CandidateIsGoverned'
  <2>1. CASE t.op = "admit"
    <3>1. active' # 0 /\ u.resumes = "candidate-revision-observed"
      BY <1>2, <1>4, <2>1 DEF AfterApplied
    <3> QED
      BY <1>3, <1>4, <1>7, <2>1, <3>1 DEF CandidateIsGoverned
  <2>2. CASE t.op # "admit"
    BY <1>1, <1>2, <1>7, <2>2 DEF SafetyInv, CandidateIsGoverned
  <2> QED
    BY <2>1, <2>2
<1>16. TypeInv'
  BY ObserveAppliedType DEF SafetyInv
<1> QED
  BY <1>7, <1>10, <1>11, <1>12, <1>13, <1>14, <1>15, <1>16 DEF SafetyInv

\* Boundaries only grow, and a complete baseline set takes no further receipt:
\* what was established stays established.
LEMMA EstablishedStays ==
  ASSUME AdmittedBaseline, UNCHANGED <<proposed, active>>,
         \A b \in {proposed, active} \ {0} :
           /\ boundaries'[b].mandate = boundaries[b].mandate
           /\ \/ boundaries'[b].checks = boundaries[b].checks
              \/ ~(boundaries[b].mandate.baseline \subseteq Received(boundaries[b].checks))
  PROVE  AdmittedBaseline'
<1>1. ASSUME NEW b \in {proposed, active} \ {0} PROVE BaselineEstablished(b)'
  <2>1. BaselineEstablished(b)
    BY DEF AdmittedBaseline
  <2>2. boundaries'[b].mandate = boundaries[b].mandate
        /\ boundaries'[b].checks = boundaries[b].checks
    BY <2>1 DEF BaselineEstablished
  <2> QED
    BY <2>1, <2>2 DEF BaselineEstablished, Received, LegalBaselineSet, LegalBaseline
<1> QED
  BY <1>1 DEF AdmittedBaseline

LEMMA FinalizeBoundarySafe ==
  ASSUME SafetyInv, NEW a \in Activity, NEW m \in Mandates, FinalizeBoundary(a, m)
  PROVE  SafetyInv'
<1> DEFINE t == acts[a]
           n == NextBoundary(t.op)
           b == [mandate |-> m, checks |-> NoChecks]
           u == [t EXCEPT !.boundary = n, !.stage = "finalizing",
                          !.resumes = "baseline-checks"]
<1>1. /\ t \in ActivityType /\ a \in Open /\ Live /\ t.op \in BoundaryOperations
      /\ CoreTerminal(t) /\ t.receipt /\ acts' = [acts EXCEPT ![a] = u]
      /\ t.op # "prepare" => active # 0
      /\ boundaries' = Append(boundaries, b) /\ boundaries \in Seq(BoundaryType)
      /\ UNCHANGED <<proposed, active, candidate, integrated, condition, seal, evidence,
                     readiness, closure>>
      /\ acts \in [Activity -> ActivityType]
  BY DEF SafetyInv, TypeInv, TypeOK, FinalizeBoundary, On, Advance
<1>2. acts'[a] = u /\ \A c \in Activity : c # a => acts'[c] = acts[c]
  BY <1>1
<1>3. /\ u.op = t.op /\ u.origin = t.origin /\ u.stage = "finalizing"
      /\ u.seal = t.seal /\ u.resumes = "baseline-checks" /\ u.decision = t.decision
      /\ u.observed = t.observed /\ u.boundary = n /\ u.intended = t.intended
      /\ u.outcome = t.outcome /\ u.attempt = t.attempt /\ u.product = t.product
      /\ u.receipt = t.receipt
  BY <1>1 DEF ActivityType
<1>4. OwnSeal(t) /\ EffectOrder(t)
  BY <1>1 DEF SafetyInv, OpenFacts
<1>5. Progress(a)
  BY <1>1, <1>2, <1>3 DEF Progress
<1>6. Open' = {a} /\ Open = {a} /\ OneOpenActivity'
  BY <1>5, OnlyOpen DEF SafetyInv
<1>7. t.op \notin {"evaluate", "accept"} /\ t.decision = NoDecision
  BY <1>1, <1>4 DEF BoundaryOperations, EffectOrder, Family, AgentOperations
<1>8. OpenFacts'
  <2>1. OwnSeal(acts[a])' /\ EvaluationOrder(acts[a])' /\ AcceptanceStands(acts[a])'
    BY <1>1, <1>2, <1>3, <1>4, <1>7 DEF OwnSeal, EvaluationOrder, AcceptanceStands
  <2>2. EffectOrder(acts[a])'
    BY <1>2, <1>3, <1>4 DEF EffectOrder
  <2>3. BaselineOrder(acts[a])'
    BY <1>1, <1>2, <1>3 DEF BaselineOrder, CoreTerminal
  <2> QED
    BY <1>6, <2>1, <2>2, <2>3 DEF OpenFacts
<1>9. \A i \in 1 .. Len(boundaries) : boundaries'[i] = boundaries[i]
  BY <1>1
<1>10. proposed \in 0 .. Len(boundaries) /\ active \in 0 .. Len(boundaries)
       /\ Len(boundaries) \in Nat
  BY DEF SafetyInv, TypeInv, TypeOK
<1>11. AdmittedBaseline'
  BY <1>1, <1>9, <1>10, EstablishedStays DEF SafetyInv
<1>12. ProofIsCurrent' /\ SubjectsNumbered'
  BY <1>1 DEF SafetyInv, ProofIsCurrent, SubjectsNumbered
<1>13. AcceptanceReadyIsProven'
  <2> SUFFICES ASSUME readiness = "acceptance-ready"
               PROVE  /\ integrated /\ LegalFinalSet(evidence.final)
                      /\ boundaries'[active].mandate.final \subseteq Received(evidence.final)
                      /\ BaselineEstablished(active)'
    BY <1>1 DEF AcceptanceReadyIsProven, Received, LegalFinalSet, LegalAcceptance
  <2>1. active # 0
    BY DEF SafetyInv, SubjectsNumbered
  <2>2. boundaries'[active] = boundaries[active]
    BY <1>9, <1>10, <2>1
  <2>3. BaselineEstablished(active)'
    BY <1>1, <1>11, <2>1 DEF AdmittedBaseline
  <2> QED
    BY <2>2, <2>3 DEF SafetyInv, AcceptanceReadyIsProven
<1>14. AcceptedIsProven' /\ ClosureSettles'
  BY <1>1 DEF AcceptedIsProven, ClosureSettles, Live, NoClosure
<1>15. DecisionIsCurrent'
  BY <1>2, <1>3, <1>6, <1>7 DEF DecisionIsCurrent
<1>16. CandidateIsGoverned'
  <2>1. t.op # "admit"
    BY <1>1 DEF BoundaryOperations
  <2> QED
    BY <1>1, <1>6, <2>1 DEF SafetyInv, CandidateIsGoverned
<1>17. TypeInv'
  BY FinalizeBoundaryType DEF SafetyInv
<1> QED
  BY <1>6, <1>8, <1>11, <1>12, <1>13, <1>14, <1>15, <1>16, <1>17 DEF SafetyInv

LEMMA RecordBaselineReceiptSafe ==
  ASSUME SafetyInv, NEW a \in Activity, NEW s \in Selection, NEW x \in Dispositions,
         RecordBaselineReceipt(a, s, x)
  PROVE  SafetyInv'
<1> DEFINE t == acts[a]
           n == t.boundary
           received == [boundaries[n].checks EXCEPT ![s] = x]
           required == boundaries[n].mandate.baseline
           u == [t EXCEPT !.resumes = IF required \subseteq Received(received)
                                      THEN "activity-completed"
                                      ELSE "baseline-checks"]
<1>1. /\ t \in ActivityType /\ a \in Open /\ Live /\ t.op \in BoundaryOperations
      /\ n # 0 /\ s \in required /\ boundaries[n].checks[s] = Absent
      /\ acts' = [acts EXCEPT ![a] = u]
      /\ boundaries' = [boundaries EXCEPT ![n] = [boundaries[n] EXCEPT !.checks = received]]
      /\ boundaries \in Seq(BoundaryType)
      /\ UNCHANGED <<proposed, active, candidate, integrated, condition, seal, evidence,
                     readiness, closure>>
      /\ acts \in [Activity -> ActivityType]
  BY DEF SafetyInv, TypeInv, TypeOK, RecordBaselineReceipt, On, Advance
<1>2. acts'[a] = u /\ \A c \in Activity : c # a => acts'[c] = acts[c]
  BY <1>1
<1>3. /\ u.op = t.op /\ u.origin = t.origin /\ u.stage = t.stage
      /\ u.seal = t.seal /\ u.decision = t.decision
      /\ u.observed = t.observed /\ u.boundary = n /\ u.intended = t.intended
      /\ u.outcome = t.outcome /\ u.attempt = t.attempt /\ u.product = t.product
      /\ u.receipt = t.receipt
      /\ u.resumes = IF required \subseteq Received(received)
                     THEN "activity-completed" ELSE "baseline-checks"
  BY <1>1 DEF ActivityType
<1>4. OwnSeal(t) /\ EffectOrder(t) /\ BaselineOrder(t)
  BY <1>1 DEF SafetyInv, OpenFacts
<1>5. Progress(a)
  BY <1>1, <1>2, <1>3 DEF Progress, Open
<1>6. Open' = {a} /\ Open = {a} /\ OneOpenActivity'
  BY <1>5, OnlyOpen DEF SafetyInv
<1>7. t.op \notin {"evaluate", "accept"} /\ t.decision = NoDecision
  BY <1>1, <1>4 DEF BoundaryOperations, EffectOrder, Family, AgentOperations
<1>8. proposed \in 0 .. Len(boundaries) /\ active \in 0 .. Len(boundaries)
      /\ Len(boundaries) \in Nat /\ n \in 1 .. Len(boundaries)
  BY <1>1 DEF SafetyInv, TypeInv, TypeOK, ActivityFacts, ActivityType
<1>9. /\ boundaries'[n].mandate = boundaries[n].mandate
      /\ boundaries'[n].checks = received
  <2>1. boundaries[n] \in BoundaryType
    BY <1>1, <1>8
  <2> QED
    BY <1>1, <1>8, <2>1 DEF BoundaryType
<1>10. \A i \in 1 .. Len(boundaries) : i # n => boundaries'[i] = boundaries[i]
  BY <1>1
<1>11. OpenFacts'
  <2>1. OwnSeal(acts[a])' /\ EvaluationOrder(acts[a])' /\ AcceptanceStands(acts[a])'
    BY <1>1, <1>2, <1>3, <1>4, <1>7 DEF OwnSeal, EvaluationOrder, AcceptanceStands
  <2>2. EffectOrder(acts[a])'
    BY <1>2, <1>3, <1>4 DEF EffectOrder
  <2>3. BaselineOrder(acts[a])'
    <3>1. /\ acts'[a].op \in BoundaryOperations /\ acts'[a].boundary = n
          /\ acts'[a].attempt /\ acts'[a].outcome # "none"
          /\ acts'[a].product # "none" /\ acts'[a].receipt
      BY <1>1, <1>2, <1>3, <1>4 DEF BaselineOrder, CoreTerminal
    <3>2. /\ acts'[a].resumes \in {"baseline-checks", "activity-completed"}
          /\ acts'[a].resumes = "activity-completed" => required \subseteq Received(received)
      BY <1>2, <1>3
    <3>3. boundaries'[n].mandate.baseline = required /\ boundaries'[n].checks = received
      BY <1>9
    <3> QED
      BY <3>1, <3>2, <3>3 DEF BaselineOrder, CoreTerminal, Received
  <2> QED
    BY <1>6, <2>1, <2>2, <2>3 DEF OpenFacts
<1>12. ~(required \subseteq Received(boundaries[n].checks))
  BY <1>1 DEF Received
<1>13. AdmittedBaseline'
  BY <1>1, <1>8, <1>9, <1>10, <1>12, EstablishedStays DEF SafetyInv
<1>14. ProofIsCurrent' /\ SubjectsNumbered'
  BY <1>1 DEF SafetyInv, ProofIsCurrent, SubjectsNumbered
<1>15. AcceptanceReadyIsProven'
  <2> SUFFICES ASSUME readiness = "acceptance-ready"
               PROVE  /\ integrated /\ LegalFinalSet(evidence.final)
                      /\ boundaries'[active].mandate.final \subseteq Received(evidence.final)
                      /\ BaselineEstablished(active)'
    BY <1>1 DEF AcceptanceReadyIsProven, Received, LegalFinalSet, LegalAcceptance
  <2>1. active # 0
    BY DEF SafetyInv, SubjectsNumbered
  <2>2. boundaries'[active].mandate = boundaries[active].mandate
    BY <1>8, <1>9, <1>10, <2>1
  <2>3. BaselineEstablished(active)'
    BY <1>1, <1>13, <2>1 DEF AdmittedBaseline
  <2> QED
    BY <2>2, <2>3 DEF SafetyInv, AcceptanceReadyIsProven
<1>16. AcceptedIsProven' /\ ClosureSettles'
  BY <1>1 DEF AcceptedIsProven, ClosureSettles, Live, NoClosure
<1>17. DecisionIsCurrent'
  BY <1>2, <1>3, <1>6, <1>7 DEF DecisionIsCurrent
<1>18. CandidateIsGoverned'
  <2>1. t.op # "admit"
    BY <1>1 DEF BoundaryOperations
  <2> QED
    BY <1>1, <1>6, <2>1 DEF SafetyInv, CandidateIsGoverned
<1>19. TypeInv'
  BY RecordBaselineReceiptType DEF SafetyInv
<1> QED
  BY <1>6, <1>11, <1>13, <1>14, <1>15, <1>16, <1>17, <1>18, <1>19 DEF SafetyInv

------------------------------------------------------------------------------
(* Events that end an activity                                             *)

LEMMA NoneOpen ==
  ASSUME OneOpenActivity, NEW a \in Activity, a \in Open, Advance(a, Idle),
         acts \in [Activity -> ActivityType]
  PROVE  Open = {a} /\ Open' = {} /\ OneOpenActivity' /\ OpenFacts'
         /\ DecisionIsCurrent'
<1>1. Open = {a}
  BY DEF OneOpenActivity
<1>2. \A b \in Activity : acts'[b] = IF b = a THEN Idle ELSE acts[b]
  BY DEF Advance
<1>3. Open' = {}
  BY <1>1, <1>2 DEF Open, Idle
<1> QED
  BY <1>1, <1>3 DEF OneOpenActivity, OpenFacts, DecisionIsCurrent

LEMMA RecordClosureSafe ==
  ASSUME SafetyInv, NEW a \in Activity, RecordClosure(a)
  PROVE  SafetyInv'
<1> DEFINE t == acts[a]
<1>1. /\ a \in Open /\ Live /\ t.op \in TerminalOperations /\ Advance(a, Idle)
      /\ acts \in [Activity -> ActivityType]
      /\ UNCHANGED <<boundaries, proposed, active, candidate, integrated, condition,
                     seal, evidence, readiness>>
  BY DEF SafetyInv, TypeInv, TypeOK, RecordClosure, On
<1>2. Open = {a} /\ Open' = {} /\ OneOpenActivity' /\ OpenFacts' /\ DecisionIsCurrent'
  BY <1>1, NoneOpen DEF SafetyInv
<1>3. ProofIsCurrent' /\ AdmittedBaseline' /\ AcceptanceReadyIsProven' /\ SubjectsNumbered'
  BY <1>1 DEF SafetyInv, ProofIsCurrent, AdmittedBaseline, AcceptanceReadyIsProven,
     BaselineEstablished, Received, LegalBaselineSet, LegalBaseline, LegalFinalSet,
     LegalAcceptance, SubjectsNumbered
<1>4. AcceptedIsProven'
  <2> SUFFICES ASSUME closure'.disposition = "accepted" PROVE AcceptedIsProven'
    BY DEF AcceptedIsProven
  <2>1. /\ t.op = "accept" /\ candidate # NoCandidate /\ evidence # NoEvidence
        /\ closure'.boundary = active /\ closure'.candidate = candidate.revision
        /\ closure'.seal = evidence.seal
    BY DEF RecordClosure
  <2>2. readiness = "acceptance-ready" /\ condition = "none"
    BY <1>1, <2>1 DEF SafetyInv, OpenFacts, AcceptanceStands
  <2>3. integrated
    BY <2>2 DEF SafetyInv, AcceptanceReadyIsProven
  <2>4. /\ evidence.seal = seal.serial /\ evidence.candidate = candidate.revision
        /\ evidence.boundary = active /\ candidate.revision # 0
    BY <2>1 DEF SafetyInv, ProofIsCurrent, SubjectsNumbered
  <2> QED
    BY <1>1, <2>1, <2>2, <2>3, <2>4 DEF AcceptedIsProven
<1>5. CandidateIsGoverned'
  <2>1. t.op # "admit"
    BY <1>1 DEF TerminalOperations
  <2> QED
    BY <1>1, <1>2, <2>1 DEF SafetyInv, CandidateIsGoverned
<1>6. ClosureSettles'
  BY <1>2 DEF ClosureSettles, Settled
<1>7. TypeInv'
  BY RecordClosureType DEF SafetyInv
<1> QED
  BY <1>2, <1>3, <1>4, <1>5, <1>6, <1>7 DEF SafetyInv

LEMMA CompleteActivitySafe ==
  ASSUME SafetyInv, NEW a \in Activity, NEW outcome, CompleteActivity(a, outcome)
  PROVE  SafetyInv'
<1> DEFINE t == acts[a]
<1>1. /\ a \in Open /\ Live /\ Advance(a, Idle)
      /\ acts \in [Activity -> ActivityType]
      /\ UNCHANGED <<boundaries, active, candidate, integrated, condition, seal,
                     evidence, readiness, closure>>
      /\ proposed' = IF outcome = "completed" /\ t.op \in BoundaryOperations
                     THEN t.boundary ELSE proposed
      /\ \/ t.resumes = "activity-completed"
         \/ BoundaryRefusal(t, outcome) \/ DirectContinue(t)
  BY DEF SafetyInv, TypeInv, TypeOK, CompleteActivity
<1>2. Open = {a} /\ Open' = {} /\ OneOpenActivity' /\ OpenFacts' /\ DecisionIsCurrent'
  BY <1>1, NoneOpen DEF SafetyInv
<1>3. \A b : BaselineEstablished(b)' <=> BaselineEstablished(b)
  BY <1>1 DEF BaselineEstablished, Received, LegalBaselineSet, LegalBaseline
<1>4. AdmittedBaseline'
  <2>1. CASE outcome = "completed" /\ t.op \in BoundaryOperations
    <3>1. t.resumes = "activity-completed"
      BY <1>1, <2>1 DEF BoundaryRefusal, DirectContinue, BoundaryOperations
    <3>2. t.boundary # 0 /\ LegalBaselineSet(boundaries[t.boundary].checks)
      BY <2>1 DEF CompleteActivity, Family, AgentOperations, AgentMayComplete
    <3>3. BaselineOrder(t)
      BY <1>1 DEF SafetyInv, OpenFacts
    <3>4. BaselineEstablished(t.boundary)
      BY <3>1, <3>2, <3>3 DEF BaselineOrder, BaselineEstablished
    <3> QED
      BY <1>1, <1>3, <2>1, <3>4 DEF SafetyInv, AdmittedBaseline
  <2>2. CASE ~(outcome = "completed" /\ t.op \in BoundaryOperations)
    BY <1>1, <1>3, <2>2 DEF SafetyInv, AdmittedBaseline
  <2> QED
    BY <2>1, <2>2
<1>5. ProofIsCurrent' /\ AcceptanceReadyIsProven' /\ SubjectsNumbered'
  BY <1>1, <1>3 DEF SafetyInv, ProofIsCurrent, AcceptanceReadyIsProven, Received,
     LegalFinalSet, LegalAcceptance, SubjectsNumbered
<1>6. AcceptedIsProven' /\ ClosureSettles'
  BY <1>1 DEF AcceptedIsProven, ClosureSettles, Live, NoClosure
<1>7. CandidateIsGoverned'
  <2>1. ~(t.op = "admit" /\ t.resumes = "candidate-revision-observed")
    BY <1>1 DEF BoundaryRefusal, DirectContinue, BoundaryOperations
  <2> QED
    BY <1>1, <1>2, <2>1 DEF SafetyInv, CandidateIsGoverned
<1>8. TypeInv'
  BY CompleteActivityType DEF SafetyInv
<1> QED
  BY <1>2, <1>4, <1>5, <1>6, <1>7, <1>8 DEF SafetyInv

------------------------------------------------------------------------------
(* The invariant and what it gives                                         *)

LEMMA InitSafe == Init => SafetyInv
<1> SUFFICES ASSUME Init PROVE SafetyInv
  OBVIOUS
<1>1. Open = {}
  BY DEF Init, Open, Idle
<1>2. TypeInv
  BY InitType
<1>3. OneOpenActivity /\ OpenFacts /\ DecisionIsCurrent /\ ClosureSettles
  BY <1>1 DEF OneOpenActivity, OpenFacts, DecisionIsCurrent, ClosureSettles, Settled
<1>4. /\ proposed = 0 /\ active = 0 /\ candidate = NoCandidate /\ seal = NoSeal
      /\ evidence = NoEvidence /\ readiness = "none" /\ closure = NoClosure
  BY DEF Init
<1>5. AdmittedBaseline /\ CandidateIsGoverned /\ SubjectsNumbered /\ ProofIsCurrent
      /\ AcceptanceReadyIsProven
  BY <1>4 DEF AdmittedBaseline, CandidateIsGoverned, SubjectsNumbered, ProofIsCurrent,
     AcceptanceReadyIsProven
<1>6. AcceptedIsProven
  BY <1>4 DEF AcceptedIsProven, NoClosure
<1> QED
  BY <1>2, <1>3, <1>5, <1>6 DEF SafetyInv

LEMMA NextSafe == SafetyInv /\ [Next]_vars => SafetyInv'
<1> SUFFICES ASSUME SafetyInv, [Next]_vars PROVE SafetyInv'
  OBVIOUS
<1>1. TypeInv'
  BY NextType DEF SafetyInv
<1>2. CASE DirectorStep
  <2>1. ASSUME NEW a \in Activity, NEW op \in Operations, NEW reserved \in BOOLEAN,
               StartActivity(a, op, reserved)
        PROVE  SafetyInv'
    BY <2>1, StartActivitySafe
  <2>2. ASSUME \/ CreateDelivery \/ \E a \in Activity : SubmitDirectorBrief(a)
               \/ \E op \in (UNION Grantable) \ {"integrate"} : SubmitStandingBrief(op)
               \/ \E ops \in Grantable, c \in Ceilings : SetWorkDelegation(ops, c)
               \/ StopWorkDelegation \/ DelegationExpires
        PROVE  SafetyInv'
    <3>1. UNCHANGED <<acts, subjectVars>>
      BY <2>2 DEF CreateDelivery, SubmitDirectorBrief, SubmitStandingBrief,
         SetWorkDelegation, StopWorkDelegation, DelegationExpires
    <3> QED
      BY <1>1, <3>1, StillStep
  <2> QED
    BY <1>2, <2>1, <2>2 DEF DirectorStep
<1>3. ASSUME NEW a \in Activity, AgentStep(a) PROVE SafetyInv'
  BY <1>3, RefuseAgentBeforeIntentSafe, PrepareAttemptSafe, IntendProviderEffectSafe,
     ObserveProviderEffectSafe, SubmitWorkProductSafe, AbandonWorkProductSafe,
     RecordReceiptSafe, FinalizeBoundarySafe, RecordBaselineReceiptSafe,
     SealCandidateSafe, RecordFinalReceiptSafe, FinalizeEvidenceSafe DEF AgentStep
<1>4. ASSUME NEW a \in Activity, CandidateStep(a) PROVE SafetyInv'
  BY <1>4, AssessIntegrationSafe, ObserveCandidateRevisionSafe,
     FreezeMaterialConditionSafe DEF CandidateStep
<1>5. ASSUME NEW a \in Activity, TransactionStep(a) PROVE SafetyInv'
  BY <1>5, AuthenticateDecisionSafe, IntendTransactionEffectSafe, ObserveIndeterminateSafe,
     ObserveNotAppliedSafe, ObserveAppliedSafe, RecordClosureSafe DEF TransactionStep
<1>6. CASE UNCHANGED vars
  BY <1>1, <1>6, StillStep DEF vars
<1> QED
  BY <1>2, <1>3, <1>4, <1>5, <1>6, CompleteActivitySafe DEF Next

LEMMA Safe == Spec => []SafetyInv
  BY InitSafe, NextSafe, PTL DEF Spec

\* At most one activity is open, and it always owes an exact next obligation:
\* eligibility and the obligations the reducer writes cannot drift apart.
THEOREM OneOpen == Spec => []OneOpenActivity
<1>1. SafetyInv => OneOpenActivity
  BY DEF SafetyInv
<1> QED
  BY <1>1, Safe, PTL

\* Seal, packet and readiness always speak of the current candidate under the
\* current boundary, whatever the Delivery has gone through.
THEOREM ProofCurrent == Spec => []ProofIsCurrent
<1>1. SafetyInv => ProofIsCurrent
  BY DEF SafetyInv
<1> QED
  BY <1>1, Safe, PTL

\* Acceptance-ready evidence covers every required final Check, and an accepted
\* Closure is of exactly the candidate, boundary and Seal it was made for.
THEOREM AcceptanceProven == Spec => []AcceptanceIsProven
<1>1. SafetyInv => AcceptanceIsProven
  BY DEF SafetyInv, AcceptanceIsProven
<1> QED
  BY <1>1, Safe, PTL

\* Whatever an authenticated decision selected is still current when its effect
\* is observed.
THEOREM DecisionCurrent == Spec => []DecisionIsCurrent
<1>1. SafetyInv => DecisionIsCurrent
  BY DEF SafetyInv
<1> QED
  BY <1>1, Safe, PTL

\* A proposed or admitted boundary has its whole baseline established, and a
\* candidate is governed by the admitted one, or its rebinding is owed.
THEOREM MandateIsKept == Spec => []MandateGoverns
<1>1. SafetyInv => MandateGoverns
  BY DEF SafetyInv, MandateGoverns
<1> QED
  BY <1>1, Safe, PTL

\* A Closure leaves nothing open, which the seal of the Store relies on.
THEOREM ClosureSettled == Spec => []ClosureSettles
<1>1. SafetyInv => ClosureSettles
  BY DEF SafetyInv
<1> QED
  BY <1>1, Safe, PTL
==============================================================================
