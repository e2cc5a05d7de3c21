--------------------------- MODULE DeliveryReducer ---------------------------
(***************************************************************************)
(* The Delivery reducer: the one legal state machine of a Delivery.  A     *)
(* Delivery is a journal of events; the reducer replays it and refuses     *)
(* every event that is not legal in the state the earlier ones produced.   *)
(* There is one action per event kind, enabled exactly when the reducer    *)
(* accepts the event, so a behaviour is a journal the reducer accepts.     *)
(*                                                                         *)
(* Record references (identity, revision, digest) are abstracted to what   *)
(* they bind: a boundary or a candidate is its revision number, a seal, a  *)
(* packet, a decision and a closure are records of the subjects selected.  *)
(* A relationship the reducer compares with a current subject is therefore *)
(* that subject.  The reducer reads of a completed activity only what the  *)
(* other variables keep (its boundary and baseline receipts, and that a    *)
(* preparation completed), so a completed activity leaves its slot Idle.   *)
(***************************************************************************)
EXTENDS Integers, Sequences, FiniteSets

CONSTANTS
  Activity,       \* slots in which an activity may be open
  Selection,      \* identities of the Check selections of a mandate
  Modality,       \* the temporal modality of each selection
  Mandates,       \* required baseline and final selections of a boundary
  Dispositions,   \* outcomes a Check Receipt may record
  Resource,       \* accounted resources of a work delegation
  Charge,         \* what a reservation of each operation charges
  Grantable,      \* sets of operations a Director may grant
  Ceilings,       \* ceilings a Director may grant
  MaxBoundaries, MaxCandidates, MaxSeals, MaxGrants   \* bounds of the model

Modalities == {"precondition", "repair-target", "regression-guard",
               "postcondition", "diagnostic"}
AllDispositions == {"pass", "fail", "indeterminate", "not-run", "unsupported",
                    "operational-error"}

BoundaryOperations == {"prepare", "revise", "reaffirm"}
AgentOperations == BoundaryOperations \cup {"continue", "evaluate"}
TerminalOperations == {"accept", "no-ship"}
TransactionOperations == {"admit"} \cup TerminalOperations
Operations == AgentOperations \cup TransactionOperations \cup {"integrate"}
ProductiveOperations == {"continue", "evaluate", "integrate"}

ASSUME ConstantsAssumption ==
  /\ Modality \in [Selection -> Modalities]
  /\ Mandates \subseteq [baseline : SUBSET Selection, final : SUBSET Selection]
  /\ \A m \in Mandates : m.baseline # {} /\ m.final # {}
  /\ Dispositions \subseteq AllDispositions
  /\ Charge \in [ProductiveOperations -> [Resource -> Nat]]
  /\ Grantable \subseteq SUBSET ProductiveOperations
  /\ Ceilings \subseteq [Resource -> Nat]
  /\ MaxBoundaries \in Nat /\ MaxCandidates \in Nat
  /\ MaxSeals \in Nat /\ MaxGrants \in Nat

VARIABLES
  created,        \* delivery-created has been replayed
  acts,           \* activity slots
  briefs,         \* slots holding a planned Director Brief
  prepared,       \* a preparation activity has completed
  boundaries,     \* every finalized Work Boundary with its baseline receipts
  proposed,       \* revision of the proposed boundary, 0 for none
  active,         \* revision of the admitted boundary, 0 for none
  candidate,      \* the current Candidate Revision and its governing boundary
  integrated,     \* the candidate descends from an integration
  condition,      \* source of the unresolved Material Condition
  seals,          \* how many Candidate Seals have been finalized
  seal,           \* the current Candidate Seal
  evidence,       \* the current Evidence Packet
  readiness,      \* its readiness
  closure,        \* the terminal Closure
  grant,          \* the current work delegation
  charged,        \* resources charged by reservations, over the whole Delivery
  standingBriefs  \* standing direction not yet selected by a delegation

subjectVars == <<boundaries, proposed, active, candidate, integrated,
                 condition, seals, seal, evidence, readiness, closure>>
delegationVars == <<grant, charged, standingBriefs>>
vars == <<created, acts, briefs, prepared, subjectVars, delegationVars>>

------------------------------------------------------------------------------
(* Values                                                                  *)

Absent == "absent"
NoChecks == [s \in Selection |-> Absent]
NoCandidate == [revision |-> 0, boundary |-> 0]
NoSeal == [serial |-> 0, candidate |-> 0, boundary |-> 0]
NoEvidence == [seal |-> 0, candidate |-> 0, boundary |-> 0, final |-> NoChecks]
NoDecision == [kind |-> "none", boundary |-> 0, candidate |-> 0, seal |-> 0,
               condition |-> "none"]
NoClosure == [disposition |-> "none", boundary |-> 0, candidate |-> 0, seal |-> 0]
NoGrant == [revision |-> 0, boundary |-> 0, operations |-> {},
            ceilings |-> [r \in Resource |-> 0], stopped |-> FALSE,
            expired |-> FALSE]

Standings == {"framing", "awaiting-admission", "active", "boundary-paused",
              "awaiting-readmission", "decision-ready", "closed"}
Stages == {"idle", "started", "prepared", "effect-intended", "effect-observed",
           "submitted", "finalizing"}
Steps == {"integration-assessed", "candidate-sealed", "agent-attempt-prepared",
          "provider-effect-intended", "provider-effect-observed",
          "work-product-observation", "candidate-revision-observed",
          "execution-receipt-recorded", "work-boundary-finalized",
          "baseline-checks", "evaluation-checks", "activity-finalization",
          "activity-completed", "director-decision-authenticated",
          "transaction-effect-intended", "transaction-effect-observed",
          "transaction-finalization"}
Sources == {"agent-proposal", "integration-assessment", "projection-compilation"}
Readinesses == {"acceptance-ready", "correctable", "revision-required",
                "no-ship-recommended"}
DecisionKinds == {"admit", "readmit", "accept", "no-ship"}

\* An activity: the facts of its own that later events of it are checked
\* against.  resumes is the step of its recovery obligation.
IdleUnlisted ==
  [op |-> "none", origin |-> "framing", stage |-> "completed", resumes |-> "none",
   attempt |-> FALSE, intended |-> FALSE, outcome |-> "none",
   refusal |-> "absent", product |-> "none", successor |-> 0,
   assessed |-> "none", receipt |-> FALSE, boundary |-> 0, froze |-> FALSE,
   seal |-> NoSeal, checks |-> NoChecks, packet |-> FALSE,
   decision |-> NoDecision, observed |-> "none", reserved |-> FALSE]
Idle ==
  [op |-> "none", origin |-> "framing", stage |-> "idle", resumes |-> "none",
   attempt |-> FALSE, intended |-> FALSE, outcome |-> "none",
   refusal |-> "absent", product |-> "none", successor |-> 0,
   assessed |-> "none", receipt |-> FALSE, boundary |-> 0, froze |-> FALSE,
   seal |-> NoSeal, checks |-> NoChecks, packet |-> FALSE,
   decision |-> NoDecision, observed |-> "none", reserved |-> FALSE]

ChecksType == [Selection -> Dispositions \cup {Absent}]
SealType == [serial : Nat, candidate : Nat, boundary : Nat]
DecisionType == [kind : DecisionKinds \cup {"none"}, boundary : Nat,
                 candidate : Nat, seal : Nat, condition : Sources \cup {"none"}]
ActivityType ==
  [op : Operations \cup {"none"}, origin : Standings, stage : Stages,
   resumes : Steps \cup {"none"}, attempt : BOOLEAN, intended : BOOLEAN,
   outcome : {"none", "completed", "failed", "not-started"},
   refusal : {"absent", "none", "projection-condition-required"},
   product : {"none", "abandoned", "ordinary", "material-condition"},
   successor : Nat,
   assessed : {"none", "unchanged", "requires-readmission", "not-constructed"},
   receipt : BOOLEAN, boundary : Nat, froze : BOOLEAN, seal : SealType,
   checks : ChecksType, packet : BOOLEAN, decision : DecisionType,
   observed : {"none", "applied", "not-applied"}, reserved : BOOLEAN]
BoundaryType == [mandate : Mandates, checks : ChecksType]
GrantType == [revision : Nat, boundary : Nat,
              operations : SUBSET ProductiveOperations,
              ceilings : [Resource -> Nat], stopped : BOOLEAN,
              expired : BOOLEAN]

TypeOK ==
  /\ created \in BOOLEAN
  /\ acts \in [Activity -> ActivityType]
  /\ briefs \subseteq Activity
  /\ prepared \in BOOLEAN
  /\ boundaries \in Seq(BoundaryType)
  /\ proposed \in 0 .. Len(boundaries)
  /\ active \in 0 .. Len(boundaries)
  /\ candidate \in [revision : Nat, boundary : Nat]
  /\ integrated \in BOOLEAN
  /\ condition \in Sources \cup {"none"}
  /\ seals \in Nat
  /\ seal \in SealType
  /\ evidence \in [seal : Nat, candidate : Nat, boundary : Nat,
                   final : ChecksType]
  /\ readiness \in Readinesses \cup {"none"}
  /\ closure \in [disposition : {"none", "accepted", "no-ship"},
                  boundary : Nat, candidate : Nat, seal : Nat]
  /\ grant \in GrantType
  /\ charged \in [Resource -> Nat]
  /\ standingBriefs \subseteq (Nat \X {"continue", "evaluate"})

------------------------------------------------------------------------------
(* What replay derives from the retained facts                             *)

Family(op) == IF op \in AgentOperations THEN "agent"
              ELSE IF op = "integrate" THEN "integration" ELSE "transaction"

Open == {a \in Activity : acts[a].stage # "idle"}
Settled == Open = {}
Live == created /\ closure = NoClosure

Standing ==
  IF closure # NoClosure THEN "closed"
  ELSE IF condition # "none" /\ proposed # 0 THEN "awaiting-readmission"
  ELSE IF condition # "none" THEN "boundary-paused"
  ELSE IF readiness = "acceptance-ready" THEN "decision-ready"
  ELSE IF active # 0 THEN "active"
  ELSE IF proposed # 0 THEN "awaiting-admission" ELSE "framing"

\* Variants of a definition that a plausible slip would produce are kept just
\* before it; nothing but the mutation runs of PROJECT.json refers to them.
LegalStandingsAcceptEarly(op) ==
  CASE op = "prepare" -> {"framing"}
    [] op = "admit" -> {"awaiting-admission", "awaiting-readmission"}
    [] op \in {"continue", "evaluate"} -> {"active"}
    [] op \in {"integrate", "accept"} -> {"active", "decision-ready"}
    [] op \in {"revise", "reaffirm"} -> {"boundary-paused"}
    [] op = "no-ship" -> Standings \ {"closed"}
LegalStandingsNoShipLate(op) ==
  CASE op = "prepare" -> {"framing"}
    [] op = "admit" -> {"awaiting-admission", "awaiting-readmission"}
    [] op \in {"continue", "evaluate"} -> {"active"}
    [] op = "integrate" -> {"active", "decision-ready"}
    [] op \in {"revise", "reaffirm"} -> {"boundary-paused"}
    [] op = "accept" -> {"decision-ready"}
    [] op = "no-ship" -> Standings \ {"closed", "framing"}
LegalStandingsIntegratePaused(op) ==
  CASE op = "prepare" -> {"framing"}
    [] op = "admit" -> {"awaiting-admission", "awaiting-readmission"}
    [] op \in {"continue", "evaluate"} -> {"active"}
    [] op = "integrate" -> {"active", "decision-ready", "boundary-paused"}
    [] op \in {"revise", "reaffirm"} -> {"boundary-paused"}
    [] op = "accept" -> {"decision-ready"}
    [] op = "no-ship" -> Standings \ {"closed"}
LegalStandings(op) ==
  CASE op = "prepare" -> {"framing"}
    [] op = "admit" -> {"awaiting-admission", "awaiting-readmission"}
    [] op \in {"continue", "evaluate"} -> {"active"}
    [] op = "integrate" -> {"active", "decision-ready"}
    [] op \in {"revise", "reaffirm"} -> {"boundary-paused"}
    [] op = "accept" -> {"decision-ready"}
    [] op = "no-ship" -> Standings \ {"closed"}

CandidateSatisfies(op) ==
  CASE op = "prepare" -> candidate = NoCandidate
    [] op \in ProductiveOperations \cup {"revise", "reaffirm"} ->
         candidate # NoCandidate
    [] op = "accept" -> candidate # NoCandidate /\ seal # NoSeal
                        /\ evidence # NoEvidence
    [] op \in {"admit", "no-ship"} -> TRUE

HasPreparation == prepared \/ \E a \in Open : acts[a].op = "prepare"

\* eligibleDeliveryOperations, without delivery.recover: see MustRecover.
MustRecover == \E a \in Open : acts[a].resumes # "none"
EligibleWhileOpen ==
  {op \in Operations :
     /\ Standing # "closed"
     /\ Standing \in LegalStandings(op)
     /\ CandidateSatisfies(op)
     /\ op = "evaluate" => integrated
     /\ op = "prepare" => ~HasPreparation
     /\ op = "no-ship" /\ Standing = "framing" => prepared}
EligibleOperations ==
  {op \in Operations :
     /\ ~MustRecover /\ Settled
     /\ Standing # "closed"
     /\ Standing \in LegalStandings(op)
     /\ CandidateSatisfies(op)
     /\ op = "evaluate" => integrated
     /\ op = "prepare" => ~HasPreparation
     /\ op = "no-ship" /\ Standing = "framing" => prepared}

\* The boundary no-ship selects: the active, else the proposed, else the last
\* one any activity finalized.
EstablishedBoundary ==
  IF active # 0 THEN active
  ELSE IF proposed # 0 THEN proposed ELSE Len(boundaries)

LegalBaseline(s, disposition) ==
  CASE Modality[s] \in {"precondition", "regression-guard"} ->
         disposition = "pass"
    [] Modality[s] = "repair-target" -> disposition \in {"pass", "fail"}
    [] Modality[s] = "postcondition" -> disposition = "not-run"
    [] Modality[s] = "diagnostic" -> TRUE

LegalAcceptance(s, disposition) ==
  Modality[s] = "diagnostic" \/ disposition = "pass"

Received(checks) == {s \in Selection : checks[s] # Absent}

LegalBaselineSet(checks) == \A s \in Received(checks) : LegalBaseline(s, checks[s])
LegalFinalSet(checks) == \A s \in Received(checks) : LegalAcceptance(s, checks[s])

CoreTerminal(t) == t.attempt /\ t.outcome # "none" /\ t.product # "none"
Submitted(t) == t.product \in {"ordinary", "material-condition"}

\* A candidate's condition, as published to readers of the Delivery.  The code
\* looks for the first open activity that is not a preparation; at most one is
\* ever open.
CandidateCondition ==
  LET others == {a \in Open : acts[a].op # "prepare"}
      early == {a \in others : acts[a].stage \in {"started", "prepared"}}
      doing(op) == \E a \in others : acts[a].op = op
  IN CASE candidate = NoCandidate -> "absent"
       [] candidate # NoCandidate /\ closure # NoClosure ->
            IF closure.disposition = "accepted" THEN "accepted" ELSE "abandoned"
       [] OTHER ->
            IF \E a \in Open \ early : acts[a].resumes # "none"
              THEN "terminal-recovery"
            ELSE IF condition # "none" THEN "paused-for-boundary"
            ELSE IF doing("integrate") THEN "in-progress"
            ELSE IF readiness = "acceptance-ready" THEN "ready-for-decision"
            ELSE IF doing("evaluate") /\ seal # NoSeal
              THEN "sealed-under-evaluation"
            ELSE IF others # {} THEN "in-progress"
            ELSE IF readiness \in {"correctable", "no-ship-recommended"}
              THEN "needs-correction"
            ELSE IF seal # NoSeal /\ evidence = NoEvidence
              THEN "sealed-under-evaluation" ELSE "ready-for-work"

------------------------------------------------------------------------------
Init ==
  /\ created = FALSE
  /\ acts = [a \in Activity |-> Idle]
  /\ briefs = {}
  /\ prepared = FALSE
  /\ boundaries = <<>>
  /\ proposed = 0 /\ active = 0
  /\ candidate = NoCandidate /\ integrated = FALSE
  /\ condition = "none"
  /\ seals = 0 /\ seal = NoSeal
  /\ evidence = NoEvidence /\ readiness = "none"
  /\ closure = NoClosure
  /\ grant = NoGrant
  /\ charged = [r \in Resource |-> 0]
  /\ standingBriefs = {}

\* An event of an open activity: the activity map is all it may change besides
\* what the action names.
Advance(a, t) == acts' = [acts EXCEPT ![a] = t]

\* An event of open activity a, whose state before the event is t.
On(a, family) ==
  /\ Live
  /\ a \in Open
  /\ Family(acts[a].op) = family

CreateDelivery ==
  /\ ~created
  /\ created' = TRUE
  /\ UNCHANGED <<acts, briefs, prepared, subjectVars, delegationVars>>

SubmitDirectorBrief(a) ==
  /\ Live
  /\ a \notin Open /\ a \notin briefs
  /\ briefs' = briefs \cup {a}
  /\ UNCHANGED <<created, acts, prepared, subjectVars, delegationVars>>

\* Direction for an operation of the next delegation revision.
SubmitStandingBrief(op) ==
  /\ Live
  /\ grant.revision < MaxGrants
  /\ <<grant.revision + 1, op>> \notin standingBriefs
  /\ standingBriefs' = standingBriefs \cup {<<grant.revision + 1, op>>}
  /\ UNCHANGED <<created, acts, briefs, prepared, subjectVars, grant, charged>>

SetWorkDelegation(ops, ceilings) ==
  LET next == grant.revision + 1
      directed == {<<next, op>> : op \in ops \ {"integrate"}}
  IN /\ Live
     /\ next <= MaxGrants
     /\ active # 0 /\ condition = "none" /\ Settled
     /\ ops # {}
     /\ \A r \in Resource : ceilings[r] >= charged[r]
     /\ directed \subseteq standingBriefs
     /\ standingBriefs' = standingBriefs \ directed
     /\ grant' = [revision |-> next, boundary |-> active, operations |-> ops,
                  ceilings |-> ceilings, stopped |-> FALSE, expired |-> FALSE]
     /\ UNCHANGED <<created, acts, briefs, prepared, subjectVars, charged>>

StopWhileOpen ==
  /\ Live
  /\ grant.revision # 0 /\ ~grant.stopped
  /\ grant' = [grant EXCEPT !.stopped = TRUE]
  /\ UNCHANGED <<created, acts, briefs, prepared, subjectVars, charged,
                 standingBriefs>>
StopWorkDelegation ==
  /\ Live
  /\ grant.revision # 0 /\ ~grant.stopped /\ Settled
  /\ grant' = [grant EXCEPT !.stopped = TRUE]
  /\ UNCHANGED <<created, acts, briefs, prepared, subjectVars, charged,
                 standingBriefs>>

\* Time passes the expiry of the current delegation: no event, every later
\* opening is observed after it.
DelegationExpires ==
  /\ Live
  /\ grant.revision # 0 /\ ~grant.expired
  /\ grant' = [grant EXCEPT !.expired = TRUE]
  /\ UNCHANGED <<created, acts, briefs, prepared, subjectVars, charged,
                 standingBriefs>>

\* A reservation is inside the allowance of the current delegation.
WithinAllowanceBefore(op) ==
  /\ ~grant.stopped /\ ~grant.expired
  /\ op \in grant.operations
  /\ \A r \in Resource : charged[r] <= grant.ceilings[r]
WithinAllowance(op) ==
  /\ ~grant.stopped /\ ~grant.expired
  /\ op \in grant.operations
  /\ \A r \in Resource : charged[r] + Charge[op][r] <= grant.ceilings[r]

GrantGoverns == grant.revision # 0 /\ active # 0 /\ grant.boundary = active

\* The opening is paid for by a reservation, or none is due.
Financed(a, op, reserved) ==
  IF reserved
    THEN /\ op \in ProductiveOperations
         /\ GrantGoverns /\ condition = "none" /\ a \notin briefs
         /\ WithinAllowance(op)
    ELSE /\ ~(GrantGoverns /\ ~grant.stopped /\ op \in ProductiveOperations)
         /\ (Family(op) = "agent") <=> (a \in briefs)

FirstStep(op) ==
  IF op = "evaluate" THEN "candidate-sealed"
  ELSE IF Family(op) = "agent" THEN "agent-attempt-prepared"
  ELSE IF Family(op) = "integration" THEN "integration-assessed"
  ELSE "director-decision-authenticated"

StartActivity(a, op, reserved) ==
  /\ Live
  /\ a \notin Open
  /\ Financed(a, op, reserved)
  /\ op \in EligibleOperations
  /\ Advance(a, [Idle EXCEPT !.op = op, !.origin = Standing,
                             !.stage = "started", !.resumes = FirstStep(op),
                             !.reserved = reserved])
  /\ charged' = IF reserved THEN [r \in Resource |-> charged[r] + Charge[op][r]]
                ELSE charged
  /\ briefs' = briefs \ {a}
  /\ UNCHANGED <<created, prepared, subjectVars, grant, standingBriefs>>

------------------------------------------------------------------------------
(* Agent activities                                                        *)

\* Events that change the activity alone.
OnlyActivity == UNCHANGED <<created, briefs, prepared, subjectVars, delegationVars>>

RefuseAgentBeforeIntent(a, resolution) ==
  LET t == acts[a]
      evaluating == t.op = "evaluate"
  IN /\ On(a, "agent")
     /\ t.stage = IF evaluating THEN "finalizing" ELSE "started"
     /\ t.resumes = IF evaluating THEN "evaluation-checks"
                    ELSE "agent-attempt-prepared"
     /\ ~t.attempt /\ ~t.intended /\ t.outcome = "none" /\ t.product = "none"
     /\ ~t.receipt
     /\ resolution # "none" => t.op \in {"evaluate", "continue"}
     /\ Advance(a, [t EXCEPT !.refusal = resolution, !.stage = "finalizing",
                             !.resumes = IF resolution = "none"
                                         THEN "activity-completed"
                                         ELSE "activity-finalization"])
     /\ OnlyActivity

PrepareAttempt(a) ==
  LET t == acts[a]
  IN /\ On(a, "agent")
     /\ t.refusal = "absent" /\ ~t.attempt /\ ~t.intended
     /\ t.op # "prepare" => active # 0 /\ candidate # NoCandidate
     /\ t.op = "evaluate" =>
          /\ t.seal # NoSeal /\ seal # NoSeal
          /\ t.resumes = "evaluation-checks"
          /\ boundaries[active].mandate.final \subseteq Received(t.checks)
     /\ Advance(a, [t EXCEPT !.attempt = TRUE, !.stage = "prepared",
                             !.resumes = "provider-effect-intended"])
     /\ OnlyActivity

IntendProviderEffect(a) ==
  LET t == acts[a]
  IN /\ On(a, "agent")
     /\ t.attempt /\ ~t.intended
     /\ Advance(a, [t EXCEPT !.intended = TRUE, !.stage = "effect-intended",
                             !.resumes = "provider-effect-observed"])
     /\ OnlyActivity

ObserveProviderEffect(a, outcome) ==
  LET t == acts[a]
  IN /\ On(a, "agent")
     /\ t.intended /\ t.outcome = "none"
     /\ Advance(a, [t EXCEPT !.outcome = outcome, !.stage = "effect-observed",
                             !.resumes = "work-product-observation"])
     /\ OnlyActivity

\* The work-product disposition, submitted or abandoned, closes the provider
\* part of the activity.
DisposeWorkProduct(a, product) ==
  LET t == acts[a]
  IN /\ t.product = "none"
     /\ Advance(a, [t EXCEPT !.product = product, !.stage = "submitted",
                             !.resumes = IF t.op = "continue"
                                         THEN "candidate-revision-observed"
                                         ELSE "execution-receipt-recorded"])
     /\ OnlyActivity

SubmitWorkProduct(a, product) ==
  /\ On(a, "agent")
  /\ acts[a].outcome = "completed"
  /\ DisposeWorkProduct(a, product)

AbandonWorkProduct(a) ==
  /\ On(a, "agent")
  /\ acts[a].attempt /\ acts[a].outcome # "none"
  /\ DisposeWorkProduct(a, "abandoned")

RecordReceipt(a) ==
  LET t == acts[a]
  IN /\ On(a, "agent")
     /\ CoreTerminal(t) /\ ~t.receipt
     /\ Advance(a, [t EXCEPT !.receipt = TRUE, !.stage = "finalizing",
                             !.resumes =
                               IF ~Submitted(t) THEN "activity-completed"
                               ELSE IF t.op \in BoundaryOperations
                                 THEN "work-boundary-finalized"
                                 ELSE "activity-finalization"])
     /\ OnlyActivity

\* The revision a boundary operation must finalize.
NextBoundary(op) == IF op = "prepare" THEN 1 ELSE active + 1

\* A revision number, once bound to a record, is never bound again.
RevisionFree(revision) == revision = Len(boundaries) + 1

FinalizeBoundary(a, mandate) ==
  LET t == acts[a]
  IN /\ On(a, "agent")
     /\ CoreTerminal(t) /\ Submitted(t) /\ t.receipt
     /\ t.boundary = 0
     /\ t.op \in BoundaryOperations
     /\ t.op # "prepare" => active # 0 /\ condition # "none"
     /\ RevisionFree(NextBoundary(t.op))
     /\ Len(boundaries) < MaxBoundaries
     /\ boundaries' = Append(boundaries, [mandate |-> mandate, checks |-> NoChecks])
     /\ Advance(a, [t EXCEPT !.boundary = NextBoundary(t.op),
                             !.stage = "finalizing",
                             !.resumes = "baseline-checks"])
     /\ UNCHANGED <<created, briefs, prepared, proposed, active, candidate,
                    integrated, condition, seals, seal, evidence, readiness,
                    closure, delegationVars>>

RecordBaselineReceipt(a, s, disposition) ==
  LET t == acts[a]
      b == t.boundary
      received == [boundaries[b].checks EXCEPT ![s] = disposition]
      required == boundaries[b].mandate.baseline
  IN /\ On(a, "agent")
     /\ t.op \in BoundaryOperations
     /\ b # 0
     /\ s \in required /\ boundaries[b].checks[s] = Absent
     /\ boundaries' = [boundaries EXCEPT ![b] = [@ EXCEPT !.checks = received]]
     /\ Advance(a, [t EXCEPT !.resumes = IF required \subseteq Received(received)
                                         THEN "activity-completed"
                                         ELSE "baseline-checks"])
     /\ UNCHANGED <<created, briefs, prepared, proposed, active, candidate,
                    integrated, condition, seals, seal, evidence, readiness,
                    closure, delegationVars>>

SealCandidate(a) ==
  LET t == acts[a]
      sealed == [serial |-> seals + 1, candidate |-> candidate.revision,
                 boundary |-> active]
  IN /\ On(a, "agent")
     /\ t.op = "evaluate" /\ t.seal = NoSeal /\ t.stage = "started"
     /\ ~t.attempt /\ t.checks = NoChecks /\ t.resumes = "candidate-sealed"
     /\ candidate # NoCandidate /\ active # 0
     /\ seals < MaxSeals
     /\ seals' = seals + 1
     /\ seal' = sealed
     /\ evidence' = NoEvidence /\ readiness' = "none"
     /\ Advance(a, [t EXCEPT !.seal = sealed, !.stage = "finalizing",
                             !.resumes = "evaluation-checks"])
     /\ UNCHANGED <<created, briefs, prepared, boundaries, proposed, active,
                    candidate, integrated, condition, closure, delegationVars>>

RecordFinalReceipt(a, s, disposition) ==
  LET t == acts[a]
  IN /\ On(a, "agent")
     /\ t.op = "evaluate" /\ t.seal # NoSeal /\ ~t.attempt
     /\ active # 0
     /\ s \in boundaries[active].mandate.final /\ t.checks[s] = Absent
     /\ Advance(a, [t EXCEPT !.checks = [@ EXCEPT ![s] = disposition],
                             !.resumes = "evaluation-checks"])
     /\ OnlyActivity

FinalizeEvidence(a, ready) ==
  LET t == acts[a]
  IN /\ On(a, "agent")
     /\ t.op = "evaluate"
     /\ CoreTerminal(t) /\ Submitted(t) /\ t.receipt /\ t.seal # NoSeal
     /\ t.checks # NoChecks /\ ~t.packet
     /\ active # 0 /\ candidate # NoCandidate
     /\ ready = "acceptance-ready" =>
          LegalBaselineSet(boundaries[active].checks) /\ LegalFinalSet(t.checks)
     /\ ready = "revision-required" => condition # "none"
     /\ evidence' = [seal |-> t.seal.serial, candidate |-> candidate.revision,
                     boundary |-> active, final |-> t.checks]
     /\ readiness' = ready
     /\ Advance(a, [t EXCEPT !.packet = TRUE, !.stage = "finalizing",
                             !.resumes = "activity-completed"])
     /\ UNCHANGED <<created, briefs, prepared, boundaries, proposed, active,
                    candidate, integrated, condition, seals, seal, closure,
                    delegationVars>>

------------------------------------------------------------------------------
(* Integration and the Candidate                                           *)

\* Nothing proved of an earlier revision survives: Seal, packet and readiness
\* are discarded together.
DiscardSeal == seal' = NoSeal /\ UNCHANGED <<evidence, readiness>>
DiscardProof == seal' = NoSeal /\ evidence' = NoEvidence /\ readiness' = "none"

AssessIntegration(a, result) ==
  LET t == acts[a]
  IN /\ On(a, "integration")
     /\ t.stage = "started" /\ t.assessed = "none"
     /\ t.resumes = "integration-assessed"
     /\ active # 0 /\ candidate # NoCandidate
     /\ Advance(a, [t EXCEPT !.assessed = result, !.stage = "finalizing",
                             !.resumes = IF result = "not-constructed"
                                         THEN "activity-completed"
                                         ELSE "candidate-revision-observed"])
     /\ OnlyActivity

\* Which activity may observe the next revision of the candidate, and from
\* which evidence of its own.
MayObserveCandidate(t) ==
  CASE t.op = "integrate" ->
         /\ t.assessed \in {"unchanged", "requires-readmission"}
         /\ t.resumes = "candidate-revision-observed"
         /\ candidate # NoCandidate
    [] t.op = "continue" -> t.attempt /\ t.outcome # "none" /\ candidate # NoCandidate
    [] t.op = "admit" ->
         /\ t.observed = "applied"
         /\ (t.decision.kind = "admit") <=> (candidate = NoCandidate)
    [] OTHER -> FALSE

ObserveCandidateRevision(a) ==
  LET t == acts[a]
  IN /\ Live /\ a \in Open
     /\ ~t.receipt /\ t.successor = 0
     /\ active # 0
     /\ MayObserveCandidate(t)
     /\ candidate.revision < MaxCandidates
     /\ candidate' = [revision |-> candidate.revision + 1, boundary |-> active]
     /\ integrated' = CASE t.op = "integrate" -> TRUE
                        [] t.op = "admit" /\ t.decision.kind = "admit" -> FALSE
                        [] OTHER -> integrated
     /\ DiscardProof
     /\ Advance(a, [t EXCEPT !.successor = candidate.revision + 1,
                             !.stage = "finalizing",
                             !.resumes =
                               IF t.op = "continue"
                                 THEN "execution-receipt-recorded"
                               ELSE IF t.assessed = "requires-readmission"
                                 THEN "activity-finalization"
                                 ELSE "activity-completed"])
     /\ UNCHANGED <<created, briefs, prepared, boundaries, proposed, active,
                    condition, seals, closure, delegationVars>>

\* What each source of a Material Condition requires of its activity.
ConditionSource(t, source) ==
  CASE source = "integration-assessment" ->
         /\ t.op = "integrate" /\ t.successor # 0
         /\ t.assessed = "requires-readmission"
         /\ t.resumes = "activity-finalization"
    [] source = "projection-compilation" ->
         /\ t.op \in {"evaluate", "continue"} /\ t.stage = "finalizing"
         /\ t.resumes = "activity-finalization"
         /\ ~t.attempt /\ ~t.intended /\ t.outcome = "none"
         /\ t.product = "none" /\ ~t.receipt
         /\ t.refusal = "projection-condition-required"
         /\ t.op = "evaluate" => t.seal # NoSeal
    [] source = "agent-proposal" ->
         /\ t.op \in {"evaluate", "continue"}
         /\ CoreTerminal(t) /\ Submitted(t) /\ t.receipt

FreezeMaterialCondition(a, source) ==
  LET t == acts[a]
  IN /\ Live /\ a \in Open
     /\ condition = "none" /\ ~t.froze
     /\ candidate # NoCandidate /\ active # 0
     /\ ConditionSource(t, source)
     /\ condition' = source
     /\ Advance(a, [t EXCEPT !.froze = TRUE, !.stage = "finalizing",
                             !.resumes =
                               IF source = "agent-proposal" /\ t.op = "evaluate"
                               THEN "activity-finalization"
                               ELSE "activity-completed"])
     /\ UNCHANGED <<created, briefs, prepared, boundaries, proposed, active,
                    candidate, integrated, seals, seal, evidence, readiness,
                    closure, delegationVars>>

------------------------------------------------------------------------------
(* Director transactions                                                   *)

DecisionKind(t) ==
  IF t.op = "admit"
  THEN IF t.origin = "awaiting-readmission" THEN "readmit" ELSE "admit"
  ELSE t.op

\* The subjects a Director Decision of this kind must select, if it can.
SelectedSubjects(kind) ==
  [kind |-> kind,
   boundary |-> CASE kind \in {"admit", "readmit"} -> proposed
                  [] kind = "accept" -> active
                  [] kind = "no-ship" -> EstablishedBoundary,
   candidate |-> IF kind = "admit" THEN 0 ELSE candidate.revision,
   seal |-> IF kind = "accept" THEN seal.serial ELSE 0,
   condition |-> IF kind \in {"readmit", "no-ship"} THEN condition ELSE "none"]

AuthenticateDecision(a) ==
  LET t == acts[a]
      kind == DecisionKind(t)
  IN /\ On(a, "transaction")
     /\ t.decision = NoDecision
     /\ kind \in {"admit", "readmit"} => proposed # 0
     /\ kind = "readmit" => active # 0 /\ condition # "none"
                            /\ candidate # NoCandidate
     /\ kind = "accept" => active # 0 /\ candidate # NoCandidate
                           /\ seal # NoSeal /\ evidence # NoEvidence
     /\ Advance(a, [t EXCEPT !.decision = SelectedSubjects(kind),
                             !.resumes = "transaction-effect-intended"])
     /\ OnlyActivity

IntendTransactionEffect(a) ==
  LET t == acts[a]
  IN /\ On(a, "transaction")
     /\ t.decision # NoDecision /\ ~t.intended
     /\ Advance(a, [t EXCEPT !.intended = TRUE, !.stage = "effect-intended",
                             !.resumes = "transaction-effect-observed"])
     /\ OnlyActivity

\* An indeterminate observation leaves the same obligation in place.
ObserveIndeterminate(a) ==
  LET t == acts[a]
  IN /\ On(a, "transaction")
     /\ t.intended /\ t.observed = "none"
     /\ Advance(a, [t EXCEPT !.stage = "effect-intended",
                             !.resumes = "transaction-effect-observed"])
     /\ OnlyActivity

ObserveNotApplied(a) ==
  LET t == acts[a]
  IN /\ On(a, "transaction")
     /\ t.intended /\ t.observed = "none"
     /\ Advance(a, [t EXCEPT !.observed = "not-applied",
                             !.stage = "effect-observed",
                             !.resumes = "activity-completed"])
     /\ OnlyActivity

\* What an applied transaction effect still owes.
AfterApplied(op) ==
  IF op = "admit" THEN "candidate-revision-observed" ELSE "transaction-finalization"

\* An applied admission makes the proposed boundary the active one and
\* discards what was frozen, sealed and evidenced under the previous one.
ObserveApplied(a) ==
  LET t == acts[a]
  IN /\ On(a, "transaction")
     /\ t.intended /\ t.observed = "none"
     /\ t.op = "admit" => proposed # 0
     /\ t.decision.kind = "readmit" => candidate # NoCandidate
     /\ Advance(a, [t EXCEPT !.observed = "applied", !.stage = "effect-observed",
                             !.resumes = AfterApplied(t.op)])
     /\ IF t.op = "admit"
          THEN /\ active' = proposed /\ proposed' = 0 /\ condition' = "none"
               /\ DiscardProof
          ELSE UNCHANGED <<active, proposed, condition, seal, evidence, readiness>>
     /\ UNCHANGED <<created, briefs, prepared, boundaries, candidate, integrated,
                    seals, closure, delegationVars>>

RecordClosure(a) ==
  LET t == acts[a]
      accepted == t.op = "accept"
  IN /\ On(a, "transaction")
     /\ t.op \in TerminalOperations /\ t.observed = "applied"
     /\ accepted => active # 0 /\ candidate # NoCandidate /\ evidence # NoEvidence
     /\ closure' = [disposition |-> IF accepted THEN "accepted" ELSE "no-ship",
                    boundary |-> IF accepted THEN active ELSE EstablishedBoundary,
                    candidate |-> candidate.revision,
                    seal |-> IF accepted THEN evidence.seal ELSE 0]
     /\ Advance(a, Idle)
     /\ UNCHANGED <<created, briefs, prepared, boundaries, proposed, active,
                    candidate, integrated, condition, seals, seal, evidence,
                    readiness, delegationVars>>

------------------------------------------------------------------------------
(* Completion                                                              *)

\* Frozen semantics that cannot compile a boundary end the activity where the
\* boundary would have been finalized.
BoundaryRefusal(t, outcome) ==
  /\ outcome # "completed"
  /\ t.op \in BoundaryOperations
  /\ t.resumes = "work-boundary-finalized"

\* A builder whose proposal froze nothing has nothing left to finalize.
DirectContinue(t) ==
  /\ t.op = "continue" /\ t.product = "ordinary"
  /\ t.resumes = "activity-finalization"

PreIntentRefusal(t, outcome) ==
  /\ outcome = "abandoned" /\ t.stage = "finalizing"
  /\ ~t.attempt /\ ~t.intended /\ t.outcome = "none" /\ t.product = "none"
  /\ ~t.receipt /\ t.resumes = "activity-completed"

AgentMayCompleteUnchecked(t, outcome) ==
  /\ PreIntentRefusal(t, outcome) \/ (CoreTerminal(t) /\ t.receipt)
  /\ outcome = "completed" =>
       /\ Submitted(t)
       /\ t.op \in BoundaryOperations => t.boundary # 0
       /\ t.op = "evaluate" => t.packet
AgentMayComplete(t, outcome) ==
  /\ PreIntentRefusal(t, outcome) \/ (CoreTerminal(t) /\ t.receipt)
  /\ outcome = "completed" =>
       /\ Submitted(t)
       /\ t.op \in BoundaryOperations =>
            /\ t.boundary # 0
            /\ Received(boundaries[t.boundary].checks) # {}
            /\ LegalBaselineSet(boundaries[t.boundary].checks)
       /\ t.op = "evaluate" => t.packet

IntegrationMayComplete(t, outcome) ==
  /\ t.assessed # "none" /\ outcome = "completed"
  /\ (t.assessed # "not-constructed") <=> (t.successor # 0)
  /\ t.assessed = "requires-readmission" => t.froze

TransactionMayComplete(t, outcome) ==
  /\ t.op \in TerminalOperations =>
       outcome = "failed" /\ t.intended /\ t.observed = "not-applied"
  /\ t.observed # "none"
  /\ IF outcome = "completed"
       THEN /\ t.observed = "applied" /\ t.successor # 0
            /\ t.decision.kind = "readmit" => proposed = 0
       ELSE t.observed = "not-applied"

CompleteActivity(a, outcome) ==
  LET t == acts[a]
  IN /\ Live /\ a \in Open
     /\ \/ t.resumes = "activity-completed"
        \/ BoundaryRefusal(t, outcome) \/ DirectContinue(t)
     /\ CASE Family(t.op) = "agent" -> AgentMayComplete(t, outcome)
          [] Family(t.op) = "integration" -> IntegrationMayComplete(t, outcome)
          [] Family(t.op) = "transaction" -> TransactionMayComplete(t, outcome)
     /\ proposed' = IF outcome = "completed" /\ t.op \in BoundaryOperations
                    THEN t.boundary ELSE proposed
     /\ prepared' = (prepared \/ t.op = "prepare")
     /\ Advance(a, Idle)
     /\ UNCHANGED <<created, briefs, boundaries, active, candidate, integrated,
                    condition, seals, seal, evidence, readiness, closure,
                    delegationVars>>

------------------------------------------------------------------------------
AgentStep(a) ==
  \/ \E r \in {"none", "projection-condition-required"} :
       RefuseAgentBeforeIntent(a, r)
  \/ PrepareAttempt(a)
  \/ IntendProviderEffect(a)
  \/ \E o \in {"completed", "failed", "not-started"} : ObserveProviderEffect(a, o)
  \/ \E p \in {"ordinary", "material-condition"} : SubmitWorkProduct(a, p)
  \/ AbandonWorkProduct(a)
  \/ RecordReceipt(a)
  \/ \E m \in Mandates : FinalizeBoundary(a, m)
  \/ \E s \in Selection, d \in Dispositions : RecordBaselineReceipt(a, s, d)
  \/ SealCandidate(a)
  \/ \E s \in Selection, d \in Dispositions : RecordFinalReceipt(a, s, d)
  \/ \E r \in Readinesses : FinalizeEvidence(a, r)

CandidateStep(a) ==
  \/ \E r \in {"unchanged", "requires-readmission", "not-constructed"} :
       AssessIntegration(a, r)
  \/ ObserveCandidateRevision(a)
  \/ \E s \in Sources : FreezeMaterialCondition(a, s)

TransactionStep(a) ==
  \/ AuthenticateDecision(a)
  \/ IntendTransactionEffect(a)
  \/ ObserveIndeterminate(a)
  \/ ObserveNotApplied(a)
  \/ ObserveApplied(a)
  \/ RecordClosure(a)

DirectorStep ==
  \/ CreateDelivery
  \/ \E a \in Activity : SubmitDirectorBrief(a)
  \/ \E op \in (UNION Grantable) \ {"integrate"} : SubmitStandingBrief(op)
  \/ \E ops \in Grantable, c \in Ceilings :
       SetWorkDelegation(ops, c)
  \/ StopWorkDelegation
  \/ DelegationExpires
  \/ \E a \in Activity, op \in Operations, reserved \in BOOLEAN :
       StartActivity(a, op, reserved)

Next ==
  \/ DirectorStep
  \/ \E a \in Activity :
       \/ AgentStep(a) \/ CandidateStep(a) \/ TransactionStep(a)
       \/ \E o \in {"completed", "failed", "abandoned"} : CompleteActivity(a, o)

Spec == Init /\ [][Next]_vars
==============================================================================
