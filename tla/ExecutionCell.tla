---------------------------- MODULE ExecutionCell -----------------------------
(* One execution: the operation host (execution/operation-host.ts) that       *)
(* carries one Specification from its opening to its Retirement, the Docker   *)
(* backend and engine driver it commands (docker-backend.ts, docker-cli-      *)
(* engine-driver-v1.ts), and the loops of the Agent and Check operations that *)
(* drive it, hand the residue to the Reclamation ledger and compile the       *)
(* Receipt (attempt/execution-cell-v1.ts, check/execution-cell-v1.ts).        *)
(*                                                                            *)
(* A call reads the retained checkpoint and takes one step of advance, until  *)
(* the output has its disposition; then it retires, hands off and concludes.  *)
(* A refused or interrupted step ends the call, and a later call              *)
(* (delivery.recover) starts from what the checkpoint retains.  A call may    *)
(* die between a read of the Engine, a command to it and a commit: each is a  *)
(* step of its own.  The Engine, the Cell, its provider proxy, the clock and  *)
(* people with a Docker client act in between.                                *)
(*                                                                            *)
(* The Delivery's lock admits one call at a time, so a commit never loses its *)
(* compare-and-swap.  Digests, labels and hardening are taken as exact: what  *)
(* a substituted one would do is a refusal, which ends the call.              *)
EXTENDS Naturals, FiniteSets

CONSTANT MaxFaults
  \* bound: deaths, failed commands, interrupted retrievals, Cells removed by others

ASSUME ExecutionAssumption == MaxFaults \in Nat

VARIABLES
  agent,       \* an authenticated Agent Cell with its proxy, or a Check Cell
  cell,        \* what the Engine holds of the Cell
  checkpoint,  \* the Activity's retained checkpoint
  refused,     \* is agent-pre-intent-refused in the Journal?
  handoff,     \* has the Reclamation ledger accepted the obligation?
  receipt,     \* what the operation concluded with
  host,        \* the running call: where it is and what it last saw
  overdue,     \* has the wall time passed since the opening?
  runs,        \* times the Engine started the Cell
  late,        \* was it started after the client of the start had gone?
  lost,        \* was it removed by other hands?
  faults

record == <<checkpoint, refused, handoff, receipt>>
executionVars == <<agent, cell, record, host, overdue, runs, late,
                   lost, faults>>

Containers == {"none", "created", "running", "exited"}
Proxies == {"none", "created", "running", "stopped"}
Bytes == {"incomplete", "complete"}
Places == {"down", "loop", "created", "ready", "entry", "proxy", "start",
           "starting", "stop", "observe", "seen"}
Receipts == {"none", "refused", "not-started", "retrieved", "unavailable"}

Cell == [container : Containers, proxy : Proxies, dispatched : BOOLEAN,
         cancelled : BOOLEAN, starting : BOOLEAN, bytes : Bytes,
         volumes : BOOLEAN]

\* inert: nothing of the Cell runs or writes.  channel: the provider channel
\* and the credentials, of which "unverified" is no safe fact.
Observation ==
  [process : {"not-observed", "not-started", "running", "terminal", "ambiguous"},
   dispatch : {"not-observed", "accepted", "start-observed",
               "terminal-observed", "ambiguous"},
   output : Bytes \cup {"not-produced", "ambiguous"},
   channel : {"not-granted", "revoked", "unverified"},
   reason : {"none", "exited", "cancelled"},
   inert : BOOLEAN]

\* Of an output that is missing, partial or invalid: unusable.
Checkpoint ==
  [opened : BOOLEAN, handle : BOOLEAN, consumed : BOOLEAN,
   requested : BOOLEAN, observation : Observation, contained : BOOLEAN,
   completion : {"none", "observed", "invalid"}, bound : BOOLEAN,
   output : {"none", "not-applicable", "unusable", "valid"},
   retired : BOOLEAN]

\* absenceObservation: a Cell that is not there proves nothing once started.
Absence(consumed) ==
  IF consumed
  THEN [process |-> "ambiguous", dispatch |-> "ambiguous",
        output |-> "ambiguous", channel |-> "unverified", reason |-> "none",
        inert |-> FALSE]
  ELSE [process |-> "not-observed", dispatch |-> "not-observed",
        output |-> "not-produced", channel |-> "not-granted",
        reason |-> "none", inert |-> TRUE]

NoCell == [container |-> "none", proxy |-> "none", dispatched |-> FALSE,
           cancelled |-> FALSE, starting |-> FALSE, bytes |-> "incomplete",
           volumes |-> FALSE]
NoCheckpoint ==
  [opened |-> FALSE, handle |-> FALSE, consumed |-> FALSE, requested |-> FALSE,
   observation |-> Absence(FALSE), contained |-> FALSE, completion |-> "none",
   bound |-> FALSE, output |-> "none", retired |-> FALSE]
Down == [at |-> "down", seen |-> Absence(FALSE)]

ExecutionInit ==
  /\ agent \in BOOLEAN
  /\ cell = NoCell /\ checkpoint = NoCheckpoint
  /\ refused = FALSE /\ handoff = FALSE /\ receipt = "none"
  /\ host = Down /\ overdue = FALSE
  /\ runs = 0 /\ late = FALSE /\ lost = FALSE /\ faults = 0

------------------------------------------------------------------------------
(* What the Engine answers, and what the Runtime makes of it.                 *)

Gone(c) == c.container = "none"
ProxyUp(c) == c.proxy = "running"

\* inspectCell refuses a running Agent Cell that lost its provider channel.
Unreadable(c) == agent /\ c.container = "running" /\ ~ProxyUp(c)

\* inspectCell and observationFromInspection for a Cell that is there.
Direct(c) ==
  LET exited == c.container = "exited" IN
  [process |-> IF exited THEN "terminal"
               ELSE IF c.container = "running" THEN "running" ELSE "not-started",
   dispatch |-> IF exited THEN "terminal-observed"
                ELSE IF c.container = "running" THEN "start-observed"
                ELSE IF c.dispatched THEN "accepted" ELSE "not-observed",
   output |-> IF exited THEN c.bytes ELSE "not-produced",
   channel |-> IF ~agent \/ c.container = "created" THEN "not-granted"
               ELSE IF exited /\ ~ProxyUp(c) THEN "revoked" ELSE "unverified",
   reason |-> IF ~exited THEN "none"
              ELSE IF c.cancelled THEN "cancelled" ELSE "exited",
   inert |-> c.container # "running" /\ ~ProxyUp(c)]

Look(c, consumed) == IF Gone(c) THEN Absence(consumed) ELSE Direct(c)

Safe == {"not-granted", "revoked"}

EstablishesByState(o, consumed) ==  \* the proxy is forgotten
  o.process \in {"not-observed", "not-started", "terminal"}

\* executionObservationEstablishesContainment, as hostContainment asks it.
Establishes(o, consumed) ==
  /\ \/ o.process = "not-observed" /\ ~consumed
     \/ o.process = "terminal" /\ consumed
     \/ o.process = "not-started" /\ o.dispatch = "not-observed"
     \/ o.process = "not-started" /\ o.dispatch = "accepted" /\ consumed
  /\ o.inert /\ o.channel \in Safe

DispatchRank(o) ==
  CASE o.dispatch = "not-observed" -> 0 [] o.dispatch = "accepted" -> 1
    [] o.dispatch = "start-observed" -> 2 [] OTHER -> 3
ProcessRank(o) ==
  CASE o.process = "not-started" -> 0 [] o.process = "running" -> 1
    [] OTHER -> 2
Ranked(o) == o.process \in {"not-started", "running", "terminal"}

FollowsAny(p, o) == TRUE

\* assertExecutionObservationConsistency: does o follow the retained p?
Follows(p, o) ==
  /\ o.dispatch # "ambiguous"
  /\ DispatchRank(p) <= DispatchRank(o)
  /\ Ranked(p) /\ Ranked(o) => ProcessRank(p) <= ProcessRank(o)
  /\ p.process = "terminal" => o.process = "terminal" /\ o.reason = p.reason
  /\ p.output = "complete" => o.output = "complete"
  /\ p.dispatch # "not-observed" =>
       /\ p.inert => o.inert
       /\ p.channel \in Safe => o.channel \in {p.channel, "unverified"}

------------------------------------------------------------------------------
(* Steps of a call.                                                           *)

At(place) == host.at = place
Goto(place) == host' = [Down EXCEPT !.at = place]
EndCall == host' = Down
Retains(c) == checkpoint' = c /\ UNCHANGED <<refused, handoff, receipt>>
Unrecorded == UNCHANGED record
Quiet == UNCHANGED <<agent, overdue, runs, late, lost>>
Calm == Quiet /\ UNCHANGED faults
Fault == faults < MaxFaults /\ faults' = faults + 1

\* The operation, or delivery.recover, runs until the execution has concluded.
Call ==
  /\ At("down") /\ receipt = "none"
  /\ Goto("loop")
  /\ Unrecorded /\ UNCHANGED cell /\ Calm

Open ==
  /\ At("loop") /\ ~checkpoint.opened
  /\ Retains([checkpoint EXCEPT !.opened = TRUE])
  /\ UNCHANGED <<cell, host>> /\ Calm

\* The branches of advance, in the order it takes them.
NeedsHandle == checkpoint.opened /\ ~checkpoint.handle
Uncontained == checkpoint.handle /\ ~checkpoint.contained
NeedsRequest ==
  /\ Uncontained /\ ~checkpoint.requested
  /\ overdue \/ checkpoint.observation.process = "terminal"
MayDispatch == ~checkpoint.consumed /\ ~checkpoint.requested
Dispatching == Uncontained /\ ~NeedsRequest /\ MayDispatch
Watching == Uncontained /\ ~NeedsRequest /\ ~MayDispatch
Finishing == checkpoint.contained /\ checkpoint.output = "none"

\* allocate: the Cell of this key is adopted, or there is none and it is made.
Allocate ==
  /\ At("loop") /\ NeedsHandle
  /\ IF Gone(cell)
     THEN cell' = [NoCell EXCEPT !.container = "created", !.volumes = TRUE,
                     !.proxy = IF agent THEN "created" ELSE "none"]
     ELSE cell.container = "created" /\ ~cell.dispatched /\ UNCHANGED cell
  /\ Goto("created") /\ Unrecorded /\ Calm

\* Once the handle is retained its Cell can no longer be made again.
RetainHandle ==
  /\ At("created")
  /\ IF cell.container = "created"
     THEN /\ Retains([checkpoint EXCEPT !.handle = TRUE,
                        !.observation = Direct(cell)])
          /\ Goto("loop")
     ELSE Unrecorded /\ EndCall
  /\ UNCHANGED cell /\ Calm

RequestContainment ==
  /\ At("loop") /\ NeedsRequest
  /\ Retains([checkpoint EXCEPT !.requested = TRUE])
  /\ UNCHANGED <<cell, host>> /\ Calm

\* #dispatch reads the Cell before it consumes the authority to start it.
ObserveReadiness ==
  /\ At("loop") /\ Dispatching
  /\ host' = [at |-> IF Gone(cell) THEN "seen" ELSE "ready",
              seen |-> Look(cell, FALSE)]
  /\ Unrecorded /\ UNCHANGED cell /\ Calm

\* For an Agent, with its Attempt and intent in the same batch.
Consume ==
  /\ At("ready")
  /\ Retains([checkpoint EXCEPT !.consumed = TRUE, !.observation = host.seen])
  /\ Goto("entry") /\ UNCHANGED cell /\ Calm

RefuseUncontained ==  \* the refusal is retained, its containment is not
  /\ At("ready") /\ agent
  /\ refused' = TRUE
  /\ Goto("loop") /\ UNCHANGED <<cell, checkpoint, handoff, receipt>> /\ Calm

\* commitPreDispatch: revalidation refused the Attempt, with the same batch.
RefuseAttempt ==
  /\ At("ready") /\ agent
  /\ checkpoint' = [checkpoint EXCEPT !.requested = TRUE,
                      !.observation = host.seen, !.contained = TRUE]
  /\ refused' = TRUE
  /\ Goto("loop") /\ UNCHANGED <<cell, handoff, receipt>> /\ Calm

\* dispatch and consumeDispatch: one marker per Cell, refused after a cancel.
EnterDispatch ==
  /\ At("entry")
  /\ IF cell.container = "created" /\ ~cell.dispatched /\ ~cell.cancelled
     THEN /\ cell' = [cell EXCEPT !.dispatched = TRUE]
          /\ Goto(IF agent THEN "proxy" ELSE "start")
     ELSE UNCHANGED cell /\ EndCall
  /\ Unrecorded /\ Calm

\* startCell, first half: the provider channel is up before the Cell is.
StartProxy ==
  /\ At("proxy")
  /\ IF cell.container = "created" /\ cell.proxy = "created"
     THEN cell' = [cell EXCEPT !.proxy = "running"] /\ Goto("start")
     ELSE UNCHANGED cell /\ EndCall
  /\ Unrecorded /\ Calm

IssueStart ==
  /\ At("start")
  /\ IF cell.container = "created"
     THEN cell' = [cell EXCEPT !.starting = TRUE] /\ Goto("starting")
     ELSE UNCHANGED cell /\ EndCall
  /\ Unrecorded /\ Calm

StartReturns ==
  /\ At("starting") /\ ~cell.starting
  /\ Goto("observe")
  /\ Unrecorded /\ UNCHANGED cell /\ Calm

\* observe.  Only an observation that can be read is seen.
Observe ==
  /\ At("observe") \/ (At("loop") /\ Watching /\ ~checkpoint.requested)
  /\ IF Unreadable(cell) THEN EndCall
     ELSE host' = [at |-> "seen", seen |-> Look(cell, checkpoint.consumed)]
  /\ Unrecorded /\ UNCHANGED cell /\ Calm

NeverTerminal(c) == FALSE  \* an ended Cell is marked as cancelled
\* cancel and cancelCell: the marker first, unless the Cell has ended.
AlreadyTerminal(c) == c.container \notin {"created", "running"}
Cancel ==
  /\ At("loop") /\ Watching /\ checkpoint.requested
  /\ IF Unreadable(cell) THEN EndCall /\ UNCHANGED cell
     ELSE /\ cell' = IF AlreadyTerminal(cell) THEN cell
                     ELSE [cell EXCEPT !.cancelled = TRUE]
          /\ Goto("stop")
  /\ Unrecorded /\ Calm

Dead(c, b) == [c EXCEPT !.container = "dead", !.bytes = b]
Exited(c, b) == [c EXCEPT !.container = "exited", !.bytes = b]
Stop ==
  /\ At("stop")
  /\ \E b \in Bytes :
       LET c == IF cell.container = "running" THEN Exited(cell, b) ELSE cell
       IN cell' = [c EXCEPT !.proxy = IF ProxyUp(c) THEN "stopped" ELSE @]
  /\ Goto("observe") /\ Unrecorded /\ Calm

\* #recordObservation.  Ambiguous facts never follow what is retained.
RecordObservation ==
  /\ At("seen")
  /\ IF Follows(checkpoint.observation, host.seen)
     THEN /\ Retains([checkpoint EXCEPT
               !.observation = host.seen, !.bound = FALSE,
               !.contained = Establishes(host.seen, checkpoint.consumed)])
          /\ Goto("loop")
     ELSE Unrecorded /\ EndCall
  /\ UNCHANGED cell /\ Calm

------------------------------------------------------------------------------
(* Output, Retirement, handoff and Receipt.                                   *)

Complete == Finishing /\ checkpoint.observation.output = "complete"
NeedsCompletion == Complete /\ agent /\ checkpoint.completion = "none"
Validating == Complete /\ ~NeedsCompletion /\ checkpoint.completion # "invalid"

\* The driver may find the Carrier unreadable although its Manifest was read.
CaptureCompletion ==
  /\ At("loop") /\ NeedsCompletion
  /\ IF Gone(cell) THEN Unrecorded /\ EndCall
     ELSE /\ \/ \E c \in {"observed", "invalid"} :
                  Retains([checkpoint EXCEPT !.completion = c, !.bound = TRUE])
             \/ Retains([checkpoint EXCEPT !.output = "unusable"])
          /\ UNCHANGED host
  /\ UNCHANGED cell /\ Calm

FinalizeWithoutCarrier ==
  /\ At("loop") /\ Finishing /\ ~NeedsCompletion /\ ~Validating
  /\ Retains([checkpoint EXCEPT !.output =
       IF checkpoint.observation.output = "not-produced"
       THEN "not-applicable" ELSE "unusable"])
  /\ UNCHANGED <<cell, host>> /\ Calm

ValidateOutput ==
  /\ At("loop") /\ Validating /\ ~Gone(cell)
  /\ \E v \in {"valid", "unusable"} :
       Retains([checkpoint EXCEPT !.output = v])
  /\ UNCHANGED <<cell, host>> /\ Calm

\* A retained completion binds its observation, which then must stay.
AfterInterruption == IF checkpoint.completion # "none" THEN "down" ELSE "observe"
RetrievalInterrupted ==
  /\ At("loop") /\ Validating
  /\ IF Gone(cell) THEN UNCHANGED faults ELSE Fault
  /\ Goto(AfterInterruption)
  /\ Unrecorded /\ UNCHANGED cell /\ Quiet

\* refuseContainedBeforeIntent, before Retirement or after it.
RefuseContained ==
  /\ At("loop") /\ agent /\ checkpoint.output = "not-applicable"
  /\ ~checkpoint.consumed /\ ~refused
  /\ refused' = TRUE
  /\ UNCHANGED <<cell, host, checkpoint, handoff, receipt>> /\ Calm

\* createReclamationBinding looks at an Agent's Cell once more.
StillContained ==
  \/ ~agent
  \/ Gone(cell)
  \/ ~Unreadable(cell) /\ Establishes(Direct(cell), checkpoint.consumed)

Retire ==
  /\ At("loop") /\ checkpoint.output # "none" /\ ~checkpoint.retired
  /\ agent => checkpoint.consumed \/ refused
  /\ IF StillContained
     THEN Retains([checkpoint EXCEPT !.retired = TRUE]) /\ UNCHANGED host
     ELSE Unrecorded /\ EndCall
  /\ UNCHANGED cell /\ Calm

\* ledger.accept is idempotent: a repeated call accepts the same obligation.
HandOff ==
  /\ At("loop") /\ checkpoint.retired /\ ~handoff
  /\ handoff' = TRUE
  /\ UNCHANGED <<cell, host, checkpoint, refused, receipt>> /\ Calm

NoCompletion == checkpoint.consumed
\* runtimeObservedNotStartedProvider
NotStarted ==
  /\ checkpoint.consumed /\ checkpoint.output = "not-applicable"
  /\ checkpoint.observation.process = "not-started"

\* An Agent that ran needs the completion its runner wrote: none, no Receipt.
Conclude ==
  /\ At("loop") /\ handoff /\ receipt = "none"
  /\ \/ refused /\ receipt' = "refused"
     \/ /\ agent /\ ~refused /\ checkpoint.completion # "observed" /\ NotStarted
        /\ receipt' = "not-started"
     \/ /\ IF agent THEN ~refused /\ checkpoint.completion = "observed" ELSE TRUE
        /\ receipt' = IF checkpoint.output = "valid" THEN "retrieved"
                      ELSE "unavailable"
     \/ /\ agent /\ ~refused /\ checkpoint.completion # "observed" /\ ~NotStarted
        /\ UNCHANGED receipt
  /\ EndCall
  /\ UNCHANGED <<cell, checkpoint, refused, handoff>> /\ Calm

------------------------------------------------------------------------------
(* Failures of a call, and what goes on without it.                           *)

\* Without its client an issued start is forgotten, or the Engine applies it.
Die ==
  /\ ~At("down") /\ Fault
  /\ \E pending \in BOOLEAN :
       cell' = [cell EXCEPT !.starting = cell.starting /\ pending]
  /\ EndCall /\ Unrecorded /\ Quiet

EngineStarts ==
  /\ cell.starting
  /\ cell' = [cell EXCEPT !.starting = FALSE, !.container = "running"]
  /\ runs' = runs + 1 /\ late' = ~At("starting")
  /\ Unrecorded /\ UNCHANGED <<agent, host, overdue, lost, faults>>

\* By itself, or because its runner enforces the wall time.
CellExits ==
  /\ cell.container = "running"
  /\ \E b \in Bytes : cell' = Exited(cell, b)
  /\ Unrecorded /\ UNCHANGED host /\ Calm

ProxyStops ==
  /\ ProxyUp(cell)
  /\ cell' = [cell EXCEPT !.proxy = "stopped"]
  /\ Unrecorded /\ UNCHANGED host /\ Calm

DeadlinePasses ==
  /\ checkpoint.opened /\ ~overdue /\ overdue' = TRUE
  /\ Unrecorded /\ UNCHANGED <<agent, cell, host, runs, late, lost, faults>>

CellLost ==
  /\ ~Gone(cell) /\ Fault /\ lost' = TRUE
  /\ cell' = [cell EXCEPT !.container = "none", !.starting = FALSE]
  /\ Unrecorded /\ UNCHANGED <<agent, host, overdue, runs, late>>

HostStep ==
  \/ Open \/ Allocate \/ RetainHandle \/ RequestContainment
  \/ ObserveReadiness \/ Consume \/ RefuseAttempt \/ EnterDispatch
  \/ StartProxy \/ IssueStart \/ StartReturns \/ Observe \/ Cancel \/ Stop
  \/ RecordObservation \/ CaptureCompletion \/ FinalizeWithoutCarrier
  \/ ValidateOutput \/ RetrievalInterrupted \/ RefuseContained \/ Retire
  \/ HandOff \/ Conclude

ExecutionNext ==
  \/ Call \/ HostStep \/ Die \/ EngineStarts \/ CellExits \/ ProxyStops
  \/ DeadlinePasses \/ CellLost

------------------------------------------------------------------------------
(* Properties.                                                                *)

\* The execution's state stays in its domains.
ExecutionTypeOK ==
  /\ agent \in BOOLEAN /\ cell \in Cell /\ checkpoint \in Checkpoint
  /\ refused \in BOOLEAN /\ handoff \in BOOLEAN /\ receipt \in Receipts
  /\ host \in [at : Places, seen : Observation]
  /\ overdue \in BOOLEAN /\ late \in BOOLEAN
  /\ runs \in Nat /\ lost \in BOOLEAN /\ faults \in 0..MaxFaults

\* The Engine runs a Cell at most once, and only on the authority that was
\* consumed for it, whatever dies in between: a call that resumes never
\* dispatches again, and no Attempt refused before its intent ever runs.
StartedOnAuthority ==
  /\ runs <= 1
  /\ runs = 1 \/ cell.starting => checkpoint.consumed /\ ~refused

\* Contained is for good: once a checkpoint records it, nothing of the Cell
\* runs, now or after any later restart of the Runtime, unless the Engine
\* applies a start after its client was given up (30 s) or died.
ContainedForGood ==
  checkpoint.contained => (cell.container # "running" \/ late) /\ ~ProxyUp(cell)

\* What the operation concluded with is what happened to the Cell: a refusal
\* and a provider that was never reached only where nothing had run.
TruthfulReceipt ==
  /\ receipt = "refused" => ~checkpoint.consumed /\ runs = 0
  /\ receipt = "not-started" => runs = 0 \/ late
  /\ receipt = "retrieved" => runs = 1

\* Of one step: what a checkpoint retains stays retained.
EvidenceIsKept ==
  /\ checkpoint.opened => checkpoint'.opened
  /\ checkpoint.handle => checkpoint'.handle
  /\ checkpoint.consumed => checkpoint'.consumed
  /\ checkpoint.requested => checkpoint'.requested
  /\ checkpoint.contained =>
       /\ checkpoint'.contained
       /\ checkpoint'.observation.process = checkpoint.observation.process
  /\ checkpoint.observation.process = "terminal" =>
       /\ checkpoint'.observation.process = "terminal"
       /\ checkpoint'.observation.reason = checkpoint.observation.reason
  /\ checkpoint.completion # "none" =>
       checkpoint'.completion = checkpoint.completion
  /\ checkpoint.output # "none" => checkpoint'.output = checkpoint.output
  /\ checkpoint.retired => checkpoint'.retired

\* Evidence is final: once the host's checkpoint retains them, the opening, the
\* handle, the consumption, the request, the containment with the process it
\* was established for, a terminal process with its reason, the completion, the
\* disposition of the output and Retirement all stay, whatever the Engine
\* answers later and however often a step is taken again.
EvidenceIsFinal == [][EvidenceIsKept]_executionVars

\* Every execution that was opened is retired and handed to the ledger, after
\* any death or failed command: its deadline leads to a cancellation, that to
\* its containment.  Only a Cell that others removed after its authority was
\* consumed, or one that was started late, is never accounted for.
RetirementFollows ==
  checkpoint.opened ~> \/ handoff
                       \/ late
                       \/ lost /\ checkpoint.consumed /\ ~checkpoint.retired
==============================================================================
