------------------------- MODULE TerminalTransaction --------------------------
(* The acceptance and no-ship transactions of several Deliveries of one       *)
(* target repository: transaction/terminal-v7.ts driven by the activity       *)
(* kernel (process/activity-kernel-v7.ts), under the non-blocking target lock *)
(* (repository/operation-lock.ts), down to the Store seal (control/store.ts)  *)
(* and the archive (control/archive.ts).                                      *)
(*                                                                            *)
(* A call (delivery.accept, delivery.no-ship or delivery.recover) holds its   *)
(* Delivery's lock, so a Delivery has at most one call; its steps interleave  *)
(* with those of the other Deliveries, and with people who commit, rewrite    *)
(* history, switch branches or edit files.  It may die between any two steps: *)
(* what was committed to the Store (control, support) and to Git survives,    *)
(* what the call knew (call) and its locks do not.                            *)
(*                                                                            *)
(* Canonical history is a sequence of commits above Root, a commit being      *)
(* [by, n]: its author and the author's how-many-eth attempt.  An acceptance  *)
(* commit is a function of Decision, Candidate and parent                     *)
(* (acceptanceCommitTemplate), so each attempt has its own.  Distinct commits *)
(* have distinct trees.  The reading of the refs, and the judgement of what   *)
(* was read, are one step: a later move of the ref cannot change a judgement  *)
(* already made.                                                              *)
EXTENDS Naturals, Sequences, FiniteSets

CONSTANTS
  Delivery,         \* Deliveries of one target repository
  MaxAttempts,      \* bound: terminal activities opened per Delivery
  MaxObservations,  \* retained observation bound (8 in the code)
  MaxMoves,         \* bound: movements of branch and checkout by people
  MaxFaults         \* bound: deaths of a call, failed reads, lost replies

ASSUME TransactionAssumption ==
  /\ MaxAttempts \in Nat /\ MaxObservations \in Nat \ {0}
  /\ MaxMoves \in Nat /\ MaxFaults \in Nat
  /\ {"person", "none", "root"} \cap Delivery = {}

VARIABLES
  history,   \* commits of the canonical branch
  attached,  \* is HEAD the canonical branch?
  checkout,  \* [state, at]: worktree state and the commit of the index tree
  moved,     \* history variable: every commit ever on the canonical branch
  holder,    \* holder of the target operation lock
  control,   \* per Delivery: what its Store retains of its terminal activity
  support,   \* per Delivery: the kernel support row of that activity
  call,      \* per Delivery: the running call, lost when it dies
  moves, faults

repository == <<history, attached, checkout, moved>>
vars == <<repository, holder, control, support, call, moves, faults>>

Operations == {"delivery.accept", "delivery.no-ship"}
Outcomes == {"applied", "not-applied", "indeterminate"}
Stages == {"ready", "opened", "intended", "applied", "not-applied", "closed"}
Custodies == {"active", "sealed", "prepared", "archived"}
Pcs == {"idle", "step", "observe", "prepare", "relock", "publish", "after",
        "synchronize", "checkout", "record", "handoff"}

Root == [by |-> "root", n |-> 0]
Commit == {Root} \cup [by : Delivery, n : 1..MaxAttempts]
                 \cup [by : {"person"}, n : 1..MaxMoves]

Tip(h) == IF h = <<>> THEN Root ELSE h[Len(h)]
Commits(h) == {h[i] : i \in DOMAIN h}
Predecessor(h, i) == IF i = 1 THEN Root ELSE h[i - 1]

\* exactAcceptanceResult: the one commit the plan can publish.
K(d) == [by |-> d, n |-> control[d].attempt]
IsAcceptance(d) == control[d].operation = "delivery.accept"

NoSupport == [live |-> FALSE, disposition |-> FALSE, completion |-> FALSE]
NewSupport == [NoSupport EXCEPT !.live = TRUE]
NoCall == [pc |-> "idle", mayHaveApplied |-> FALSE, preparation |-> "needed",
           outcome |-> "indeterminate"]

Init ==
  /\ history = <<>> /\ attached = TRUE /\ moved = {}
  /\ checkout = [state |-> "clean", at |-> Root]
  /\ holder = "none"
  /\ control = [d \in Delivery |->
       [base |-> Root, attempt |-> 0, operation |-> "delivery.accept",
        parent |-> Root, stage |-> "ready", observations |-> 0,
        custody |-> "active"]]
  /\ support = [d \in Delivery |-> NoSupport]
  /\ call = [d \in Delivery |-> NoCall]
  /\ moves = 0 /\ faults = 0

------------------------------------------------------------------------------
(* Steps of a call.                                                           *)
At(d, pc) == call[d].pc = pc
Stage(d, s) == At(d, "step") /\ control[d].stage = s
Goto(d, pc) == call' = [call EXCEPT ![d].pc = pc]
EndCall(d) == call' = [call EXCEPT ![d] = NoCall]
Acquire(d) == holder = "none" /\ holder' = d
Release(d) == holder' = IF holder = d THEN "none" ELSE holder

\* The kernel's next durable step, or a call that ends: the repository stays.
Durable(d) == UNCHANGED <<repository, moves, faults>>
Fault == faults < MaxFaults /\ faults' = faults + 1

\* Observation of an acceptance ends with an outcome, and the lock is dropped.
Conclude(d, outcome) ==
  /\ call' = [call EXCEPT ![d].pc = "record", ![d].outcome = outcome]
  /\ Release(d)

\* delivery.integrate selects the current tip as the parent of the Candidate.
Integrate(d) ==
  /\ At(d, "idle") /\ control[d].stage = "ready" /\ holder = "none"
  /\ control[d].base # Tip(history)
  /\ control' = [control EXCEPT ![d].base = Tip(history)]
  /\ UNCHANGED <<repository, holder, support, call, moves, faults>>

\* Opening, Decision and kernel support are retained in one batch.
Begin(d, op) ==
  /\ At(d, "idle") /\ control[d].stage = "ready"
  /\ control[d].attempt < MaxAttempts
  /\ control' = [control EXCEPT
       ![d].attempt = @ + 1, ![d].operation = op, ![d].parent = control[d].base,
       ![d].stage = "opened", ![d].observations = 0]
  /\ support' = [support EXCEPT ![d] = NewSupport]
  /\ call' = [call EXCEPT ![d] = [NoCall EXCEPT !.pc = "step"]]
  /\ UNCHANGED <<repository, holder, moves, faults>>

\* An earlier call may have published once the intent was retained.
RecoveryRepublishes(d) == FALSE
EarlierCallMayHaveApplied(d) == control[d].stage # "opened"

\* An active root that holds an archive manifest is no Store to open: neither
\* recovery nor the call that reopens the Delivery gets past its entries.
Openable(d) == control[d].custody \in {"active", "sealed"}

Recover(d) ==
  /\ At(d, "idle") /\ control[d].stage # "ready" /\ Openable(d)
  /\ call' = [call EXCEPT ![d] = [NoCall EXCEPT
       !.pc = "step", !.mayHaveApplied = EarlierCallMayHaveApplied(d)]]
  /\ UNCHANGED <<holder, control, support>> /\ Durable(d)

------------------------------------------------------------------------------
(* Intent and observation.                                                    *)
RecordIntent(d) ==
  /\ Stage(d, "opened")
  /\ control' = [control EXCEPT ![d].stage = "intended"]
  /\ UNCHANGED <<holder, support, call>> /\ Durable(d)

\* Refused before anything is observed: the retained history is full.
ObservationRefused(d) ==
  /\ Stage(d, "intended") /\ control[d].observations >= MaxObservations
  /\ EndCall(d)
  /\ UNCHANGED <<holder, control, support>> /\ Durable(d)

ObservableAlways(d) == Stage(d, "intended")
Observable(d) ==
  Stage(d, "intended") /\ control[d].observations < MaxObservations

ObserveNoShip(d) ==
  /\ Observable(d) /\ ~IsAcceptance(d)
  /\ call' = [call EXCEPT ![d].pc = "record", ![d].outcome = "applied"]
  /\ UNCHANGED <<holder, control, support>> /\ Durable(d)

\* What the next step of the call takes the target lock for: a preflight, the
\* publication, or the checkout of an applied acceptance.
LockedStep(d) ==
  IF At(d, "relock") \/ Observable(d) THEN "observe" ELSE "synchronize"
NeedsLock(d) ==
  /\ IsAcceptance(d)
  /\ \/ Observable(d)
     \/ At(d, "relock")
     \/ Stage(d, "applied") /\ ~support[d].disposition

LockTarget(d) ==
  /\ NeedsLock(d) /\ Acquire(d)
  /\ Goto(d, LockedStep(d))
  /\ UNCHANGED <<control, support>> /\ Durable(d)

\* The lock does not wait: contention ends the call (operation.busy).
LockBusy(d) ==
  /\ NeedsLock(d) /\ holder # "none"
  /\ EndCall(d)
  /\ UNCHANGED <<holder, control, support>> /\ Durable(d)

Published(d) == K(d) \in Commits(history)
CheckoutExact(d) == checkout = [state |-> "clean", at |-> control[d].parent]
AtParent(d) == attached /\ Tip(history) = control[d].parent
Publishable(d) ==
  AtParent(d) /\ CheckoutExact(d) /\ call[d].preparation # "failed"

ReadFails(d) ==
  /\ At(d, "observe") \/ At(d, "after")
  /\ Fault /\ Conclude(d, "indeterminate")
  /\ UNCHANGED <<repository, control, support, moves>>

Recognize(d) ==
  /\ At(d, "observe") \/ At(d, "after")
  /\ Published(d)
  /\ Goto(d, "synchronize")
  /\ UNCHANGED <<holder, control, support>> /\ Durable(d)

UncertainRefuses(d) ==
  /\ At(d, "after") /\ ~Published(d)
  /\ Conclude(d, "not-applied")
  /\ UNCHANGED <<control, support>> /\ Durable(d)

\* Not seen in history, yet an earlier call or this one may have put it there.
Uncertain(d) ==
  /\ \/ At(d, "observe") /\ call[d].mayHaveApplied
     \/ At(d, "after")
  /\ ~Published(d)
  /\ Conclude(d, "indeterminate")
  /\ UNCHANGED <<control, support>> /\ Durable(d)

Refuse(d) ==
  /\ At(d, "observe") /\ ~Published(d) /\ ~call[d].mayHaveApplied
  /\ ~Publishable(d)
  /\ Conclude(d, "not-applied")
  /\ UNCHANGED <<control, support>> /\ Durable(d)

\* Proof and objects are prepared outside the target lock.
Prepare(d) ==
  /\ At(d, "observe") /\ ~Published(d) /\ ~call[d].mayHaveApplied
  /\ Publishable(d)
  /\ IF call[d].preparation = "needed"
     THEN Goto(d, "prepare") /\ Release(d)
     ELSE Goto(d, "publish") /\ UNCHANGED holder
  /\ UNCHANGED <<control, support>> /\ Durable(d)

PreparationEnds(d, result) ==
  /\ At(d, "prepare")
  /\ call' = [call EXCEPT ![d].pc = "relock", ![d].preparation = result]
  /\ UNCHANGED <<holder, control, support>> /\ Durable(d)

\* The Git transaction names the expected old commit of the ref; HEAD is not
\* read again.
ParentUnlocked(d) == TRUE
ParentIsTip(d) == Tip(history) = control[d].parent
Publish(d) ==
  /\ At(d, "publish") /\ ParentIsTip(d)
  /\ history' = Append(history, K(d)) /\ moved' = moved \cup {K(d)}
  /\ Goto(d, "after")
  /\ UNCHANGED <<attached, checkout, holder, control, support, moves, faults>>

\* Git refuses before prepare: the tip is another commit, or the ref is locked.
PublicationRefused(d) ==
  /\ At(d, "publish")
  /\ Conclude(d, "not-applied")
  /\ UNCHANGED <<control, support>> /\ Durable(d)

\* Git dies, or its answer is lost, without the ref having moved.
PublicationLost(d) ==
  /\ At(d, "publish") /\ Fault
  /\ Goto(d, "after")
  /\ UNCHANGED <<repository, holder, control, support, moves>>

------------------------------------------------------------------------------
(* The checkout follows the ref when it is still at the accepted commit.      *)
CurrentAtParent(d) == attached /\ Tip(history) = control[d].parent
Current(d) == attached /\ Tip(history) = K(d)

\* During an observation the outcome is "applied"; on the way to Closure the
\* verification of the Reclamation handoff comes next.
Synchronized(d) ==
  IF control[d].stage = "intended" THEN Conclude(d, "applied")
  ELSE Goto(d, "handoff") /\ Release(d)

CheckoutFollows(d) ==
  /\ At(d, "synchronize")
  /\ Current(d) => checkout = [state |-> "clean", at |-> K(d)]
  /\ Synchronized(d)
  /\ UNCHANGED <<control, support>> /\ Durable(d)

\* git read-tree -u -m parent result writes the files, then the index.
BeginCheckout(d) ==
  /\ At(d, "synchronize") /\ Current(d) /\ CheckoutExact(d)
  /\ checkout' = [checkout EXCEPT !.state = "partial"]
  /\ Goto(d, "checkout")
  /\ UNCHANGED <<history, attached, moved, holder, control, support, moves, faults>>

FinishCheckout(d) ==
  /\ At(d, "checkout")
  /\ checkout' = [state |-> "clean", at |-> K(d)]
  /\ Synchronized(d)
  /\ UNCHANGED <<history, attached, moved, control, support, moves, faults>>

\* Somebody's changes are not overwritten: the observation is uncertain, and
\* on the way to Closure the call fails.
CheckoutConflicts(d) ==
  /\ At(d, "synchronize") /\ Current(d)
  /\ ~CheckoutExact(d) /\ checkout # [state |-> "clean", at |-> K(d)]
  /\ IF control[d].stage = "intended" THEN Conclude(d, "indeterminate")
     ELSE EndCall(d) /\ Release(d)
  /\ UNCHANGED <<control, support>> /\ Durable(d)

------------------------------------------------------------------------------
(* Retained observation, and the two ways a transaction ends.                 *)
RecordObservation(d) ==
  LET o == call[d].outcome
  IN /\ At(d, "record")
     /\ control' = [control EXCEPT
          ![d].observations = @ + 1,
          ![d].stage = IF o = "indeterminate" THEN "intended" ELSE o]
     /\ IF o = "indeterminate" THEN EndCall(d) ELSE Goto(d, "step")
     /\ UNCHANGED <<holder, support>> /\ Durable(d)

\* Completion facts are sampled once and retained before they are appended.
SampleFailure(d) ==
  /\ Stage(d, "not-applied") /\ ~support[d].completion
  /\ support' = [support EXCEPT ![d].completion = TRUE]
  /\ UNCHANGED <<holder, control, call>> /\ Durable(d)

CompleteFailed(d) ==
  /\ Stage(d, "not-applied") /\ support[d].completion
  /\ control' = [control EXCEPT ![d].stage = "ready"]
  /\ support' = [support EXCEPT ![d] = NoSupport]
  /\ EndCall(d)
  /\ UNCHANGED holder /\ Durable(d)

NoShipHandoff(d) ==
  /\ Stage(d, "applied") /\ ~support[d].disposition /\ ~IsAcceptance(d)
  /\ Goto(d, "handoff")
  /\ UNCHANGED <<holder, control, support>> /\ Durable(d)

RetainDisposition(d) ==
  /\ At(d, "handoff")
  /\ support' = [support EXCEPT ![d].disposition = TRUE]
  /\ Goto(d, "step")
  /\ UNCHANGED <<holder, control>> /\ Durable(d)

SampleClosure(d) ==
  /\ Stage(d, "applied") /\ support[d].disposition /\ ~support[d].completion
  /\ support' = [support EXCEPT ![d].completion = TRUE]
  /\ UNCHANGED <<holder, control, call>> /\ Durable(d)

\* The Reclamation owner, a carrier or an authoring draft stands in the way.
DispositionRefused(d) ==
  /\ \/ At(d, "handoff")
     \/ Stage(d, "applied") /\ support[d].disposition
  /\ EndCall(d)
  /\ UNCHANGED <<holder, control, support>> /\ Durable(d)

RecordClosureAlone(d) ==
  /\ Stage(d, "applied") /\ support[d].completion
  /\ control' = [control EXCEPT ![d].stage = "closed"]
  /\ UNCHANGED <<holder, support, call>> /\ Durable(d)

\* Closure and the deletion of the kernel support are one batch.
RecordClosure(d) ==
  /\ Stage(d, "applied") /\ support[d].completion
  /\ control' = [control EXCEPT ![d].stage = "closed"]
  /\ support' = [support EXCEPT ![d] = NoSupport]
  /\ UNCHANGED <<holder, call>> /\ Durable(d)

Seal(d) ==
  /\ Stage(d, "closed") /\ control[d].custody = "active"
  /\ ~support[d].live
  /\ control' = [control EXCEPT ![d].custody = "sealed"]
  /\ UNCHANGED <<holder, support, call>> /\ Durable(d)

PrepareArchive(d) ==
  /\ Stage(d, "closed") /\ control[d].custody = "sealed"
  /\ control' = [control EXCEPT ![d].custody = "prepared"]
  /\ UNCHANGED <<holder, support, call>> /\ Durable(d)

MoveArchive(d) ==
  /\ Stage(d, "closed") /\ control[d].custody = "prepared"
  /\ control' = [control EXCEPT ![d].custody = "archived"]
  /\ EndCall(d)
  /\ UNCHANGED <<holder, support>> /\ Durable(d)

------------------------------------------------------------------------------
(* The call dies; the operating system drops its locks.                       *)
Crash(d) ==
  /\ ~At(d, "idle") /\ Fault
  /\ EndCall(d) /\ Release(d)
  /\ UNCHANGED <<repository, control, support, moves>>

(* People at the repository.  They take no lock of ours, but Git's index lock *)
(* keeps them from the checkout while read-tree writes it.                    *)
PersonMoves ==
  /\ \A d \in Delivery : ~At(d, "checkout")
  /\ moves < MaxMoves /\ moves' = moves + 1
  /\ UNCHANGED <<holder, control, support, call, faults>>

Follow(h) == IF attached THEN [state |-> "clean", at |-> Tip(h)] ELSE checkout

\* A commit takes the edits of the checkout with it.
PersonCommits ==
  LET h == Append(history, [by |-> "person", n |-> moves + 1])
  IN /\ PersonMoves
     /\ history' = h /\ moved' = moved \cup {Tip(h)}
     /\ checkout' = Follow(h) /\ UNCHANGED attached

\* reset --hard to an earlier commit, or a forced update of the branch.
PersonRewrites ==
  \E n \in 0..(Len(history) - 1) :
    LET h == SubSeq(history, 1, n)
    IN /\ PersonMoves
       /\ history' = h /\ checkout' = Follow(h)
       /\ UNCHANGED <<attached, moved>>

PersonEdits ==
  /\ PersonMoves /\ checkout.state = "clean"
  /\ checkout' = [checkout EXCEPT !.state = "dirty"]
  /\ UNCHANGED <<history, attached, moved>>

PersonDetaches ==
  /\ PersonMoves /\ attached
  /\ attached' = FALSE
  /\ UNCHANGED <<history, checkout, moved>>

\* Back to the branch with a clean checkout of its tip: always possible.
PersonRestores ==
  /\ \A d \in Delivery : ~At(d, "checkout")
  /\ ~attached \/ checkout # [state |-> "clean", at |-> Tip(history)]
  /\ attached' = TRUE
  /\ checkout' = [state |-> "clean", at |-> Tip(history)]
  /\ UNCHANGED <<history, moved, holder, control, support, call, moves, faults>>

------------------------------------------------------------------------------
ObservationStep(d) ==
  \/ RecordIntent(d) \/ ObservationRefused(d) \/ ObserveNoShip(d)
  \/ LockTarget(d) \/ LockBusy(d) \/ ReadFails(d)
  \/ Recognize(d) \/ Uncertain(d) \/ Refuse(d) \/ Prepare(d)
  \/ \E r \in {"complete", "failed"} : PreparationEnds(d, r)
  \/ Publish(d) \/ PublicationRefused(d) \/ PublicationLost(d)
  \/ CheckoutFollows(d) \/ BeginCheckout(d) \/ FinishCheckout(d)
  \/ CheckoutConflicts(d) \/ RecordObservation(d)

DispositionStep(d) ==
  \/ SampleFailure(d) \/ CompleteFailed(d)
  \/ NoShipHandoff(d) \/ RetainDisposition(d) \/ SampleClosure(d)
  \/ DispositionRefused(d) \/ RecordClosure(d)
  \/ Seal(d) \/ PrepareArchive(d) \/ MoveArchive(d)

Person ==
  PersonCommits \/ PersonRewrites \/ PersonEdits \/ PersonDetaches \/ PersonRestores

Next ==
  \/ \E d \in Delivery :
       \/ Integrate(d) \/ \E op \in Operations : Begin(d, op)
       \/ Recover(d) \/ ObservationStep(d) \/ DispositionStep(d) \/ Crash(d)
  \/ Person

Spec == Init /\ [][Next]_vars

(* A call once begun goes on, and somebody calls delivery.recover on what is  *)
(* left open and restores the checkout.  What the code does not control is    *)
(* only assumed not to win for ever: another holder of the target lock at     *)
(* every try, and what stands in the way of the disposition and of Closure.   *)
Progress(d) == Recover(d) \/ ObservationStep(d) \/ DispositionStep(d)

Fairness ==
  /\ \A d \in Delivery :
       /\ WF_vars(Progress(d))
       /\ SF_vars(LockTarget(d))
       /\ SF_vars(RetainDisposition(d) \/ SampleClosure(d) \/ RecordClosure(d))
  /\ WF_vars(PersonRestores)

FairSpec == Spec /\ Fairness

------------------------------------------------------------------------------
(* Type invariant.                                                            *)
TypeOK ==
  /\ history \in Seq(Commit) /\ moved \subseteq Commit /\ attached \in BOOLEAN
  /\ checkout \in [state : {"clean", "dirty", "partial"}, at : Commit]
  /\ holder \in Delivery \cup {"none"}
  /\ control \in [Delivery ->
       [base : Commit, attempt : 0..MaxAttempts, operation : Operations,
        parent : Commit, stage : Stages, observations : 0..MaxObservations,
        custody : Custodies]]
  /\ support \in [Delivery ->
       [live : BOOLEAN, disposition : BOOLEAN, completion : BOOLEAN]]
  /\ call \in [Delivery ->
       [pc : Pcs, mayHaveApplied : BOOLEAN, outcome : Outcomes,
        preparation : {"needed", "complete", "failed"}]]
  /\ moves \in 0..MaxMoves /\ faults \in 0..MaxFaults

(* A conclusive refusal is true: no commit of an attempt that was recorded    *)
(* not-applied, of a superseded attempt, or of an attempt whose intent is not *)
(* yet durable was ever on the canonical branch (DELIVERY.md: "not-applied    *)
(* when direct observation proves it did not move"; "Intent is durable before *)
(* every transaction's first authority-bearing external effect").             *)
TruthfulRefusal ==
  \A c \in moved : c.by \in Delivery =>
    /\ c = K(c.by)
    /\ control[c.by].stage \in {"intended", "applied", "closed"}

(* A terminal disposition is true: an applied or closed acceptance did move   *)
(* the canonical branch, and a Delivery that ended in no-ship, whatever its   *)
(* earlier refused acceptances went through, never did.                       *)
TruthfulDisposition ==
  \A d \in Delivery : control[d].stage \in {"applied", "closed"} =>
    IF IsAcceptance(d) THEN K(d) \in moved
                       ELSE \A c \in moved : c.by # d

(* What the Store records of a transaction is what happened on the branch.    *)
TruthfulRecord == TruthfulRefusal /\ TruthfulDisposition

(* Every accepted commit sits directly on the parent its Delivery integrated  *)
(* and proved: the work of another Delivery or of a person that slipped in    *)
(* between the checks and the ref transaction is never built over.            *)
ExactParent ==
  \A i \in DOMAIN history : history[i].by \in Delivery =>
    Predecessor(history, i) = control[history[i].by].parent

(* Kernel support is live exactly while its activity is open, and a Store is  *)
(* sealed only with nothing live, whatever steps the calls died between.      *)
SupportLifetime ==
  \A d \in Delivery :
    /\ support[d].live <=> control[d].stage \notin {"ready", "closed"}
    /\ control[d].custody # "active" => control[d].stage = "closed"
    /\ support[d].completion =>
         control[d].stage = "not-applied" \/ support[d].disposition

(* When an acceptance is closed and its commit is the tip of the branch that  *)
(* is checked out, the index is that of the commit: a call that died between  *)
(* the ref update and the checkout left nothing half done behind a Closure.   *)
ClosedCheckoutFollows ==
  \A d \in Delivery :
    control[d].stage = "closed" /\ IsAcceptance(d) /\ Current(d) =>
      checkout.at = K(d)

(* An accepted commit that somebody rewrote away is never published again,    *)
(* neither by the same call nor by any recovery.                              *)
PublishedOnce ==
  [][\A d \in Delivery :
       K(d) \in moved /\ ~Published(d) => K(d) \notin Commits(history')]_vars

------------------------------------------------------------------------------
(* Statements of the documentation that the code does not meet.               *)

(* DELIVERY.md: "An interruption after Closure never appends another event.   *)
(* Exact delivery.recover resumes only the missing seal or archive boundary." *)
(* Once applied, a transaction would then end in an archived Store, whatever  *)
(* died, contended for the lock or made the checkout dirty in between.        *)
AppliedIsDisposed ==
  \A d \in Delivery :
    control[d].stage = "applied" ~> control[d].custody = "archived"

(* operation-lock.ts: contention is retryable, "Retry after the active        *)
(* Lifecycle operation in this target Git operation domain finishes".  With   *)
(* nobody touching the repository and no call dying, an intended effect is    *)
(* then settled one way or the other.                                         *)
IntentSettles ==
  \A d \in Delivery :
    control[d].stage = "intended" ~> control[d].stage # "intended"
==============================================================================
