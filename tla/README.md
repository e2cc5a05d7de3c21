# Lifecycle Foundation: specifications and proofs

Lifecycle keeps a *Delivery*: one change of a Git repository, from framing to
an accepted commit or to "no ship", with agents that work in contained Cells
and a Director who alone admits, accepts or stops. Everything that happened is
retained in a journal of events (the Control Record Store), every legal
continuation is derived by replaying it, and everything that touches Git, a
provider or Docker is an effect with a retained intent and a retained
observation, so that a process may die anywhere and another may recover.

The modules here specify the parts of `src/runtime/src/foundation` that decide
that life, check them with TLC on small instances and prove the core of them
with TLAPS. Paths below are relative to that directory.

## 1. Inventory

| Component | State | Operations | Talks to | What is hard | Correct when |
|---|---|---|---|---|---|
| Delivery reducer, registries (`process/delivery-reducer.ts`, `operation-registry.ts`, `recovery-registry.ts`) | replay of the journal: activities, boundaries, candidate, proof, closure, delegation | one handler per event kind; `eligibleDeliveryOperations` | every component appends through it | long legal sequences; facts of one activity read by another | acceptance rests on current proof; one open activity; never stuck |
| Work delegation (`control/work-delegation*.ts`, `process/work-delegation-runtime.ts`) | current grant, charges, pending stop request | grant, replace, reserve, stop, fold a stop | reducer, Store, dispatcher | a stop from another process; expiry; charge without result | charged once, within ceilings, never bypassed |
| Terminal transaction (`transaction/terminal-v7.ts`) | plan, intent, observations, disposition | accept, no-ship, recover | kernel, Git, target lock, Store, Reclamation | ref and checkout are two effects; lost answers; other writers | what is retained about the branch is true; published once |
| Admission (`transaction/admission-v7.ts`) | plan, checkpoint, candidate failures | admit, recover | kernel, Git, carriers | candidate built after the effect; bounded failures | an applied admission owns a candidate of its boundary |
| Activity kernel (`process/activity-kernel-v7.ts`) | support row beside the journal | open, checkpoint, advance effect, finish, progress | Store, reducer | atomic batches; sampled once; bounded retries | support lives exactly as long as its activity |
| Control Record Store, archive (`control/store.ts`, `archive.ts`) | journal, records, support, seal, stop request, archive manifest | append batch, seal, archive | all | crash between batches; sealing against a pending stop; crash between manifest and rename | a sealed Store owes nothing, and is archived |
| Target operation lock (`repository/operation-lock.ts`) | descriptor lock | guarded action | terminal, admission, integrate | never waits | one owner at a time |
| Integration (`process/integration-runtime-v1.ts`, `candidate/`) | parent, merge result | integrate | Git | the branch moves later | the assessment names what was merged |
| Agent, check and evaluation operations (`process/agent-operation-v7.ts`, `check-operation-v7.ts`, `evaluation-*.ts`) | attempt, receipts | prepare, continue, revise, reaffirm, evaluate | kernel, host | recovery of an effect at a provider | each step of the journal is resumed exactly |
| Execution host, backend (`execution/operation-host.ts`, `docker-*.ts`) | checkpoint of one Cell; markers beside it | allocate, dispatch, observe, cancel, retrieve, retire | Docker, custody, ledger | a start whose answer is lost; an Engine that is late; a proxy that dies alone | started at most once, contained for good, told of truthfully |
| Provider credential custody (`execution/provider-credential-custody-v1.ts`) | `auth.json`, `state.json`, snapshots, pending intent, receipts | claim, read, settle, forget | driver; the owner of the file | several files, one of them not ours | one session; no refresh lost; claims settle |
| Reclamation ledger and maintenance (`execution/reclamation-ledger-v1.ts`, `installed-reclamation-maintenance-v1.ts`) | obligations, leases; an anchor at the Engine | accept, claim, complete, retry | host, Docker | a lease that expires under its holder; a removal that stops half way | what is recorded as reclaimed is gone; what was handed over is removed |
| Delivery custody and lock (`control/delivery-custody.ts`, `delivery-operation-lock.ts`) | staged, active and archived roots; one lock per Delivery | create, publish, discard, select, list, archive | Store, archive, Inbox (`runtime-read.ts`) | crash between staging and rename; readers without a lock | nothing retained is removed; what a reader is told was true |
| Knowledge, Atlas, projection, read models, drafts, validation, CLI | none that is shared | pure functions and I/O | | | |

The hazards each component is exposed to, at their lines and with the
properties aimed at them, are listed in `PROJECT.json`.

## 2. Modules

| Module | What it is |
|---|---|
| `DeliveryReducer` | the state machine of a Delivery, one action per event kind |
| `DeliveryInvariants` | its safety and action properties |
| `DeliveryLifecycle` | the abstract specification: standings, mandate, work, verdict |
| `DelegationLedger` | the abstract specification of a work delegation: grant, stop, charge |
| `DeliveryRefinement` | the reducer implements both (`INSTANCE ... WITH`) |
| `DeliveryTypeProofs`, `DeliverySafetyProofs`, `DeliveryImplementationProofs` | TLAPS proofs about the reducer |
| `DelegationStop` | the foreground run of delegated work against Stop, from any process |
| `DelegationRefinement` | it implements `DelegationLedger` too |
| `DelegationStopProofs` | TLAPS proofs about both |
| `TerminalTransaction` | acceptance and no-ship of several Deliveries on one branch |
| `TerminalSettlement` | the abstract specification: every attempt settled once, as the branch was |
| `TerminalRefinement` | the transactions implement it |
| `TerminalTransactionProofs` | TLAPS proofs about both |
| `ProviderCredential` | custody of the installation's provider credential |
| `CredentialLease` | the abstract specification: one lease at a time, settled once, in one step |
| `CredentialRefinement` | the files of the custody implement it |
| `ProviderCredentialProofs` | TLAPS proofs about both |
| `ExecutionCell` | one Agent or Check execution: host, backend, driver, Engine |
| `CellReclamation` | extends it: ledger, leases, maintenance hooks, removal |
| `ExecutionLife` | the abstract specification: one Cell from its making to its removal |
| `ExecutionRefinement` | execution and Reclamation together implement it |
| `ExecutionCellProofs` | TLAPS proofs about all of them |
| `DeliveryCustody` | the Stores of one target: creation, selection, Inbox, archive |
| `DeliveryCustodyProofs` | TLAPS proofs about it |
| `MCDelivery`, `MCStop`, `MCTerminal`, `MCCredential`, `MCExecution`, `MCCustody` | instances for TLC |

How they fit. `DeliveryReducer` is what any journal can be. The others are
drivers that append to it, and refine one piece of it each: `DelegationStop`
what the Store does about a stop while work runs (the reducer only has the
event), `TerminalTransaction` which intents, observations and Closure a call
that may die appends and what is then true of the branch, `ExecutionCell` what
lies between the opening of an Agent or Check activity and its Receipt.
`CellReclamation` composes the execution with the maintenance of other
invocations; `ProviderCredential` is what its proxy is given;
`DeliveryCustody` is around all of them: where the Store is that they append
to, and who may be looking.

Five of these have an abstract specification, which is what a reader who never
opens the code may rely on, and what the detailed model is shown to implement:

| Abstract | Implemented by | What it hides |
|---|---|---|
| `DeliveryLifecycle` | `DeliveryReducer` | activities, receipts, proof |
| `DelegationLedger` | `DeliveryReducer` and `DelegationStop` | what the journal consists of; the request row, the run, callers |
| `TerminalSettlement` | `TerminalTransaction` | calls, intents, observations, locks, lost answers, checkouts |
| `CredentialLease` | `ProviderCredential` | the order of the files, readers, resumption |
| `ExecutionLife` | `CellReclamation` | checkpoint, call, markers, workers, leases, anchor |

`DelegationLedger` is where two models meet: the reducer says what a journal
may hold, `DelegationStop` what several processes write into one beside the
retained request. Both implement the same ledger, so whatever either does to
a delegation is something the ledger allows. In the reducer's mapping no
request is ever asked for (`asked` is FALSE): it has only the event that
carries the stop out.

The mappings say where an abstract step takes place. A terminal attempt is
published when the Git transaction moves the ref, whatever its Store says of
it yet (`Fate`). A lease ends when `state.json` is written: intent and receipt
before it are a decision only, and afterwards they are the record
(`Decision`, `Record`). An execution is handed over when the ledger has
accepted its obligation; the claims and leases of workers are one custody
(`Custody`), and what is left at the Engine is anything under the name of the
execution, its markers included (`Residue`).

Definitions named as variants (`LegalStandingsAcceptEarly`, `DiscardSeal`,
`ClaimableWhileClaimed`, ...) stand just before the definition they vary. They
are slips the code might have had; no specification uses them.

### DeliveryReducer

A behaviour is a journal the reducer accepts: each action is enabled exactly
when the handler of its event kind does not refuse, and assigns what the
handler assigns. The replayed fields map one to one: `subjects` to `proposed`,
`active`, `candidate`, `condition`, `seal`, `evidence`, `closure`;
`activities` to `acts`, whose `resumes` is the step of the recovery
obligation; `delegation` and `delegatedCharges` to `grant` and `charged`.
`StartActivity` is guarded by `EligibleOperations`, as in the code.

Abstracted: a record reference becomes the subject it names (a boundary or a
candidate its revision); the reducer's comparison of a relationship with the
current subject is therefore that subject itself. A completed activity leaves
its slot `Idle`, since the reducer reads nothing of it that other variables do
not keep. `activity-recovery-recorded` is checked against the retained
obligation and changes none of these facts: it is the stuttering step. A
standing brief is submitted for the next delegation revision only; the Store
appends brief and grant in one batch. Expiry is an action because each later
opening is observed after it.

### DelegationStop

`journal` is the part of the Delivery's events that Stop is about, `pending`
the request `requestWorkDelegationStop` retains outside of it, `run` the
foreground run of `runWorkDelegation` with what it read, `callers` the
processes that asked for Stop. The run holds the Delivery lock throughout; a
caller takes it only to fold. The append owner's and the seal's refusals
(`MayAppend`, `Seal`) read the retained request in the Store's own
transaction. An activity that is opened settles, fails with its opening
retained (`Work`), or is settled later by a recovery. Calendar, allowance and
the choice among operations are one decision, open or stop.

### TerminalTransaction

`control` is what a Store retains of the terminal activity, `support` its
kernel row, `call` what a running process knows (its `pc` names the places
where another actor can step in). `Crash` keeps the first two, loses the
third, and drops the target lock, as the operating system does. The branch is
a sequence of commits; people commit, rewrite it, edit, detach and restore the
checkout, and take none of our locks. An acceptance commit is the commit of
an attempt: in the code it is a function of Decision, Candidate and parent.
Reading the refs and judging what was read is one step, because a judgement
is not affected by later moves. A prepared proof is made outside the lock
(`Prepare`, then `relock`), and the Git transaction compares the old value of
the ref (`ParentIsTip`). `Recover` starts only on a Store that can be opened
(`Openable`): an active root with an archive manifest in it cannot.

### ProviderCredential

Each file operation of a transition is a step; a write to a scratch name and
its rename is one. The descriptor lock makes calls exclusive; a call that
finds it taken changes nothing and is left out. `auth.json` alone is also
written by its owner. `Settle` includes what the driver does before: the Cell
is contained and will not be started again (`docker-backend.ts` refuses it).
`session` is a history variable that no action reads, except that `Settle` may
answer "unused" only for a Cell that never had a credential.

### ExecutionCell and CellReclamation

`checkpoint`, `refused`, `handoff`, `receipt` are what is retained; `host` is
the running call; `cell` is what the Engine holds, its markers included. The
branches of `advance` are named predicates (`NeedsHandle`, `Dispatching`,
`Watching`, `Finishing`), and each durable write, command to the Engine and
look at it is an action. An observation is computed from the Cell exactly as
`observationFromInspection` does (`Direct`, `Absence`), and is retained only
if the contracts' consistency rules let it follow the last one (`Follows`).
The Engine may apply an issued start after its client was given up or died;
a Cell exits by itself, its proxy stops alone, other people remove it. `late`
and `lost` remember the two things the Runtime cannot see: they are read by
properties only. An Agent that ran and whose completion was never observed
gets no Receipt (`ATTEMPTS.md`): its call ends each time as it began.

`worker` is an invocation with its maintenance hooks: it claims under a lease,
inspects, confirms, and goes down the removal one Engine object at a time
(`Anchor`, `Remove`, `Clear`, `RemoveVolumes`, `RemoveLeftovers`, `Release`).
Its observation sequence is lost with the process. `standing.holder` stands
for the token of a claim; `LeaseExpires` may fire while its holder works.

### DeliveryCustody

`root` is per Delivery the area its Store root is in and how far its content
is; `creator` is the one call of `delivery.prepare` that drew this identity,
`call` the one that holds the Delivery lock, `reader` somebody who reads the
Inbox (two listings, compared) or selects one Delivery, without any lock.
What happens in a Delivery between its first preparation and its Closure is
one content, `settled`. `reader.actual` and `reader.exposed` are history.

## 3. Runs

| Run | Instance | Shows |
|---|---|---|
| `delivery` | 2 slots, 2 boundaries, 4 candidates, 2 evaluations, a guard and a postcondition selection, 3 dispositions; 299,283 states | type and safety of the reducer, and that it implements `DeliveryLifecycle` |
| `delegation` | 1 slot, 2 grants, 2 boundaries, 3 candidates; 802,067 states | charging within the ceilings, and that the journal is a `DelegationLedger` |
| `stop` | 2 callers, 2 grants, 2 openings, 1 fault; 533,643 states | a stop that was answered holds, and never blocks the seal; all processes together keep a `DelegationLedger` |
| `terminal` | 2 Deliveries, 2 attempts each, 2 observations, 1 move, 1 fault | truth of what is retained about the branch, and that every attempt is settled as `TerminalSettlement` says |
| `credential` | 2 executions, 3 credentials, 2 generations, 2 receipts, 1 move, 1 fault; 392,654 states | one session, resumable intents, that the files implement `CredentialLease`, and that intents conclude |
| `execution` | 2 workers of 1 hook, 1 fault; 463,453 states | one start, containment, truthful Receipts, that all of it is one `ExecutionLife`, retirement and removal |
| `custody` | 2 Deliveries, 2 faults; 294,933 states | what readers are told; nothing retained is removed; what is published settles |
| `next_boundary`, `contention`, `anchor`, `disposal`, `staged` | the smallest that shows it | disagreements, section 6 |

Why these bounds. Two boundaries give one readmission, the only place where
boundary and candidate part; four candidates are initialization, integration,
rebinding and one successor after it; two evaluations let proof be lost and
made again; a second slot is there to be refused. Two grants give a
replacement under a pending stop, two openings work before and after it, two
callers a stop that is asked for twice. Two Deliveries and two attempts give a
refused acceptance followed by a fresh one or by no-ship while the other
publishes; two observations stand for the code's eight, one below and one at
the bound. Two executions contend for the credential and follow each other
with two generations; three credentials are the installed, the refreshed and
a foreign one; two receipts stand for 1024. Two workers overlap on one expired
lease; one hook each, since the sequence a second hook goes on with only
matters to the anchor. Two Deliveries let one be published while the other is
archived under a reader; two faults let a recovery die as well. Elsewhere
faults and moves are bounded by one because they only multiply: one at every
step is what a recovery has to survive. `CHECK_DEADLOCK FALSE` because a
Delivery, a transaction, an execution really ends (closed, archived,
reclaimed), and because the bounds end behaviours.

The instance of the reducer uses the modalities regression guard and
postcondition: one that must pass and one whose baseline is `not-run`. The
other three only widen the set of legal dispositions; the theorems cover all
five. Symmetry is used in the safety run `terminal` alone, over Deliveries,
which that module only compares.

## 4. Fairness

* `TerminalTransaction`: a call goes on and somebody calls `delivery.recover`
  on what is left open, weakly fair (`Progress`); the target lock never waits,
  so that another holder does not win for ever is strong fairness of
  `LockTarget`; so is that whatever refuses the disposition (a Reclamation
  owner, a carrier, a draft) does not do so at each try. A person eventually
  restores the checkout: the code never overwrites it. Faults and moves are
  finitely many.
* `ProviderCredential`: a call goes on; settlement is retried until it gets
  the briefly held lock; the owner reinstates a changed credential, which
  `VALIDATION.md` names as the condition under which "the retained obligation
  continues". Nothing is assumed of claims or readers.
* `DelegationStop`: the foreground run, which is one loop in one process, goes
  on until it ends or dies. Nothing is assumed of callers: a pending stop need
  not be folded by anybody but a run that sees it (`CONTROL.md`: the available
  writer "may fold a settled request").
* `CellReclamation`: the Director recovers what is open (`Call`), a call goes
  on (`HostStep`), the Engine answers an issued start, a runner ends its Cell
  within its wall time (`CellExits`), time passes (`DeadlinePasses`,
  `LeaseExpires`), and every invocation runs its maintenance hooks (`Claim`,
  `WorkerStep`). Nothing is assumed of a proxy or of people.
* `DeliveryCustody`: somebody recovers what is exposed and owes something, and
  a call or a creator goes on until it ends or dies. Nobody has to create,
  close or read anything.

## 5. What is proved

All theorems hold for every value of the constants that the named assumptions
admit: any number of activity slots, grants, callers, Deliveries, faults and
moves, where a run has one or two.

`DeliveryTypeProofs`: `TypeCorrect`, that every reachable state of the reducer
is well-typed. `DeliverySafetyProofs`: `OneOpen`, `ProofCurrent`,
`AcceptanceProven`, `DecisionCurrent`, `MandateIsKept`, `ClosureSettled`. Both
rest on `ConstantsAssumption` alone: modalities are the five of the code, a
mandate has a nonempty baseline and final set, and charges and ceilings are
naturals.

None of these properties is inductive by itself. That acceptance rests on
current proof needs that nothing moved since the acceptance was opened; that
needs that it is the only open activity; and that is kept only because every
open activity owes something, so that `eligibleDeliveryOperations` answers
`delivery.recover` alone. `SafetyInv` joins the properties with what an open
activity has already done: its own Seal is the current one (`OwnSeal`),
effects follow intents and decisions (`EffectOrder`), a finalized boundary
leaves only its baseline to do and completion follows the last required
receipt (`BaselineOrder`), an attempt of an evaluation follows every final
Check (`EvaluationOrder`), and an open acceptance still finds readiness
(`AcceptanceStands`). `InitSafe` and `NextSafe` show it inductive, action by
action; the typing lemmas are used by name.

`DeliveryImplementationProofs`: `Implements`, that `Spec` implies
`DeliveryLifecycle` under the refinement mapping, with `CandidateIsFrozen`,
`OfferSound`, `ChargesAreWithin` and `ReservedIsGoverned`. The refinement needs
more than `SafetyInv`: why an open activity may still do what its operation
does. `Stands` says where the Delivery stands while each operation is open (a
builder that has not observed its revision works under no condition, an
evaluation without a packet has nothing proven, an admission has its proposal),
`Ordered` that a proposal is later than what is admitted and exists only while
work is paused or has not begun. Each event's lemma then names the Lifecycle
action it is, or shows that it is a stutter. The two delegation theorems use
`DelegationInv`, `SafetyInv` with both properties: a grant is replaced or
stopped only while nothing is open, and an admission is never reserved.

`KeepsLedger`, there too, is that `Spec` implies `DelegationLedger`. It needs
`OrderInv` and one fact more (`GrantIsOfThePast`): a grant names a boundary
that is admitted or was, so that a readmission, which admits a later one, leaves
every grant behind and none comes to govern again.

`DelegationStopProofs`: `StopTyped`, `RequestIsCurrent`, `StopIsFinal`,
`FirstRequestIsKept`, `RunReportsCharges`. `StopInv` joins the type invariant
with: the foreground run works under the standing grant or finds that it is
stopped (`RunHolds`), grants only grow (`GrantsAdvance`), a stopped grant has
its stop in the journal (`StoppedIsFolded`), what a caller was answered is the
request that is pending or folded (`AnswersAreOfJournal`), charges since the
run began are counted (`Accounted`). The request stays current because the
Store refuses a closing batch under it, which needs both `MayAppend` and that
folding clears the request in the batch that retains the stop.
`StopKeepsLedger` is that the processes implement `DelegationLedger`. Its
`LedgerInv` adds that a Closure leaves nothing open, that a grant is of an
admission that was, and that what was charged is open work (`Timely`), and that
the foreground run opens work only under a grant that still governs and works
only on what is open (`RunGoverned`): it decides in one step what it appends in
a later one, and a readmission or a Closure must not come between.

`DeliveryCustodyProofs`: `CustodyTyped`, `ReadsTrue`, `RetainedKept`. An Inbox
is two listings compared, and each listing reads the areas one after the
other; that equal listings were true at an instant needs that a Store only
moves on (`MovedOn`: staged, active, archived, never back), so that what is
found in an earlier area is no longer in a later one. `CustodyInv` adds to it
what a reader has seen so far (`Listed`, `Compared`, `Selecting`) and where a
Store of each stage may be (`Placed`).

`TerminalTransactionProofs`: `TransactionTyped`, `RecordIsTrue`,
`ParentIsExact`, `SupportFollows`, `CheckoutIsFollowed`,
`NothingIsRepublished`. `TransactionInv` is the type invariant with six facts
of each Delivery: which events its attempt has retained (`Attempted`), what
they say of the branch (`Truth`), on which parent its commit was built
(`Built`), that its support stands while its activity is open (`Supported`),
that a checkout follows the branch (`Following`), and how far its call has come
(`Working`). Deliveries disturb each other through the branch and the target
lock alone. They are carried by `moved`, which remembers every commit that ever
reached the branch, and by the fact that a call which may still report a
refusal, and has not set `mayHaveApplied`, has published nothing.
`AttemptsAreSettled` is that `Spec` implies `TerminalSettlement`. `SettlementInv`
adds that the parent of an attempt outlives its integration (`Based`) and that
only an acceptance can be refused (`Refusable`). That a refused one has not
reached the branch is `TransactionInv`'s: in the abstract an attempt is
published in the step of a call that may die before it learns of it.

`ProviderCredentialProofs`: `CredentialTyped`, `OneSession`, `IntentHolds`,
`RefreshIsTaken`. A settlement may die between any two of its files. It can be
resumed because its intent names the claim until the receipt names the intent
(`Intent`), and one session is all there is because only a contained execution
settles, so that no reader has the credential any more when the claim is
released (`Cells`). `Installed` determines the content of the file from intent
and claim at every step, while its owner leaves it alone. `CustodyIsLease` is
that `Spec` implies `CredentialLease`: one step, the writing of `state.json`,
ends a lease, and every other file operation decides, installs or is a
stutter. `LeaseInv` adds (`Recorded`) that what a claim was checked for still
holds when it is retained, that the receipt of an active claim is its intent,
and that to release again what a dead call had released changes nothing.

`ExecutionCellProofs` proves about `ExecutionCell` and `CellReclamation`
together: `ReclamationTyped`, `StartIsAuthorized`, `ContainmentHolds`,
`ReceiptIsTrue`, `ReclaimedLeavesNothing`, `EvidenceStays`. Three arguments
carry them: authority to start is consumed once, and nobody who still holds it
can return it (`Ran`); what a worker saw when it decided on containment cannot
be undone after it (`Seeing`, `ContainedAgain`); and after the handoff the
execution's own call acts on the Cell no more, so that what a reclaiming worker
removed stays removed (`LedgerInv`). `EvidenceStays` covers every fact the
checkpoint retains: the opening, the handle, the consumption, the request, the
containment, a terminal process with its reason, the completion, the
disposition of the output and Retirement. `ExecutionIsLife` is that `Spec` implies
`ExecutionLife`, one lemma per group of steps. It needs three facts more
(`Present`): a container at the Engine has its volumes, so that its end or its
removal by others is not the end of what is left; a worker that clears volumes
and markers has no container before it, however many workers clear at once; and
only an Agent is refused before its intent, so that a Check never concludes
otherwise than its output says.

Five theorems state properties that no run repeats, because a refinement that
is checked says them or a stronger proof does: `CandidateIsFrozen`,
`ReservedIsGoverned`, `NothingIsRepublished`, `RefreshIsTaken`,
`ReclaimedLeavesNothing`. `ClosureSettled` is the sixth.

Model-checked only: the liveness properties `IntentConcludes`,
`RetirementFollows`, `RemovalFollows`, `FoldedAfterWork` and
`ExposedIsSettled`, and the statements of the runs that expect a violation.

Liveness under fairness and ENABLED are outside the prover. No module
declares a recursive operator.

## 6. Where the code and its documents disagree

Each is the counterexample of a run; `PROJECT.json` quotes the lines.

1. `next_boundary`: a resolution whose boundary was finalized but whose
   baseline failed keeps the revision number; the next resolution computes it
   again, and can neither finalize nor complete.
2. `contention`: an acceptance that met a busy target lock after its intent is
   recovered as if it might have published, so it is never published and never
   refused.
3. `anchor`: a removal that stopped half way leaves an anchor with a sequence;
   a later process counts its observations from one again, and its refusal is
   swallowed, so the obligation is never reclaimed.
4. `disposal`: a call that dies between archive manifest and rename leaves a
   closed Store that every later opening refuses, and so no recovery archives.
5. `staged`: a creator that dies before it publishes leaves an opened Activity
   under an identity that no later call draws again.

Met on the way, allowed by the documents or outside what a run here can
refute:

* The bound on observations also ends the recovery of an effect that did
  happen: after the last indeterminate one, recovery refuses even when the
  commit is on the branch (a test expects the refusal).
* The compare of the installed credential and the rename over it are not
  atomic towards its owner. A credential changed in between is overwritten;
  one changed between rename and receipt leaves an intent that nothing
  concludes, the one exception in `IntentConcludes` (`Stranded`).
* The second holder of an expired lease may refuse for good, as an integrity
  violation, what the first holder has just removed
  (`execution/docker-backend.ts:960`, `:1436`).
* `docker start` is given up after 30 s (`docker-cli-engine-driver-v1.ts:1254`)
  and the Engine may still apply it. `EXECUTION.md:552-554` accepts that;
  `ContainedForGood` excepts it by name (`late`).
* `delivery.prepare` takes no Delivery lock (`runtime-mutation-v7.ts:795`), so
  that a recovery may overlap the creator once the Store is published, though
  `DELIVERY.md:1632` says that the lock serializes. `ExposedIsSettled` and
  `RetainedIsKept` hold all the same.
* A staged root whose creator died before its database had an identity makes
  every listing of the target fail (`control/delivery-custody.ts:908-927`).

## 7. Not modelled, and the plan

* The refusal of an unselected image before allocation
  (`docker-backend.ts:1049-1105`), the re-observation of a completed Cell that
  became unavailable, and the ceilings on obligations: `CellReclamation`
  follows one obligation.
* The interior of `process/agent-operation-v7.ts` (prompts, Work Products,
  judgement of output) and the program inside the Cell. To the host it is a
  Cell that ends with complete or incomplete output, which `ExecutionCell`
  allows at any time.
* The driver of admission. Its journal is in `DeliveryReducer`; the driver is
  sequential under the target lock and observes carriers and a basis that
  nothing here has a copy of. Its bounds (eight observations, eight candidate
  failures) are the terminal transaction's in another place.
* The bounds of the kernel's progress loop, which end a call, not a Delivery.
* Compilation of records, prompts, views and schemas, and the command line:
  data without shared control.

Every safety property the passing runs check is also a theorem, and so is every
refinement. Still worth doing: the driver of admission as a module of its own
beside `TerminalTransaction`, and an abstract specification of the Delivery
custody (what a reader of the Inbox may be told), to which `ReadsAreTrue` is
the key.
