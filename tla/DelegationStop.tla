---------------------------- MODULE DelegationStop ----------------------------
(* How a Director stops a work delegation.  The request is a row beside the   *)
(* Journal (requestWorkDelegationStop of control/store.ts), retained by a     *)
(* process of its own that does not wait for the Delivery lock; the Journal's *)
(* one writer, whoever holds that lock, folds it into work-delegation-stopped *)
(* (runtime-mutation-v7.ts, process/work-delegation-runtime.ts).              *)
(*                                                                            *)
(* Processes: the foreground run of delegated work, a writer for every other  *)
(* operation (admission, acceptance, grants, recovery), and the callers of    *)
(* Stop.  Each Store transaction is one step.  Any process can die, which     *)
(* drops its lock.  The Journal holds, for every event, the state that replay *)
(* of the events up to it gives, reduced to what a delegation depends on.     *)
EXTENDS Integers, Sequences

CONSTANTS
  Callers,      \* processes that ask for a stop
  MaxGrants,    \* bound: delegations granted
  MaxOpenings,  \* bound: Activities opened; the operations a grant may charge
  MaxFaults     \* bound: deaths and failed operations

ASSUME StopAssumption ==
  MaxGrants \in Nat \ {0} /\ MaxOpenings \in Nat \ {0} /\ MaxFaults \in Nat

VARIABLES
  journal,  \* the replayed state after each event
  pending,  \* the retained stop request, {} or {request}
  sealed,   \* the Store is sealed
  lock,     \* {} or the holder of the Delivery lock
  run,      \* the foreground run of delegated work
  caller,   \* per caller of Stop: where it is, what it knows
  faults

vars == <<journal, pending, sealed, lock, run, caller, faults>>

Grants == 0..MaxGrants
Operations == {"work", "admission", "terminal"}
Requests == [grant : Grants, by : Callers]
Event == [event : {"admitted", "set", "opened", "settled", "stopped", "closed"},
          grant : Grants,             \* the current delegation, 0 before the first
          stopped : BOOLEAN,          \* ... and whether it was stopped
          admission : Nat,            \* readmissions applied
          basis : Nat,                \* the admission the delegation was made under
          open : Operations \union {"none"},
          charged : Nat,              \* lifetime charge of delegated operations
          request : SUBSET Requests]  \* what a stop folded

First == [event |-> "admitted", grant |-> 0, stopped |-> FALSE, admission |-> 0,
          basis |-> 0, open |-> "none", charged |-> 0, request |-> {}]

Idle == [at |-> "idle", grant |-> 0, disposition |-> "none", head |-> 0,
         request |-> {}]
Answered == [Idle EXCEPT !.at = "answered"]
\* start and head: the Journal's head when it began, when it last decided;
\* settled: the operations it reports as completed.
IdleRun == [at |-> "idle", start |-> 1, head |-> 1, settled |-> 0,
            failed |-> FALSE, died |-> FALSE]

Init ==
  /\ journal = <<First>>
  /\ pending = {}
  /\ sealed = FALSE
  /\ lock = {}
  /\ run = IdleRun
  /\ caller = [c \in Callers |-> Idle]
  /\ faults = 0

------------------------------------------------------------------------------
(* The Store.                                                                 *)
HeadSequence == Len(journal)
State == journal[HeadSequence]
Settled == State.open = "none"
Closed == State.event = "closed"
Governs == State.grant # 0 /\ State.basis = State.admission
Openings == Len(SelectSeq(journal, LAMBDA e : e.event = "opened"))

\* The append owner checks the request in the transaction of the event.
MayAppendReserved(event) == event \in {"set", "closed"} => pending = {}
MayAppend(event) ==
  event \in {"opened", "set", "closed"} => pending = {}

Appended(next) == journal' = Append(journal, [next EXCEPT !.request = {}])
\* A stop is folded with its exact request, which the transaction consumes.
Fold ==
  /\ journal' = Append(journal, [State EXCEPT
       !.event = "stopped", !.stopped = TRUE, !.request = pending])
  /\ pending' = {}
FoldStop ==
  IF Settled /\ pending # {} THEN Fold ELSE UNCHANGED <<journal, pending>>

OpenOperation(operation, charge) ==
  /\ Settled /\ ~Closed
  /\ MayAppend("opened")
  /\ Openings < MaxOpenings
  /\ Appended([State EXCEPT !.event = "opened", !.open = operation,
                            !.charged = @ + charge])

Settle(state) == Appended([state EXCEPT !.event = "settled", !.open = "none"])

Fault == faults < MaxFaults /\ faults' = faults + 1

------------------------------------------------------------------------------
(* The foreground run of delegated work: observe and fold, decide, reserve,   *)
(* dispatch, and read back what the dispatch left in the Store.               *)
RunAt(place) == run.at = place
\* A run that ends leaves what it reports as completed.
Finish(completed) ==
  /\ run' = [IdleRun EXCEPT !.settled = completed]
  /\ lock' = {}

StartRun ==
  /\ RunAt("idle") /\ lock = {} /\ ~Closed
  /\ State.grant # 0
  /\ lock' = {"run"}
  /\ run' = [IdleRun EXCEPT !.at = "observe", !.start = HeadSequence]
  /\ UNCHANGED <<journal, pending, sealed, caller, faults>>

Observe ==
  /\ RunAt("observe")
  /\ FoldStop
  /\ run' = [run EXCEPT !.at = "decide"]
  /\ UNCHANGED <<sealed, lock, caller, faults>>

\* The policy stops, or selects an operation on the facts up to this head.
MayDelegateStale == Settled /\ ~State.stopped /\ pending = {}
MayDelegate == Settled /\ ~State.stopped /\ pending = {} /\ Governs
Decide ==
  /\ RunAt("decide")
  /\ \/ Finish(run.settled)
     \/ /\ MayDelegate /\ State.charged < MaxOpenings
        /\ run' = [run EXCEPT !.at = "reserve", !.head = HeadSequence]
        /\ UNCHANGED lock
  /\ UNCHANGED <<journal, pending, sealed, caller, faults>>

Reserve ==
  /\ RunAt("reserve")
  /\ IF pending # {} \/ HeadSequence # run.head THEN Finish(run.settled)
     ELSE run' = [run EXCEPT !.at = "dispatch"] /\ UNCHANGED lock
  /\ UNCHANGED <<journal, pending, sealed, caller, faults>>

\* The operation's owner opens with the reservation and its charge, or throws.
Dispatch ==
  /\ RunAt("dispatch")
  /\ \/ /\ OpenOperation("work", 1)
        /\ run' = [run EXCEPT !.at = "work"]
        /\ UNCHANGED faults
     \/ /\ run' = [run EXCEPT !.at = "return", !.failed = TRUE]
        /\ IF MayAppend("opened") /\ Openings < MaxOpenings THEN Fault
           ELSE UNCHANGED faults
        /\ UNCHANGED journal
  /\ UNCHANGED <<pending, sealed, lock, caller>>

\* It settles what it opened, or throws before or after that.
Work ==
  /\ RunAt("work")
  /\ \E settled, failed \in BOOLEAN :
       /\ settled \/ failed
       /\ IF failed THEN Fault ELSE UNCHANGED faults
       /\ IF settled THEN Settle(State) ELSE UNCHANGED journal
       /\ run' = [run EXCEPT !.at = "return", !.failed = failed]
  /\ UNCHANGED <<pending, sealed, lock, caller>>

\* What the dispatch opened is read from the Store, not from its answer.
CreatedIfReturned == ~run.failed
Created == HeadSequence > run.head
FoldUnlessFailed ==
  IF run.failed THEN UNCHANGED <<journal, pending>> ELSE FoldStop
FoldAfterWork == FoldStop
Report == IF Created /\ Settled THEN run.settled + 1 ELSE run.settled
ReadBack ==
  /\ RunAt("return")
  /\ IF Settled THEN FoldAfterWork ELSE UNCHANGED <<journal, pending>>
  /\ \/ /\ ~Settled \/ run.failed
        /\ Finish(Report)
     \/ /\ Settled /\ ~run.failed
        /\ run' = [run EXCEPT !.at = "observe", !.settled = Report, !.head = 1]
        /\ UNCHANGED lock
  /\ UNCHANGED <<sealed, caller, faults>>

RunDies ==
  /\ ~RunAt("idle")
  /\ Fault
  /\ run' = [IdleRun EXCEPT !.died = TRUE]
  /\ lock' = {}
  /\ UNCHANGED <<journal, pending, sealed, caller>>

Run == Observe \/ Decide \/ Reserve \/ Dispatch \/ Work \/ ReadBack

------------------------------------------------------------------------------
(* The writer: every other operation under the Delivery lock.                 *)
WriterOnly == UNCHANGED <<pending, run, caller>>

SetDelegation ==
  /\ lock = {} /\ Settled /\ ~Closed
  /\ State.grant < MaxGrants
  /\ MayAppend("set")
  /\ Appended([State EXCEPT !.event = "set", !.grant = @ + 1,
                            !.stopped = FALSE, !.basis = State.admission])
  /\ WriterOnly /\ UNCHANGED <<sealed, lock, faults>>

\* Productive work that is not delegated needs that no delegation governs it.
OpenUndelegated(operation) ==
  /\ lock = {}
  /\ operation = "work" => ~Governs \/ State.stopped
  /\ OpenOperation(operation, 0)
  /\ lock' = {"writer"}
  /\ WriterOnly /\ UNCHANGED <<sealed, faults>>

\* Recovery of whatever a dead process left open, or left unsealed.
Recover ==
  /\ lock = {} /\ ~sealed
  /\ ~Settled \/ Closed
  /\ lock' = {"writer"}
  /\ WriterOnly /\ UNCHANGED <<journal, sealed, faults>>

Conclude ==
  /\ lock = {"writer"} /\ ~Settled
  /\ \/ Settle(State)
     \/ State.open = "admission" /\ Settle([State EXCEPT !.admission = @ + 1])
  /\ lock' = {}
  /\ WriterOnly /\ UNCHANGED <<sealed, faults>>

\* An applied terminal Activity completes with the Closure.
Close ==
  /\ lock = {"writer"} /\ State.open = "terminal"
  /\ MayAppend("closed")
  /\ Appended([State EXCEPT !.event = "closed", !.open = "none"])
  /\ WriterOnly /\ UNCHANGED <<sealed, lock, faults>>

Seal ==
  /\ lock = {"writer"} /\ Closed /\ pending = {}
  /\ sealed' = TRUE /\ lock' = {}
  /\ WriterOnly /\ UNCHANGED <<journal, faults>>

WriterDies ==
  /\ lock = {"writer"}
  /\ Fault
  /\ lock' = {}
  /\ WriterOnly /\ UNCHANGED <<journal, sealed>>

Writer ==
  \/ SetDelegation \/ Recover \/ Conclude \/ Close \/ Seal \/ WriterDies
  \/ \E operation \in Operations : OpenUndelegated(operation)

------------------------------------------------------------------------------
(* The callers of Stop: each is one call, and asking again is another one.    *)
At(c, place) == caller[c].at = place
\* The answer binds the head and the request of the transaction it comes from.
Answer(c, place, grant, disposition, request) ==
  caller' = [caller EXCEPT ![c] =
    [at |-> place, grant |-> grant, disposition |-> disposition,
     head |-> HeadSequence', request |-> request]]
StoppedBy(grant) ==
  UNION {journal[n].request : n \in {m \in 1..HeadSequence :
           journal[m].event = "stopped" /\ journal[m].grant = grant}}

\* Stop names a delegation its Director has seen.  The Journal is replayed again
\* inside the transaction of the request.
RetainLatest(c, grant) == {[grant |-> grant, by |-> c]}
RetainBoth(c, grant) == pending \union {[grant |-> grant, by |-> c]}
Retain(c, grant) == IF pending = {} THEN {[grant |-> grant, by |-> c]} ELSE pending

\* Work that closes the Delivery goes its own way.
Terminal == Closed \/ State.open = "terminal"
StoppableWhileClosing == ~State.stopped
Stoppable == ~State.stopped /\ ~Terminal

RequestStop(c) ==
  /\ At(c, "idle") /\ ~sealed
  /\ UNCHANGED <<journal, sealed, lock, run, faults>>
  /\ \E grant \in 1..State.grant :
       \/ /\ grant # State.grant \/ (Terminal /\ ~State.stopped)
          /\ caller' = [caller EXCEPT ![c].at = "answered"]
          /\ UNCHANGED pending
       \/ /\ grant = State.grant /\ State.stopped
          /\ Answer(c, "answered", grant, "stopped", StoppedBy(grant))
          /\ UNCHANGED pending
       \/ /\ grant = State.grant /\ Stoppable
          /\ pending' = Retain(c, grant)
          /\ Answer(c, IF Settled THEN "fold" ELSE "answered", grant, "pending",
                    Retain(c, grant))

\* The fold is tried once and never waits: when the lock is busy, or another
\* delegation was granted meanwhile, the answer stays what it was.
MayFold(c) == lock = {} /\ caller[c].grant = State.grant
TryFold(c) ==
  /\ At(c, "fold")
  /\ \/ /\ MayFold(c) /\ Settled /\ pending # {}
        /\ Fold
        /\ Answer(c, "answered", State.grant, "stopped", pending)
     \/ /\ MayFold(c) /\ State.stopped
        /\ UNCHANGED <<journal, pending>>
        /\ Answer(c, "answered", State.grant, "stopped", StoppedBy(State.grant))
     \/ /\ ~MayFold(c) \/ ~(Settled \/ State.stopped)
        /\ caller' = [caller EXCEPT ![c].at = "answered"]
        /\ UNCHANGED <<journal, pending>>
  /\ UNCHANGED <<sealed, lock, run, faults>>

\* The caller dies with its request retained, before or after the fold.
CallerDies(c) ==
  /\ At(c, "fold")
  /\ Fault
  /\ caller' = [caller EXCEPT ![c] = Answered]
  /\ \/ UNCHANGED <<journal, pending>>
     \/ MayFold(c) /\ Settled /\ pending # {} /\ Fold
  /\ UNCHANGED <<sealed, lock, run>>

Next ==
  \/ StartRun \/ Run \/ RunDies \/ Writer
  \/ \E c \in Callers : RequestStop(c) \/ TryFold(c) \/ CallerDies(c)

Spec == Init /\ [][Next]_vars
\* A run that was started goes on unless it dies: what it dispatches ends within
\* the wall time it reserved.
FairSpec == Spec /\ WF_vars(Run)

------------------------------------------------------------------------------
(* Properties.                                                                *)

\* The Journal, the retained request and every process have their types; at
\* most one request is retained.
TypeOK ==
  /\ journal \in Seq(Event) /\ journal # <<>>
  /\ pending = {} \/ \E request \in Requests : pending = {request}
  /\ sealed \in BOOLEAN
  /\ lock \in {{}, {"run"}, {"writer"}}
  /\ run \in [at : {"idle", "observe", "decide", "reserve", "dispatch", "work",
                     "return"},
               start : Nat, head : Nat, settled : Nat,
               failed : BOOLEAN, died : BOOLEAN]
  /\ caller \in [Callers ->
       [at : {"idle", "fold", "answered"}, grant : Grants,
        disposition : {"none", "pending", "stopped"}, head : Nat,
        request : SUBSET Requests]]
  /\ faults \in 0..MaxFaults

\* A retained request always names the current delegation, not yet stopped, of
\* a Delivery that is neither closed nor closing (verification at store.ts:4046
\* refuses to open any other Store, and nobody could ever fold the request).
PendingIsCurrent ==
  \A request \in pending :
    /\ request.grant = State.grant /\ ~State.stopped
    /\ State.open # "terminal" /\ ~Closed /\ ~sealed

Acknowledged(c) == caller[c].disposition # "none"
\* Once a caller was told that its stop is retained or folded, no operation is
\* charged to that delegation any more (CONTROL.md:354, "a stop that committed
\* first prevents the opening").
AcknowledgedStopHolds ==
  \A c \in Callers : Acknowledged(c) =>
    \A n \in caller[c].head + 1..HeadSequence :
      journal[n].charged > journal[n - 1].charged =>
        journal[n].grant # caller[c].grant

\* The first request stands: what any caller was told is what is still retained
\* or what was folded, whoever asked again and whoever folded it.
FirstRequestStands ==
  \A c \in Callers : Acknowledged(c) =>
    /\ caller[c].request # {}
    /\ caller[c].request =
         StoppedBy(caller[c].grant)
           \union {request \in pending : request.grant = caller[c].grant}

\* A run that ends reports every operation charged to it as completed, but for
\* one it leaves to recovery, also when the dispatch threw after its opening.
ChargesAreReported ==
  [][~RunAt("idle") /\ run'.at = "idle" /\ ~run'.died =>
       LET charged == State.charged - journal[run.start].charged
       IN  IF Settled THEN run'.settled = charged
           ELSE charged \in {run'.settled, run'.settled + 1}]_vars

\* A stop retained while delegated work runs is folded when that work is over,
\* unless the work must be recovered first or the run died.
FoldedAfterWork ==
  (RunAt("work") /\ pending # {}) ~>
    (pending = {} \/ (RunAt("idle") /\ (~Settled \/ run.died)))
=============================================================================
