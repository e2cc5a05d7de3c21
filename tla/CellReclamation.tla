--------------------------- MODULE CellReclamation ----------------------------
(* An execution and the Reclamation of what it leaves: the obligation that    *)
(* Retirement handed to the installation's ledger (execution/reclamation-     *)
(* ledger-v1.ts), taken under a lease by the maintenance hooks that run       *)
(* around every invocation (installed-reclamation-maintenance-v1.ts) and      *)
(* carried out by the backend (reclaim of docker-backend.ts, removeCell of    *)
(* docker-cli-engine-driver-v1.ts).                                           *)
(*                                                                            *)
(* Every invocation is a process of its own, so workers interleave with each  *)
(* other and with the execution's own call.  What a worker knows is lost when *)
(* its process ends, the observation sequence it counted for this Cell with   *)
(* it; the lease of a worker that failed stays until it expires.  A lease is  *)
(* a time (60 s): that it can expire while its holder still works, over a     *)
(* dozen Engine commands of up to 30 s each, is therefore allowed.            *)
EXTENDS ExecutionCell

CONSTANTS
  Workers,    \* invocations with maintenance hooks
  Hooks       \* bound: hooks that reach the obligation in one invocation

ASSUME ReclamationAssumption == Hooks \in Nat \ {0}

VARIABLES
  anchor,    \* 0, or the observation sequence in the anchor's snapshot
  standing,  \* the obligation's row in the ledger
  worker     \* per invocation: how far it is, what it found and counted

vars == <<executionVars, anchor, standing, worker>>

States == {"pending", "claimed", "reclaimed", "integrity-refusal"}
Verdicts == {"remaining", "reclaimed", "integrity-refusal"}
Works == {"idle", "inspect", "confirm", "anchor", "remove", "volumes",
          "leftovers", "release", "recheck", "complete"}
Sequences == 0..3 * Hooks  \* a hook looks at the Cell three times at most

\* holder, nobody or one, stands for the claim's token: every claim has its own.
Standing == [state : States, holder : SUBSET Workers, live : BOOLEAN]
Worker == [at : Works, hook : 0..Hooks - 1, sequence : Sequences,
           inert : BOOLEAN, verdict : Verdicts]
Fresh == [at |-> "idle", hook |-> 0, sequence |-> 0, inert |-> FALSE,
          verdict |-> "remaining"]

Init ==
  /\ ExecutionInit
  /\ anchor = 0
  /\ standing = [state |-> "pending", holder |-> {}, live |-> FALSE]
  /\ worker = [w \in Workers |-> Fresh]

------------------------------------------------------------------------------
Working(w, place) == worker[w].at = place
GoOn(w, place) == worker' = [worker EXCEPT ![w].at = place]
Finds(w, verdict) ==
  worker' = [worker EXCEPT ![w].at = "complete", ![w].verdict = verdict]

\* The hook is over, and after the last one the process.
EndHookAt(w, counted) ==
  worker' = [worker EXCEPT ![w] =
    IF @.hook + 1 = Hooks THEN Fresh
    ELSE [Fresh EXCEPT !.hook = worker[w].hook + 1, !.sequence = counted]]
EndHook(w) == EndHookAt(w, worker[w].sequence)

\* The execution's own records stay; the Engine may change.
Elsewhere == UNCHANGED <<agent, record, host, overdue, runs, late, lost>>
Untouched == Elsewhere /\ UNCHANGED <<cell, anchor, faults>>
Physical == Elsewhere /\ UNCHANGED <<standing, faults>>
Discoverable == ~Gone(cell) \/ anchor # 0

PendingOnly == standing.state = "pending"
\* claimNext: a pending obligation, or one whose holder lost its lease.
Claimable ==
  \/ standing.state = "pending"
  \/ standing.state = "claimed" /\ ~standing.live
Claim(w) ==
  /\ handoff /\ Working(w, "idle") /\ Claimable
  /\ standing' = [state |-> "claimed", holder |-> {w}, live |-> TRUE]
  /\ GoOn(w, "inspect") /\ Untouched

LeaseExpires ==
  /\ standing.state = "claimed" /\ standing.live
  /\ standing' = [standing EXCEPT !.live = FALSE]
  /\ UNCHANGED worker /\ Untouched

\* A removed Cell is known by its anchor, if this process counts beyond it.
Looked(w) == worker[w].sequence + 1
Advances(w) == ~Gone(cell) \/ Looked(w) > anchor

\* reclaim, first look.  Without Cell and anchor, leftovers may remain.
Inspect(w) ==
  /\ Working(w, "inspect")
  /\ IF ~Discoverable THEN GoOn(w, "leftovers")
     ELSE IF Unreadable(cell) THEN EndHook(w)
     ELSE IF ~Advances(w) THEN EndHookAt(w, Looked(w))
     ELSE worker' = [worker EXCEPT ![w].at = "confirm",
            ![w].sequence = Looked(w),
            ![w].inert = \/ Gone(cell)
                         \/ Establishes(Direct(cell), checkpoint.consumed)]
  /\ UNCHANGED standing /\ Untouched

\* #assertExactInspection discovers the Cell's identity afresh.
Confirm(w) ==
  /\ Working(w, "confirm")
  /\ IF Discoverable /\ worker[w].inert THEN GoOn(w, "anchor")
     ELSE Finds(w, "integrity-refusal")
  /\ UNCHANGED standing /\ Untouched

\* removeCell looks again, and anchors the Cell before it removes it.
Anchor(w) ==
  /\ Working(w, "anchor")
  /\ \/ Gone(cell) /\ UNCHANGED anchor
        /\ GoOn(w, IF anchor # 0 THEN "volumes" ELSE "leftovers")
     \/ cell.container = "running" /\ UNCHANGED anchor
        /\ Finds(w, "integrity-refusal")
     \/ /\ cell.container \in {"created", "exited"}
        /\ anchor' = IF anchor = 0 THEN Looked(w) ELSE anchor
        /\ worker' = [worker EXCEPT ![w].at = "remove", ![w].sequence = Looked(w)]
  /\ UNCHANGED cell /\ Physical

\* docker rm refuses a running container.
Remove(w) ==
  /\ Working(w, "remove")
  /\ IF cell.container = "running" THEN Finds(w, "remaining") /\ UNCHANGED cell
     ELSE /\ cell' = [cell EXCEPT !.container = "none", !.starting = FALSE]
          /\ GoOn(w, "volumes")
  /\ UNCHANGED anchor /\ Physical

\* The proxy, the volumes and the markers, of which one may still be in use.
KeepsMarkers == [cell EXCEPT !.proxy = "none", !.volumes = FALSE]
Cleared == [cell EXCEPT !.proxy = "none", !.volumes = FALSE,
              !.dispatched = FALSE, !.cancelled = FALSE]
Clear(w, next) ==
  IF ProxyUp(cell) THEN Finds(w, "remaining") /\ UNCHANGED cell
  ELSE cell' = Cleared /\ GoOn(w, next)

\* An Agent's provider state goes by its anchor only.
RemoveVolumes(w) ==
  /\ Working(w, "volumes")
  /\ IF agent /\ anchor = 0 /\ ~ProxyUp(cell)
     THEN Finds(w, "integrity-refusal") /\ cell' = [cell EXCEPT !.proxy = "none"]
     ELSE Clear(w, "release")
  /\ UNCHANGED anchor /\ Physical

RemoveLeftovers(w) ==
  /\ Working(w, "leftovers")
  /\ Clear(w, "recheck")
  /\ UNCHANGED anchor /\ Physical

\* The anchor stays, for the next attempt.
VolumesRemain(w) ==
  /\ worker[w].at \in {"volumes", "leftovers"} /\ Fault
  /\ Finds(w, "remaining")
  /\ UNCHANGED <<standing, cell, anchor>> /\ Elsewhere

Release(w) ==
  /\ Working(w, "release")
  /\ anchor' = 0
  /\ GoOn(w, "recheck") /\ UNCHANGED cell /\ Physical

Recheck(w) ==
  /\ Working(w, "recheck")
  /\ IF ~Discoverable THEN Finds(w, "reclaimed")
     ELSE IF Unreadable(cell) THEN EndHook(w)
     ELSE IF ~Advances(w) THEN EndHookAt(w, Looked(w))
     ELSE Finds(w, "integrity-refusal")
  /\ UNCHANGED standing /\ Untouched

\* completeClaim: only the exact claim, and only before its lease expires.
HoldsLease(w) ==
  standing.state = "claimed" /\ standing.live /\ standing.holder = {w}
CompleteClaim(w) ==
  /\ Working(w, "complete")
  /\ standing' = IF ~HoldsLease(w) THEN standing
                 ELSE [holder |-> {}, live |-> FALSE, state |->
                   IF worker[w].verdict = "remaining" THEN "pending"
                   ELSE worker[w].verdict]
  /\ EndHook(w) /\ Untouched

\* A command failed and maintain swallows it, or the process died.
WorkerFails(w) ==
  /\ ~Working(w, "idle") /\ Fault
  /\ EndHook(w) \/ worker' = [worker EXCEPT ![w] = Fresh]
  /\ UNCHANGED <<standing, cell, anchor>> /\ Elsewhere

WorkerStep(w) ==
  \/ Inspect(w) \/ Confirm(w) \/ Anchor(w) \/ Remove(w) \/ RemoveVolumes(w)
  \/ RemoveLeftovers(w) \/ Release(w) \/ Recheck(w) \/ CompleteClaim(w)

Next ==
  \/ ExecutionNext /\ UNCHANGED <<anchor, standing, worker>>
  \/ LeaseExpires
  \/ \E w \in Workers : Claim(w) \/ WorkerStep(w) \/ VolumesRemain(w) \/ WorkerFails(w)

Spec == Init /\ [][Next]_vars

\* The Director recovers what is open and goes on invoking the Runtime; the
\* Engine answers, a runner ends its Cell in its wall time, and time passes.
FairSpec ==
  /\ Spec
  /\ WF_executionVars(Call) /\ WF_executionVars(HostStep)
  /\ WF_executionVars(EngineStarts) /\ WF_executionVars(CellExits)
  /\ WF_executionVars(DeadlinePasses) /\ WF_vars(LeaseExpires)
  /\ \A w \in Workers : WF_vars(Claim(w)) /\ WF_vars(WorkerStep(w))

------------------------------------------------------------------------------
(* Properties.                                                                *)

\* The state stays in its domains.
TypeOK ==
  /\ ExecutionTypeOK
  /\ anchor \in Sequences /\ standing \in Standing
  /\ worker \in [Workers -> Worker]

\* An obligation that stands as reclaimed left nothing behind: no container,
\* proxy, volume, marker or anchor, whoever else worked on it meanwhile.
ReclaimedIsGone ==
  standing.state = "reclaimed" =>
    /\ ~Discoverable /\ cell.proxy = "none"
    /\ ~cell.volumes /\ ~cell.dispatched /\ ~cell.cancelled

\* Every handed over Cell is removed in the end, after lost leases, failed
\* commands and deaths; what may stay is its anchor and what that names.
RemovalFollows == handoff ~> Gone(cell) \/ late

\* Every obligation comes to its end, as long as maintenance goes on.
ReclamationFollows ==
  handoff ~> standing.state \in {"reclaimed", "integrity-refusal"}
==============================================================================
