-------------------------- MODULE ExecutionCellProofs --------------------------
(* Proofs about ExecutionCell and CellReclamation, for any number of faults,  *)
(* of invocations that reclaim and of their maintenance hooks.                *)
(*                                                                            *)
(* The authority to start is consumed once and nothing gives it back (Ran).   *)
(* What a call saw of the Cell is true of it or of an earlier Cell, and of    *)
(* what it saw the facts that containment rests on cannot be undone (Seeing): *)
(* so a containment that is recorded later than it was seen still holds       *)
(* (Recorded), also when the output is retrieved again.                       *)
EXTENDS ExecutionRefinement, TLAPS

\* What every answer of the Engine satisfies.
Sound(o) ==
  /\ o \in Observation
  /\ o.process = "terminal" =>
       o.dispatch # "not-observed" /\ (o.inert => o.channel \in Safe)
  /\ o.output = "complete" => o.process = "terminal"

\* The one start, and the authority for it.
Ran ==
  /\ runs \in {0, 1}
  /\ cell.container \in {"running", "exited"} => runs = 1
  /\ cell.starting => cell.container = "created"
  /\ cell.container = "created" => runs = 0
  /\ cell.starting \/ runs = 1 \/ ProxyUp(cell) => checkpoint.consumed

\* Nothing runs, or what runs was started by an Engine that nobody waited for.
Inert == (cell.container # "running" \/ late) /\ ~ProxyUp(cell)

\* What the records say of each other and of the Cell.
Recorded ==
  /\ ~checkpoint.handle => ~checkpoint.consumed /\ ~checkpoint.contained
  /\ checkpoint.contained => Inert
  /\ checkpoint.contained /\ checkpoint.observation.process = "not-started" =>
       runs = 0 \/ late
  /\ checkpoint.contained /\ checkpoint.observation.process = "terminal" =>
       checkpoint.observation.inert
  /\ Sound(checkpoint.observation)
  /\ checkpoint.observation.process = "terminal" => runs = 1
  /\ refused => checkpoint.contained /\ ~checkpoint.consumed
  /\ checkpoint.output # "none" => checkpoint.contained
  /\ checkpoint.output = "valid" => checkpoint.observation.output = "complete"
  /\ checkpoint.retired => checkpoint.output # "none"
  /\ handoff => checkpoint.retired

Receipted ==
  /\ receipt # "none" => At("down")
  /\ receipt = "refused" => refused
  /\ receipt = "not-started" =>
       /\ checkpoint.contained
       /\ checkpoint.observation.process = "not-started"
  /\ receipt = "retrieved" => checkpoint.output = "valid"

\* Where the call is, and what it has established there.
Seeing ==
  /\ ~At("down") /\ ~At("loop") => checkpoint.output = "none"
  /\ At("created") => ~checkpoint.handle
  /\ host.at \notin {"down", "loop", "created"} => checkpoint.handle
  /\ At("ready") => ~checkpoint.consumed /\ ~checkpoint.contained
  /\ host.at \in {"entry", "proxy", "start", "starting"} =>
       checkpoint.consumed /\ ~checkpoint.contained
  /\ host.at \in {"entry", "proxy", "start"} => runs = 0 /\ ~cell.starting
  /\ At("stop") => ~checkpoint.contained
  /\ host.at \in {"observe", "seen"} /\ checkpoint.contained =>
       checkpoint.observation.process = "terminal"
  /\ host.at \in {"ready", "seen"} =>
       Sound(host.seen) /\ (host.seen.process = "terminal" => runs = 1)
  /\ At("seen") =>
       /\ host.seen.process = "not-started" => runs = 0 \/ late
       /\ Establishes(host.seen, checkpoint.consumed) => Inert

ExecutionInv == ExecutionTypeOK /\ Ran /\ Recorded /\ Receipted /\ Seeing

------------------------------------------------------------------------------
(* Observations.                                                              *)
LEMMA Absences ==
  ASSUME NEW b \in BOOLEAN
  PROVE  /\ Sound(Absence(b))
         /\ Absence(b).process \notin {"terminal", "not-started"}
         /\ Absence(b).output # "complete"
         /\ Absence(b).dispatch # "ambiguous" => ~b
         /\ Establishes(Absence(b), b) => ~b
BY DEF Absence, Sound, Observation, Safe, Bytes, Establishes

LEMMA Directs ==
  ASSUME NEW c \in Cell, c.container # "none", agent \in BOOLEAN
  PROVE  /\ Sound(Direct(c))
         /\ Direct(c).process = "terminal" <=> c.container = "exited"
         /\ Direct(c).process = "not-started" <=> c.container = "created"
         /\ Direct(c).inert => c.container # "running" /\ ~ProxyUp(c)
<1> DEFINE exited == c.container = "exited"
           p == IF exited THEN "terminal"
                ELSE IF c.container = "running" THEN "running" ELSE "not-started"
           d == IF exited THEN "terminal-observed"
                ELSE IF c.container = "running" THEN "start-observed"
                ELSE IF c.dispatched THEN "accepted" ELSE "not-observed"
           o == IF exited THEN c.bytes ELSE "not-produced"
           h == IF ~agent \/ c.container = "created" THEN "not-granted"
                ELSE IF exited /\ ~ProxyUp(c) THEN "revoked" ELSE "unverified"
           r == IF ~exited THEN "none"
                ELSE IF c.cancelled THEN "cancelled" ELSE "exited"
           i == c.container # "running" /\ ~ProxyUp(c)
<1>1. /\ c.container \in {"created", "running", "exited"} /\ c.bytes \in Bytes
      /\ i \in BOOLEAN
  BY DEF Cell, Containers
<1>2. /\ p \in {"not-observed", "not-started", "running", "terminal", "ambiguous"}
      /\ d \in {"not-observed", "accepted", "start-observed", "terminal-observed",
                "ambiguous"}
      /\ o \in Bytes \cup {"not-produced", "ambiguous"}
      /\ h \in {"not-granted", "revoked", "unverified"}
      /\ r \in {"none", "exited", "cancelled"}
  BY <1>1
<1>3. /\ p = "terminal" <=> exited
      /\ p = "not-started" <=> c.container = "created"
      /\ exited => d = "terminal-observed" /\ (i => h \in {"not-granted", "revoked"})
      /\ o = "complete" => exited
  BY <1>1
<1>4. Direct(c) = [process |-> p, dispatch |-> d, output |-> o, channel |-> h,
                   reason |-> r, inert |-> i]
  BY DEF Direct
<1> HIDE DEF p, d, o, h, r
<1>5. Direct(c) \in Observation BY <1>1, <1>2, <1>4 DEF Observation
<1>6. /\ Direct(c).process = p /\ Direct(c).dispatch = d /\ Direct(c).output = o
      /\ Direct(c).channel = h /\ Direct(c).inert = i
  BY <1>4
<1> QED BY <1>3, <1>5, <1>6 DEF Sound, Safe

\* A look at the Cell, and what it says of the Cell.
LEMMA Looks ==
  ASSUME ExecutionTypeOK, Ran
  PROVE  LET o == Look(cell, checkpoint.consumed) IN
         /\ Sound(o)
         /\ o.process = "terminal" => runs = 1
         /\ o.process = "not-started" => cell.container = "created"
         /\ Establishes(o, checkpoint.consumed) => Inert
<1> DEFINE o == Look(cell, checkpoint.consumed)
<1>1. /\ agent \in BOOLEAN /\ cell \in Cell /\ checkpoint.consumed \in BOOLEAN
  BY DEF ExecutionTypeOK, Checkpoint
<1>2. CASE Gone(cell)
  <2>1. o = Absence(checkpoint.consumed) BY <1>2 DEF Look
  <2> QED BY <1>1, <1>2, <2>1, Absences DEF Gone, Ran, Inert
<1>3. CASE ~Gone(cell)
  <2>1. o = Direct(cell) /\ cell.container # "none" BY <1>3 DEF Look, Gone
  <2>2. Establishes(o, checkpoint.consumed) => o.inert BY DEF Establishes
  <2> QED BY <1>1, <2>1, <2>2, Directs DEF Ran, Inert
<1> QED BY <1>2, <1>3

LEMMA InitExecution == ExecutionInit => ExecutionInv
<1> SUFFICES ASSUME ExecutionInit PROVE ExecutionInv OBVIOUS
<1> USE ExecutionAssumption
<1>1. Absence(FALSE) \in Observation /\ Sound(Absence(FALSE))
      /\ Absence(FALSE).process \notin {"terminal", "not-started"}
  BY Absences DEF Sound
<1>2. NoCell \in Cell
  BY DEF NoCell, Cell, Containers, Proxies, Bytes
<1>3. NoCheckpoint \in Checkpoint BY <1>1 DEF NoCheckpoint, Checkpoint
<1>4. Down \in [at : Places, seen : Observation] BY <1>1 DEF Down, Places
<1>5. ExecutionTypeOK
  <2>1. receipt \in Receipts /\ runs \in Nat /\ faults \in 0..MaxFaults
    BY DEF ExecutionInit, Receipts
  <2>2. /\ agent \in BOOLEAN /\ refused \in BOOLEAN /\ handoff \in BOOLEAN
        /\ overdue \in BOOLEAN /\ late \in BOOLEAN /\ lost \in BOOLEAN
    BY DEF ExecutionInit
  <2>3. cell \in Cell /\ checkpoint \in Checkpoint
        /\ host \in [at : Places, seen : Observation]
    BY <1>2, <1>3, <1>4 DEF ExecutionInit
  <2> QED BY <2>1, <2>2, <2>3 DEF ExecutionTypeOK
<1>6. Ran BY DEF ExecutionInit, Ran, NoCell, ProxyUp
<1>7. Recorded BY <1>1 DEF ExecutionInit, Recorded, NoCheckpoint
<1>8. Receipted /\ Seeing
  BY DEF ExecutionInit, Receipted, Seeing, Down, At
<1> QED BY <1>5, <1>6, <1>7, <1>8 DEF ExecutionInv

------------------------------------------------------------------------------
(* Steps that no call takes.                                                  *)

\* Whatever goes away or ends leaves the invariant as it is, and so does the
\* end of the call itself.
LEMMA Shrinks ==
  ASSUME ExecutionInv, cell' \in Cell,
         \/ cell'.container \in {cell.container, "none"}
         \/ cell.container = "running" /\ cell'.container = "exited",
         cell'.starting => cell.starting /\ cell'.container = cell.container,
         ProxyUp(cell') => ProxyUp(cell),
         UNCHANGED <<agent, record, runs, late>>,
         overdue' \in BOOLEAN, lost' \in BOOLEAN, faults' \in 0..MaxFaults,
         host' = host \/ host' = Down
  PROVE  ExecutionInv'
<1> USE DEF record
<1>1. /\ ExecutionTypeOK /\ Ran /\ Recorded /\ Receipted /\ Seeing
      /\ cell \in Cell
  BY DEF ExecutionInv, ExecutionTypeOK
<1>2. Down \in [at : Places, seen : Observation] /\ Down.at = "down"
  BY Absences DEF Down, Places, Sound
<1>3. ExecutionTypeOK' BY <1>1, <1>2 DEF ExecutionTypeOK
<1>4. Ran' BY <1>1 DEF Ran
<1>5. Inert => Inert' BY <1>1 DEF Inert
<1>6. Recorded' BY <1>1, <1>5 DEF Recorded
<1>7. Receipted' BY <1>1, <1>2 DEF Receipted, At
<1>8. Seeing'
  <2>1. CASE host' = host BY <1>1, <1>5, <2>1 DEF Seeing, At
  <2>2. CASE host' = Down BY <1>2, <2>2 DEF Seeing, At
  <2> QED BY <2>1, <2>2
<1> QED BY <1>3, <1>4, <1>6, <1>7, <1>8 DEF ExecutionInv

LEMMA Starts ==
  ASSUME ExecutionInv, EngineStarts
  PROVE  ExecutionInv'
<1> USE DEF record, EngineStarts, Unrecorded, At
<1>1. /\ ExecutionTypeOK /\ Ran /\ Recorded /\ Receipted /\ Seeing
      /\ cell \in Cell
  BY DEF ExecutionInv, ExecutionTypeOK
<1>2. /\ cell' \in Cell /\ cell'.container = "running" /\ ~cell'.starting
      /\ cell'.proxy = cell.proxy
  BY <1>1 DEF Cell, Containers
<1>3. /\ runs = 0 /\ runs' = 1 /\ checkpoint.consumed
      /\ late' \in BOOLEAN /\ (~At("starting") => late')
  <2>1. runs = 0 /\ runs' = 1 /\ checkpoint.consumed BY <1>1 DEF Ran
  <2>2. late' = ~At("starting") OBVIOUS
  <2>3. late' \in BOOLEAN /\ (~At("starting") => late') BY <2>2, Zenon
  <2> QED BY <2>1, <2>3
<1>4. ExecutionTypeOK' BY <1>1, <1>2, <1>3 DEF ExecutionTypeOK
<1>5. Ran' BY <1>1, <1>2, <1>3 DEF Ran, ProxyUp
<1>6. Inert /\ ~At("starting") => Inert' BY <1>1, <1>2, <1>3 DEF Inert, ProxyUp
<1>7. checkpoint.contained => ~At("starting") BY <1>1 DEF Seeing, At
<1>8. Recorded' BY <1>1, <1>3, <1>6, <1>7 DEF Recorded
<1>9. Receipted' BY <1>1 DEF Receipted, At
<1>10. Seeing' BY <1>1, <1>3, <1>6 DEF Seeing, At
<1> QED BY <1>4, <1>5, <1>8, <1>9, <1>10 DEF ExecutionInv

LEMMA Outside ==
  ASSUME ExecutionInv,
         Die \/ CellExits \/ ProxyStops \/ DeadlinePasses \/ CellLost
  PROVE  ExecutionInv'
<1> USE DEF record, Calm, Quiet, Unrecorded, Fault
<1>1. /\ cell \in Cell /\ faults \in 0..MaxFaults
      /\ overdue \in BOOLEAN /\ lost \in BOOLEAN
  BY DEF ExecutionInv, ExecutionTypeOK
<1>2. Fault => faults' \in 0..MaxFaults BY <1>1, ExecutionAssumption
<1>3. CASE Die
  <2>1. cell' \in Cell /\ cell'.container = cell.container
        /\ (cell'.starting => cell.starting) /\ cell'.proxy = cell.proxy
    BY <1>1, <1>3 DEF Die, Cell
  <2> QED BY <1>1, <1>2, <1>3, <2>1, Shrinks DEF Die, EndCall, ProxyUp
<1>4. CASE CellExits
  <2>1. cell' \in Cell /\ cell'.container = "exited"
        /\ cell'.starting = cell.starting /\ cell'.proxy = cell.proxy
    BY <1>1, <1>4 DEF CellExits, Exited, Cell, Containers
  <2>2. ~cell.starting BY <1>4 DEF CellExits, ExecutionInv, Ran
  <2> QED BY <1>1, <1>4, <2>1, <2>2, Shrinks DEF CellExits, ProxyUp
<1>5. CASE ProxyStops
  <2>1. cell' \in Cell /\ cell'.container = cell.container
        /\ cell'.starting = cell.starting /\ cell'.proxy = "stopped"
    BY <1>1, <1>5 DEF ProxyStops, Cell, Proxies
  <2> QED BY <1>1, <1>5, <2>1, Shrinks DEF ProxyStops, ProxyUp
<1>6. CASE DeadlinePasses BY <1>1, <1>6, Shrinks DEF DeadlinePasses
<1>7. CASE CellLost
  <2>1. cell' \in Cell /\ cell'.container = "none"
        /\ ~cell'.starting /\ cell'.proxy = cell.proxy
    BY <1>1, <1>7 DEF CellLost, Cell, Containers
  <2> QED BY <1>1, <1>2, <1>7, <2>1, Shrinks DEF CellLost, ProxyUp
<1> QED BY <1>3, <1>4, <1>5, <1>6, <1>7

------------------------------------------------------------------------------
(* Steps of a call that leave the Cell and the records alone.                 *)
LEMMA HostOnly ==
  ASSUME ExecutionInv, UNCHANGED <<agent, cell, record, overdue, runs, late, lost>>,
         faults' \in 0..MaxFaults, host' \in [at : Places, seen : Observation],
         receipt = "none" \/ host'.at = "down", Seeing'
  PROVE  ExecutionInv'
<1> USE DEF record
<1>1. ExecutionTypeOK' BY DEF ExecutionInv, ExecutionTypeOK
<1>2. Ran' BY DEF ExecutionInv, Ran
<1>3. Recorded' BY DEF ExecutionInv, Recorded, Inert
<1>4. Receipted' BY DEF ExecutionInv, Receipted, At
<1> QED BY <1>1, <1>2, <1>3, <1>4 DEF ExecutionInv

LEMMA Goes ==
  ASSUME NEW place \in Places
  PROVE  /\ Goto(place) => /\ host' \in [at : Places, seen : Observation]
                            /\ host'.at = place
         /\ EndCall => /\ host' \in [at : Places, seen : Observation]
                        /\ host'.at = "down"
<1>1. Down \in [at : Places, seen : Observation] /\ Down.at = "down"
  BY Absences DEF Down, Places, Sound
<1>2. ASSUME Goto(place) PROVE host' \in [at : Places, seen : Observation]
                               /\ host'.at = place
  BY <1>1, <1>2 DEF Goto
<1> QED BY <1>1, <1>2 DEF EndCall

LEMMA HostMoves ==
  ASSUME ExecutionInv,
         Call \/ ObserveReadiness \/ StartReturns \/ Observe \/ RetrievalInterrupted
  PROVE  ExecutionInv'
<1> USE DEF record, Calm, Quiet, Unrecorded, At
<1>1. /\ ExecutionTypeOK /\ Ran /\ Recorded /\ Receipted /\ Seeing
      /\ cell \in Cell /\ faults \in 0..MaxFaults
  BY DEF ExecutionInv, ExecutionTypeOK
<1>2. /\ UNCHANGED <<agent, cell, record, overdue, runs, late, lost>>
      /\ faults' \in 0..MaxFaults
  <2>1. Fault => faults' \in 0..MaxFaults BY <1>1, ExecutionAssumption DEF Fault
  <2> QED BY <1>1, <2>1 DEF Call, ObserveReadiness, StartReturns, Observe,
                            RetrievalInterrupted
<1>3. receipt = "none"
  BY <1>1 DEF Receipted, Call, ObserveReadiness, StartReturns, Observe,
              RetrievalInterrupted
<1>4. ASSUME EndCall PROVE ExecutionInv'
  <2>1. host' \in [at : Places, seen : Observation] /\ host'.at = "down"
    BY <1>4, Goes DEF Places
  <2>2. Seeing' BY <1>2, <2>1 DEF Seeing
  <2> QED BY <1>2, <2>1, <2>2, HostOnly
<1>5. CASE Call
  <2>1. host' \in [at : Places, seen : Observation] /\ host'.at = "loop"
    BY <1>5, Goes DEF Call, Places
  <2>2. Seeing' BY <1>2, <2>1 DEF Seeing
  <2> QED BY <1>2, <1>3, <2>1, <2>2, HostOnly
<1>6. CASE StartReturns
  <2>1. host' \in [at : Places, seen : Observation] /\ host'.at = "observe"
    BY <1>6, Goes DEF StartReturns, Places
  <2>2. Seeing' BY <1>1, <1>2, <1>6, <2>1 DEF Seeing, StartReturns
  <2> QED BY <1>2, <1>3, <2>1, <2>2, HostOnly
<1>7. CASE RetrievalInterrupted
  <2>1. Goto(AfterInterruption) /\ host.at = "loop" /\ Validating
    BY <1>7 DEF RetrievalInterrupted
  <2>2. AfterInterruption \in {"down", "observe"} BY DEF AfterInterruption
  <2>3. host' \in [at : Places, seen : Observation] /\ host'.at = AfterInterruption
    BY <2>1, <2>2, Goes DEF Places
  <2>4. /\ checkpoint.contained /\ checkpoint.output = "none"
        /\ checkpoint.observation.output = "complete"
    BY <2>1 DEF Validating, Complete, Finishing
  <2>5. checkpoint.handle /\ checkpoint.observation.process = "terminal"
    BY <1>1, <2>4 DEF Recorded, Sound
  <2>6. Seeing' BY <1>1, <1>2, <2>2, <2>3, <2>4, <2>5 DEF Seeing
  <2> QED BY <1>2, <1>3, <2>3, <2>6, HostOnly
<1>8. checkpoint.consumed \in BOOLEAN BY <1>1 DEF ExecutionTypeOK, Checkpoint
<1>9. ASSUME NEW place \in {"ready", "seen"},
             host' = [at |-> place, seen |-> Look(cell, checkpoint.consumed)]
      PROVE  /\ host' \in [at : Places, seen : Observation] /\ host'.at = place
             /\ host'.seen = Look(cell, checkpoint.consumed)
  BY <1>1, <1>9, Looks DEF Places, Sound
<1>10. CASE ObserveReadiness
  <2>1. /\ Uncontained /\ MayDispatch
        /\ host' = [at |-> IF Gone(cell) THEN "seen" ELSE "ready",
                    seen |-> Look(cell, FALSE)]
    BY <1>10 DEF ObserveReadiness, Dispatching
  <2>2. checkpoint.consumed = FALSE BY <1>8, <2>1 DEF MayDispatch
  <2>3. PICK place \in {"ready", "seen"} :
          host' = [at |-> place, seen |-> Look(cell, checkpoint.consumed)]
    BY <2>1, <2>2
  <2>4. checkpoint.handle /\ ~checkpoint.contained BY <2>1 DEF Uncontained
  <2>5. checkpoint.output = "none" BY <1>1, <2>4 DEF Recorded
  <2>6. runs = 0 BY <1>1, <2>2 DEF Ran
  <2>7. Seeing'
    BY <1>1, <1>2, <1>9, <2>2, <2>3, <2>4, <2>5, <2>6, Looks DEF Seeing, Inert
  <2> QED BY <1>2, <1>3, <1>9, <2>3, <2>7, HostOnly
<1>11. CASE Observe
  <2>1. CASE EndCall BY <1>4, <2>1
  <2>2. CASE ~EndCall
    <3>1. host' = [at |-> "seen", seen |-> Look(cell, checkpoint.consumed)]
      BY <1>11, <2>2 DEF Observe
    <3>2. /\ checkpoint.handle /\ checkpoint.output = "none"
          /\ checkpoint.contained => checkpoint.observation.process = "terminal"
      BY <1>1, <1>11 DEF Observe, Watching, Uncontained, Seeing, Recorded
    <3>3. host'.seen.process = "not-started" => runs = 0
      BY <1>1, <1>9, <3>1, Looks DEF Ran
    <3>4. Seeing'
      BY <1>1, <1>2, <1>9, <3>1, <3>2, <3>3, Looks DEF Seeing, Inert
    <3> QED BY <1>2, <1>3, <1>9, <3>1, <3>4, HostOnly
  <2> QED BY <2>1, <2>2
<1> QED BY <1>5, <1>6, <1>7, <1>10, <1>11

------------------------------------------------------------------------------
(* Steps of a call that act on the Cell.                                      *)
LEMMA CellOnly ==
  ASSUME ExecutionInv, cell' \in Cell,
         UNCHANGED <<agent, record, overdue, runs, late, lost, faults>>,
         host' \in [at : Places, seen : Observation], receipt = "none",
         ~checkpoint.contained, Ran', Seeing'
  PROVE  ExecutionInv'
<1> USE DEF record
<1>1. ExecutionTypeOK' BY DEF ExecutionInv, ExecutionTypeOK
<1>2. Recorded' BY DEF ExecutionInv, Recorded
<1>3. Receipted' BY DEF ExecutionInv, Receipted, At
<1> QED BY <1>1, <1>2, <1>3 DEF ExecutionInv

LEMMA CellMoves ==
  ASSUME ExecutionInv,
         Allocate \/ EnterDispatch \/ StartProxy \/ IssueStart \/ Cancel \/ Stop
  PROVE  ExecutionInv'
<1> USE DEF record, Calm, Quiet, Unrecorded, At
<1>1. /\ ExecutionTypeOK /\ Ran /\ Recorded /\ Receipted /\ Seeing
      /\ cell \in Cell /\ agent \in BOOLEAN /\ faults \in 0..MaxFaults
  BY DEF ExecutionInv, ExecutionTypeOK
<1>2. /\ UNCHANGED <<agent, record, overdue, runs, late, lost, faults>>
      /\ receipt = "none"
  BY <1>1 DEF Receipted, Allocate, EnterDispatch, StartProxy, IssueStart, Cancel, Stop
<1>3. /\ ~checkpoint.contained
      /\ ~Allocate => checkpoint.handle /\ checkpoint.output = "none"
  BY <1>1 DEF Recorded, Seeing, Allocate, EnterDispatch, StartProxy, IssueStart, Cancel,
              Stop, NeedsHandle, Watching, Uncontained
<1>4. ASSUME EndCall, UNCHANGED cell PROVE ExecutionInv'
  <2>1. host' \in [at : Places, seen : Observation] /\ host'.at = "down"
    BY <1>4, Goes DEF Places
  <2>2. Seeing' BY <1>2, <1>4, <2>1 DEF Seeing
  <2> QED BY <1>1, <1>2, <1>4, <2>1, <2>2, HostOnly
<1>5. CASE Allocate
  <2>1. ~checkpoint.handle /\ ~checkpoint.consumed /\ Goto("created")
    BY <1>1, <1>5 DEF Allocate, NeedsHandle, Recorded
  <2>2. host' \in [at : Places, seen : Observation] /\ host'.at = "created"
    BY <2>1, Goes DEF Places
  <2>3. cell' \in Cell /\ Ran'
    <3>1. CASE UNCHANGED cell BY <1>1, <1>2, <3>1 DEF Ran
    <3>2. CASE ~UNCHANGED cell
      <4>1. cell' = [NoCell EXCEPT !.container = "created", !.volumes = TRUE,
                       !.proxy = IF agent THEN "created" ELSE "none"]
        BY <1>5, <3>2 DEF Allocate
      <4>2. cell' \in Cell /\ cell'.container = "created" /\ ~cell'.starting
            /\ cell'.proxy \in {"created", "none"}
        BY <4>1 DEF NoCell, Cell, Containers, Proxies, Bytes
      <4> QED BY <1>1, <1>2, <2>1, <4>2 DEF Ran, ProxyUp
    <3> QED BY <3>1, <3>2
  <2>4. checkpoint.output = "none" BY <1>1, <1>3 DEF Recorded
  <2>5. Seeing' BY <1>2, <2>1, <2>2, <2>4 DEF Seeing
  <2> QED BY <1>2, <1>3, <2>2, <2>3, <2>5, CellOnly
<1>6. CASE EnterDispatch
  <2>1. CASE EndCall /\ UNCHANGED cell BY <1>4, <2>1
  <2>2. CASE ~(EndCall /\ UNCHANGED cell)
    <3>1. PICK place \in {"proxy", "start"} :
            Goto(place) /\ cell' = [cell EXCEPT !.dispatched = TRUE] /\ At("entry")
      BY <1>6, <2>2 DEF EnterDispatch
    <3>2. host' \in [at : Places, seen : Observation] /\ host'.at = place
      BY <3>1, Goes DEF Places
    <3>3. cell' \in Cell /\ cell'.container = cell.container
          /\ cell'.starting = cell.starting /\ cell'.proxy = cell.proxy
      BY <1>1, <3>1 DEF Cell
    <3>4. Ran' BY <1>1, <1>2, <3>3 DEF Ran, ProxyUp
    <3>5. Seeing' BY <1>1, <1>2, <1>3, <1>6, <3>1, <3>2, <3>3 DEF Seeing, EnterDispatch
    <3> QED BY <1>2, <1>3, <3>2, <3>3, <3>4, <3>5, CellOnly
  <2> QED BY <2>1, <2>2
<1>7. CASE StartProxy
  <2>1. CASE EndCall /\ UNCHANGED cell BY <1>4, <2>1
  <2>2. CASE ~(EndCall /\ UNCHANGED cell)
    <3>1. Goto("start") /\ cell' = [cell EXCEPT !.proxy = "running"] /\ At("proxy")
      BY <1>7, <2>2 DEF StartProxy
    <3>2. host' \in [at : Places, seen : Observation] /\ host'.at = "start"
      BY <3>1, Goes DEF Places
    <3>3. cell' \in Cell /\ cell'.container = cell.container
          /\ cell'.starting = cell.starting
      BY <1>1, <3>1 DEF Cell, Proxies
    <3>4. Ran' /\ Seeing'
      BY <1>1, <1>2, <1>3, <1>7, <3>1, <3>2, <3>3 DEF Ran, Seeing, StartProxy
    <3> QED BY <1>2, <1>3, <3>2, <3>3, <3>4, CellOnly
  <2> QED BY <2>1, <2>2
<1>8. CASE IssueStart
  <2>1. CASE EndCall /\ UNCHANGED cell BY <1>4, <2>1
  <2>2. CASE ~(EndCall /\ UNCHANGED cell)
    <3>1. /\ Goto("starting") /\ At("start")
          /\ cell' = [cell EXCEPT !.starting = TRUE]
      BY <1>8, <2>2 DEF IssueStart
    <3>2. host' \in [at : Places, seen : Observation] /\ host'.at = "starting"
      BY <3>1, Goes DEF Places
    <3>3. cell' \in Cell /\ cell'.container = cell.container
          /\ cell'.proxy = cell.proxy
      BY <1>1, <3>1 DEF Cell
    <3>4. Ran' /\ Seeing'
      BY <1>1, <1>2, <1>3, <1>8, <3>1, <3>2, <3>3 DEF Ran, Seeing, ProxyUp, IssueStart
    <3> QED BY <1>2, <1>3, <3>2, <3>3, <3>4, CellOnly
  <2> QED BY <2>1, <2>2
<1>9. CASE Cancel
  <2>1. CASE EndCall /\ UNCHANGED cell BY <1>4, <2>1
  <2>2. CASE ~(EndCall /\ UNCHANGED cell)
    <3>1. Goto("stop") /\ cell' \in {cell, [cell EXCEPT !.cancelled = TRUE]}
      BY <1>9, <2>2 DEF Cancel
    <3>2. host' \in [at : Places, seen : Observation] /\ host'.at = "stop"
      BY <3>1, Goes DEF Places
    <3>3. cell' \in Cell /\ cell'.container = cell.container
          /\ cell'.starting = cell.starting /\ cell'.proxy = cell.proxy
      BY <1>1, <3>1 DEF Cell
    <3>4. Ran' BY <1>1, <1>2, <3>3 DEF Ran, ProxyUp
    <3>5. ~Allocate BY <1>9 DEF Cancel, Allocate, NeedsHandle, Watching, Uncontained
    <3>6. Seeing' BY <1>2, <1>3, <3>2, <3>5 DEF Seeing
    <3> QED BY <1>2, <1>3, <3>2, <3>3, <3>4, <3>6, CellOnly
  <2> QED BY <2>1, <2>2
<1>10. CASE Stop
  <2>1. PICK b \in Bytes :
          LET c == IF cell.container = "running" THEN Exited(cell, b) ELSE cell
          IN cell' = [c EXCEPT !.proxy = IF ProxyUp(c) THEN "stopped" ELSE @]
    BY <1>10 DEF Stop
  <2> DEFINE c == IF cell.container = "running" THEN Exited(cell, b) ELSE cell
  <2>2. c \in Cell /\ c.starting = cell.starting /\ c.proxy = cell.proxy
        /\ (c.container = cell.container
            \/ (cell.container = "running" /\ c.container = "exited"))
    <3>1. CASE cell.container = "running"
      <4>1. c = [cell EXCEPT !.container = "exited", !.bytes = b]
        BY <3>1 DEF Exited
      <4> QED BY <1>1, <3>1, <4>1 DEF Cell, Containers
    <3>2. CASE cell.container # "running" BY <1>1, <3>2
    <3> QED BY <3>1, <3>2
  <2>3. cell' = [c EXCEPT !.proxy = IF ProxyUp(c) THEN "stopped" ELSE c.proxy]
    BY <2>1
  <2> HIDE DEF c
  <2>4. cell' \in Cell /\ cell'.starting = c.starting /\ ~ProxyUp(cell')
        /\ cell'.container = c.container
    BY <2>2, <2>3 DEF Cell, Proxies, ProxyUp
  <2>5. host' \in [at : Places, seen : Observation] /\ host'.at = "observe"
    BY <1>10, Goes DEF Stop, Places
  <2>6. Ran' /\ Seeing'
    BY <1>1, <1>2, <1>3, <1>10, <2>2, <2>4, <2>5 DEF Ran, Seeing, ProxyUp, Stop
  <2> QED BY <1>2, <1>3, <2>4, <2>5, <2>6, CellOnly
<1> QED BY <1>5, <1>6, <1>7, <1>8, <1>9, <1>10

------------------------------------------------------------------------------
(* Steps of a call that commit.                                               *)
LEMMA RecordOnly ==
  ASSUME ExecutionInv, UNCHANGED <<agent, cell, overdue, runs, late, lost, faults>>,
         checkpoint' \in Checkpoint, refused' \in BOOLEAN, handoff' \in BOOLEAN,
         receipt' \in Receipts, host' \in [at : Places, seen : Observation],
         checkpoint.consumed => checkpoint'.consumed,
         Recorded', Receipted', Seeing'
  PROVE  ExecutionInv'
<1>1. ExecutionTypeOK' BY DEF ExecutionInv, ExecutionTypeOK
<1>2. Ran' BY DEF ExecutionInv, Ran
<1> QED BY <1>1, <1>2 DEF ExecutionInv

\* Up to the intent, or the refusal of the Attempt.
LEMMA CommitMoves ==
  ASSUME ExecutionInv, Open \/ RequestContainment \/ RetainHandle \/ Consume \/ RefuseAttempt
  PROVE  ExecutionInv'
<1> USE DEF record, Calm, Quiet, Unrecorded, Retains, At
<1>1. /\ ExecutionTypeOK /\ Ran /\ Recorded /\ Receipted /\ Seeing
      /\ cell \in Cell /\ checkpoint \in Checkpoint /\ agent \in BOOLEAN
      /\ refused \in BOOLEAN /\ handoff \in BOOLEAN /\ receipt \in Receipts
      /\ host \in [at : Places, seen : Observation] /\ faults \in 0..MaxFaults
  BY DEF ExecutionInv, ExecutionTypeOK
<1>2. /\ UNCHANGED <<agent, cell, overdue, runs, late, lost, faults>>
      /\ receipt = "none" /\ UNCHANGED <<handoff, receipt>>
  BY <1>1 DEF Receipted, Open, RequestContainment, RetainHandle, Consume, RefuseAttempt
<1>3. CASE Open
  <2>1. /\ checkpoint' = [checkpoint EXCEPT !.opened = TRUE]
        /\ UNCHANGED <<refused, host>>
    BY <1>3 DEF Open
  <2>2. checkpoint' \in Checkpoint BY <1>1, <2>1 DEF Checkpoint
  <2>3. /\ checkpoint'.handle = checkpoint.handle
        /\ checkpoint'.consumed = checkpoint.consumed
        /\ checkpoint'.contained = checkpoint.contained
        /\ checkpoint'.observation = checkpoint.observation
        /\ checkpoint'.output = checkpoint.output
        /\ checkpoint'.retired = checkpoint.retired
    BY <1>1, <2>1 DEF Checkpoint
  <2>4. Recorded' BY <1>1, <1>2, <2>1, <2>3 DEF Recorded, Inert
  <2>5. Receipted' /\ Seeing' BY <1>1, <1>2, <1>3, <2>1, <2>3 DEF Receipted, Seeing, Open
  <2> QED BY <1>1, <1>2, <2>1, <2>2, <2>3, <2>4, <2>5, RecordOnly
<1>4. CASE RequestContainment
  <2>1. /\ checkpoint' = [checkpoint EXCEPT !.requested = TRUE]
        /\ UNCHANGED <<refused, host>>
    BY <1>4 DEF RequestContainment
  <2>2. checkpoint' \in Checkpoint BY <1>1, <2>1 DEF Checkpoint
  <2>3. /\ checkpoint'.handle = checkpoint.handle
        /\ checkpoint'.consumed = checkpoint.consumed
        /\ checkpoint'.contained = checkpoint.contained
        /\ checkpoint'.observation = checkpoint.observation
        /\ checkpoint'.output = checkpoint.output
        /\ checkpoint'.retired = checkpoint.retired
    BY <1>1, <2>1 DEF Checkpoint
  <2>4. Recorded' BY <1>1, <1>2, <2>1, <2>3 DEF Recorded, Inert
  <2>5. Receipted' /\ Seeing'
    BY <1>1, <1>2, <1>4, <2>1, <2>3 DEF Receipted, Seeing, RequestContainment
  <2> QED BY <1>1, <1>2, <2>1, <2>2, <2>3, <2>4, <2>5, RecordOnly
<1>5. CASE RetainHandle
  <2>1. CASE cell.container # "created"
    <3>1. EndCall /\ UNCHANGED <<checkpoint, refused>> BY <1>5, <2>1 DEF RetainHandle
    <3>2. host' \in [at : Places, seen : Observation] /\ host'.at = "down"
      BY <3>1, Goes DEF Places
    <3>3. Seeing' BY <3>2 DEF Seeing
    <3> QED BY <1>1, <1>2, <3>1, <3>2, <3>3, HostOnly
  <2>2. CASE cell.container = "created"
    <3>1. /\ checkpoint' = [checkpoint EXCEPT !.handle = TRUE, !.observation = Direct(cell)]
          /\ UNCHANGED refused /\ Goto("loop") /\ host.at = "created"
      BY <1>5, <2>2 DEF RetainHandle
    <3>2. /\ ~checkpoint.handle /\ ~checkpoint.consumed /\ ~checkpoint.contained
      BY <1>1, <3>1 DEF Seeing, Recorded
    <3>3. Sound(Direct(cell)) /\ Direct(cell).process # "terminal"
      BY <1>1, <2>2, Directs
    <3>4. checkpoint' \in Checkpoint BY <1>1, <3>1, <3>3 DEF Checkpoint, Sound
    <3>5. /\ checkpoint'.handle /\ checkpoint'.consumed = checkpoint.consumed
          /\ checkpoint'.contained = checkpoint.contained
          /\ checkpoint'.observation = Direct(cell)
          /\ checkpoint'.output = checkpoint.output
          /\ checkpoint'.retired = checkpoint.retired
      BY <1>1, <3>1 DEF Checkpoint
    <3>6. host' \in [at : Places, seen : Observation] /\ host'.at = "loop"
      BY <3>1, Goes DEF Places
    <3>7. Recorded' BY <1>1, <1>2, <3>1, <3>2, <3>3, <3>5 DEF Recorded
    <3>8. Receipted' /\ Seeing' BY <1>1, <1>2, <3>1, <3>6 DEF Receipted, Seeing
    <3> QED BY <1>1, <1>2, <3>1, <3>4, <3>5, <3>6, <3>7, <3>8, RecordOnly
  <2> QED BY <2>1, <2>2
<1>6. CASE Consume
  <2>1. /\ checkpoint' = [checkpoint EXCEPT !.consumed = TRUE, !.observation = host.seen]
        /\ UNCHANGED refused /\ Goto("entry") /\ host.at = "ready"
    BY <1>6 DEF Consume
  <2>2. /\ ~checkpoint.consumed /\ ~checkpoint.contained /\ checkpoint.handle
        /\ checkpoint.output = "none" /\ Sound(host.seen)
        /\ host.seen.process = "terminal" => runs = 1
    BY <1>1, <2>1 DEF Seeing
  <2>3. checkpoint' \in Checkpoint BY <1>1, <2>1, <2>2 DEF Checkpoint, Sound
  <2>4. /\ checkpoint'.handle /\ checkpoint'.consumed
        /\ checkpoint'.contained = checkpoint.contained
        /\ checkpoint'.observation = host.seen
        /\ checkpoint'.output = checkpoint.output
        /\ checkpoint'.retired = checkpoint.retired
    BY <1>1, <2>1, <2>2 DEF Checkpoint
  <2>5. host' \in [at : Places, seen : Observation] /\ host'.at = "entry"
    BY <2>1, Goes DEF Places
  <2>6. runs = 0 /\ ~cell.starting BY <1>1, <2>2 DEF Ran
  <2>7. Recorded' BY <1>1, <1>2, <2>1, <2>2, <2>4 DEF Recorded
  <2>8. Receipted' BY <1>2 DEF Receipted
  <2>9. Seeing' BY <1>2, <2>2, <2>4, <2>5, <2>6 DEF Seeing
  <2> QED BY <1>1, <1>2, <2>1, <2>3, <2>4, <2>5, <2>7, <2>8, <2>9, RecordOnly
<1>7. CASE RefuseAttempt
  <2>1. /\ checkpoint' = [checkpoint EXCEPT !.requested = TRUE,
                            !.observation = host.seen, !.contained = TRUE]
        /\ refused' = TRUE /\ Goto("loop") /\ host.at = "ready"
    BY <1>7 DEF RefuseAttempt
  <2>2. /\ ~checkpoint.consumed /\ ~checkpoint.contained /\ checkpoint.handle
        /\ checkpoint.output = "none" /\ Sound(host.seen)
        /\ host.seen.process = "terminal" => runs = 1
    BY <1>1, <2>1 DEF Seeing
  <2>3. checkpoint' \in Checkpoint BY <1>1, <2>1, <2>2 DEF Checkpoint, Sound
  <2>4. /\ checkpoint'.handle /\ checkpoint'.contained
        /\ checkpoint'.consumed = checkpoint.consumed
        /\ checkpoint'.observation = host.seen
        /\ checkpoint'.output = checkpoint.output
        /\ checkpoint'.retired = checkpoint.retired
    BY <1>1, <2>1, <2>2 DEF Checkpoint
  <2>5. host' \in [at : Places, seen : Observation] /\ host'.at = "loop"
    BY <2>1, Goes DEF Places
  <2>6. runs = 0 /\ Inert BY <1>1, <2>2 DEF Ran, Inert
  <2>7. Recorded' BY <1>1, <1>2, <2>1, <2>2, <2>4, <2>6 DEF Recorded, Inert
  <2>8. Receipted' BY <1>2 DEF Receipted
  <2>9. Seeing' BY <2>5 DEF Seeing
  <2> QED BY <1>1, <1>2, <2>1, <2>2, <2>3, <2>4, <2>5, <2>7, <2>8, <2>9, RecordOnly
<1> QED BY <1>3, <1>4, <1>5, <1>6, <1>7

\* What containment rests on cannot be seen otherwise later.
LEMMA ContainedAgain ==
  ASSUME ExecutionInv, At("seen"), checkpoint.contained,
         Follows(checkpoint.observation, host.seen)
  PROVE  /\ Establishes(host.seen, checkpoint.consumed)
         /\ host.seen.process = "terminal"
         /\ checkpoint.observation.process = "terminal"
<1>1. /\ Ran /\ Recorded /\ Seeing BY DEF ExecutionInv
<1>2. /\ checkpoint.observation.process = "terminal"
      /\ checkpoint.observation.inert
      /\ Sound(checkpoint.observation) /\ Sound(host.seen)
  BY <1>1 DEF Recorded, Seeing, At
<1>3. runs = 1 /\ checkpoint.consumed BY <1>1, <1>2 DEF Recorded, Ran
<1>4. host.seen.process = "terminal" BY <1>2 DEF Follows
<1>5. checkpoint.observation.dispatch # "not-observed" BY <1>2 DEF Sound
<1>6. host.seen.inert BY <1>2, <1>5 DEF Follows
<1>7. host.seen.channel \in Safe BY <1>2, <1>4, <1>6 DEF Sound
<1> QED BY <1>2, <1>3, <1>4, <1>6, <1>7 DEF Establishes

LEMMA ObservationRecorded ==
  ASSUME ExecutionInv, RecordObservation
  PROVE  ExecutionInv'
<1> USE DEF record, Calm, Quiet, Unrecorded, Retains, At
<1>1. /\ ExecutionTypeOK /\ Ran /\ Recorded /\ Receipted /\ Seeing
      /\ cell \in Cell /\ checkpoint \in Checkpoint /\ agent \in BOOLEAN
      /\ refused \in BOOLEAN /\ handoff \in BOOLEAN /\ receipt \in Receipts
      /\ host \in [at : Places, seen : Observation] /\ faults \in 0..MaxFaults
  BY DEF ExecutionInv, ExecutionTypeOK
<1>2. /\ UNCHANGED <<agent, cell, overdue, runs, late, lost, faults>>
      /\ receipt = "none" /\ UNCHANGED <<refused, handoff, receipt>>
      /\ host.at = "seen"
  BY <1>1 DEF Receipted, RecordObservation
<1>3. CASE ~Follows(checkpoint.observation, host.seen)
  <2>1. EndCall /\ UNCHANGED checkpoint BY <1>3 DEF RecordObservation
  <2>2. host' \in [at : Places, seen : Observation] /\ host'.at = "down"
    BY <2>1, Goes DEF Places
  <2>3. Seeing' BY <2>2 DEF Seeing
  <2> QED BY <1>1, <1>2, <2>1, <2>2, <2>3, HostOnly
<1>4. CASE Follows(checkpoint.observation, host.seen)
  <2> DEFINE e == Establishes(host.seen, checkpoint.consumed)
  <2>1. /\ checkpoint' = [checkpoint EXCEPT !.observation = host.seen, !.bound = FALSE,
                                            !.contained = e]
        /\ Goto("loop")
    BY <1>4 DEF RecordObservation
  <2>2. /\ checkpoint.handle /\ checkpoint.output = "none" /\ Sound(host.seen)
        /\ host.seen.process = "terminal" => runs = 1
        /\ host.seen.process = "not-started" => runs = 0 \/ late
        /\ e => Inert
    BY <1>1, <1>2 DEF Seeing
  <2>3. e \in BOOLEAN /\ (e => host.seen.inert)
    BY <2>2 DEF Establishes, Sound, Observation
  <2>4. ~refused
    BY <1>1, <1>2, <1>4, ContainedAgain DEF Recorded, Ran
  <2> HIDE DEF e
  <2>5. checkpoint' \in Checkpoint BY <1>1, <2>1, <2>2, <2>3 DEF Checkpoint, Sound
  <2>6. /\ checkpoint'.handle /\ checkpoint'.contained = e
        /\ checkpoint'.consumed = checkpoint.consumed
        /\ checkpoint'.observation = host.seen
        /\ checkpoint'.output = "none"
        /\ checkpoint'.retired = checkpoint.retired
    BY <1>1, <2>1, <2>2 DEF Checkpoint
  <2>7. host' \in [at : Places, seen : Observation] /\ host'.at = "loop"
    BY <2>1, Goes DEF Places
  <2>8. Recorded' BY <1>1, <1>2, <2>2, <2>3, <2>4, <2>6 DEF Recorded, Inert
  <2>9. Receipted' /\ Seeing' BY <1>2, <2>7 DEF Receipted, Seeing
  <2> QED BY <1>1, <1>2, <2>5, <2>6, <2>7, <2>8, <2>9, RecordOnly
<1> QED BY <1>3, <1>4

\* Output, Retirement, handoff and Receipt.
LEMMA DispositionMoves ==
  ASSUME ExecutionInv,
         \/ CaptureCompletion \/ FinalizeWithoutCarrier \/ ValidateOutput
         \/ RefuseContained \/ Retire \/ HandOff \/ Conclude
  PROVE  ExecutionInv'
<1> USE DEF record, Calm, Quiet, Unrecorded, Retains, At
<1>1. /\ ExecutionTypeOK /\ Ran /\ Recorded /\ Receipted /\ Seeing
      /\ cell \in Cell /\ checkpoint \in Checkpoint /\ agent \in BOOLEAN
      /\ refused \in BOOLEAN /\ handoff \in BOOLEAN /\ receipt \in Receipts
      /\ host \in [at : Places, seen : Observation] /\ faults \in 0..MaxFaults
  BY DEF ExecutionInv, ExecutionTypeOK
<1>2. /\ UNCHANGED <<agent, cell, overdue, runs, late, lost, faults>>
      /\ receipt = "none" /\ host.at = "loop"
  BY <1>1 DEF Receipted, CaptureCompletion, FinalizeWithoutCarrier, ValidateOutput,
              RefuseContained, Retire, HandOff, Conclude
<1>3. ASSUME EndCall, UNCHANGED record PROVE ExecutionInv'
  <2>1. host' \in [at : Places, seen : Observation] /\ host'.at = "down"
    BY <1>3, Goes DEF Places
  <2>2. Seeing' BY <2>1 DEF Seeing
  <2> QED BY <1>1, <1>2, <1>3, <2>1, <2>2, HostOnly
<1>4. CASE CaptureCompletion
  <2>1. CASE EndCall /\ UNCHANGED record BY <1>3, <2>1
  <2>2. CASE ~(EndCall /\ UNCHANGED record)
    <3>1. /\ checkpoint.contained /\ UNCHANGED <<refused, handoff, receipt, host>>
          /\ \/ \E c \in {"observed", "invalid"} :
                   checkpoint' = [checkpoint EXCEPT !.completion = c, !.bound = TRUE]
             \/ checkpoint' = [checkpoint EXCEPT !.output = "unusable"]
          /\ checkpoint.output = "none"
      BY <1>4, <2>2 DEF CaptureCompletion, NeedsCompletion, Complete, Finishing
    <3>2. checkpoint' \in Checkpoint BY <1>1, <3>1 DEF Checkpoint
    <3>3. /\ checkpoint'.handle = checkpoint.handle
          /\ checkpoint'.consumed = checkpoint.consumed
          /\ checkpoint'.contained = checkpoint.contained
          /\ checkpoint'.observation = checkpoint.observation
          /\ checkpoint'.output \in {"none", "unusable"}
          /\ checkpoint'.retired = checkpoint.retired
      BY <1>1, <3>1 DEF Checkpoint
    <3>4. Recorded' BY <1>1, <1>2, <3>1, <3>3 DEF Recorded, Inert
    <3>5. Receipted' /\ Seeing' BY <1>2, <3>1 DEF Receipted, Seeing
    <3> QED BY <1>1, <1>2, <3>1, <3>2, <3>3, <3>4, <3>5, RecordOnly
  <2> QED BY <2>1, <2>2
<1>5. CASE FinalizeWithoutCarrier \/ ValidateOutput
  <2>1. PICK v \in {"not-applicable", "unusable", "valid"} :
          /\ checkpoint' = [checkpoint EXCEPT !.output = v]
          /\ v = "valid" => checkpoint.observation.output = "complete"
    BY <1>5 DEF FinalizeWithoutCarrier, ValidateOutput, Validating, Complete
  <2>2. /\ checkpoint.contained /\ checkpoint.output = "none"
        /\ UNCHANGED <<refused, handoff, receipt, host>>
    BY <1>5 DEF FinalizeWithoutCarrier, ValidateOutput, Validating, Complete, Finishing
  <2>3. checkpoint' \in Checkpoint BY <1>1, <2>1 DEF Checkpoint
  <2>4. /\ checkpoint'.handle = checkpoint.handle
        /\ checkpoint'.consumed = checkpoint.consumed
        /\ checkpoint'.contained = checkpoint.contained
        /\ checkpoint'.observation = checkpoint.observation
        /\ checkpoint'.output = v
        /\ checkpoint'.retired = checkpoint.retired
    BY <1>1, <2>1 DEF Checkpoint
  <2>5. Recorded' BY <1>1, <1>2, <2>1, <2>2, <2>4 DEF Recorded, Inert
  <2>6. Receipted' /\ Seeing' BY <1>2, <2>2 DEF Receipted, Seeing
  <2> QED BY <1>1, <1>2, <2>2, <2>3, <2>4, <2>5, <2>6, RecordOnly
<1>6. CASE RefuseContained
  <2>1. /\ refused' = TRUE /\ UNCHANGED <<host, checkpoint, handoff, receipt>>
        /\ checkpoint.output # "none" /\ ~checkpoint.consumed
    BY <1>6 DEF RefuseContained
  <2>2. Recorded' BY <1>1, <1>2, <2>1 DEF Recorded, Inert
  <2>3. Receipted' /\ Seeing' BY <1>2, <2>1 DEF Receipted, Seeing
  <2> QED BY <1>1, <1>2, <2>1, <2>2, <2>3, RecordOnly
<1>7. CASE Retire
  <2>1. CASE EndCall /\ UNCHANGED record BY <1>3, <2>1
  <2>2. CASE ~(EndCall /\ UNCHANGED record)
    <3>1. /\ checkpoint' = [checkpoint EXCEPT !.retired = TRUE]
          /\ UNCHANGED <<refused, handoff, receipt, host>>
          /\ checkpoint.output # "none"
      BY <1>7, <2>2 DEF Retire
    <3>2. checkpoint' \in Checkpoint BY <1>1, <3>1 DEF Checkpoint
    <3>3. /\ checkpoint'.handle = checkpoint.handle
          /\ checkpoint'.consumed = checkpoint.consumed
          /\ checkpoint'.contained = checkpoint.contained
          /\ checkpoint'.observation = checkpoint.observation
          /\ checkpoint'.output = checkpoint.output
          /\ checkpoint'.retired
      BY <1>1, <3>1 DEF Checkpoint
    <3>4. Recorded' BY <1>1, <1>2, <3>1, <3>3 DEF Recorded, Inert
    <3>5. Receipted' /\ Seeing' BY <1>2, <3>1 DEF Receipted, Seeing
    <3> QED BY <1>1, <1>2, <3>1, <3>2, <3>3, <3>4, <3>5, RecordOnly
  <2> QED BY <2>1, <2>2
<1>8. CASE HandOff
  <2>1. /\ handoff' = TRUE /\ UNCHANGED <<host, checkpoint, refused, receipt>>
        /\ checkpoint.retired
    BY <1>8 DEF HandOff
  <2>2. Recorded' BY <1>1, <1>2, <2>1 DEF Recorded, Inert
  <2>3. Receipted' /\ Seeing' BY <1>2, <2>1 DEF Receipted, Seeing
  <2> QED BY <1>1, <1>2, <2>1, <2>2, <2>3, RecordOnly
<1>9. CASE Conclude
  <2>1. /\ UNCHANGED <<checkpoint, refused, handoff>> /\ EndCall /\ handoff
        /\ receipt' \in Receipts
        /\ receipt' = "refused" => refused
        /\ receipt' = "not-started" => NotStarted
        /\ receipt' = "retrieved" => checkpoint.output = "valid"
    BY <1>1, <1>2, <1>9 DEF Conclude, Receipts
  <2>2. host' \in [at : Places, seen : Observation] /\ host'.at = "down"
    BY <2>1, Goes DEF Places
  <2>3. Recorded' BY <1>1, <1>2, <2>1 DEF Recorded, Inert
  <2>4. checkpoint.contained BY <1>1, <2>1 DEF Recorded
  <2>5. Receipted' /\ Seeing' BY <2>1, <2>2, <2>4 DEF Receipted, Seeing, NotStarted
  <2> QED BY <1>1, <1>2, <2>1, <2>2, <2>3, <2>5, RecordOnly
<1> QED BY <1>4, <1>5, <1>6, <1>7, <1>8, <1>9

LEMMA NextExecution ==
  ASSUME ExecutionInv, ExecutionNext
  PROVE  ExecutionInv'
<1>1. CASE \/ Call \/ ObserveReadiness \/ StartReturns \/ Observe
           \/ RetrievalInterrupted
  BY <1>1, HostMoves
<1>2. CASE Allocate \/ EnterDispatch \/ StartProxy \/ IssueStart \/ Cancel \/ Stop
  BY <1>2, CellMoves
<1>3. CASE Open \/ RequestContainment \/ RetainHandle \/ Consume \/ RefuseAttempt
  BY <1>3, CommitMoves
<1>4. CASE RecordObservation BY <1>4, ObservationRecorded
<1>5. CASE \/ CaptureCompletion \/ FinalizeWithoutCarrier \/ ValidateOutput
           \/ RefuseContained \/ Retire \/ HandOff \/ Conclude
  BY <1>5, DispositionMoves
<1>6. CASE EngineStarts BY <1>6, Starts
<1>7. CASE Die \/ CellExits \/ ProxyStops \/ DeadlinePasses \/ CellLost
  BY <1>7, Outside
<1> QED BY <1>1, <1>2, <1>3, <1>4, <1>5, <1>6, <1>7 DEF ExecutionNext, HostStep

------------------------------------------------------------------------------
(* Reclamation.  After the handoff no call acts on the Cell any more, so what *)
(* a worker has removed stays removed, whoever else works on the obligation.  *)
Clean == cell.proxy = "none" /\ ~cell.volumes /\ ~cell.dispatched /\ ~cell.cancelled

\* At most one look at the Cell up to the anchor, a second to remove it, and a
\* third that ends the hook.
Counts(place) ==
  IF place \in {"idle", "inspect"} THEN 0
  ELSE IF place \in {"confirm", "anchor"} THEN 1 ELSE 2
Counted(r) == r.sequence <= 3 * r.hook + Counts(r.at)

Reaching(r) ==
  /\ r.at # "idle" => handoff
  /\ r.at \in {"release", "recheck"} => Clean
  /\ r.at = "complete" /\ r.verdict = "reclaimed" => Clean /\ ~Discoverable

LedgerTyped ==
  anchor \in Sequences /\ standing \in Standing /\ worker \in [Workers -> Worker]

LedgerInv ==
  /\ LedgerTyped
  /\ \A w \in Workers : Counted(worker[w]) /\ Reaching(worker[w])
  /\ standing.state # "pending" => handoff
  /\ standing.state = "reclaimed" => Clean /\ ~Discoverable

ReclamationInv == ExecutionInv /\ LedgerInv

\* What another step does to the Cell keeps it removed.
KeepsRemoved ==
  /\ Clean => Clean'
  /\ ~Discoverable => ~Discoverable'

LEMMA WorkerShape ==
  ASSUME LedgerTyped, NEW w \in Workers
  PROVE  /\ worker[w] \in Worker
         /\ worker[w].at \in Works /\ worker[w].verdict \in Verdicts
         /\ worker[w].hook \in 0..Hooks - 1 /\ worker[w].sequence \in Sequences
         /\ worker[w].sequence \in Nat /\ worker[w].hook \in Nat
         /\ Hooks \in Nat /\ Hooks # 0
BY ReclamationAssumption DEF LedgerTyped, Worker, Sequences

\* A step of a worker, as a new entry for it.
LEMMA WorkerAfter ==
  ASSUME LedgerTyped, NEW w \in Workers, Counted(worker[w])
  PROVE  /\ \A place \in Works : GoOn(w, place) =>
              \E r \in Worker :
                /\ worker' = [worker EXCEPT ![w] = r]
                /\ r.at = place /\ r.verdict = worker[w].verdict
                /\ r.sequence = worker[w].sequence /\ r.hook = worker[w].hook
         /\ \A v \in Verdicts : Finds(w, v) =>
              \E r \in Worker :
                /\ worker' = [worker EXCEPT ![w] = r]
                /\ r.at = "complete" /\ r.verdict = v /\ Counted(r)
         /\ \A n \in Nat : EndHookAt(w, n) /\ n <= 3 * worker[w].hook + 3 =>
              \E r \in Worker :
                worker' = [worker EXCEPT ![w] = r] /\ r.at = "idle" /\ Counted(r)
<1>1. ASSUME NEW place \in Works, GoOn(w, place)
      PROVE  \E r \in Worker :
               /\ worker' = [worker EXCEPT ![w] = r]
               /\ r.at = place /\ r.verdict = worker[w].verdict
               /\ r.sequence = worker[w].sequence /\ r.hook = worker[w].hook
  <2> DEFINE r == [worker[w] EXCEPT !.at = place]
  <2>1. worker' = [worker EXCEPT ![w] = r] BY <1>1 DEF GoOn
  <2>2. /\ r \in Worker /\ r.at = place /\ r.verdict = worker[w].verdict
        /\ r.sequence = worker[w].sequence /\ r.hook = worker[w].hook
    BY WorkerShape DEF Worker
  <2> QED BY <2>1, <2>2
<1>2. ASSUME NEW v \in Verdicts, Finds(w, v)
      PROVE  \E r \in Worker :
               /\ worker' = [worker EXCEPT ![w] = r]
               /\ r.at = "complete" /\ r.verdict = v /\ Counted(r)
  <2> DEFINE r == [worker[w] EXCEPT !.at = "complete", !.verdict = v]
  <2>1. worker' = [worker EXCEPT ![w] = r] BY <1>2 DEF Finds
  <2>2. /\ r \in Worker /\ r.at = "complete" /\ r.verdict = v
        /\ r.sequence = worker[w].sequence /\ r.hook = worker[w].hook
    BY WorkerShape DEF Worker, Works
  <2>3. Counts(worker[w].at) \in 0..2 /\ Counts("complete") = 2 BY DEF Counts
  <2> HIDE DEF r
  <2>4. Counted(r) BY <2>2, <2>3, WorkerShape DEF Counted
  <2> QED BY <2>1, <2>2, <2>4
<1>3. ASSUME NEW n \in Nat, EndHookAt(w, n), n <= 3 * worker[w].hook + 3
      PROVE  \E r \in Worker :
               worker' = [worker EXCEPT ![w] = r] /\ r.at = "idle" /\ Counted(r)
  <2> DEFINE r == IF worker[w].hook + 1 = Hooks THEN Fresh
                  ELSE [Fresh EXCEPT !.hook = worker[w].hook + 1, !.sequence = n]
  <2>1. worker' = [worker EXCEPT ![w] = r] BY <1>3 DEF EndHookAt
  <2>2. CASE worker[w].hook + 1 = Hooks
    <3>1. r = Fresh BY <2>2
    <3>2. Fresh \in Worker /\ Fresh.at = "idle" /\ Counted(Fresh)
      BY ReclamationAssumption
      DEF Fresh, Worker, Works, Verdicts, Sequences, Counted, Counts
    <3> QED BY <2>1, <3>1, <3>2
  <2>3. CASE worker[w].hook + 1 # Hooks
    <3>1. r = [at |-> "idle", hook |-> worker[w].hook + 1, sequence |-> n,
               inert |-> FALSE, verdict |-> "remaining"]
      BY <2>3 DEF Fresh
    <3> HIDE DEF r
    <3> DEFINE h == worker[w].hook
    <3>2. /\ h \in 0..Hooks - 1 /\ h + 1 # Hooks /\ Hooks \in Nat
          /\ n \in Nat /\ n <= 3 * h + 3
      BY <1>3, <2>3, WorkerShape
    <3> HIDE DEF h
    <3>3. h + 1 \in 0..Hooks - 1 /\ n \in Sequences BY <3>2 DEF Sequences
    <3>4. /\ r \in Worker /\ r.at = "idle" /\ r.hook = h + 1 /\ r.sequence = n
      <4>1. r = [at |-> "idle", hook |-> h + 1, sequence |-> n,
                 inert |-> FALSE, verdict |-> "remaining"]
        BY <3>1 DEF h
      <4> QED BY <3>3, <4>1 DEF Worker, Works, Verdicts
    <3>5. Counted(r) BY <3>2, <3>4 DEF Counted, Counts
    <3> QED BY <2>1, <3>4, <3>5
  <2> QED BY <2>2, <2>3
<1> QED BY <1>1, <1>2, <1>3

\* What every step of a worker does to the rest of the ledger and to the Cell.
LedgerKept ==
  /\ KeepsRemoved /\ UNCHANGED handoff
  /\ anchor' \in Sequences /\ standing' \in Standing
  /\ standing'.state # "pending" => handoff
  /\ standing'.state = "reclaimed" =>
       standing.state = "reclaimed" \/ (Clean' /\ ~Discoverable')

LEMMA LedgerStep ==
  ASSUME LedgerInv, LedgerKept, NEW w \in Workers, NEW r \in Worker,
         worker' = [worker EXCEPT ![w] = r], Counted(r),
         r.at # "idle" => handoff,
         r.at \in {"release", "recheck"} => Clean',
         r.at = "complete" /\ r.verdict = "reclaimed" => Clean' /\ ~Discoverable'
  PROVE  LedgerInv'
<1>1. LedgerTyped' BY DEF LedgerInv, LedgerKept, LedgerTyped
<1>2. worker'[w] = r /\ \A v \in Workers \ {w} : worker'[v] = worker[v]
  BY DEF LedgerInv, LedgerTyped
<1>3. \A v \in Workers : Counted(worker'[v])
  BY <1>2 DEF LedgerInv
<1>4. ASSUME NEW v \in Workers PROVE Reaching(worker[v])'
  <2>1. CASE v = w BY <1>2, <2>1 DEF Reaching, LedgerKept
  <2>2. CASE v # w
    <3>1. Reaching(worker[v]) /\ worker'[v] = worker[v] BY <1>2, <2>2 DEF LedgerInv
    <3> QED BY <3>1 DEF Reaching, LedgerKept, KeepsRemoved
  <2> QED BY <2>1, <2>2
<1>5. \A v \in Workers : Counted(worker[v])' BY <1>3 DEF Counted
<1> QED BY <1>1, <1>4, <1>5 DEF LedgerInv, LedgerKept, KeepsRemoved

LEMMA HookEnds ==
  ASSUME LedgerInv, LedgerKept, NEW w \in Workers,
         EndHook(w) \/ EndHookAt(w, Looked(w))
  PROVE  LedgerInv'
<1>1. LedgerTyped /\ Counted(worker[w]) BY DEF LedgerInv
<1>2. Counts(worker[w].at) \in 0..2 BY DEF Counts
<1>3. PICK n \in Nat : EndHookAt(w, n) /\ n <= 3 * worker[w].hook + 3
  BY <1>1, <1>2, WorkerShape DEF EndHook, Looked, Counted
<1>4. PICK r \in Worker :
        worker' = [worker EXCEPT ![w] = r] /\ r.at = "idle" /\ Counted(r)
  BY <1>1, <1>3, WorkerAfter
<1> QED BY <1>4, LedgerStep

LEMMA HookFinds ==
  ASSUME LedgerInv, LedgerKept, NEW w \in Workers, worker[w].at # "idle",
         NEW v \in Verdicts, Finds(w, v), v = "reclaimed" => Clean' /\ ~Discoverable'
  PROVE  LedgerInv'
<1>1. LedgerTyped /\ Counted(worker[w]) /\ handoff BY DEF LedgerInv, Reaching
<1>2. PICK r \in Worker : /\ worker' = [worker EXCEPT ![w] = r]
                          /\ r.at = "complete" /\ r.verdict = v /\ Counted(r)
  BY <1>1, WorkerAfter
<1> QED BY <1>1, <1>2, LedgerStep

LEMMA HookGoesOn ==
  ASSUME LedgerInv, LedgerKept, NEW w \in Workers, handoff,
         NEW place \in Works \ {"complete"}, GoOn(w, place),
         Counts(worker[w].at) <= Counts(place),
         place \in {"release", "recheck"} => Clean'
  PROVE  LedgerInv'
<1>1. LedgerTyped /\ Counted(worker[w]) BY DEF LedgerInv
<1>2. PICK r \in Worker :
        /\ worker' = [worker EXCEPT ![w] = r] /\ r.at = place
        /\ r.sequence = worker[w].sequence /\ r.hook = worker[w].hook
  BY <1>1, WorkerAfter
<1>3. Counts(worker[w].at) \in 0..2 /\ Counts(place) \in 0..2 BY DEF Counts
<1>4. Counted(r) BY <1>1, <1>2, <1>3, WorkerShape DEF Counted
<1> QED BY <1>2, <1>4, LedgerStep

\* Steps that look and do not act.
LEMMA WorkerLooks ==
  ASSUME ReclamationInv, NEW w \in Workers,
         \/ Claim(w) \/ Inspect(w) \/ Confirm(w) \/ Recheck(w)
         \/ CompleteClaim(w) \/ WorkerFails(w) \/ VolumesRemain(w)
  PROVE  LedgerInv'
<1> USE DEF Working, record, Elsewhere, Untouched
<1>1. /\ LedgerInv /\ LedgerTyped /\ Counted(worker[w]) /\ Reaching(worker[w])
      /\ worker[w].at # "idle" => handoff
      /\ anchor \in Sequences /\ standing \in Standing
      /\ standing.state # "pending" => handoff
  BY DEF ReclamationInv, LedgerInv, LedgerTyped, Reaching
<1>2. UNCHANGED <<cell, anchor, handoff>>
  BY DEF Claim, Inspect, Confirm, Recheck, CompleteClaim, WorkerFails, VolumesRemain
<1>3. KeepsRemoved /\ Clean' = Clean /\ Discoverable' = Discoverable
  BY <1>2 DEF KeepsRemoved, Clean, Discoverable, Gone
<1>4. ASSUME UNCHANGED standing PROVE LedgerKept
  BY <1>1, <1>2, <1>3, <1>4 DEF LedgerKept
<1>5. CASE Claim(w)
  <2>1. handoff /\ GoOn(w, "inspect") /\ worker[w].at = "idle"
        /\ standing' = [state |-> "claimed", holder |-> {w}, live |-> TRUE]
    BY <1>5 DEF Claim
  <2>2. standing' \in Standing /\ standing'.state = "claimed"
    BY <2>1 DEF Standing, States
  <2>3. LedgerKept BY <1>1, <1>2, <1>3, <2>1, <2>2 DEF LedgerKept
  <2>4. Counts("idle") = 0 /\ Counts("inspect") = 0 BY DEF Counts
  <2> QED BY <1>1, <2>1, <2>3, <2>4, HookGoesOn DEF Works
<1>6. CASE Inspect(w)
  <2>1. LedgerKept /\ worker[w].at = "inspect" BY <1>4, <1>6 DEF Inspect
  <2>2. CASE GoOn(w, "leftovers")
    <3>1. Counts("inspect") = 0 /\ Counts("leftovers") = 2 BY DEF Counts
    <3> QED BY <1>1, <2>1, <2>2, <3>1, HookGoesOn DEF Works
  <2>3. CASE EndHook(w) \/ EndHookAt(w, Looked(w)) BY <1>1, <2>1, <2>3, HookEnds
  <2>4. CASE \E i \in BOOLEAN :
               worker' = [worker EXCEPT ![w].at = "confirm",
                            ![w].sequence = Looked(w), ![w].inert = i]
    <3>1. PICK i \in BOOLEAN :
            worker' = [worker EXCEPT ![w].at = "confirm",
                         ![w].sequence = Looked(w), ![w].inert = i]
      BY <2>4
    <3> DEFINE r == [worker[w] EXCEPT !.at = "confirm", !.sequence = Looked(w),
                                      !.inert = i]
    <3>2. worker' = [worker EXCEPT ![w] = r] BY <3>1
    <3>3. Looked(w) \in Sequences /\ Looked(w) <= 3 * worker[w].hook + 1
      <4>1. Counts("inspect") = 0 BY DEF Counts
      <4> QED BY <1>1, <2>1, <4>1, WorkerShape DEF Looked, Counted, Sequences
    <3>4. r \in Worker /\ r.at = "confirm" /\ r.sequence = Looked(w)
          /\ r.hook = worker[w].hook
      BY <1>1, <3>3, WorkerShape DEF Worker, Works
    <3> HIDE DEF r
    <3>5. Counts("confirm") = 1 BY DEF Counts
    <3>6. Counted(r) BY <3>3, <3>4, <3>5 DEF Counted
    <3> QED BY <1>1, <2>1, <3>2, <3>4, <3>6, LedgerStep
  <2>5. (Gone(cell) \/ Establishes(Direct(cell), checkpoint.consumed)) \in BOOLEAN
    BY Zenon
  <2>6. \/ GoOn(w, "leftovers") \/ EndHook(w) \/ EndHookAt(w, Looked(w))
        \/ worker' = [worker EXCEPT ![w].at = "confirm",
              ![w].sequence = Looked(w),
              ![w].inert = \/ Gone(cell)
                           \/ Establishes(Direct(cell), checkpoint.consumed)]
    BY <1>6, Zenon DEF Inspect
  <2> QED BY <2>2, <2>3, <2>4, <2>5, <2>6
<1>7. CASE Confirm(w)
  <2>1. LedgerKept /\ worker[w].at = "confirm" BY <1>4, <1>7 DEF Confirm
  <2>2. CASE GoOn(w, "anchor")
    <3>1. Counts("confirm") = 1 /\ Counts("anchor") = 1 BY DEF Counts
    <3> QED BY <1>1, <2>1, <2>2, <3>1, HookGoesOn DEF Works
  <2>3. CASE Finds(w, "integrity-refusal")
    BY <1>1, <2>1, <2>3, HookFinds DEF Verdicts
  <2> QED BY <1>7, <2>2, <2>3 DEF Confirm
<1>8. CASE Recheck(w)
  <2>1. LedgerKept /\ worker[w].at = "recheck" BY <1>4, <1>8 DEF Recheck
  <2>2. CASE Finds(w, "reclaimed") /\ ~Discoverable
    <3>1. Clean' /\ ~Discoverable' BY <1>1, <1>3, <2>1, <2>2 DEF Reaching
    <3> QED BY <1>1, <2>1, <2>2, <3>1, HookFinds DEF Verdicts
  <2>3. CASE EndHook(w) \/ EndHookAt(w, Looked(w)) BY <1>1, <2>1, <2>3, HookEnds
  <2>4. CASE Finds(w, "integrity-refusal")
    BY <1>1, <2>1, <2>4, HookFinds DEF Verdicts
  <2> QED BY <1>8, <2>2, <2>3, <2>4 DEF Recheck
<1>9. CASE CompleteClaim(w)
  <2>1. EndHook(w) /\ worker[w].at = "complete" /\ handoff BY <1>1, <1>9 DEF CompleteClaim
  <2>2. CASE UNCHANGED standing BY <1>1, <1>4, <2>1, <2>2, HookEnds
  <2>3. CASE ~UNCHANGED standing
    <3> DEFINE v == IF worker[w].verdict = "remaining" THEN "pending"
                    ELSE worker[w].verdict
    <3>1. standing' = [holder |-> {}, live |-> FALSE, state |-> v]
      BY <1>9, <2>3 DEF CompleteClaim
    <3>2. v \in States BY <1>1, WorkerShape DEF Verdicts, States
    <3>3. v = "reclaimed" => Clean' /\ ~Discoverable'
      BY <1>1, <1>3, <2>1 DEF Reaching
    <3> HIDE DEF v
    <3>4. standing' \in Standing /\ standing'.state = v
      BY <3>1, <3>2 DEF Standing
    <3>5. LedgerKept BY <1>1, <1>2, <1>3, <2>1, <3>3, <3>4 DEF LedgerKept
    <3> QED BY <1>1, <2>1, <3>5, HookEnds
  <2> QED BY <2>2, <2>3
<1>10. CASE WorkerFails(w)
  <2>1. LedgerKept BY <1>4, <1>10 DEF WorkerFails
  <2>2. CASE EndHook(w) BY <1>1, <2>1, <2>2, HookEnds
  <2>3. CASE worker' = [worker EXCEPT ![w] = Fresh]
    <3>1. Fresh \in Worker /\ Fresh.at = "idle" /\ Counted(Fresh)
      BY ReclamationAssumption
      DEF Fresh, Worker, Works, Verdicts, Sequences, Counted, Counts
    <3> QED BY <1>1, <2>1, <2>3, <3>1, LedgerStep
  <2> QED BY <1>10, <2>2, <2>3 DEF WorkerFails
<1>11. CASE VolumesRemain(w)
  <2>1. LedgerKept /\ Finds(w, "remaining") /\ worker[w].at # "idle"
    BY <1>4, <1>11 DEF VolumesRemain
  <2> QED BY <1>1, <2>1, HookFinds DEF Verdicts
<1> QED BY <1>5, <1>6, <1>7, <1>8, <1>9, <1>10, <1>11

\* Steps that act on the Cell or its anchor.
LEMMA WorkerActs ==
  ASSUME ReclamationInv, NEW w \in Workers,
         \/ Anchor(w) \/ Remove(w) \/ RemoveVolumes(w) \/ RemoveLeftovers(w)
         \/ Release(w)
  PROVE  LedgerInv' /\ ExecutionInv'
<1> USE DEF Working, record, Elsewhere, Physical
<1>1. /\ LedgerInv /\ LedgerTyped /\ Counted(worker[w]) /\ Reaching(worker[w])
      /\ anchor \in Sequences /\ standing \in Standing
      /\ standing.state # "pending" => handoff
      /\ ExecutionInv /\ cell \in Cell /\ faults \in 0..MaxFaults
      /\ overdue \in BOOLEAN /\ lost \in BOOLEAN
  BY DEF ReclamationInv, LedgerInv, LedgerTyped, ExecutionInv, ExecutionTypeOK
<1>2. /\ UNCHANGED <<standing, agent, record, host, overdue, runs, late, lost, faults>>
      /\ handoff
  BY <1>1 DEF Anchor, Remove, RemoveVolumes, RemoveLeftovers, Release, Reaching
<1>3. ASSUME KeepsRemoved, anchor' \in Sequences PROVE LedgerKept
  BY <1>1, <1>2, <1>3 DEF LedgerKept, KeepsRemoved
<1>4. ASSUME UNCHANGED cell PROVE ExecutionInv'
  BY <1>1, <1>2, <1>4, Shrinks
<1>5. ASSUME UNCHANGED <<cell, anchor>> PROVE LedgerKept
  BY <1>1, <1>3, <1>5 DEF KeepsRemoved, Clean, Discoverable, Gone
<1>6. CASE Anchor(w)
  <2>1. UNCHANGED cell /\ worker[w].at = "anchor" BY <1>6 DEF Anchor
  <2>2. CASE UNCHANGED anchor /\ \E place \in {"volumes", "leftovers"} : GoOn(w, place)
    <3>1. Counts("anchor") = 1 /\ Counts("volumes") = 2 /\ Counts("leftovers") = 2
      BY DEF Counts
    <3> QED BY <1>1, <1>2, <1>4, <1>5, <2>1, <2>2, <3>1, HookGoesOn DEF Works
  <2>3. CASE UNCHANGED anchor /\ Finds(w, "integrity-refusal")
    BY <1>1, <1>4, <1>5, <2>1, <2>3, HookFinds DEF Verdicts
  <2>4. CASE /\ cell.container \in {"created", "exited"}
             /\ anchor' = IF anchor = 0 THEN Looked(w) ELSE anchor
             /\ worker' = [worker EXCEPT ![w].at = "remove", ![w].sequence = Looked(w)]
    <3> DEFINE r == [worker[w] EXCEPT !.at = "remove", !.sequence = Looked(w)]
    <3>1. worker' = [worker EXCEPT ![w] = r] BY <2>4
    <3>2. Looked(w) \in Sequences /\ Looked(w) <= 3 * worker[w].hook + 2
      <4>1. Counts("anchor") = 1 BY DEF Counts
      <4> QED BY <1>1, <2>1, <4>1, WorkerShape DEF Looked, Counted, Sequences
    <3>3. r \in Worker /\ r.at = "remove" /\ r.sequence = Looked(w)
          /\ r.hook = worker[w].hook
      BY <1>1, <3>2, WorkerShape DEF Worker, Works
    <3> HIDE DEF r
    <3>4. Counts("remove") = 2 BY DEF Counts
    <3>5. Counted(r) BY <3>2, <3>3, <3>4 DEF Counted
    <3>6. anchor' \in Sequences BY <1>1, <2>4, <3>2
    <3>7. KeepsRemoved BY <2>1, <2>4 DEF KeepsRemoved, Clean, Discoverable, Gone
    <3> QED BY <1>1, <1>2, <1>3, <1>4, <2>1, <3>1, <3>3, <3>5, <3>6, <3>7, LedgerStep
  <2> QED BY <1>6, <2>2, <2>3, <2>4 DEF Anchor
<1>7. CASE Remove(w)
  <2>1. UNCHANGED anchor /\ worker[w].at = "remove" BY <1>7 DEF Remove
  <2>2. CASE Finds(w, "remaining") /\ UNCHANGED cell
    BY <1>1, <1>4, <1>5, <2>1, <2>2, HookFinds DEF Verdicts
  <2>3. CASE /\ cell' = [cell EXCEPT !.container = "none", !.starting = FALSE]
             /\ GoOn(w, "volumes")
    <3>1. /\ cell' \in Cell /\ cell'.container = "none" /\ ~cell'.starting
          /\ cell'.proxy = cell.proxy /\ cell'.volumes = cell.volumes
          /\ cell'.dispatched = cell.dispatched /\ cell'.cancelled = cell.cancelled
      BY <1>1, <2>3 DEF Cell, Containers
    <3>2. KeepsRemoved BY <2>1, <3>1 DEF KeepsRemoved, Clean, Discoverable, Gone
    <3>3. Counts("remove") = 2 /\ Counts("volumes") = 2 BY DEF Counts
    <3>4. LedgerInv'
      BY <1>1, <1>2, <1>3, <2>1, <2>3, <3>2, <3>3, HookGoesOn DEF Works
    <3>5. ExecutionInv' BY <1>1, <1>2, <3>1, Shrinks DEF ProxyUp
    <3> QED BY <3>4, <3>5
  <2> QED BY <1>7, <2>2, <2>3 DEF Remove
<1>8. ASSUME cell' = Cleared, UNCHANGED anchor, worker[w].at \in {"volumes", "leftovers"},
             NEW place \in {"release", "recheck"}, GoOn(w, place)
      PROVE  LedgerInv' /\ ExecutionInv'
  <2>1. /\ cell' \in Cell /\ cell'.container = cell.container
        /\ cell'.starting = cell.starting /\ cell'.proxy = "none"
        /\ ~cell'.volumes /\ ~cell'.dispatched /\ ~cell'.cancelled
    BY <1>1, <1>8 DEF Cleared, Cell, Proxies
  <2>2. Clean' BY <2>1 DEF Clean
  <2>3. KeepsRemoved BY <1>8, <2>1, <2>2 DEF KeepsRemoved, Discoverable, Gone
  <2>4. Counts("leftovers") = 2 /\ Counts("volumes") = 2
        /\ Counts("release") = 2 /\ Counts("recheck") = 2
    BY DEF Counts
  <2>5. LedgerInv'
    BY <1>1, <1>2, <1>3, <1>8, <2>2, <2>3, <2>4, HookGoesOn DEF Works
  <2>6. ExecutionInv' BY <1>1, <1>2, <2>1, Shrinks DEF ProxyUp
  <2> QED BY <2>5, <2>6
<1>9. ASSUME Finds(w, "remaining"), UNCHANGED <<cell, anchor>>,
             worker[w].at \in {"volumes", "leftovers"}
      PROVE  LedgerInv' /\ ExecutionInv'
  BY <1>1, <1>4, <1>5, <1>9, HookFinds DEF Verdicts
<1>10. CASE RemoveVolumes(w)
  <2>1. UNCHANGED anchor /\ worker[w].at = "volumes" BY <1>10 DEF RemoveVolumes
  <2>2. CASE Finds(w, "integrity-refusal") /\ cell' = [cell EXCEPT !.proxy = "none"]
    <3>1. /\ cell' \in Cell /\ cell'.container = cell.container
          /\ cell'.starting = cell.starting /\ cell'.proxy = "none"
          /\ cell'.volumes = cell.volumes
          /\ cell'.dispatched = cell.dispatched /\ cell'.cancelled = cell.cancelled
      BY <1>1, <2>2 DEF Cell, Proxies
    <3>2. KeepsRemoved BY <2>1, <3>1 DEF KeepsRemoved, Clean, Discoverable, Gone
    <3>3. LedgerInv' BY <1>1, <1>3, <2>1, <2>2, <3>2, HookFinds DEF Verdicts
    <3>4. ExecutionInv' BY <1>1, <1>2, <3>1, Shrinks DEF ProxyUp
    <3> QED BY <3>3, <3>4
  <2>3. CASE Clear(w, "release") BY <1>8, <1>9, <2>1, <2>3 DEF Clear
  <2> QED BY <1>10, <2>2, <2>3 DEF RemoveVolumes
<1>11. CASE RemoveLeftovers(w)
  <2>1. UNCHANGED anchor /\ worker[w].at = "leftovers" /\ Clear(w, "recheck")
    BY <1>11 DEF RemoveLeftovers
  <2> QED BY <1>8, <1>9, <2>1 DEF Clear
<1>12. CASE Release(w)
  <2>1. anchor' = 0 /\ UNCHANGED cell /\ GoOn(w, "recheck") /\ worker[w].at = "release"
    BY <1>12 DEF Release
  <2>2. KeepsRemoved /\ (Clean => Clean')
    BY <2>1 DEF KeepsRemoved, Clean, Discoverable, Gone
  <2>3. Clean' BY <1>1, <2>1, <2>2 DEF Reaching
  <2>4. 0 \in Sequences BY ReclamationAssumption DEF Sequences
  <2>5. Counts("release") = 2 /\ Counts("recheck") = 2 BY DEF Counts
  <2>6. LedgerInv'
    BY <1>1, <1>2, <1>3, <2>1, <2>2, <2>3, <2>4, <2>5, HookGoesOn DEF Works
  <2> QED BY <1>4, <2>1, <2>6
<1> QED BY <1>6, <1>7, <1>10, <1>11, <1>12

LEMMA WorkerLooksOnly ==
  ASSUME ExecutionInv, NEW w \in Workers,
         \/ Claim(w) \/ Inspect(w) \/ Confirm(w) \/ Recheck(w)
         \/ CompleteClaim(w) \/ WorkerFails(w) \/ VolumesRemain(w)
  PROVE  ExecutionInv'
<1> USE DEF Elsewhere, Untouched, record
<1>1. /\ cell \in Cell /\ faults \in 0..MaxFaults
      /\ overdue \in BOOLEAN /\ lost \in BOOLEAN
  BY DEF ExecutionInv, ExecutionTypeOK
<1>2. Fault => faults' \in 0..MaxFaults BY <1>1, ExecutionAssumption DEF Fault
<1>3. /\ UNCHANGED <<cell, agent, record, host, overdue, runs, late, lost>>
      /\ faults' \in 0..MaxFaults
  BY <1>1, <1>2 DEF Claim, Inspect, Confirm, Recheck, CompleteClaim, WorkerFails,
                    VolumesRemain
<1> QED BY <1>1, <1>3, Shrinks

LEMMA LeaseGone ==
  ASSUME ReclamationInv, LeaseExpires
  PROVE  LedgerInv' /\ ExecutionInv'
<1> USE DEF Elsewhere, Untouched, record, LeaseExpires
<1>1. /\ LedgerInv /\ standing \in Standing /\ standing.state = "claimed" /\ handoff
      /\ \A w \in Workers : Counted(worker[w]) /\ Reaching(worker[w])
  BY DEF ReclamationInv, LedgerInv, LedgerTyped
<1>2. standing' \in Standing /\ standing'.state = "claimed" BY <1>1 DEF Standing
<1>3. LedgerTyped' BY <1>1, <1>2 DEF LedgerInv, LedgerTyped
<1>4. UNCHANGED <<Clean, Discoverable, handoff, worker>>
  BY DEF Clean, Discoverable, Gone
<1>5. \A w \in Workers : Counted(worker[w])' /\ Reaching(worker[w])'
  BY <1>1, <1>4 DEF Counted, Reaching
<1>6. LedgerInv' BY <1>1, <1>2, <1>3, <1>4, <1>5 DEF LedgerInv
<1>7. ExecutionInv'
  <2>1. /\ ExecutionInv /\ cell \in Cell /\ faults \in 0..MaxFaults
        /\ overdue \in BOOLEAN /\ lost \in BOOLEAN
    BY DEF ReclamationInv, ExecutionInv, ExecutionTypeOK
  <2> QED BY <2>1, Shrinks
<1> QED BY <1>6, <1>7

\* After the handoff the execution's own call acts on the Cell no more, and
\* the Engine starts nothing that is not there.
LEMMA ExecutionKeeps ==
  ASSUME ReclamationInv, ExecutionNext, UNCHANGED <<anchor, standing, worker>>
  PROVE  LedgerInv'
<1> USE DEF record, Calm, Quiet, Unrecorded, At
<1>1. /\ LedgerInv /\ Ran /\ Recorded /\ Seeing /\ handoff \in BOOLEAN
  BY DEF ReclamationInv, ExecutionInv, ExecutionTypeOK
<1>2. handoff => handoff'
  <2>1. CASE HostStep
    BY <2>1 DEF HostStep, Open, Allocate, RetainHandle, RequestContainment,
      ObserveReadiness, Consume, RefuseAttempt, EnterDispatch, StartProxy, IssueStart,
      StartReturns, Observe, Cancel, Stop, RecordObservation, CaptureCompletion,
      FinalizeWithoutCarrier, ValidateOutput, RetrievalInterrupted, RefuseContained,
      Retire, HandOff, Conclude, Retains
  <2>2. CASE ~HostStep
    BY <2>2 DEF ExecutionNext, Call, Die, EngineStarts, CellExits, ProxyStops,
      DeadlinePasses, CellLost
  <2> QED BY <2>1, <2>2
<1>3. ASSUME handoff PROVE KeepsRemoved
  <2>1. /\ checkpoint.handle /\ checkpoint.contained /\ checkpoint.output # "none"
    BY <1>1, <1>3 DEF Recorded
  <2>2. host.at \in {"down", "loop"} BY <1>1, <2>1 DEF Seeing
  <2>3. \/ UNCHANGED cell \/ Die \/ EngineStarts \/ CellExits \/ ProxyStops
        \/ CellLost
    <3>1. CASE HostStep
      BY <2>1, <2>2, <3>1
      DEF HostStep, Open, Allocate, RetainHandle, RequestContainment,
        ObserveReadiness, Consume, RefuseAttempt, EnterDispatch, StartProxy, IssueStart,
        StartReturns, Observe, Cancel, Stop, RecordObservation, CaptureCompletion,
        FinalizeWithoutCarrier, ValidateOutput, RetrievalInterrupted, RefuseContained,
        Retire, HandOff, Conclude, NeedsHandle, Watching, Uncontained
    <3>2. CASE ~HostStep BY <3>2 DEF ExecutionNext, Call, DeadlinePasses
    <3> QED BY <3>1, <3>2
  <2>4. cell \in Cell BY DEF ReclamationInv, ExecutionInv, ExecutionTypeOK
  <2>5. /\ cell.proxy = "none" => cell'.proxy = "none"
        /\ cell'.volumes = cell.volumes
        /\ cell'.dispatched = cell.dispatched /\ cell'.cancelled = cell.cancelled
        /\ cell.container = "none" => cell'.container = "none"
    <3>1. CASE UNCHANGED cell BY <3>1
    <3>2. CASE Die BY <2>4, <3>2 DEF Die, Cell
    <3>3. CASE EngineStarts BY <1>1, <2>4, <3>3 DEF EngineStarts, Ran, Cell
    <3>4. CASE CellExits BY <2>4, <3>4 DEF CellExits, Exited, Cell
    <3>5. CASE ProxyStops BY <2>4, <3>5 DEF ProxyStops, ProxyUp, Cell
    <3>6. CASE CellLost BY <2>4, <3>6 DEF CellLost, Cell
    <3> QED BY <2>3, <3>1, <3>2, <3>3, <3>4, <3>5, <3>6
  <2> QED BY <2>5 DEF KeepsRemoved, Clean, Discoverable, Gone
<1>4. LedgerTyped' BY <1>1 DEF LedgerInv, LedgerTyped
<1>5. ASSUME NEW w \in Workers PROVE Counted(worker[w])' /\ Reaching(worker[w])'
  <2>1. Counted(worker[w]) /\ Reaching(worker[w]) BY <1>1 DEF LedgerInv
  <2>2. Counted(worker[w])' BY <2>1 DEF Counted
  <2>3. CASE handoff BY <1>2, <1>3, <2>1, <2>3 DEF Reaching, KeepsRemoved
  <2>4. CASE ~handoff BY <2>1, <2>4 DEF Reaching
  <2> QED BY <2>2, <2>3, <2>4
<1>6. /\ standing'.state # "pending" => handoff'
      /\ standing'.state = "reclaimed" => Clean' /\ ~Discoverable'
  BY <1>1, <1>2, <1>3 DEF LedgerInv, KeepsRemoved
<1> QED BY <1>4, <1>5, <1>6 DEF LedgerInv

------------------------------------------------------------------------------
(* The invariant.                                                             *)
LEMMA InitReclamation == Init => ReclamationInv
<1> SUFFICES ASSUME Init PROVE ReclamationInv OBVIOUS
<1>1. ExecutionInv BY InitExecution DEF Init
<1>2. Fresh \in Worker /\ Fresh.at = "idle" /\ Counted(Fresh)
  BY ReclamationAssumption
  DEF Fresh, Worker, Works, Verdicts, Sequences, Counted, Counts
<1>3. LedgerTyped
  <2>1. anchor \in Sequences BY ReclamationAssumption DEF Init, Sequences
  <2>2. standing \in Standing
    <3>1. standing = [state |-> "pending", holder |-> {}, live |-> FALSE] BY DEF Init
    <3> QED BY <3>1 DEF Standing, States
  <2>3. worker \in [Workers -> Worker] BY <1>2 DEF Init
  <2> QED BY <2>1, <2>2, <2>3 DEF LedgerTyped
<1>4. \A w \in Workers : Counted(worker[w]) /\ Reaching(worker[w])
  BY <1>2 DEF Init, Reaching
<1>5. standing.state = "pending" BY DEF Init
<1> QED BY <1>1, <1>3, <1>4, <1>5 DEF ReclamationInv, LedgerInv

LEMMA NextReclamation == ReclamationInv /\ [Next]_vars => ReclamationInv'
<1> SUFFICES ASSUME ReclamationInv, [Next]_vars PROVE ReclamationInv' OBVIOUS
<1>1. ExecutionInv BY DEF ReclamationInv
<1>2. CASE ExecutionNext /\ UNCHANGED <<anchor, standing, worker>>
  BY <1>1, <1>2, NextExecution, ExecutionKeeps DEF ReclamationInv
<1>3. CASE LeaseExpires
  BY <1>3, LeaseGone DEF ReclamationInv
<1>4. ASSUME NEW w \in Workers,
             Claim(w) \/ WorkerStep(w) \/ VolumesRemain(w) \/ WorkerFails(w)
      PROVE  ReclamationInv'
  <2>1. CASE \/ Claim(w) \/ Inspect(w) \/ Confirm(w) \/ Recheck(w)
             \/ CompleteClaim(w) \/ WorkerFails(w) \/ VolumesRemain(w)
    BY <1>1, <2>1, WorkerLooks, WorkerLooksOnly DEF ReclamationInv
  <2>2. CASE \/ Anchor(w) \/ Remove(w) \/ RemoveVolumes(w) \/ RemoveLeftovers(w)
             \/ Release(w)
    BY <2>2, WorkerActs DEF ReclamationInv
  <2> QED BY <1>4, <2>1, <2>2 DEF WorkerStep
<1>5. CASE UNCHANGED vars
  <2> USE DEF vars, executionVars, record
  <2>1. ExecutionInv'
    <3>1. ExecutionTypeOK' /\ Ran' BY <1>1, <1>5 DEF ExecutionInv, ExecutionTypeOK, Ran
    <3>2. Recorded' BY <1>1, <1>5 DEF ExecutionInv, Recorded, Inert
    <3>3. Receipted' /\ Seeing'
      BY <1>1, <1>5 DEF ExecutionInv, Receipted, Seeing, Inert, At
    <3> QED BY <3>1, <3>2, <3>3 DEF ExecutionInv
  <2>2. UNCHANGED <<Clean, Discoverable, handoff, worker, anchor, standing>>
    BY <1>5 DEF Clean, Discoverable, Gone
  <2>3. LedgerInv BY DEF ReclamationInv
  <2>4. LedgerTyped' BY <2>2, <2>3 DEF LedgerInv, LedgerTyped
  <2>5. \A w \in Workers : Counted(worker[w])' /\ Reaching(worker[w])'
    BY <2>2, <2>3 DEF LedgerInv, Counted, Reaching
  <2>6. LedgerInv' BY <2>2, <2>3, <2>4, <2>5 DEF LedgerInv
  <2> QED BY <2>1, <2>6 DEF ReclamationInv
<1> QED BY <1>2, <1>3, <1>4, <1>5 DEF Next

LEMMA AlwaysReclamation == Spec => []ReclamationInv
BY InitReclamation, NextReclamation, PTL DEF Spec

(* The Cell, the checkpoint, the call, the ledger's row and every worker keep *)
(* their types, for any number of workers, hooks and faults.                  *)
THEOREM ReclamationTyped == Spec => []TypeOK
<1>1. ReclamationInv => TypeOK
  BY DEF ReclamationInv, ExecutionInv, LedgerInv, LedgerTyped, TypeOK
<1> QED BY <1>1, AlwaysReclamation, PTL

(* The Engine runs a Cell at most once, on authority that dispatch consumed   *)
(* and no refusal follows, whatever call dies where.                          *)
THEOREM StartIsAuthorized == Spec => []StartedOnAuthority
<1>1. ReclamationInv => StartedOnAuthority
  BY DEF ReclamationInv, ExecutionInv, Ran, Recorded, StartedOnAuthority
<1> QED BY <1>1, AlwaysReclamation, PTL

(* Once the checkpoint records containment nothing of the Cell runs any more, *)
(* unless the Engine applied a start after its client was gone.               *)
THEOREM ContainmentHolds == Spec => []ContainedForGood
<1>1. ReclamationInv => ContainedForGood
  BY DEF ReclamationInv, ExecutionInv, Recorded, Inert, ContainedForGood
<1> QED BY <1>1, AlwaysReclamation, PTL

(* The Receipt an operation concludes with is what happened to its Cell.      *)
THEOREM ReceiptIsTrue == Spec => []TruthfulReceipt
<1>1. ReclamationInv => TruthfulReceipt
  <2> SUFFICES ASSUME ReclamationInv PROVE TruthfulReceipt OBVIOUS
  <2>1. Ran /\ Recorded /\ Receipted BY DEF ReclamationInv, ExecutionInv
  <2>2. receipt = "refused" => ~checkpoint.consumed /\ runs = 0
    BY <2>1 DEF Ran, Recorded, Receipted
  <2>3. receipt = "not-started" => runs = 0 \/ late
    BY <2>1 DEF Recorded, Receipted
  <2>4. receipt = "retrieved" => runs = 1
    BY <2>1 DEF Recorded, Receipted, Sound
  <2> QED BY <2>2, <2>3, <2>4 DEF TruthfulReceipt
<1> QED BY <1>1, AlwaysReclamation, PTL

(* An obligation that stands as reclaimed left nothing of its Cell behind,    *)
(* whichever of the workers completed it and whoever else was at work.        *)
THEOREM ReclaimedLeavesNothing == Spec => []ReclaimedIsGone
<1>1. ReclamationInv => ReclaimedIsGone
  BY DEF ReclamationInv, LedgerInv, Clean, ReclaimedIsGone
<1> QED BY <1>1, AlwaysReclamation, PTL

LEMMA EvidenceKept ==
  ASSUME ReclamationInv, [Next]_vars
  PROVE  EvidenceIsKept
<1> USE DEF At, Unrecorded, record, Retains
<1>1. /\ Ran /\ Recorded /\ Seeing /\ ExecutionInv /\ checkpoint \in Checkpoint
  BY DEF ReclamationInv, ExecutionInv, ExecutionTypeOK
<1>2. CASE UNCHANGED checkpoint BY <1>2 DEF EvidenceIsKept
<1>3. \/ UNCHANGED checkpoint
      \/ Open \/ RetainHandle \/ RequestContainment \/ Consume \/ RefuseAttempt
      \/ RecordObservation \/ CaptureCompletion \/ FinalizeWithoutCarrier
      \/ ValidateOutput \/ Retire
  <2>1. CASE HostStep
    BY <2>1 DEF HostStep, Allocate, ObserveReadiness, EnterDispatch, StartProxy,
      IssueStart, StartReturns, Observe, Cancel, Stop, RetrievalInterrupted,
      RefuseContained, HandOff, Conclude
  <2>2. CASE ExecutionNext /\ ~HostStep
    BY <2>2 DEF ExecutionNext, Call, Die, EngineStarts, CellExits, ProxyStops,
      DeadlinePasses, CellLost
  <2>3. CASE \/ LeaseExpires
             \/ \E w \in Workers :
                  Claim(w) \/ WorkerStep(w) \/ VolumesRemain(w) \/ WorkerFails(w)
    BY <2>3 DEF LeaseExpires, Claim, WorkerStep, VolumesRemain, WorkerFails, Inspect,
      Confirm, Anchor, Remove, RemoveVolumes, RemoveLeftovers, Release, Recheck,
      CompleteClaim, Untouched, Physical, Elsewhere
  <2>4. CASE UNCHANGED vars BY <2>4 DEF vars, executionVars
  <2> QED BY <2>1, <2>2, <2>3, <2>4 DEF Next
<1>4. CASE Open \/ RequestContainment \/ Retire
  <2>1. /\ checkpoint'.observation = checkpoint.observation
        /\ checkpoint.opened => checkpoint'.opened
        /\ checkpoint.requested => checkpoint'.requested
        /\ checkpoint.retired => checkpoint'.retired
        /\ UNCHANGED <<checkpoint.handle, checkpoint.consumed, checkpoint.contained,
                       checkpoint.completion, checkpoint.output>>
    <3>1. CASE Open BY <1>1, <3>1 DEF Open, Checkpoint
    <3>2. CASE RequestContainment BY <1>1, <3>2 DEF RequestContainment, Checkpoint
    <3>3. CASE Retire BY <1>1, <3>3 DEF Retire, Checkpoint
    <3> QED BY <1>4, <3>1, <3>2, <3>3
  <2> QED BY <2>1 DEF EvidenceIsKept
<1>5. CASE FinalizeWithoutCarrier \/ ValidateOutput \/ CaptureCompletion
  <2>1. CASE UNCHANGED checkpoint BY <1>2, <2>1
  <2>2. CASE ~UNCHANGED checkpoint
    <3>1. checkpoint.output = "none"
      BY <1>5 DEF FinalizeWithoutCarrier, ValidateOutput, CaptureCompletion, Validating,
                  NeedsCompletion, Complete, Finishing
    <3>2. /\ checkpoint'.observation = checkpoint.observation
          /\ checkpoint.completion # "none" =>
               checkpoint'.completion = checkpoint.completion
          /\ UNCHANGED <<checkpoint.opened, checkpoint.handle, checkpoint.consumed,
                         checkpoint.requested, checkpoint.contained,
                         checkpoint.retired>>
      <4>1. CASE FinalizeWithoutCarrier \/ ValidateOutput
        BY <1>1, <4>1 DEF FinalizeWithoutCarrier, ValidateOutput, Checkpoint
      <4>2. CASE CaptureCompletion
        BY <1>1, <2>2, <4>2 DEF CaptureCompletion, NeedsCompletion, Checkpoint
      <4> QED BY <1>5, <4>1, <4>2
    <3> QED BY <3>1, <3>2 DEF EvidenceIsKept
  <2> QED BY <2>1, <2>2
<1>6. CASE RetainHandle \/ Consume \/ RefuseAttempt
  <2>1. ~checkpoint.contained /\ ~checkpoint.consumed
    BY <1>1, <1>6 DEF RetainHandle, Consume, RefuseAttempt, Seeing, Recorded
  <2>2. checkpoint.observation.process # "terminal"
    BY <1>1, <2>1 DEF Ran, Recorded
  <2>3. /\ checkpoint.handle => checkpoint'.handle
        /\ checkpoint.requested => checkpoint'.requested
        /\ UNCHANGED <<checkpoint.opened, checkpoint.completion, checkpoint.output,
                       checkpoint.retired>>
    <3>1. CASE RetainHandle BY <1>1, <3>1 DEF RetainHandle, Checkpoint
    <3>2. CASE Consume BY <1>1, <3>2 DEF Consume, Checkpoint
    <3>3. CASE RefuseAttempt BY <1>1, <3>3 DEF RefuseAttempt, Checkpoint
    <3> QED BY <1>6, <3>1, <3>2, <3>3
  <2> QED BY <2>1, <2>2, <2>3 DEF EvidenceIsKept
<1>7. CASE RecordObservation
  <2>1. CASE UNCHANGED checkpoint BY <1>2, <2>1
  <2>2. CASE ~UNCHANGED checkpoint
    <3>1. /\ host.at = "seen" /\ Follows(checkpoint.observation, host.seen)
          /\ checkpoint' = [checkpoint EXCEPT !.observation = host.seen, !.bound = FALSE,
               !.contained = Establishes(host.seen, checkpoint.consumed)]
      BY <1>7, <2>2 DEF RecordObservation
    <3>2. /\ checkpoint'.observation = host.seen
          /\ checkpoint'.contained = Establishes(host.seen, checkpoint.consumed)
          /\ UNCHANGED <<checkpoint.opened, checkpoint.handle, checkpoint.consumed,
                         checkpoint.requested, checkpoint.completion,
                         checkpoint.output, checkpoint.retired>>
      BY <1>1, <3>1 DEF Checkpoint
    <3>3. checkpoint.contained => checkpoint'.contained
             /\ checkpoint'.observation.process = checkpoint.observation.process
      BY <1>1, <3>1, <3>2, ContainedAgain
    <3>4. checkpoint.observation.process = "terminal" =>
            /\ checkpoint'.observation.process = "terminal"
            /\ checkpoint'.observation.reason = checkpoint.observation.reason
      BY <3>1, <3>2 DEF Follows
    <3> QED BY <3>2, <3>3, <3>4 DEF EvidenceIsKept
  <2> QED BY <2>1, <2>2
<1> QED BY <1>2, <1>3, <1>4, <1>5, <1>6, <1>7

(* Retained evidence is final: handle, consumption, request, containment, a   *)
(* terminal process with its reason, completion, disposition and Retirement   *)
(* survive every later observation, cancellation and retrieval of the host.   *)
THEOREM EvidenceStays == Spec => EvidenceIsFinal
<1>1. ReclamationInv /\ [Next]_vars => [EvidenceIsKept]_executionVars
  BY EvidenceKept
<1> QED BY <1>1, AlwaysReclamation, PTL DEF Spec, EvidenceIsFinal

------------------------------------------------------------------------------
(* An execution and its Reclamation as one life.                              *)

\* What is needed beyond the invariant: a container has its volumes, a worker
\* that clears has no container before it, and only an Agent is refused.
Present ==
  /\ ~Gone(cell) => cell.volumes
  /\ \A w \in Workers :
       worker[w].at \in {"volumes", "leftovers", "release"} => Gone(cell)
  /\ refused => agent

LifeInv == ReclamationInv /\ Present

\* What a call, the Engine and people leave of a Cell that they do not make.
LEMMA CellLeft ==
  ASSUME ReclamationInv, ExecutionNext, ~Allocate
  PROVE  /\ Gone(cell) => Gone(cell)'
         /\ cell'.volumes = cell.volumes
         /\ cell'.proxy = "none" <=> cell.proxy = "none"
         /\ Gone(cell) =>
              cell'.dispatched = cell.dispatched /\ cell'.cancelled = cell.cancelled
         /\ cell.dispatched => cell'.dispatched
         /\ cell.cancelled => cell'.cancelled
<1> USE DEF record, Calm, Quiet, Unrecorded, Gone
<1>1. cell \in Cell /\ Ran BY DEF ReclamationInv, ExecutionInv, ExecutionTypeOK
<1>2. CASE UNCHANGED cell BY <1>2
<1>3. \/ UNCHANGED cell
      \/ EnterDispatch \/ StartProxy \/ IssueStart \/ Cancel \/ Stop
      \/ Die \/ EngineStarts \/ CellExits \/ ProxyStops \/ CellLost
  <2>1. CASE HostStep
    BY <2>1
    DEF HostStep, Open, RetainHandle, RequestContainment, ObserveReadiness, Consume,
      RefuseAttempt, StartReturns, Observe, RecordObservation, CaptureCompletion,
      FinalizeWithoutCarrier, ValidateOutput, RetrievalInterrupted, RefuseContained,
      Retire, HandOff, Conclude
  <2>2. CASE ~HostStep BY <2>2 DEF ExecutionNext, Call, DeadlinePasses
  <2> QED BY <2>1, <2>2
<1>4. CASE EnterDispatch BY <1>1, <1>4 DEF EnterDispatch, Cell
<1>5. CASE StartProxy BY <1>1, <1>5 DEF StartProxy, Cell
<1>6. CASE IssueStart BY <1>1, <1>6 DEF IssueStart, Cell
<1>7. CASE Cancel BY <1>1, <1>7 DEF Cancel, AlreadyTerminal, Cell
<1>8. CASE Stop
  <2>1. PICK b \in Bytes :
          LET c == IF cell.container = "running" THEN Exited(cell, b) ELSE cell
          IN cell' = [c EXCEPT !.proxy = IF ProxyUp(c) THEN "stopped" ELSE @]
    BY <1>8 DEF Stop
  <2> DEFINE c == IF cell.container = "running" THEN Exited(cell, b) ELSE cell
  <2>2. /\ c \in Cell /\ c.proxy = cell.proxy /\ c.volumes = cell.volumes
        /\ c.dispatched = cell.dispatched /\ c.cancelled = cell.cancelled
        /\ c.container = "none" <=> cell.container = "none"
    BY <1>1 DEF Exited, Cell, Containers
  <2>3. cell' = [c EXCEPT !.proxy = IF ProxyUp(c) THEN "stopped" ELSE @] BY <2>1
  <2> HIDE DEF c
  <2>4. /\ cell'.volumes = c.volumes /\ cell'.container = c.container
        /\ cell'.dispatched = c.dispatched /\ cell'.cancelled = c.cancelled
        /\ cell'.proxy = IF ProxyUp(c) THEN "stopped" ELSE c.proxy
    BY <2>2, <2>3 DEF Cell
  <2> QED BY <2>2, <2>4 DEF ProxyUp
<1>9. CASE Die BY <1>1, <1>9 DEF Die, Cell
<1>10. CASE EngineStarts BY <1>1, <1>10 DEF EngineStarts, Ran, Cell
<1>11. CASE CellExits BY <1>1, <1>11 DEF CellExits, Exited, Cell
<1>12. CASE ProxyStops BY <1>1, <1>12 DEF ProxyStops, ProxyUp, Cell
<1>13. CASE CellLost BY <1>1, <1>13 DEF CellLost, Cell
<1> QED BY <1>2, <1>3, <1>4, <1>5, <1>6, <1>7, <1>8, <1>9, <1>10, <1>11, <1>12, <1>13

\* What is made is whole.
LEMMA CellMade ==
  ASSUME ReclamationInv, Allocate
  PROVE  /\ ~handoff /\ ~checkpoint.handle
         /\ \/ UNCHANGED cell /\ ~Gone(cell)
            \/ /\ Gone(cell) /\ ~Gone(cell)' /\ cell'.volumes
               /\ cell'.container = "created" /\ cell'.proxy \in {"none", "created"}
<1>1. /\ Recorded /\ agent \in BOOLEAN
  BY DEF ReclamationInv, ExecutionInv, ExecutionTypeOK
<1>2. ~checkpoint.handle BY DEF Allocate, NeedsHandle
<1>3. ~handoff BY <1>1, <1>2 DEF Recorded
<1>4. \/ UNCHANGED cell /\ ~Gone(cell)
      \/ /\ Gone(cell)
         /\ cell' = [NoCell EXCEPT !.container = "created", !.volumes = TRUE,
                       !.proxy = IF agent THEN "created" ELSE "none"]
  BY DEF Allocate
<1>5. CASE cell' = [NoCell EXCEPT !.container = "created", !.volumes = TRUE,
                      !.proxy = IF agent THEN "created" ELSE "none"]
  <2>1. /\ cell'.container = "created" /\ cell'.volumes = TRUE
        /\ cell'.proxy = IF agent THEN "created" ELSE "none"
    BY <1>5 DEF NoCell
  <2> QED BY <1>2, <1>3, <1>4, <2>1 DEF Gone
<1> QED BY <1>2, <1>3, <1>4, <1>5

LEMMA RefusedIsAgent ==
  ASSUME Present, ExecutionNext
  PROVE  refused' => agent'
<1> USE DEF record, Calm, Quiet, Unrecorded, Retains
<1>1. CASE RefuseAttempt \/ RefuseContained
  BY <1>1 DEF RefuseAttempt, RefuseContained
<1>2. CASE HostStep /\ ~RefuseAttempt /\ ~RefuseContained
  <2>1. UNCHANGED <<refused, agent>>
    <3>1. CASE \/ Open \/ Allocate \/ RetainHandle \/ RequestContainment
               \/ ObserveReadiness \/ Consume \/ EnterDispatch \/ StartProxy
      BY <3>1 DEF Open, Allocate, RetainHandle, RequestContainment, ObserveReadiness,
                  Consume, EnterDispatch, StartProxy
    <3>2. CASE \/ IssueStart \/ StartReturns \/ Observe \/ Cancel \/ Stop
               \/ RecordObservation \/ CaptureCompletion
      BY <3>2 DEF IssueStart, StartReturns, Observe, Cancel, Stop, RecordObservation,
                  CaptureCompletion
    <3>3. CASE \/ FinalizeWithoutCarrier \/ ValidateOutput \/ RetrievalInterrupted
               \/ Retire \/ HandOff \/ Conclude
      BY <3>3 DEF FinalizeWithoutCarrier, ValidateOutput, RetrievalInterrupted,
                  Retire, HandOff, Conclude
    <3> QED BY <1>2, <3>1, <3>2, <3>3 DEF HostStep
  <2> QED BY <2>1 DEF Present
<1>3. CASE ~HostStep
  BY <1>3 DEF ExecutionNext, Call, Die, EngineStarts, CellExits, ProxyStops,
              DeadlinePasses, CellLost, Present
<1> QED BY <1>1, <1>2, <1>3

\* How a worker's step moves it, for those that matter here.
LEMMA PresentOfWorker ==
  ASSUME LifeInv, NEW w \in Workers, UNCHANGED <<refused, agent>>,
         UNCHANGED cell \/ (Gone(cell) /\ Gone(cell)') \/ (Gone(cell)' /\ cell'.volumes = cell.volumes),
         NEW r \in Worker, worker' = [worker EXCEPT ![w] = r],
         r.at \in {"volumes", "leftovers", "release"} => Gone(cell)'
  PROVE  Present'
<1>1. worker \in [Workers -> Worker] BY DEF LifeInv, ReclamationInv, LedgerInv, LedgerTyped
<1>2. worker'[w] = r /\ \A v \in Workers \ {w} : worker'[v] = worker[v]
  BY <1>1
<1>3. Gone(cell) => Gone(cell)' BY DEF Gone
<1>4. ~Gone(cell)' => cell'.volumes BY DEF LifeInv, Present, Gone
<1>5. \A v \in Workers :
        worker'[v].at \in {"volumes", "leftovers", "release"} => Gone(cell)'
  BY <1>2, <1>3 DEF LifeInv, Present
<1> QED BY <1>4, <1>5 DEF LifeInv, Present

LEMMA WorkerIsPresent ==
  ASSUME LifeInv, NEW w \in Workers,
         Claim(w) \/ WorkerStep(w) \/ VolumesRemain(w) \/ WorkerFails(w)
  PROVE  Present'
<1> USE DEF Elsewhere, Untouched, Physical, record, Working
<1>1. /\ LedgerTyped /\ Counted(worker[w]) /\ cell \in Cell
      /\ worker[w].at \in {"volumes", "leftovers", "release"} => Gone(cell)
  BY DEF LifeInv, ReclamationInv, LedgerInv, ExecutionInv, ExecutionTypeOK, Present
<1>2. UNCHANGED <<refused, agent>>
  BY DEF Claim, WorkerStep, VolumesRemain, WorkerFails, Inspect, Confirm, Anchor,
         Remove, RemoveVolumes, RemoveLeftovers, Release, Recheck, CompleteClaim
<1>3. ASSUME UNCHANGED cell, NEW place \in Works, GoOn(w, place),
             place \in {"volumes", "leftovers", "release"} => Gone(cell)
      PROVE  Present'
  <2>1. PICK r \in Worker : worker' = [worker EXCEPT ![w] = r] /\ r.at = place
    BY <1>1, <1>3, WorkerAfter
  <2> QED BY <1>2, <1>3, <2>1, PresentOfWorker DEF Gone
<1>4. ASSUME UNCHANGED cell, NEW v \in Verdicts, Finds(w, v) PROVE Present'
  <2>1. PICK r \in Worker : worker' = [worker EXCEPT ![w] = r] /\ r.at = "complete"
    BY <1>1, <1>4, WorkerAfter
  <2> QED BY <1>2, <1>4, <2>1, PresentOfWorker
<1>5. ASSUME UNCHANGED cell, EndHook(w) \/ EndHookAt(w, Looked(w)) PROVE Present'
  <2>1. Counts(worker[w].at) \in 0..2 BY DEF Counts
  <2>2. PICK n \in Nat : EndHookAt(w, n) /\ n <= 3 * worker[w].hook + 3
    BY <1>1, <1>5, <2>1, WorkerShape DEF EndHook, Looked, Counted
  <2>3. PICK r \in Worker : worker' = [worker EXCEPT ![w] = r] /\ r.at = "idle"
    BY <1>1, <2>2, WorkerAfter
  <2> QED BY <1>2, <1>5, <2>3, PresentOfWorker
<1>6. CASE Claim(w) BY <1>3, <1>6 DEF Claim, Works
<1>7. CASE Inspect(w)
  <2>1. UNCHANGED cell BY <1>7 DEF Inspect
  <2>2. CASE GoOn(w, "leftovers") /\ ~Discoverable
    BY <1>3, <2>1, <2>2 DEF Works, Discoverable
  <2>3. CASE EndHook(w) \/ EndHookAt(w, Looked(w)) BY <1>5, <2>1, <2>3
  <2>4. CASE \E i \in BOOLEAN :
               worker' = [worker EXCEPT ![w].at = "confirm",
                            ![w].sequence = Looked(w), ![w].inert = i]
    <3>1. PICK i \in BOOLEAN :
            worker' = [worker EXCEPT ![w].at = "confirm",
                         ![w].sequence = Looked(w), ![w].inert = i]
      BY <2>4
    <3> DEFINE r == [worker[w] EXCEPT !.at = "confirm", !.sequence = Looked(w),
                                      !.inert = i]
    <3>2. worker' = [worker EXCEPT ![w] = r] BY <3>1
    <3>3. Looked(w) \in Sequences
      <4>1. Counts("inspect") = 0 /\ worker[w].at = "inspect" BY <1>7 DEF Inspect, Counts
      <4> QED BY <1>1, <4>1, WorkerShape DEF Looked, Counted, Sequences
    <3>4. r \in Worker /\ r.at = "confirm"
      BY <1>1, <3>3, WorkerShape DEF Worker, Works
    <3> HIDE DEF r
    <3> QED BY <1>2, <2>1, <3>2, <3>4, PresentOfWorker
  <2>5. (Gone(cell) \/ Establishes(Direct(cell), checkpoint.consumed)) \in BOOLEAN
    BY Zenon
  <2>6. \/ GoOn(w, "leftovers") /\ ~Discoverable
        \/ EndHook(w) \/ EndHookAt(w, Looked(w))
        \/ worker' = [worker EXCEPT ![w].at = "confirm",
              ![w].sequence = Looked(w),
              ![w].inert = \/ Gone(cell)
                           \/ Establishes(Direct(cell), checkpoint.consumed)]
    BY <1>7, Zenon DEF Inspect
  <2> QED BY <2>2, <2>3, <2>4, <2>5, <2>6
<1>8. CASE Confirm(w) BY <1>3, <1>4, <1>8 DEF Confirm, Works, Verdicts
<1>9. CASE Anchor(w)
  <2>1. UNCHANGED cell BY <1>9 DEF Anchor
  <2>2. CASE Gone(cell) /\ \E place \in {"volumes", "leftovers"} : GoOn(w, place)
    BY <1>3, <2>1, <2>2 DEF Works
  <2>3. CASE Finds(w, "integrity-refusal") BY <1>4, <2>1, <2>3 DEF Verdicts
  <2>4. CASE worker' = [worker EXCEPT ![w].at = "remove", ![w].sequence = Looked(w)]
    <3> DEFINE r == [worker[w] EXCEPT !.at = "remove", !.sequence = Looked(w)]
    <3>1. worker' = [worker EXCEPT ![w] = r] BY <2>4
    <3>2. Looked(w) \in Sequences
      <4>1. Counts("anchor") = 1 /\ worker[w].at = "anchor" BY <1>9 DEF Anchor, Counts
      <4> QED BY <1>1, <4>1, WorkerShape DEF Looked, Counted, Sequences
    <3>3. r \in Worker /\ r.at = "remove"
      BY <1>1, <3>2, WorkerShape DEF Worker, Works
    <3> HIDE DEF r
    <3> QED BY <1>2, <2>1, <3>1, <3>3, PresentOfWorker
  <2> QED BY <1>9, <2>2, <2>3, <2>4 DEF Anchor
<1>10. CASE Remove(w)
  <2>1. CASE Finds(w, "remaining") /\ UNCHANGED cell BY <1>4, <2>1 DEF Verdicts
  <2>2. CASE /\ cell' = [cell EXCEPT !.container = "none", !.starting = FALSE]
             /\ GoOn(w, "volumes")
    <3>1. Gone(cell)' /\ cell'.volumes = cell.volumes BY <1>1, <2>2 DEF Cell, Gone
    <3>2. PICK r \in Worker : worker' = [worker EXCEPT ![w] = r] /\ r.at = "volumes"
      BY <1>1, <2>2, WorkerAfter DEF Works
    <3> QED BY <1>2, <3>1, <3>2, PresentOfWorker
  <2> QED BY <1>10, <2>1, <2>2 DEF Remove
<1>11. ASSUME cell' = Cleared, Gone(cell), NEW place \in {"release", "recheck"},
              GoOn(w, place)
       PROVE  Present'
  <2>1. Gone(cell)' BY <1>1, <1>11 DEF Cleared, Cell, Gone
  <2>2. PICK r \in Worker : worker' = [worker EXCEPT ![w] = r] /\ r.at = place
    BY <1>1, <1>11, WorkerAfter DEF Works
  <2> QED BY <1>2, <1>11, <2>1, <2>2, PresentOfWorker
<1>12. CASE RemoveVolumes(w)
  <2>1. Gone(cell) BY <1>1, <1>12 DEF RemoveVolumes
  <2>2. CASE Finds(w, "integrity-refusal") /\ cell' = [cell EXCEPT !.proxy = "none"]
    <3>1. Gone(cell)' BY <1>1, <2>1, <2>2 DEF Cell, Gone
    <3>2. PICK r \in Worker : worker' = [worker EXCEPT ![w] = r] /\ r.at = "complete"
      BY <1>1, <2>2, WorkerAfter DEF Verdicts
    <3> QED BY <1>2, <2>1, <3>1, <3>2, PresentOfWorker
  <2>3. CASE Clear(w, "release") BY <1>4, <1>11, <2>1, <2>3 DEF Clear, Verdicts
  <2> QED BY <1>12, <2>2, <2>3 DEF RemoveVolumes
<1>13. CASE RemoveLeftovers(w)
  <2>1. Gone(cell) /\ Clear(w, "recheck") BY <1>1, <1>13 DEF RemoveLeftovers
  <2> QED BY <1>4, <1>11, <2>1 DEF Clear, Verdicts
<1>14. CASE Release(w) BY <1>3, <1>14 DEF Release, Works
<1>15. CASE Recheck(w) BY <1>4, <1>5, <1>15 DEF Recheck, Verdicts
<1>16. CASE CompleteClaim(w) BY <1>5, <1>16 DEF CompleteClaim
<1>17. CASE VolumesRemain(w) BY <1>4, <1>17 DEF VolumesRemain, Verdicts
<1>18. CASE WorkerFails(w)
  <2>1. UNCHANGED cell BY <1>18 DEF WorkerFails
  <2>2. CASE EndHook(w) BY <1>5, <2>1, <2>2
  <2>3. CASE worker' = [worker EXCEPT ![w] = Fresh]
    <3>1. Fresh \in Worker /\ Fresh.at = "idle"
      BY ReclamationAssumption DEF Fresh, Worker, Works, Verdicts, Sequences
    <3> QED BY <1>2, <2>1, <2>3, <3>1, PresentOfWorker
  <2> QED BY <1>18, <2>2, <2>3 DEF WorkerFails
<1> QED BY <1>6, <1>7, <1>8, <1>9, <1>10, <1>12, <1>13, <1>14, <1>15, <1>16, <1>17,
           <1>18 DEF WorkerStep

LEMMA LifeKept ==
  /\ Init => LifeInv
  /\ LifeInv /\ [Next]_vars => LifeInv'
<1>1. Init => Present
  BY DEF Init, ExecutionInit, NoCell, Fresh, Present, Gone
<1>2. ASSUME LifeInv, [Next]_vars PROVE Present'
  <2>1. ReclamationInv /\ Present BY <1>2 DEF LifeInv
  <2>2. CASE ExecutionNext /\ UNCHANGED <<anchor, standing, worker>>
    <3>1. refused' => agent' BY <2>1, <2>2, RefusedIsAgent
    <3>2. CASE Allocate
      <4>1. ~handoff BY <2>1, <3>2, CellMade
      <4>2. \A w \in Workers : worker[w].at = "idle"
        BY <2>1, <4>1 DEF ReclamationInv, LedgerInv, Reaching
      <4>3. ~Gone(cell)' => cell'.volumes
        BY <2>1, <3>2, CellMade DEF Present, Gone
      <4> QED BY <2>2, <3>1, <4>2, <4>3 DEF Present
    <3>3. CASE ~Allocate
      BY <2>1, <2>2, <3>1, <3>3, CellLeft DEF Present
    <3> QED BY <3>2, <3>3
  <2>3. CASE LeaseExpires
    BY <2>1, <2>3 DEF LeaseExpires, Untouched, Elsewhere, record, Present, Gone
  <2>4. ASSUME NEW w \in Workers,
               Claim(w) \/ WorkerStep(w) \/ VolumesRemain(w) \/ WorkerFails(w)
        PROVE  Present'
    BY <1>2, <2>4, WorkerIsPresent
  <2>5. CASE UNCHANGED vars
    BY <2>1, <2>5 DEF vars, executionVars, record, Present, Gone
  <2> QED BY <1>2, <2>2, <2>3, <2>4, <2>5 DEF Next
<1> QED BY <1>1, <1>2, InitReclamation, NextReclamation DEF LifeInv

------------------------------------------------------------------------------
(* Each step as a step of that life.                                          *)

\* What of the records the life is read from.
Accounts == <<checkpoint.handle, checkpoint.consumed, checkpoint.contained,
              refused, handoff, receipt>>

LEMMA Booleans ==
  /\ Residue \in BOOLEAN /\ Residue' \in BOOLEAN
  /\ ProxyUp(cell) \in BOOLEAN /\ ProxyUp(cell)' \in BOOLEAN
  /\ (cell.container = "running") \in BOOLEAN
  /\ (cell.container = "running")' \in BOOLEAN
BY Zenon DEF Residue, ProxyUp

\* Of the Cell, only these three facts.
LEMMA Unseen ==
  ASSUME UNCHANGED Accounts, UNCHANGED <<runs, late>>, Custody' = Custody,
         cell'.container = "running" <=> cell.container = "running",
         ProxyUp(cell)' <=> ProxyUp(cell), Residue' <=> Residue
  PROVE  UNCHANGED Life!vars
<1>1. /\ (cell.container = "running")' = (cell.container = "running")
      /\ ProxyUp(cell)' = ProxyUp(cell) /\ Residue' = Residue
  BY Booleans
<1>2. Authority' = Authority BY DEF Accounts, Authority
<1>3. /\ checkpoint'.contained = checkpoint.contained /\ receipt' = receipt
  BY DEF Accounts
<1> QED BY <1>1, <1>2, <1>3 DEF Life!vars, Life!cell, Life!account

LEMMA SameResidue ==
  ASSUME cell'.container = "none" <=> cell.container = "none",
         cell'.proxy = "none" <=> cell.proxy = "none",
         UNCHANGED <<cell.volumes, cell.dispatched, cell.cancelled, anchor>>
  PROVE  Residue' <=> Residue
BY DEF Residue, Discoverable, Gone

LEMMA SameCell ==
  ASSUME UNCHANGED cell, UNCHANGED anchor
  PROVE  /\ Residue' <=> Residue
         /\ cell'.container = "running" <=> cell.container = "running"
         /\ ProxyUp(cell)' <=> ProxyUp(cell)
BY DEF Residue, Discoverable, Gone, ProxyUp

\* While its container is there, something is.
LEMMA Remains ==
  ASSUME cell.container # "none"
  PROVE  Residue
BY DEF Residue, Discoverable, Gone

\* A step that looks, or writes what the life is not read from.
LEMMA RecordsOnly ==
  ASSUME LifeInv, UNCHANGED <<cell, anchor, standing, runs, late>>,
         \/ Call \/ Open \/ RequestContainment \/ ObserveReadiness \/ StartReturns
         \/ Observe \/ CaptureCompletion \/ FinalizeWithoutCarrier \/ ValidateOutput
         \/ RetrievalInterrupted \/ Retire \/ DeadlinePasses
  PROVE  UNCHANGED Life!vars
<1> USE DEF record, Unrecorded, Retains
<1>1. checkpoint \in Checkpoint
  BY DEF LifeInv, ReclamationInv, ExecutionInv, ExecutionTypeOK
<1>2. UNCHANGED Accounts
  <2>1. CASE Call \/ ObserveReadiness \/ StartReturns \/ Observe \/ RetrievalInterrupted
             \/ DeadlinePasses
    BY <2>1 DEF Call, ObserveReadiness, StartReturns, Observe, RetrievalInterrupted,
                DeadlinePasses, Accounts
  <2>2. CASE Open \/ RequestContainment \/ FinalizeWithoutCarrier \/ ValidateOutput
    BY <1>1, <2>2 DEF Open, RequestContainment, FinalizeWithoutCarrier, ValidateOutput,
                      Checkpoint, Accounts
  <2>3. CASE CaptureCompletion BY <1>1, <2>3 DEF CaptureCompletion, Checkpoint, Accounts
  <2>4. CASE Retire BY <1>1, <2>4 DEF Retire, Checkpoint, Accounts
  <2> QED BY <2>1, <2>2, <2>3, <2>4
<1>3. Custody' = Custody BY <1>2 DEF Accounts, Custody
<1> QED BY <1>2, <1>3, SameCell, Unseen

\* Commands to the Engine that the life does not tell apart.
LEMMA CellCommands ==
  ASSUME LifeInv, UNCHANGED <<anchor, standing>>,
         EnterDispatch \/ IssueStart \/ Cancel \/ Die
  PROVE  UNCHANGED Life!vars
<1> USE DEF record, Unrecorded, Quiet, Calm
<1>1. cell \in Cell BY DEF LifeInv, ReclamationInv, ExecutionInv, ExecutionTypeOK
<1>2. UNCHANGED Accounts /\ UNCHANGED <<runs, late>> /\ Custody' = Custody
  BY DEF EnterDispatch, IssueStart, Cancel, Die, Accounts, Custody
<1>3. /\ cell'.container = cell.container /\ cell'.proxy = cell.proxy
      /\ cell'.volumes = cell.volumes
      /\ \/ cell'.dispatched = cell.dispatched /\ cell'.cancelled = cell.cancelled
         \/ cell.container # "none"
  <2>1. CASE EnterDispatch BY <1>1, <2>1 DEF EnterDispatch, Cell
  <2>2. CASE IssueStart BY <1>1, <2>2 DEF IssueStart, Cell
  <2>3. CASE Cancel BY <1>1, <2>3 DEF Cancel, AlreadyTerminal, Cell
  <2>4. CASE Die BY <1>1, <2>4 DEF Die, Cell
  <2> QED BY <2>1, <2>2, <2>3, <2>4
<1>4. Residue' <=> Residue
  BY <1>3 DEF Residue, Discoverable, Gone
<1> QED BY <1>2, <1>3, <1>4, Unseen DEF ProxyUp

LEMMA AllocateMakes ==
  ASSUME LifeInv, UNCHANGED <<anchor, standing>>, Allocate
  PROVE  [Life!Next]_(Life!vars)
<1> USE DEF record, Unrecorded, Quiet, Calm
<1>1. /\ ReclamationInv /\ Recorded /\ Ran
  BY DEF LifeInv, ReclamationInv, ExecutionInv
<1>2. UNCHANGED Accounts /\ UNCHANGED <<runs, late>> /\ Custody' = Custody
  BY DEF Allocate, Accounts, Custody
<1>3. CASE UNCHANGED cell BY <1>2, <1>3, SameCell, Unseen
<1>4. CASE ~UNCHANGED cell
  <2>1. /\ Gone(cell) /\ ~Gone(cell)' /\ cell'.container = "created"
        /\ cell'.proxy \in {"none", "created"} /\ ~checkpoint.handle
    BY <1>1, <1>4, CellMade
  <2>2. ~checkpoint.consumed /\ ~refused BY <1>1, <2>1 DEF Recorded
  <2>3. Authority = "none" BY <2>1, <2>2 DEF Authority
  <2>4. Authority' = Authority /\ UNCHANGED <<checkpoint.contained, receipt>>
    BY <1>2 DEF Accounts, Authority
  <2>5. Residue' = TRUE BY <2>1, Booleans DEF Residue, Discoverable
  <2>6. ~ProxyUp(cell) /\ ~ProxyUp(cell)'
    BY <1>1, <2>1, <2>2 DEF Ran, ProxyUp
  <2>7. /\ (cell.container = "running")' = (cell.container = "running")
        /\ ProxyUp(cell)' = ProxyUp(cell)
    BY <2>1, <2>6, Booleans DEF Gone
  <2>8. Life!Make BY <1>2, <2>3, <2>4, <2>5, <2>7 DEF Life!Make, Life!cell
  <2> QED BY <2>8 DEF Life!Next
<1> QED BY <1>3, <1>4

\* The authority: known, consumed or refused.
LEMMA AuthorityMoves ==
  ASSUME LifeInv, UNCHANGED <<anchor, standing>>,
         RetainHandle \/ Consume \/ RefuseAttempt \/ RefuseContained
  PROVE  [Life!Next]_(Life!vars)
<1> USE DEF record, Unrecorded, Quiet, Calm, Retains
<1>1. /\ Recorded /\ Seeing /\ checkpoint \in Checkpoint
  BY DEF LifeInv, ReclamationInv, ExecutionInv, ExecutionTypeOK
<1>2. UNCHANGED <<cell, handoff, receipt, runs, late>> /\ Custody' = Custody
  BY DEF RetainHandle, Consume, RefuseAttempt, RefuseContained, Custody
<1>3. /\ (cell.container = "running")' = (cell.container = "running")
      /\ ProxyUp(cell)' = ProxyUp(cell) /\ Residue' = Residue
  BY <1>2, SameCell, Booleans
<1>4. CASE RetainHandle
  <2>1. CASE UNCHANGED checkpoint
    <3>1. UNCHANGED Accounts BY <1>2, <1>4, <2>1 DEF RetainHandle, Accounts
    <3> QED BY <1>2, <3>1, SameCell, Unseen
  <2>2. CASE ~UNCHANGED checkpoint
    <3>1. /\ cell.container = "created" /\ At("created") /\ refused' = refused
          /\ checkpoint' = [checkpoint EXCEPT !.handle = TRUE,
                              !.observation = Direct(cell)]
      BY <1>4, <2>2 DEF RetainHandle
    <3>2. /\ checkpoint'.handle = TRUE /\ checkpoint'.consumed = checkpoint.consumed
          /\ checkpoint'.contained = checkpoint.contained
      BY <1>1, <3>1 DEF Checkpoint
    <3>3. ~checkpoint.handle /\ ~checkpoint.consumed /\ ~refused
      BY <1>1, <3>1 DEF Seeing, Recorded
    <3>4. Authority = "none" /\ Authority' = "unused"
      BY <3>1, <3>2, <3>3 DEF Authority
    <3>5. Residue BY <3>1, Remains
    <3>6. Life!Know
      BY <1>2, <1>3, <3>2, <3>4, <3>5 DEF Life!Know, Life!cell, Life!account
    <3> QED BY <3>6 DEF Life!Next
  <2> QED BY <2>1, <2>2
<1>5. CASE Consume
  <2>1. /\ At("ready") /\ refused' = refused
        /\ checkpoint' = [checkpoint EXCEPT !.consumed = TRUE, !.observation = host.seen]
    BY <1>5 DEF Consume
  <2>2. /\ checkpoint'.consumed = TRUE /\ checkpoint'.handle = checkpoint.handle
        /\ checkpoint'.contained = checkpoint.contained
    BY <1>1, <2>1 DEF Checkpoint
  <2>3. ~checkpoint.consumed /\ ~checkpoint.contained /\ checkpoint.handle /\ ~refused
    BY <1>1, <2>1 DEF Seeing, Recorded, At
  <2>4. Authority = "unused" /\ Authority' = "consumed"
    BY <2>1, <2>2, <2>3 DEF Authority
  <2>5. Life!Consume
    BY <1>2, <1>3, <2>2, <2>3, <2>4 DEF Life!Consume, Life!cell, Life!account
  <2> QED BY <2>5 DEF Life!Next
<1>6. CASE RefuseAttempt \/ RefuseContained
  <2>1. /\ ~checkpoint.consumed /\ ~refused /\ checkpoint.handle
        /\ refused' = TRUE
    <3>1. CASE RefuseAttempt BY <1>1, <3>1 DEF RefuseAttempt, Seeing, Recorded, At
    <3>2. CASE RefuseContained BY <1>1, <3>2 DEF RefuseContained, Recorded
    <3> QED BY <1>6, <3>1, <3>2
  <2>2. checkpoint'.contained = TRUE
    <3>1. CASE RefuseAttempt
      <4>1. checkpoint' = [checkpoint EXCEPT !.requested = TRUE,
                             !.observation = host.seen, !.contained = TRUE]
        BY <3>1 DEF RefuseAttempt
      <4> QED BY <1>1, <4>1 DEF Checkpoint
    <3>2. CASE RefuseContained
      <4>1. checkpoint' = checkpoint /\ checkpoint.contained
        BY <1>1, <3>2 DEF RefuseContained, Recorded
      <4>2. checkpoint.contained \in BOOLEAN BY <1>1 DEF Checkpoint
      <4> QED BY <4>1, <4>2
    <3> QED BY <1>6, <3>1, <3>2
  <2>3. Authority = "unused" /\ Authority' = "refused" BY <2>1 DEF Authority
  <2>4. Life!Refuse BY <1>2, <1>3, <2>2, <2>3 DEF Life!Refuse, Life!cell
  <2> QED BY <2>4 DEF Life!Next
<1> QED BY <1>4, <1>5, <1>6

\* The channel and the Cell itself, at the hands of the call and of the Engine.
LEMMA ChannelMoves ==
  ASSUME LifeInv, UNCHANGED <<anchor, standing>>, StartProxy \/ ProxyStops \/ Stop
  PROVE  [Life!Next]_(Life!vars)
<1> USE DEF record, Unrecorded, Quiet, Calm
<1>1. /\ Ran /\ Recorded /\ Seeing /\ cell \in Cell
  BY DEF LifeInv, ReclamationInv, ExecutionInv, ExecutionTypeOK
<1>2. /\ UNCHANGED Accounts /\ UNCHANGED <<runs, late>> /\ Custody' = Custody
      /\ Authority' = Authority
  BY DEF StartProxy, ProxyStops, Stop, Accounts, Custody, Authority
<1>3. CASE StartProxy
  <2>1. CASE UNCHANGED cell BY <1>2, <2>1, SameCell, Unseen
  <2>2. CASE ~UNCHANGED cell
    <3>1. /\ At("proxy") /\ cell.container = "created" /\ cell.proxy = "created"
          /\ cell' = [cell EXCEPT !.proxy = "running"]
      BY <1>3, <2>2 DEF StartProxy
    <3>2. /\ cell'.container = cell.container /\ cell'.proxy = "running"
          /\ UNCHANGED <<cell.volumes, cell.dispatched, cell.cancelled>>
      BY <1>1, <3>1 DEF Cell
    <3>3. /\ (cell.container = "running")' = (cell.container = "running")
          /\ ProxyUp(cell)' = TRUE /\ Residue' = Residue
      BY <3>1, <3>2, Booleans, SameResidue DEF ProxyUp
    <3>4. /\ checkpoint.consumed /\ ~checkpoint.contained /\ runs = 0 /\ ~refused
      BY <1>1, <3>1 DEF Seeing, Recorded, At
    <3>5. Authority = "consumed" BY <3>4 DEF Authority
    <3>6. Life!Connect
      BY <1>2, <3>3, <3>4, <3>5 DEF Life!Connect, Life!account, Accounts
    <3> QED BY <3>6 DEF Life!Next
  <2> QED BY <2>1, <2>2
<1>4. CASE ProxyStops
  <2>1. /\ cell'.container = cell.container /\ cell'.proxy = "stopped"
        /\ cell.proxy = "running"
        /\ UNCHANGED <<cell.volumes, cell.dispatched, cell.cancelled>>
    BY <1>1, <1>4 DEF ProxyStops, ProxyUp, Cell
  <2>2. /\ (cell.container = "running")' = (cell.container = "running")
        /\ ProxyUp(cell)' = FALSE /\ Residue' = Residue
    BY <2>1, Booleans, SameResidue DEF ProxyUp
  <2>3. Life!Disconnect
    BY <1>2, <2>2 DEF Life!Disconnect, Life!account, Accounts
  <2> QED BY <2>3 DEF Life!Next
<1>5. CASE Stop
  <2>1. PICK b \in Bytes :
          LET c == IF cell.container = "running" THEN Exited(cell, b) ELSE cell
          IN cell' = [c EXCEPT !.proxy = IF ProxyUp(c) THEN "stopped" ELSE @]
    BY <1>5 DEF Stop
  <2> DEFINE c == IF cell.container = "running" THEN Exited(cell, b) ELSE cell
  <2>2. /\ c \in Cell /\ c.proxy = cell.proxy /\ c.volumes = cell.volumes
        /\ c.dispatched = cell.dispatched /\ c.cancelled = cell.cancelled
        /\ c.container = "none" <=> cell.container = "none"
        /\ c.container # "running"
    BY <1>1 DEF Exited, Cell, Containers
  <2>3. cell' = [c EXCEPT !.proxy = IF ProxyUp(c) THEN "stopped" ELSE @] BY <2>1
  <2> HIDE DEF c
  <2>4. /\ cell'.volumes = c.volumes /\ cell'.container = c.container
        /\ cell'.dispatched = c.dispatched /\ cell'.cancelled = c.cancelled
        /\ cell'.proxy = IF ProxyUp(c) THEN "stopped" ELSE c.proxy
    BY <2>2, <2>3 DEF Cell
  <2>5. /\ (cell.container = "running")' = FALSE /\ ProxyUp(cell)' = FALSE
        /\ cell'.proxy = "none" <=> cell.proxy = "none"
    BY <2>2, <2>4, Booleans DEF ProxyUp
  <2>6. Residue' = Residue BY <2>2, <2>4, <2>5, SameResidue, Booleans
  <2>7. Life!Halt BY <1>2, <2>5, <2>6 DEF Life!Halt, Life!account, Accounts
  <2> QED BY <2>7 DEF Life!Next
<1> QED BY <1>3, <1>4, <1>5

\* It starts once, and it ends.
LEMMA EngineMoves ==
  ASSUME LifeInv, UNCHANGED <<anchor, standing>>, EngineStarts \/ CellExits \/ CellLost
  PROVE  [Life!Next]_(Life!vars)
<1> USE DEF record, Unrecorded, Quiet, Calm
<1>1. /\ Ran /\ Recorded /\ Seeing /\ cell \in Cell /\ Present
  BY DEF LifeInv, ReclamationInv, ExecutionInv, ExecutionTypeOK
<1>2. UNCHANGED Accounts /\ Custody' = Custody /\ Authority' = Authority
  BY DEF EngineStarts, CellExits, CellLost, Accounts, Custody, Authority
<1>3. CASE EngineStarts
  <2>1. /\ cell.container = "created" /\ runs = 0 /\ checkpoint.consumed /\ ~refused
    BY <1>1, <1>3 DEF EngineStarts, Ran, Recorded
  <2>2. cell'.container = "running" /\ cell'.proxy = cell.proxy
    BY <1>1, <1>3 DEF EngineStarts, Cell
  <2>3. late' = ~At("starting") /\ runs' = 1 BY <1>3, <2>1 DEF EngineStarts
  <2>4. late' \in BOOLEAN /\ (~At("starting") => late') BY <2>3, Zenon
  <2>5. checkpoint.contained => ~At("starting") BY <1>1 DEF Seeing, At
  <2>6. Authority = "consumed" BY <2>1 DEF Authority
  <2>7. Residue /\ Residue' BY <2>1, <2>2 DEF Residue, Discoverable, Gone
  <2>8. /\ (cell.container = "running")' = TRUE /\ Residue' = Residue
        /\ ProxyUp(cell)' = ProxyUp(cell)
    BY <2>2, <2>7, Booleans DEF ProxyUp
  <2>9. Life!Start
    BY <1>2, <2>1, <2>3, <2>4, <2>5, <2>6, <2>7, <2>8
    DEF Life!Start, Life!account, Accounts
  <2> QED BY <2>9 DEF Life!Next
<1>4. CASE CellExits \/ CellLost
  <2>1. /\ cell'.container \in {"exited", "none"} /\ cell'.proxy = cell.proxy
        /\ cell'.volumes = cell.volumes /\ UNCHANGED <<runs, late>>
        /\ cell.container # "none"
    <3>1. CASE CellExits
      <4>1. PICK b \in Bytes : cell' = Exited(cell, b) BY <3>1 DEF CellExits
      <4>2. cell.container = "running" /\ UNCHANGED <<runs, late>>
        BY <3>1 DEF CellExits
      <4> QED BY <1>1, <4>1, <4>2 DEF Exited, Cell
    <3>2. CASE CellLost BY <1>1, <3>2 DEF CellLost, Cell, Gone
    <3> QED BY <1>4, <3>1, <3>2
  <2>2. cell.volumes BY <1>1, <2>1 DEF Present, Gone
  <2>3. Residue /\ Residue' BY <2>1, <2>2 DEF Residue
  <2>4. /\ (cell.container = "running")' = FALSE /\ Residue' = Residue
        /\ ProxyUp(cell)' = ProxyUp(cell)
    BY <2>1, <2>3, Booleans DEF ProxyUp
  <2>5. Life!End BY <1>2, <2>1, <2>4 DEF Life!End, Life!account, Accounts
  <2> QED BY <2>5 DEF Life!Next
<1> QED BY <1>3, <1>4

\* Containment, whether it is new or established again.
LEMMA ContainmentMoves ==
  ASSUME LifeInv, UNCHANGED <<anchor, standing>>, RecordObservation
  PROVE  [Life!Next]_(Life!vars)
<1> USE DEF record, Unrecorded, Quiet, Calm, Retains
<1>1. /\ ExecutionInv /\ Recorded /\ Seeing /\ checkpoint \in Checkpoint
  BY DEF LifeInv, ReclamationInv, ExecutionInv, ExecutionTypeOK
<1>2. /\ UNCHANGED <<cell, refused, handoff, receipt, runs, late>>
      /\ Custody' = Custody /\ At("seen")
  BY DEF RecordObservation, Custody
<1>3. /\ (cell.container = "running")' = (cell.container = "running")
      /\ ProxyUp(cell)' = ProxyUp(cell) /\ Residue' = Residue
  BY <1>2, SameCell, Booleans
<1>4. CASE ~Follows(checkpoint.observation, host.seen)
  <2>1. UNCHANGED checkpoint BY <1>4 DEF RecordObservation
  <2> QED BY <1>2, <2>1, SameCell, Unseen DEF Accounts
<1>5. CASE Follows(checkpoint.observation, host.seen)
  <2> DEFINE e == Establishes(host.seen, checkpoint.consumed)
  <2>1. checkpoint' = [checkpoint EXCEPT !.observation = host.seen, !.bound = FALSE,
                                         !.contained = e]
    BY <1>5 DEF RecordObservation
  <2>2. /\ checkpoint.handle /\ (e => Inert) /\ (checkpoint.contained => e)
    BY <1>1, <1>2, <1>5, ContainedAgain DEF Seeing, At
  <2>3. e \in BOOLEAN
    <3>1. host.seen \in Observation BY <1>1, <1>2 DEF Seeing, Sound, At
    <3> QED BY <3>1 DEF Establishes, Observation
  <2> HIDE DEF e
  <2>4. /\ checkpoint'.handle = checkpoint.handle /\ checkpoint'.contained = e
        /\ checkpoint'.consumed = checkpoint.consumed
    BY <1>1, <2>1 DEF Checkpoint
  <2>5. CASE checkpoint.contained = e
    BY <1>2, <2>4, <2>5, SameCell, Unseen DEF Accounts
  <2>6. CASE checkpoint.contained # e
    <3>1. e = TRUE /\ checkpoint.contained = FALSE
      BY <1>1, <2>2, <2>3, <2>6 DEF Checkpoint
    <3>2. (cell.container # "running" \/ late) /\ ~ProxyUp(cell)
      BY <2>2, <3>1 DEF Inert
    <3>3. Authority # "none" /\ Authority' = Authority
      BY <1>2, <2>2, <2>4 DEF Authority
    <3>4. Life!Contain
      BY <1>2, <1>3, <2>4, <3>1, <3>2, <3>3 DEF Life!Contain, Life!cell
    <3> QED BY <3>4 DEF Life!Next
  <2> QED BY <2>5, <2>6
<1> QED BY <1>4, <1>5

\* The handover, and what the operation concludes with.
LEMMA ReceiptMoves ==
  ASSUME LifeInv, UNCHANGED <<anchor, standing>>, HandOff \/ Conclude
  PROVE  [Life!Next]_(Life!vars)
<1> USE DEF record, Unrecorded, Quiet, Calm
<1>1. /\ Recorded /\ checkpoint \in Checkpoint /\ Present /\ LedgerInv
      /\ agent \in BOOLEAN /\ refused \in BOOLEAN
  BY DEF LifeInv, ReclamationInv, ExecutionInv, ExecutionTypeOK
<1>2. /\ UNCHANGED <<cell, checkpoint, refused, runs, late>>
      /\ Authority' = Authority
  BY DEF HandOff, Conclude, Authority
<1>3. /\ (cell.container = "running")' = (cell.container = "running")
      /\ ProxyUp(cell)' = ProxyUp(cell) /\ Residue' = Residue
  BY <1>2, SameCell, Booleans
<1>4. CASE HandOff
  <2>1. checkpoint.retired /\ ~handoff /\ handoff' = TRUE /\ receipt' = receipt
    BY <1>4 DEF HandOff
  <2>2. checkpoint.contained BY <1>1, <2>1 DEF Recorded
  <2>3. standing.state = "pending" BY <1>1, <2>1 DEF LedgerInv
  <2>4. Custody = "execution" /\ Custody' = "ledger" BY <2>1, <2>3 DEF Custody
  <2>5. Life!HandOver
    BY <1>2, <1>3, <2>1, <2>2, <2>4 DEF Life!HandOver, Life!cell
  <2> QED BY <2>5 DEF Life!Next
<1>5. CASE Conclude
  <2>1. handoff /\ handoff' = handoff /\ receipt = "none" BY <1>5 DEF Conclude
  <2>2. Custody # "execution" /\ Custody' = Custody
    <3>1. standing \in Standing BY <1>1 DEF LedgerInv, LedgerTyped
    <3> QED BY <2>1, <3>1 DEF Custody, Standing, States
  <2>3. checkpoint.contained BY <1>1, <2>1 DEF Recorded
  <2>4. CASE UNCHANGED receipt BY <1>2, <2>1, <2>2, <2>4, SameCell, Unseen DEF Accounts
  <2>5. ASSUME \/ receipt' = "refused" /\ Authority = "refused"
               \/ /\ receipt' = "not-started" /\ Authority = "consumed"
                  /\ runs = 0 \/ late
               \/ receipt' = "retrieved" /\ runs = 1
               \/ receipt' = "unavailable" /\ Authority # "refused"
        PROVE  Life!Next
    <3>1. Life!Conclude
      BY <1>2, <1>3, <2>1, <2>2, <2>5 DEF Life!Conclude, Life!cell
    <3> QED BY <3>1 DEF Life!Next
  <2>6. CASE refused /\ receipt' = "refused"
    BY <2>5, <2>6 DEF Authority
  <2>7. CASE ~refused /\ NotStarted /\ receipt' = "not-started"
    <3>1. checkpoint.consumed /\ (runs = 0 \/ late)
      BY <1>1, <2>3, <2>7 DEF NotStarted, Recorded
    <3> QED BY <2>5, <2>7, <3>1 DEF Authority
  <2>8. CASE ~refused /\ receipt' = IF checkpoint.output = "valid" THEN "retrieved"
                                    ELSE "unavailable"
    <3>1. Authority # "refused" BY <2>8 DEF Authority
    <3>2. checkpoint.output = "valid" => runs = 1 BY <1>1 DEF Recorded, Sound
    <3> QED BY <2>5, <2>8, <3>1, <3>2
  <2>9. ~agent => ~refused BY <1>1 DEF Present
  <2>10. \/ UNCHANGED receipt \/ (refused /\ receipt' = "refused")
         \/ ~refused /\ NotStarted /\ receipt' = "not-started"
         \/ ~refused /\ receipt' = IF checkpoint.output = "valid" THEN "retrieved"
                                   ELSE "unavailable"
    BY <1>1, <1>5, <2>9 DEF Conclude
  <2> QED BY <2>4, <2>6, <2>7, <2>8, <2>10
<1> QED BY <1>4, <1>5

------------------------------------------------------------------------------
(* The workers: after the handoff, and only what is not there or not up.      *)

\* A step that leaves the Cell and its anchor alone.
LEMMA WorkersLook ==
  ASSUME LifeInv, NEW w \in Workers,
         Claim(w) \/ Inspect(w) \/ Confirm(w) \/ Recheck(w) \/ VolumesRemain(w)
         \/ WorkerFails(w)
  PROVE  UNCHANGED Life!vars
<1> USE DEF record, Untouched, Elsewhere
<1>1. UNCHANGED <<cell, anchor, checkpoint, refused, handoff, receipt, runs, late>>
  BY DEF Claim, Inspect, Confirm, Recheck, VolumesRemain, WorkerFails
<1>2. Custody' = Custody
  <2>1. CASE Claim(w) BY <2>1 DEF Claim, Claimable, Custody
  <2>2. CASE ~Claim(w)
    BY <1>1, <2>2 DEF Inspect, Confirm, Recheck, VolumesRemain, WorkerFails, Custody
  <2> QED BY <2>1, <2>2
<1> QED BY <1>1, <1>2, SameCell, Unseen DEF Accounts

\* What a worker leaves of the Cell is what there was, or less.
LEMMA LessRemains ==
  ASSUME LifeInv, handoff, UNCHANGED <<Accounts, runs, late, standing>>,
         cell'.container = "running" <=> cell.container = "running",
         ProxyUp(cell)' <=> ProxyUp(cell),
         \/ (Residue' <=> Residue)
         \/ (~Residue' /\ cell.container # "running" /\ ~ProxyUp(cell))
  PROVE  [Life!Next]_(Life!vars)
<1>1. Custody' = Custody /\ Authority' = Authority
  BY DEF Accounts, Custody, Authority
<1>2. CASE Residue' <=> Residue BY <1>1, <1>2, Unseen DEF Accounts
<1>3. CASE ~Residue' /\ cell.container # "running" /\ ~ProxyUp(cell)
  <2>1. /\ (cell.container = "running")' = (cell.container = "running")
        /\ ProxyUp(cell)' = ProxyUp(cell) /\ Residue' = FALSE
    BY <1>3, Booleans
  <2>2. Custody # "execution"
    <3>1. standing \in Standing
      BY DEF LifeInv, ReclamationInv, LedgerInv, LedgerTyped
    <3> QED BY <3>1 DEF Custody, Standing, States
  <2>3. Life!Remove
    BY <1>1, <1>3, <2>1, <2>2 DEF Life!Remove, Life!cell, Accounts
  <2> QED BY <2>3 DEF Life!Next
<1> QED BY <1>2, <1>3

LEMMA WorkersRemove ==
  ASSUME LifeInv, NEW w \in Workers,
         Anchor(w) \/ Remove(w) \/ RemoveVolumes(w) \/ RemoveLeftovers(w) \/ Release(w)
  PROVE  [Life!Next]_(Life!vars)
<1> USE DEF record, Physical, Elsewhere, Working
<1>1. /\ cell \in Cell /\ Present /\ Reaching(worker[w])
  BY DEF LifeInv, ReclamationInv, ExecutionInv, ExecutionTypeOK, LedgerInv
<1>2. UNCHANGED <<Accounts, runs, late, standing>> /\ handoff
  <2>1. UNCHANGED <<Accounts, runs, late, standing>> /\ worker[w].at # "idle"
    BY DEF Anchor, Remove, RemoveVolumes, RemoveLeftovers, Release, Accounts
  <2> QED BY <1>1, <2>1 DEF Reaching
<1>3. CASE Anchor(w)
  <2>1. UNCHANGED cell BY <1>3 DEF Anchor
  <2>2. UNCHANGED anchor \/ cell.container # "none" BY <1>3 DEF Anchor
  <2>3. Residue' <=> Residue BY <2>1, <2>2 DEF Residue, Discoverable, Gone
  <2> QED BY <1>2, <2>1, <2>3, LessRemains DEF ProxyUp
<1>4. CASE Remove(w)
  <2>1. UNCHANGED anchor BY <1>4 DEF Remove
  <2>2. CASE UNCHANGED cell BY <1>2, <2>1, <2>2, SameCell, LessRemains
  <2>3. CASE ~UNCHANGED cell
    <3>1. /\ cell' = [cell EXCEPT !.container = "none", !.starting = FALSE]
          /\ cell.container # "running"
      BY <1>4, <2>3 DEF Remove
    <3>2. /\ cell'.container = "none" /\ cell'.proxy = cell.proxy
          /\ cell'.volumes = cell.volumes
          /\ cell'.dispatched = cell.dispatched /\ cell'.cancelled = cell.cancelled
      BY <1>1, <3>1 DEF Cell
    <3>3. Residue' <=> Residue
      BY <1>1, <2>1, <3>2 DEF Residue, Discoverable, Gone, Present
    <3> QED BY <1>2, <3>1, <3>2, <3>3, LessRemains DEF ProxyUp
  <2> QED BY <2>2, <2>3
<1>5. CASE RemoveVolumes(w) \/ RemoveLeftovers(w)
  <2>1. Gone(cell) /\ UNCHANGED anchor
    BY <1>1, <1>5 DEF RemoveVolumes, RemoveLeftovers, Present
  <2>2. CASE UNCHANGED cell BY <1>2, <2>1, <2>2, SameCell, LessRemains
  <2>3. CASE ~UNCHANGED cell
    <3>1. ~ProxyUp(cell) /\ (cell' = Cleared \/ cell' = [cell EXCEPT !.proxy = "none"])
      BY <1>5, <2>3 DEF RemoveVolumes, RemoveLeftovers, Clear
    <3>2. /\ cell'.container = "none" /\ cell'.proxy = "none"
          /\ cell'.volumes => cell.volumes
          /\ cell'.dispatched => cell.dispatched
          /\ cell'.cancelled => cell.cancelled
      BY <1>1, <2>1, <3>1 DEF Cleared, Cell, Gone
    <3>3. Residue' => Residue
      BY <2>1, <3>2 DEF Residue, Discoverable, Gone
    <3> QED BY <1>2, <2>1, <3>1, <3>2, <3>3, LessRemains DEF ProxyUp, Gone
  <2> QED BY <2>2, <2>3
<1>6. CASE Release(w)
  <2>1. UNCHANGED cell /\ anchor' = 0 /\ Gone(cell) /\ Clean
    BY <1>1, <1>6 DEF Release, Present, Reaching
  <2>2. ~Residue' BY <2>1 DEF Residue, Discoverable, Gone, Clean
  <2>3. ~ProxyUp(cell) /\ cell.container # "running"
    BY <2>1 DEF Clean, ProxyUp, Gone
  <2> QED BY <1>2, <2>1, <2>2, <2>3, LessRemains DEF ProxyUp
<1> QED BY <1>3, <1>4, <1>5, <1>6

\* What stands as reclaimed was found so by the worker whose claim it was.
LEMMA WorkersComplete ==
  ASSUME LifeInv, NEW w \in Workers, CompleteClaim(w)
  PROVE  [Life!Next]_(Life!vars)
<1> USE DEF record, Untouched, Elsewhere, Working
<1>1. /\ worker[w] \in Worker /\ Reaching(worker[w]) /\ worker[w].verdict \in Verdicts
      /\ worker[w].at = "complete" /\ handoff
  <2>1. LedgerTyped /\ Reaching(worker[w])
    BY DEF LifeInv, ReclamationInv, LedgerInv
  <2> QED BY <2>1, WorkerShape DEF Reaching, CompleteClaim
<1>2. /\ UNCHANGED <<cell, anchor, Accounts, runs, late>>
  BY DEF CompleteClaim, Accounts
<1>3. Authority' = Authority /\ UNCHANGED <<handoff, checkpoint, receipt>>
  BY DEF CompleteClaim, Authority
<1>4. CASE standing'.state = standing.state \/ ~HoldsLease(w)
           \/ worker[w].verdict = "remaining"
  <2>1. Custody' = Custody
    BY <1>3, <1>4 DEF CompleteClaim, HoldsLease, Custody
  <2> QED BY <1>2, <2>1, SameCell, Unseen
<1>5. CASE HoldsLease(w) /\ worker[w].verdict # "remaining"
  <2>1. /\ standing.state = "claimed"
        /\ standing'.state = worker[w].verdict
        /\ worker[w].verdict \in {"reclaimed", "integrity-refusal"}
    BY <1>1, <1>5 DEF CompleteClaim, HoldsLease, Verdicts
  <2>2. Custody = "ledger" /\ Custody' = worker[w].verdict
    BY <1>1, <1>3, <2>1 DEF Custody
  <2>3. worker[w].verdict = "reclaimed" => Residue = FALSE
    BY <1>1, Booleans DEF Reaching, Residue, Clean
  <2>4. /\ (cell.container = "running")' = (cell.container = "running")
        /\ ProxyUp(cell)' = ProxyUp(cell) /\ Residue' = Residue
    BY <1>2, SameCell, Booleans
  <2>5. Life!Reclaim
    BY <1>2, <1>3, <2>1, <2>2, <2>3, <2>4 DEF Life!Reclaim, Life!cell
  <2> QED BY <2>5 DEF Life!Next
<1> QED BY <1>4, <1>5

LEMMA LeasesUnseen ==
  ASSUME LeaseExpires
  PROVE  UNCHANGED Life!vars
<1> USE DEF record, Untouched, Elsewhere
<1>1. UNCHANGED <<cell, anchor, checkpoint, refused, handoff, receipt, runs, late>>
  BY DEF LeaseExpires
<1>2. Custody' = Custody BY DEF LeaseExpires, Custody
<1> QED BY <1>1, <1>2, SameCell, Unseen DEF Accounts

(* Whatever call of the operation host or of delivery.recover dies, whichever *)
(* lease of the Reclamation ledger expires under its holder and however late  *)
(* the Engine answers, the execution lives the one life it promises: its Cell *)
(* is not made again once its handle is retained, runs once, is contained for *)
(* good, answered for as it was, and what the ledger calls reclaimed is gone. *)
THEOREM ExecutionIsLife == Spec => ImplementsLife
<1>1. Init => Life!Init
  <2> SUFFICES ASSUME Init PROVE Life!Init OBVIOUS
  <2>1. /\ cell = NoCell /\ checkpoint = NoCheckpoint /\ anchor = 0
        /\ refused = FALSE /\ handoff = FALSE
    BY DEF Init, ExecutionInit
  <2>2. Authority = "none" /\ Custody = "execution"
    BY <2>1 DEF Authority, Custody, NoCheckpoint
  <2>3. ~Residue /\ ~ProxyUp(cell) /\ cell.container # "running"
    BY <2>1 DEF Residue, Discoverable, Gone, ProxyUp, NoCell
  <2>4. /\ Residue = FALSE /\ ProxyUp(cell) = FALSE
        /\ (cell.container = "running") = FALSE
    BY <2>3, Booleans
  <2> QED BY <2>1, <2>2, <2>4 DEF Life!Init, Init, ExecutionInit, NoCheckpoint
<1>2. LifeInv /\ [Next]_vars => [Life!Next]_(Life!vars)
  <2> SUFFICES ASSUME LifeInv, [Next]_vars PROVE [Life!Next]_(Life!vars)
    OBVIOUS
  <2>1. CASE ExecutionNext /\ UNCHANGED <<anchor, standing, worker>>
    <3>1. CASE \/ Call \/ Open \/ RequestContainment \/ ObserveReadiness
               \/ StartReturns \/ Observe \/ CaptureCompletion
               \/ FinalizeWithoutCarrier \/ ValidateOutput
               \/ RetrievalInterrupted \/ Retire \/ DeadlinePasses
      <4>1. UNCHANGED <<cell, runs, late>>
        BY <3>1 DEF Call, Open, RequestContainment, ObserveReadiness, StartReturns,
          Observe, CaptureCompletion, FinalizeWithoutCarrier, ValidateOutput,
          RetrievalInterrupted, Retire, DeadlinePasses, Calm, Quiet
      <4> QED BY <2>1, <3>1, <4>1, RecordsOnly
    <3>2. CASE EnterDispatch \/ IssueStart \/ Cancel \/ Die
      BY <2>1, <3>2, CellCommands
    <3>3. CASE Allocate BY <2>1, <3>3, AllocateMakes
    <3>4. CASE RetainHandle \/ Consume \/ RefuseAttempt \/ RefuseContained
      BY <2>1, <3>4, AuthorityMoves
    <3>5. CASE StartProxy \/ ProxyStops \/ Stop BY <2>1, <3>5, ChannelMoves
    <3>6. CASE EngineStarts \/ CellExits \/ CellLost BY <2>1, <3>6, EngineMoves
    <3>7. CASE RecordObservation BY <2>1, <3>7, ContainmentMoves
    <3>8. CASE HandOff \/ Conclude BY <2>1, <3>8, ReceiptMoves
    <3> QED BY <2>1, <3>1, <3>2, <3>3, <3>4, <3>5, <3>6, <3>7, <3>8
            DEF ExecutionNext, HostStep
  <2>2. CASE LeaseExpires BY <2>2, LeasesUnseen
  <2>3. ASSUME NEW w \in Workers,
               Claim(w) \/ WorkerStep(w) \/ VolumesRemain(w) \/ WorkerFails(w)
        PROVE  [Life!Next]_(Life!vars)
    BY <2>3, WorkersLook, WorkersRemove, WorkersComplete DEF WorkerStep
  <2>4. CASE UNCHANGED vars
    <3>1. UNCHANGED <<cell, anchor, standing, Accounts, runs, late>>
      BY <2>4 DEF vars, executionVars, record, Accounts
    <3>2. Custody' = Custody BY <3>1 DEF Custody, Accounts
    <3> QED BY <3>1, <3>2, SameCell, Unseen
  <2> QED BY <2>1, <2>2, <2>3, <2>4 DEF Next
<1> QED BY <1>1, <1>2, LifeKept, PTL DEF Spec, ImplementsLife, Life!Spec
==============================================================================
