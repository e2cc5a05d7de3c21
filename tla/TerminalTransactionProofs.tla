---------------------- MODULE TerminalTransactionProofs -----------------------
(* Proofs about TerminalTransaction, for any number of Deliveries, attempts,  *)
(* retained observations, movements of the branch and deaths.                 *)
(*                                                                            *)
(* What is retained about the branch is true because a call that may report a *)
(* refusal knows more than the Store: it was begun before the intent, or by a *)
(* recovery that found none, and has not published since (Working).  Nothing  *)
(* about one Delivery depends on another's steps except through the target    *)
(* lock, which is why the invariant is a predicate of each (Good), kept by    *)
(* its own steps (OwnStep) and by those of everybody else (OtherStep).        *)
EXTENDS TerminalRefinement, TLAPS

Control ==
  [base : Commit, attempt : 0..MaxAttempts, operation : Operations,
   parent : Commit, stage : Stages, observations : 0..MaxObservations,
   custody : Custodies]
Support == [live : BOOLEAN, disposition : BOOLEAN, completion : BOOLEAN]
Call == [pc : Pcs, mayHaveApplied : BOOLEAN, outcome : Outcomes,
         preparation : {"needed", "complete", "failed"}]

DeliveryStep(d) ==
  \/ Integrate(d) \/ \E op \in Operations : Begin(d, op)
  \/ Recover(d) \/ ObservationStep(d) \/ DispositionStep(d) \/ Crash(d)

Attempted(d) == control[d].stage # "ready" => control[d].attempt # 0

\* What the Store retains about its attempts and about its place.
Truth(d) ==
  /\ \A c \in moved : c.by = d =>
       /\ c = K(d) /\ IsAcceptance(d)
       /\ control[d].stage \in {"intended", "applied", "closed"}
  /\ control[d].stage \in {"applied", "closed"} /\ IsAcceptance(d) => K(d) \in moved

\* Its commits on the branch, and their parents.
Built(d) ==
  \A i \in DOMAIN history : history[i].by = d =>
    /\ history[i] \in moved
    /\ Predecessor(history, i) = control[d].parent

Supported(d) ==
  /\ support[d].live <=> control[d].stage \notin {"ready", "closed"}
  /\ control[d].custody # "active" => control[d].stage = "closed"
  /\ support[d].completion =>
       control[d].stage = "not-applied" \/ support[d].disposition
  /\ support[d].disposition => control[d].stage = "applied"

\* Once the checkout was seen to follow, it follows or somebody moved it.
Followed(d) ==
  control[d].stage = "closed" \/ call[d].pc = "handoff" \/ support[d].disposition
Following(d) == Followed(d) /\ IsAcceptance(d) /\ Current(d) => checkout.at = K(d)

Locking == {"observe", "publish", "after", "synchronize", "checkout"}
Observing == {"observe", "prepare", "relock", "publish", "after"}
Unpublished == {"prepare", "relock", "publish"}

\* Where a call is, and what it may conclude there.
Working(d) ==
  LET pc == call[d].pc
      s == control[d].stage
      CanObserve == s = "intended" /\ control[d].observations # MaxObservations
  IN /\ pc # "idle" => s # "ready"
     /\ pc \in Locking => holder = d
     /\ pc \in Observing => CanObserve /\ IsAcceptance(d)
     /\ pc \in {"synchronize", "checkout"} =>
          IsAcceptance(d) /\ K(d) \in moved /\ (CanObserve \/ s = "applied")
     /\ pc = "record" =>
          /\ CanObserve
          /\ call[d].outcome = "applied" /\ IsAcceptance(d) => K(d) \in moved
          /\ call[d].outcome = "not-applied" => K(d) \notin moved
     /\ pc = "handoff" => s = "applied"
     /\ pc = "checkout" => Current(d)
     /\ pc \in Unpublished => ~call[d].mayHaveApplied
     /\ /\ pc \in Unpublished \cup {"step", "observe"}
        /\ s \in {"opened", "intended"} /\ ~call[d].mayHaveApplied
        => K(d) \notin moved

Good(d) ==
  /\ Attempted(d) /\ Truth(d) /\ Built(d) /\ Supported(d)
  /\ Following(d) /\ Working(d)

TransactionInv == TypeOK /\ \A d \in Delivery : Good(d)

------------------------------------------------------------------------------
(* Types.                                                                     *)
LEMMA Types ==
  ASSUME TypeOK
  PROVE  /\ control \in [Delivery -> Control] /\ support \in [Delivery -> Support]
         /\ call \in [Delivery -> Call]
         /\ history \in Seq(Commit) /\ moved \subseteq Commit
         /\ checkout \in [state : {"clean", "dirty", "partial"}, at : Commit]
BY DEF TypeOK, Control, Support, Call

LEMMA CommitOf ==
  ASSUME TypeOK, NEW d \in Delivery, control[d].attempt # 0
  PROVE  K(d) \in Commit
<1>1. control[d].attempt \in 1..MaxAttempts
  BY TransactionAssumption DEF TypeOK
<1> QED BY <1>1 DEF K, Commit

LEMMA TipTyped ==
  ASSUME NEW h \in Seq(Commit)
  PROVE  Tip(h) \in Commit
BY DEF Tip, Commit

LEMMA InitGood == Init => TransactionInv
<1> SUFFICES ASSUME Init PROVE TransactionInv OBVIOUS
<1> USE TransactionAssumption
<1>1. TypeOK
  BY DEF Init, TypeOK, Commit, Root, NoSupport, NoCall, Operations, Stages, Custodies,
         Pcs, Outcomes
<1>2. \A d \in Delivery : Good(d)
  BY DEF Init, Good, Attempted, Truth, Built, Supported, Followed, Following, Working,
         NoSupport, NoCall, Locking, Observing, Unpublished
<1> QED BY <1>1, <1>2 DEF TransactionInv

\* The actions of a call by what of its Store they write.
ControlWritten(d) ==
  \/ Integrate(d) \/ \E op \in Operations : Begin(d, op)
  \/ RecordIntent(d) \/ RecordObservation(d) \/ CompleteFailed(d)
  \/ RecordClosure(d) \/ Seal(d) \/ PrepareArchive(d) \/ MoveArchive(d)
SupportWritten(d) ==
  \/ \E op \in Operations : Begin(d, op)
  \/ SampleFailure(d) \/ CompleteFailed(d) \/ RetainDisposition(d)
  \/ SampleClosure(d) \/ RecordClosure(d)
RepositoryWritten(d) == Publish(d) \/ BeginCheckout(d) \/ FinishCheckout(d)

LEMMA Writes ==
  ASSUME NEW d \in Delivery, DeliveryStep(d)
  PROVE  /\ ControlWritten(d) \/ control' = control
         /\ SupportWritten(d) \/ support' = support
         /\ RepositoryWritten(d) \/ UNCHANGED repository
         /\ moves' = moves
         /\ faults' = faults \/ Fault
<1> USE DEF repository, Durable
<1>1. CASE Integrate(d) \/ (\E op \in Operations : Begin(d, op)) \/ Recover(d) \/ Crash(d)
  BY <1>1 DEF Integrate, Begin, Recover, Crash, ControlWritten, SupportWritten
<1>2. CASE ObservationStep(d)
  BY <1>2
  DEF ObservationStep, ControlWritten, RepositoryWritten, RecordIntent,
      ObservationRefused, ObserveNoShip, LockTarget, LockBusy, ReadFails, Recognize,
      Uncertain, Refuse, Prepare, PreparationEnds, Publish, PublicationRefused,
      PublicationLost, CheckoutFollows, BeginCheckout, FinishCheckout,
      CheckoutConflicts, RecordObservation
<1>3. CASE DispositionStep(d)
  BY <1>3
  DEF DispositionStep, ControlWritten, SupportWritten, SampleFailure, CompleteFailed,
      NoShipHandoff, RetainDisposition, SampleClosure, DispositionRefused,
      RecordClosure, Seal, PrepareArchive, MoveArchive
<1> QED BY <1>1, <1>2, <1>3 DEF DeliveryStep

\* What Begin writes, one field after the other.
LEMMA Reopened ==
  ASSUME NEW r \in Control, NEW op \in Operations, r.attempt + 1 \in 0..MaxAttempts
  PROVE  [r EXCEPT !.attempt = @ + 1, !.operation = op, !.parent = r.base,
                   !.stage = "opened", !.observations = 0] \in Control
<1> DEFINE a == [r EXCEPT !.attempt = @ + 1]
           b == [a EXCEPT !.operation = op]
           p == [b EXCEPT !.parent = r.base]
           s == [p EXCEPT !.stage = "opened"]
           o == [s EXCEPT !.observations = 0]
<1>1. a \in Control BY DEF Control
<1>2. b \in Control
  <2> HIDE DEF a
  <2> QED BY <1>1 DEF Control
<1>3. p \in Control
  <2> HIDE DEF b
  <2> QED BY <1>2 DEF Control
<1>4. s \in Control
  <2> HIDE DEF p
  <2> QED BY <1>3 DEF Control, Stages
<1>5. o \in Control
  <2> HIDE DEF s
  <2> QED BY <1>4, TransactionAssumption DEF Control
<1> QED BY <1>5

LEMMA ControlTyped ==
  ASSUME TransactionInv, NEW d \in Delivery, DeliveryStep(d)
  PROVE  /\ control' \in [Delivery -> Control]
         /\ \A e \in Delivery \ {d} : control'[e] = control[e]
<1> USE TransactionAssumption
<1>1. control \in [Delivery -> Control] /\ history \in Seq(Commit) /\ call \in [Delivery -> Call]
  BY Types DEF TransactionInv
<1>2. control[d] \in Control BY <1>1
<1>3. CASE control' = control BY <1>1, <1>3
<1>4. CASE Integrate(d)
  <2>1. Tip(history) \in Commit BY <1>1, TipTyped
  <2> QED BY <1>1, <1>4, <2>1 DEF Integrate, Control
<1>5. CASE \E op \in Operations : Begin(d, op)
  <2>1. PICK op \in Operations : Begin(d, op) BY <1>5
  <2>2. control[d].attempt + 1 \in 0..MaxAttempts
    BY <1>2, <2>1 DEF Begin, Control
  <2> DEFINE c == [control[d] EXCEPT !.attempt = @ + 1, !.operation = op,
                     !.parent = control[d].base, !.stage = "opened", !.observations = 0]
  <2>3. c \in Control BY <1>2, <2>2, Reopened
  <2>4. control' = [control EXCEPT ![d] = c] BY <1>1, <2>1 DEF Begin
  <2> HIDE DEF c
  <2> QED BY <1>1, <2>3, <2>4
<1>6. CASE RecordIntent(d) \/ CompleteFailed(d) \/ RecordClosure(d)
  <2>1. \E s \in Stages : control' = [control EXCEPT ![d].stage = s]
    BY <1>6 DEF RecordIntent, CompleteFailed, RecordClosure, Stages
  <2> QED BY <1>1, <2>1 DEF Control
<1>7. CASE Seal(d) \/ PrepareArchive(d) \/ MoveArchive(d)
  <2>1. \E s \in Custodies : control' = [control EXCEPT ![d].custody = s]
    BY <1>7 DEF Seal, PrepareArchive, MoveArchive, Custodies
  <2> QED BY <1>1, <2>1 DEF Control
<1>8. CASE RecordObservation(d)
  <2>1. /\ control[d].stage = "intended" /\ control[d].observations # MaxObservations
        /\ call[d].outcome \in Outcomes
    BY <1>1, <1>8 DEF RecordObservation, TransactionInv, Good, Working, Call, At
  <2>2. control[d].observations + 1 \in 0..MaxObservations
    BY <1>2, <2>1 DEF Control
  <2>3. (IF call[d].outcome = "indeterminate" THEN "intended" ELSE call[d].outcome) \in Stages
    BY <2>1 DEF Outcomes, Stages
  <2> DEFINE s == IF call[d].outcome = "indeterminate" THEN "intended" ELSE call[d].outcome
             c == [control[d] EXCEPT !.observations = @ + 1, !.stage = s]
  <2>4. c \in Control BY <1>2, <2>2, <2>3 DEF Control
  <2>5. control' = [control EXCEPT ![d] = c]
    BY <1>1, <1>2, <1>8 DEF RecordObservation, Control
  <2> HIDE DEF c
  <2> QED BY <1>1, <2>4, <2>5
<1> QED BY <1>3, <1>4, <1>5, <1>6, <1>7, <1>8, Writes DEF ControlWritten

LEMMA SupportTyped ==
  ASSUME TransactionInv, NEW d \in Delivery, DeliveryStep(d)
  PROVE  /\ support' \in [Delivery -> Support]
         /\ \A e \in Delivery \ {d} : support'[e] = support[e]
<1>1. support \in [Delivery -> Support] BY Types DEF TransactionInv
<1>2. NoSupport \in Support /\ NewSupport \in Support
  BY DEF NoSupport, NewSupport, Support
<1>3. CASE support' = support BY <1>1, <1>3
<1>4. CASE (\E op \in Operations : Begin(d, op)) \/ CompleteFailed(d) \/ RecordClosure(d)
  BY <1>1, <1>2, <1>4 DEF Begin, CompleteFailed, RecordClosure
<1>5. CASE SampleFailure(d) \/ RetainDisposition(d) \/ SampleClosure(d)
  BY <1>1, <1>5 DEF SampleFailure, RetainDisposition, SampleClosure, Support
<1> QED BY <1>3, <1>4, <1>5, Writes DEF SupportWritten

LEMMA CallTyped ==
  ASSUME TransactionInv, NEW d \in Delivery, DeliveryStep(d)
  PROVE  /\ call' \in [Delivery -> Call]
         /\ \A e \in Delivery \ {d} : call'[e] = call[e]
<1>1. call \in [Delivery -> Call] BY Types DEF TransactionInv
<1>2. NoCall \in Call /\ call[d] \in Call
  BY <1>1 DEF NoCall, Call, Pcs, Outcomes
<1>3. ASSUME NEW pc \in Pcs, Goto(d, pc)
      PROVE  /\ call' \in [Delivery -> Call]
             /\ \A e \in Delivery \ {d} : call'[e] = call[e]
  BY <1>1, <1>3 DEF Goto, Call
<1>4. ASSUME EndCall(d)
      PROVE  /\ call' \in [Delivery -> Call]
             /\ \A e \in Delivery \ {d} : call'[e] = call[e]
  BY <1>1, <1>2, <1>4 DEF EndCall
<1>5. ASSUME NEW o \in Outcomes, Conclude(d, o)
      PROVE  /\ call' \in [Delivery -> Call]
             /\ \A e \in Delivery \ {d} : call'[e] = call[e]
  <2>1. [call[d] EXCEPT !.pc = "record", !.outcome = o] \in Call
    BY <1>2 DEF Call, Pcs
  <2>2. call' = [call EXCEPT ![d] = [call[d] EXCEPT !.pc = "record", !.outcome = o]]
    BY <1>1, <1>2, <1>5 DEF Conclude, Call
  <2> QED BY <1>1, <2>1, <2>2
<1>6. CASE Integrate(d) \/ (\E op \in Operations : Begin(d, op)) \/ Recover(d) \/ Crash(d)
  <2>1. CASE Integrate(d) BY <1>1, <2>1 DEF Integrate
  <2>2. CASE \E op \in Operations : Begin(d, op)
    <3>1. [NoCall EXCEPT !.pc = "step"] \in Call BY <1>2 DEF Call, Pcs
    <3> QED BY <1>1, <2>2, <3>1 DEF Begin
  <2>3. CASE Recover(d)
    <3>1. [NoCall EXCEPT !.pc = "step", !.mayHaveApplied = EarlierCallMayHaveApplied(d)]
            \in Call
      BY <1>2 DEF Call, Pcs, EarlierCallMayHaveApplied
    <3> QED BY <1>1, <2>3, <3>1 DEF Recover
  <2>4. CASE Crash(d) BY <1>4, <2>4 DEF Crash
  <2> QED BY <1>6, <2>1, <2>2, <2>3, <2>4
<1>7. CASE ObservationStep(d)
  <2>1. CASE RecordIntent(d) BY <1>1, <2>1 DEF RecordIntent
  <2>2. CASE ObservationRefused(d) \/ LockBusy(d)
    BY <1>4, <2>2 DEF ObservationRefused, LockBusy
  <2>3. CASE ObserveNoShip(d)
    <3>1. [call[d] EXCEPT !.pc = "record", !.outcome = "applied"] \in Call
      BY <1>2 DEF Call, Pcs, Outcomes
    <3>2. call' = [call EXCEPT ![d] =
                     [call[d] EXCEPT !.pc = "record", !.outcome = "applied"]]
      BY <1>1, <1>2, <2>3 DEF ObserveNoShip, Call
    <3> QED BY <1>1, <3>1, <3>2
  <2>4. CASE LockTarget(d) \/ Recognize(d)
    BY <1>3, <2>4 DEF LockTarget, LockedStep, Recognize, Pcs
  <2>5. CASE ReadFails(d) \/ Uncertain(d) \/ Refuse(d) \/ PublicationRefused(d)
    BY <1>5, <2>5 DEF ReadFails, Uncertain, Refuse, PublicationRefused, Outcomes
  <2>6. CASE Prepare(d) \/ Publish(d) \/ PublicationLost(d) \/ BeginCheckout(d)
    BY <1>3, <2>6 DEF Prepare, Publish, PublicationLost, BeginCheckout, Pcs
  <2>7. CASE \E r \in {"complete", "failed"} : PreparationEnds(d, r)
    <3>1. PICK r \in {"complete", "failed"} : PreparationEnds(d, r) BY <2>7
    <3>2. [call[d] EXCEPT !.pc = "relock", !.preparation = r] \in Call
      BY <1>2 DEF Call, Pcs
    <3>3. call' = [call EXCEPT ![d] = [call[d] EXCEPT !.pc = "relock", !.preparation = r]]
      BY <1>1, <1>2, <3>1 DEF PreparationEnds, Call
    <3> QED BY <1>1, <3>2, <3>3
  <2>8. CASE CheckoutFollows(d) \/ FinishCheckout(d)
    BY <1>3, <1>5, <2>8 DEF CheckoutFollows, FinishCheckout, Synchronized, Outcomes, Pcs
  <2>9. CASE CheckoutConflicts(d)
    BY <1>4, <1>5, <2>9 DEF CheckoutConflicts, Outcomes
  <2>10. CASE RecordObservation(d)
    BY <1>3, <1>4, <2>10 DEF RecordObservation, Pcs
  <2> QED BY <1>7, <2>1, <2>2, <2>3, <2>4, <2>5, <2>6, <2>7, <2>8, <2>9, <2>10
          DEF ObservationStep
<1>8. CASE DispositionStep(d)
  <2>1. call' = call \/ EndCall(d) \/ Goto(d, "handoff") \/ Goto(d, "step")
    BY <1>8 DEF DispositionStep, SampleFailure, CompleteFailed, NoShipHandoff,
       RetainDisposition, SampleClosure, DispositionRefused, RecordClosure, Seal,
       PrepareArchive, MoveArchive
  <2> QED BY <1>1, <1>3, <1>4, <2>1 DEF Pcs
<1> QED BY <1>6, <1>7, <1>8 DEF DeliveryStep

\* Nobody else takes or drops a lock that a Delivery holds.
LEMMA HolderKept ==
  ASSUME TransactionInv, NEW d \in Delivery, DeliveryStep(d)
  PROVE  /\ holder' \in Delivery \cup {"none"}
         /\ \A e \in Delivery \ {d} : holder = e => holder' = e
<1> USE TransactionAssumption
<1>1. holder \in Delivery \cup {"none"} BY DEF TransactionInv, TypeOK
<1>2. holder' = holder \/ Acquire(d) \/ Release(d)
  BY DEF DeliveryStep, Integrate, Begin, Recover, Crash, ObservationStep,
     DispositionStep, RecordIntent,
     ObservationRefused, ObserveNoShip, LockTarget, LockBusy, ReadFails, Recognize,
     Uncertain, Refuse, Prepare, PreparationEnds, Publish, PublicationRefused,
     PublicationLost, CheckoutFollows, BeginCheckout, FinishCheckout, Synchronized,
     CheckoutConflicts, RecordObservation, Conclude, SampleFailure, CompleteFailed,
     NoShipHandoff, RetainDisposition, SampleClosure, DispositionRefused,
     RecordClosure, Seal, PrepareArchive, MoveArchive
<1> QED BY <1>1, <1>2 DEF Acquire, Release

\* A publication comes only from an attempt that has not published yet.
LEMMA PublishedFresh ==
  ASSUME TransactionInv, NEW d \in Delivery, Publish(d)
  PROVE  /\ K(d) \in Commit /\ K(d) \notin moved
         /\ control[d].stage = "intended" /\ IsAcceptance(d) /\ holder = d
         /\ Tip(history) = control[d].parent
<1>1. call[d].pc = "publish" /\ Tip(history) = control[d].parent
  BY DEF Publish, At, ParentIsTip
<1>2. /\ control[d].stage = "intended" /\ IsAcceptance(d) /\ holder = d
      /\ K(d) \notin moved
  BY <1>1 DEF TransactionInv, Good, Working, Locking, Observing, Unpublished
<1>3. K(d) \in Commit
  BY <1>2, CommitOf DEF TransactionInv, Good, Attempted
<1> QED BY <1>1, <1>2, <1>3

LEMMA StepTyped ==
  ASSUME TransactionInv, NEW d \in Delivery, DeliveryStep(d)
  PROVE  TypeOK'
<1> USE TransactionAssumption
<1>1. /\ history \in Seq(Commit) /\ moved \subseteq Commit /\ attached \in BOOLEAN
      /\ checkout \in [state : {"clean", "dirty", "partial"}, at : Commit]
      /\ moves \in 0..MaxMoves /\ faults \in 0..MaxFaults
  BY DEF TransactionInv, TypeOK
<1>2. /\ history' \in Seq(Commit) /\ moved' \subseteq Commit /\ attached' \in BOOLEAN
      /\ checkout' \in [state : {"clean", "dirty", "partial"}, at : Commit]
  <2>1. CASE UNCHANGED repository BY <1>1, <2>1 DEF repository
  <2>2. CASE Publish(d)
    <3>1. K(d) \in Commit BY <2>2, PublishedFresh
    <3> QED BY <1>1, <2>2, <3>1 DEF Publish
  <2>3. CASE BeginCheckout(d) BY <1>1, <2>3 DEF BeginCheckout
  <2>4. CASE FinishCheckout(d)
    <3>1. call[d].pc = "checkout" BY <2>4 DEF FinishCheckout, At
    <3>2. control[d].stage # "ready" BY <3>1 DEF TransactionInv, Good, Working
    <3>3. K(d) \in Commit BY <3>2, CommitOf DEF TransactionInv, Good, Attempted
    <3> QED BY <1>1, <2>4, <3>3 DEF FinishCheckout
  <2> QED BY <2>1, <2>2, <2>3, <2>4, Writes DEF RepositoryWritten
<1>3. moves' \in 0..MaxMoves /\ faults' \in 0..MaxFaults
  BY <1>1, Writes DEF Fault
<1>4. /\ control' \in [Delivery -> Control] /\ support' \in [Delivery -> Support]
      /\ call' \in [Delivery -> Call] /\ holder' \in Delivery \cup {"none"}
  BY ControlTyped, SupportTyped, CallTyped, HolderKept
<1> QED BY <1>2, <1>3, <1>4 DEF TypeOK, Control, Support, Call

------------------------------------------------------------------------------
(* The steps of one Delivery and the facts of another.                        *)
LEMMA OtherStep ==
  ASSUME TransactionInv, NEW d \in Delivery, DeliveryStep(d), NEW e \in Delivery \ {d}
  PROVE  Good(e)'
<1>1. /\ control'[e] = control[e] /\ support'[e] = support[e] /\ call'[e] = call[e]
      /\ holder = e => holder' = e
  BY ControlTyped, SupportTyped, CallTyped, HolderKept
<1>2. Good(e) /\ Good(d) BY DEF TransactionInv
<1>3. /\ K(e)' = K(e) /\ IsAcceptance(e)' = IsAcceptance(e)
      /\ K(e).by = e /\ K(d).by = d /\ K(e) # K(d)
  BY <1>1 DEF K, IsAcceptance
<1>4. Attempted(e)' /\ Supported(e)'
  BY <1>1, <1>2 DEF Good, Attempted, Supported
<1>5. Followed(e)' = Followed(e) BY <1>1 DEF Followed
<1>6. CASE UNCHANGED repository
  BY <1>1, <1>2, <1>3, <1>4, <1>5, <1>6
  DEF repository, Good, Truth, Built, Following, Working, Current
<1>7. CASE Publish(d)
  <2>1. /\ history' = Append(history, K(d)) /\ moved' = moved \cup {K(d)}
        /\ attached' = attached /\ checkout' = checkout /\ holder = d
    BY <1>7, PublishedFresh DEF Publish
  <2>2. history \in Seq(Commit) /\ K(d) \in Commit
    BY <1>7, PublishedFresh, Types DEF TransactionInv
  <2>3. Truth(e)' BY <1>1, <1>2, <1>3, <2>1 DEF Good, Truth
  <2>4. Built(e)'
    <3> SUFFICES ASSUME NEW i \in DOMAIN history', history'[i].by = e
                 PROVE  /\ history'[i] \in moved'
                        /\ Predecessor(history', i) = control'[e].parent
      BY DEF Built
    <3>1. i # Len(history) + 1 BY <1>3, <2>1, <2>2
    <3>2. /\ i \in DOMAIN history /\ history'[i] = history[i]
          /\ Predecessor(history', i) = Predecessor(history, i)
      BY <2>1, <2>2, <3>1 DEF Predecessor
    <3> QED BY <1>1, <1>2, <2>1, <3>2 DEF Good, Built
  <2>5. Tip(history') = K(d) BY <2>1, <2>2 DEF Tip
  <2>6. ~Current(e)' BY <1>3, <2>5 DEF Current
  <2>7. Following(e)' BY <2>6 DEF Following
  <2>8. call[e].pc # "checkout" BY <1>2, <2>1 DEF Good, Working, Locking
  <2>9. Working(e)' BY <1>1, <1>2, <1>3, <2>1, <2>8 DEF Good, Working
  <2> QED BY <1>4, <2>3, <2>4, <2>7, <2>9 DEF Good
<1>8. CASE BeginCheckout(d) \/ FinishCheckout(d)
  <2>1. history' = history /\ moved' = moved /\ attached' = attached
    BY <1>8 DEF BeginCheckout, FinishCheckout
  <2>2. Truth(e)' /\ Built(e)' /\ Working(e)'
    BY <1>1, <1>2, <1>3, <2>1 DEF Good, Truth, Built, Working, Current
  <2>3. CASE BeginCheckout(d)
    <3>1. checkout \in [state : {"clean", "dirty", "partial"}, at : Commit]
      BY Types DEF TransactionInv
    <3>2. checkout'.at = checkout.at BY <2>3, <3>1 DEF BeginCheckout
    <3>3. Following(e)' BY <1>2, <1>3, <1>5, <2>1, <3>2 DEF Good, Following, Current
    <3> QED BY <1>4, <2>2, <3>3 DEF Good
  <2>4. CASE FinishCheckout(d)
    <3>1. Current(d) BY <1>2, <2>4 DEF Good, Working, FinishCheckout, At
    <3>2. ~Current(e)' BY <1>3, <2>1, <3>1 DEF Current
    <3> QED BY <1>4, <2>2, <3>2 DEF Good, Following
  <2> QED BY <1>8, <2>3, <2>4
<1> QED BY <1>6, <1>7, <1>8, Writes DEF RepositoryWritten

------------------------------------------------------------------------------
(* The steps of a Delivery and its own facts.                                 *)
\* What is known before any step of d.
LEMMA Before ==
  ASSUME TransactionInv, NEW d \in Delivery, DeliveryStep(d)
  PROVE  /\ Good(d)
         /\ control \in [Delivery -> Control] /\ control[d] \in Control
         /\ support \in [Delivery -> Support] /\ support[d] \in Support
         /\ call \in [Delivery -> Call] /\ call[d] \in Call
BY Types DEF TransactionInv

LEMMA AttemptedKept ==
  ASSUME TransactionInv, NEW d \in Delivery, DeliveryStep(d)
  PROVE  Attempted(d)'
<1> USE Before DEF Attempted
<1>1. CASE control' = control BY <1>1 DEF Good
<1>2. CASE Integrate(d) BY <1>2 DEF Integrate
<1>3. CASE \E op \in Operations : Begin(d, op)
  <2>1. control'[d].attempt = control[d].attempt + 1
    BY <1>3 DEF Begin, Control
  <2>2. control[d].attempt \in Nat BY DEF Control
  <2> QED BY <2>1, <2>2
<1>4. CASE RecordIntent(d) \/ RecordObservation(d) \/ CompleteFailed(d) \/ RecordClosure(d)
  BY <1>4 DEF Good, RecordIntent, RecordObservation, CompleteFailed, RecordClosure,
     Working, Stage, At, Control
<1>5. CASE Seal(d) \/ PrepareArchive(d) \/ MoveArchive(d)
  BY <1>5 DEF Good, Seal, PrepareArchive, MoveArchive, Control
<1> QED BY <1>1, <1>2, <1>3, <1>4, <1>5, Writes DEF ControlWritten

\* Only a new attempt changes what a Delivery would publish, and where.
LEMMA Identity ==
  ASSUME TransactionInv, NEW d \in Delivery, DeliveryStep(d),
         ~\E op \in Operations : Begin(d, op)
  PROVE  /\ K(d)' = K(d) /\ IsAcceptance(d)' = IsAcceptance(d)
         /\ control'[d].parent = control[d].parent
<1>1. CASE control' = control BY <1>1 DEF K, IsAcceptance
<1>2. CASE Integrate(d)
  BY <1>2, Before DEF Integrate, Control, K, IsAcceptance
<1>3. CASE RecordIntent(d) \/ CompleteFailed(d) \/ RecordClosure(d)
  <2>1. \E s \in Stages : control' = [control EXCEPT ![d].stage = s]
    BY <1>3 DEF RecordIntent, CompleteFailed, RecordClosure, Stages
  <2> QED BY <2>1, Before DEF Control, K, IsAcceptance
<1>4. CASE Seal(d) \/ PrepareArchive(d) \/ MoveArchive(d)
  <2>1. \E s \in Custodies : control' = [control EXCEPT ![d].custody = s]
    BY <1>4 DEF Seal, PrepareArchive, MoveArchive, Custodies
  <2> QED BY <2>1, Before DEF Control, K, IsAcceptance
<1>5. CASE RecordObservation(d)
  BY <1>5, Before DEF RecordObservation, Control, K, IsAcceptance
<1> QED BY <1>1, <1>2, <1>3, <1>4, <1>5, Writes DEF ControlWritten

\* The stage and the custody of a Delivery after each write of its Store.
LEMMA Staged ==
  ASSUME TransactionInv, NEW d \in Delivery, DeliveryStep(d)
  PROVE  /\ Integrate(d) => control'[d].stage = control[d].stage
         /\ \A op \in Operations : Begin(d, op) => control'[d].stage = "opened"
         /\ RecordIntent(d) =>
              control[d].stage = "opened" /\ control'[d].stage = "intended"
         /\ RecordObservation(d) =>
              control'[d].stage = IF call[d].outcome = "indeterminate"
                                  THEN "intended" ELSE call[d].outcome
         /\ CompleteFailed(d) =>
              control[d].stage = "not-applied" /\ control'[d].stage = "ready"
         /\ RecordClosure(d) =>
              control[d].stage = "applied" /\ control'[d].stage = "closed"
         /\ Seal(d) \/ PrepareArchive(d) \/ MoveArchive(d) =>
              control[d].stage = "closed" /\ control'[d].stage = "closed"
         /\ control'[d].custody = control[d].custody
              \/ Seal(d) \/ PrepareArchive(d) \/ MoveArchive(d)
         /\ ControlWritten(d) => UNCHANGED repository
<1> USE Before DEF Stage, At, Durable
<1>1. Integrate(d) => control'[d].stage = control[d].stage
  BY DEF Integrate, Control
<1>2. \A op \in Operations : Begin(d, op) => control'[d].stage = "opened"
  BY DEF Begin, Control
<1>3. RecordIntent(d) => control[d].stage = "opened" /\ control'[d].stage = "intended"
  BY DEF RecordIntent, Control
<1>4. RecordObservation(d) =>
        control'[d].stage = IF call[d].outcome = "indeterminate"
                            THEN "intended" ELSE call[d].outcome
  BY DEF RecordObservation, Control
<1>5. CompleteFailed(d) =>
        control[d].stage = "not-applied" /\ control'[d].stage = "ready"
  BY DEF CompleteFailed, Control
<1>6. RecordClosure(d) => control[d].stage = "applied" /\ control'[d].stage = "closed"
  BY DEF RecordClosure, Control
<1>7. Seal(d) \/ PrepareArchive(d) \/ MoveArchive(d) =>
        control[d].stage = "closed" /\ control'[d].stage = "closed"
  BY DEF Seal, PrepareArchive, MoveArchive, Control
<1>8. \/ control'[d].custody = control[d].custody
      \/ Seal(d) \/ PrepareArchive(d) \/ MoveArchive(d)
  <2>1. CASE control' = control BY <2>1
  <2>2. CASE Integrate(d) BY <2>2 DEF Integrate, Control
  <2>3. CASE \E op \in Operations : Begin(d, op) BY <2>3 DEF Begin, Control
  <2>4. CASE RecordIntent(d) \/ CompleteFailed(d) \/ RecordClosure(d)
    BY <2>4 DEF RecordIntent, CompleteFailed, RecordClosure, Control
  <2>5. CASE RecordObservation(d) BY <2>5 DEF RecordObservation, Control
  <2> QED BY <2>1, <2>2, <2>3, <2>4, <2>5, Writes DEF ControlWritten
<1>9. ControlWritten(d) => UNCHANGED repository
  BY DEF ControlWritten, Integrate, Begin, RecordIntent, RecordObservation,
     CompleteFailed, RecordClosure, Seal, PrepareArchive, MoveArchive, repository
<1> QED BY <1>1, <1>2, <1>3, <1>4, <1>5, <1>6, <1>7, <1>8, <1>9

LEMMA TruthKept ==
  ASSUME TransactionInv, NEW d \in Delivery, DeliveryStep(d)
  PROVE  Truth(d)'
<1>1. Good(d) BY Before
<1>2. CASE \E op \in Operations : Begin(d, op)
  <2>1. control[d].stage = "ready" /\ moved' = moved
    BY <1>2 DEF Begin, repository
  <2>2. control'[d].stage = "opened" BY <1>2, Staged
  <2> QED BY <1>1, <2>1, <2>2 DEF Good, Truth
<1>3. CASE ~\E op \in Operations : Begin(d, op)
  <2>1. K(d)' = K(d) /\ IsAcceptance(d)' = IsAcceptance(d) BY <1>3, Identity
  <2>2. CASE ControlWritten(d)
    <3>1. moved' = moved BY <2>2, Staged DEF repository
    <3>2. CASE Integrate(d) \/ RecordIntent(d) \/ CompleteFailed(d) \/ RecordClosure(d)
               \/ Seal(d) \/ PrepareArchive(d) \/ MoveArchive(d)
      BY <1>1, <2>1, <3>1, <3>2, Staged DEF Good, Truth
    <3>3. CASE RecordObservation(d)
      <4>1. /\ control[d].stage = "intended" /\ call[d].outcome \in Outcomes
            /\ call[d].outcome = "applied" /\ IsAcceptance(d) => K(d) \in moved
            /\ call[d].outcome = "not-applied" => K(d) \notin moved
        BY <1>1, <3>3, Before DEF RecordObservation, Good, Working, At, Call
      <4>2. control'[d].stage = IF call[d].outcome = "indeterminate"
                                THEN "intended" ELSE call[d].outcome
        BY <3>3, Staged
      <4> QED BY <1>1, <2>1, <3>1, <4>1, <4>2 DEF Good, Truth, Outcomes
    <3> QED BY <1>3, <2>2, <3>2, <3>3 DEF ControlWritten
  <2>3. CASE control' = control
    <3>1. CASE Publish(d)
      BY <1>1, <2>1, <2>3, <3>1, PublishedFresh DEF Publish, Good, Truth
    <3>2. CASE ~Publish(d)
      <4>1. moved' = moved
        BY <3>2, Writes DEF RepositoryWritten, BeginCheckout, FinishCheckout, repository
      <4> QED BY <1>1, <2>1, <2>3, <4>1 DEF Good, Truth
    <3> QED BY <3>1, <3>2
  <2> QED BY <2>2, <2>3, Writes
<1> QED BY <1>2, <1>3

LEMMA BuiltKept ==
  ASSUME TransactionInv, NEW d \in Delivery, DeliveryStep(d)
  PROVE  Built(d)'
<1>1. Good(d) /\ history \in Seq(Commit) BY Before, Types DEF TransactionInv
<1>2. CASE \E op \in Operations : Begin(d, op)
  <2>1. control[d].stage = "ready" /\ moved' = moved /\ history' = history
    BY <1>2 DEF Begin, repository
  <2>2. \A i \in DOMAIN history : history[i].by # d
    BY <1>1, <2>1 DEF Good, Truth, Built
  <2> QED BY <2>1, <2>2 DEF Built
<1>3. CASE Publish(d)
  <2>1. /\ history' = Append(history, K(d)) /\ moved' = moved \cup {K(d)}
        /\ control' = control
    BY <1>3 DEF Publish
  <2>2. K(d) \in Commit /\ Tip(history) = control[d].parent
    BY <1>3, PublishedFresh
  <2> SUFFICES ASSUME NEW i \in DOMAIN history', history'[i].by = d
               PROVE  /\ history'[i] \in moved'
                      /\ Predecessor(history', i) = control[d].parent
    BY <2>1 DEF Built
  <2>3. CASE i = Len(history) + 1
    <3>1. history'[i] = K(d) BY <1>1, <2>1, <2>2, <2>3
    <3>2. Predecessor(history', i) = Tip(history)
      BY <1>1, <2>1, <2>2, <2>3 DEF Predecessor, Tip
    <3> QED BY <2>1, <2>2, <3>1, <3>2
  <2>4. CASE i # Len(history) + 1
    <3>1. /\ i \in DOMAIN history /\ history'[i] = history[i]
          /\ Predecessor(history', i) = Predecessor(history, i)
      BY <1>1, <2>1, <2>2, <2>4 DEF Predecessor
    <3> QED BY <1>1, <2>1, <3>1 DEF Good, Built
  <2> QED BY <2>3, <2>4
<1>4. CASE ~Publish(d) /\ ~\E op \in Operations : Begin(d, op)
  <2>1. history' = history /\ moved' = moved
    BY <1>4, Writes DEF RepositoryWritten, BeginCheckout, FinishCheckout, repository
  <2>2. control'[d].parent = control[d].parent BY <1>4, Identity
  <2> QED BY <1>1, <2>1, <2>2 DEF Good, Built
<1> QED BY <1>2, <1>3, <1>4

LEMMA SupportedKept ==
  ASSUME TransactionInv, NEW d \in Delivery, DeliveryStep(d)
  PROVE  Supported(d)'
<1>1. Good(d) BY Before
<1>2. CASE SupportWritten(d)
  <2>1. CASE \E op \in Operations : Begin(d, op)
    <3>1. /\ support'[d] = NewSupport /\ control'[d].stage = "opened"
          /\ control[d].stage = "ready" /\ control'[d].custody = control[d].custody
      BY <2>1, Before, Staged DEF Begin, Seal, PrepareArchive, MoveArchive, Stage, At, Control
    <3> QED BY <1>1, <3>1 DEF Good, Supported, NewSupport, NoSupport
  <2>2. CASE CompleteFailed(d) \/ RecordClosure(d)
    <3>1. /\ support'[d] = NoSupport /\ control[d].stage \in {"not-applied", "applied"}
          /\ control'[d].stage \in {"ready", "closed"}
          /\ control'[d].custody = control[d].custody
      BY <2>2, Before, Staged DEF CompleteFailed, RecordClosure, Control
    <3> QED BY <1>1, <3>1 DEF Good, Supported, NoSupport
  <2>3. CASE SampleFailure(d) \/ SampleClosure(d)
    <3>1. /\ support'[d] = [support[d] EXCEPT !.completion = TRUE] /\ control' = control
          /\ control[d].stage = "not-applied" \/ support[d].disposition
      BY <2>3, Before DEF SampleFailure, SampleClosure, Stage
    <3>2. /\ support'[d].live = support[d].live /\ support'[d].completion
          /\ support'[d].disposition = support[d].disposition
      BY <3>1, Before DEF Support
    <3> QED BY <1>1, <3>1, <3>2 DEF Good, Supported
  <2>4. CASE RetainDisposition(d)
    <3>1. /\ support'[d] = [support[d] EXCEPT !.disposition = TRUE] /\ control' = control
          /\ control[d].stage = "applied"
      BY <1>1, <2>4, Before DEF RetainDisposition, Good, Working, At
    <3>2. /\ support'[d].live = support[d].live /\ support'[d].disposition
      BY <3>1, Before DEF Support
    <3> QED BY <1>1, <3>1, <3>2 DEF Good, Supported
  <2> QED BY <1>2, <2>1, <2>2, <2>3, <2>4 DEF SupportWritten
<1>3. CASE ~SupportWritten(d)
  <2>1. support' = support BY <1>3, Writes
  <2>2. CASE control' = control BY <1>1, <2>1, <2>2 DEF Good, Supported
  <2>3. CASE Seal(d) \/ PrepareArchive(d) \/ MoveArchive(d)
    BY <1>1, <2>1, <2>3, Staged DEF Good, Supported
  <2>4. CASE Integrate(d)
    <3>1. control'[d].stage = control[d].stage /\ control'[d].custody = control[d].custody
      BY <2>4, Staged, Before DEF Integrate, Control
    <3> QED BY <1>1, <2>1, <3>1 DEF Good, Supported
  <2>5. CASE RecordIntent(d) \/ RecordObservation(d)
    <3>1. /\ control[d].stage \in {"opened", "intended"}
          /\ control'[d].stage \in {"intended", "applied", "not-applied"}
          /\ control'[d].custody = control[d].custody
      <4>1. CASE RecordIntent(d)
        BY <4>1, Staged, Before DEF RecordIntent, Control
      <4>2. CASE RecordObservation(d)
        BY <1>1, <4>2, Staged, Before
        DEF RecordObservation, Control, Good, Working, At, Call, Outcomes
      <4> QED BY <2>5, <4>1, <4>2
    <3> QED BY <1>1, <2>1, <3>1 DEF Good, Supported
  <2> QED BY <1>3, <2>2, <2>3, <2>4, <2>5, Writes DEF ControlWritten, SupportWritten
<1> QED BY <1>2, <1>3

\* The verification of the Reclamation handoff begins in three ways only.
LEMMA HandoffReached ==
  ASSUME TransactionInv, NEW d \in Delivery, DeliveryStep(d), call'[d].pc = "handoff"
  PROVE  call' = call \/ NoShipHandoff(d) \/ CheckoutFollows(d) \/ FinishCheckout(d)
<1> USE Before DEF Call
<1>1. ASSUME EndCall(d) PROVE FALSE BY <1>1 DEF EndCall, NoCall
<1>2. ASSUME NEW o, Conclude(d, o) PROVE FALSE BY <1>2 DEF Conclude
<1>3. ASSUME NEW pc \in Pcs \ {"handoff"}, Goto(d, pc) PROVE FALSE BY <1>3 DEF Goto
<1>4. CASE Integrate(d) \/ (\E op \in Operations : Begin(d, op)) \/ Recover(d) \/ Crash(d)
  <2>1. CASE Integrate(d) BY <2>1 DEF Integrate
  <2>2. CASE \E op \in Operations : Begin(d, op) BY <2>2 DEF Begin, NoCall
  <2>3. CASE Recover(d) BY <2>3 DEF Recover, NoCall
  <2>4. CASE Crash(d) BY <1>1, <2>4 DEF Crash
  <2> QED BY <1>4, <2>1, <2>2, <2>3, <2>4
<1>5. CASE ObservationStep(d)
  <2>1. CASE RecordIntent(d) \/ ObservationRefused(d) \/ LockBusy(d)
    BY <1>1, <2>1 DEF RecordIntent, ObservationRefused, LockBusy
  <2>2. CASE ObserveNoShip(d) BY <2>2 DEF ObserveNoShip
  <2>3. CASE LockTarget(d) \/ Recognize(d)
    BY <1>3, <2>3 DEF LockTarget, LockedStep, Recognize, Pcs
  <2>4. CASE ReadFails(d) \/ Uncertain(d) \/ Refuse(d) \/ PublicationRefused(d)
    BY <1>2, <2>4 DEF ReadFails, Uncertain, Refuse, PublicationRefused
  <2>5. CASE Prepare(d) \/ Publish(d) \/ PublicationLost(d) \/ BeginCheckout(d)
    BY <1>3, <2>5 DEF Prepare, Publish, PublicationLost, BeginCheckout, Pcs
  <2>6. CASE \E r \in {"complete", "failed"} : PreparationEnds(d, r)
    BY <2>6 DEF PreparationEnds
  <2>7. CASE CheckoutConflicts(d) BY <1>1, <1>2, <2>7 DEF CheckoutConflicts
  <2>8. CASE RecordObservation(d) BY <1>1, <1>3, <2>8 DEF RecordObservation, Pcs
  <2> QED BY <1>5, <2>1, <2>2, <2>3, <2>4, <2>5, <2>6, <2>7, <2>8 DEF ObservationStep
<1>6. CASE DispositionStep(d)
  BY <1>1, <1>3, <1>6
  DEF DispositionStep, SampleFailure, CompleteFailed, RetainDisposition, SampleClosure,
      DispositionRefused, RecordClosure, Seal, PrepareArchive, MoveArchive, Pcs
<1> QED BY <1>4, <1>5, <1>6 DEF DeliveryStep

LEMMA FollowingKept ==
  ASSUME TransactionInv, NEW d \in Delivery, DeliveryStep(d)
  PROVE  Following(d)'
<1>1. Good(d) BY Before
<1>2. CASE \E op \in Operations : Begin(d, op)
  <2>1. control'[d].stage = "opened" BY <1>2, Staged
  <2>2. support'[d] = NewSupport /\ call'[d].pc = "step"
    BY <1>2, Before DEF Begin, NoCall
  <2> QED BY <2>1, <2>2 DEF Following, Followed, NewSupport, NoSupport
<1>3. CASE ~\E op \in Operations : Begin(d, op)
  <2>1. K(d)' = K(d) /\ IsAcceptance(d)' = IsAcceptance(d) BY <1>3, Identity
  <2>2. CASE CheckoutFollows(d)
    BY <2>1, <2>2 DEF CheckoutFollows, Durable, repository, Following, Current
  <2>3. CASE FinishCheckout(d) BY <2>1, <2>3 DEF FinishCheckout, Following
  <2>4. CASE NoShipHandoff(d) BY <2>1, <2>4 DEF NoShipHandoff, Following
  <2>5. CASE Publish(d)
    <3>1. /\ control[d].stage = "intended" /\ control' = control /\ support' = support
          /\ call'[d].pc = "after"
      BY <2>5, PublishedFresh, Before DEF Publish, Goto, Call
    <3> QED BY <1>1, <3>1 DEF Good, Supported, Following, Followed
  <2>6. CASE BeginCheckout(d)
    <3>1. /\ control' = control /\ support' = support /\ call'[d].pc = "checkout"
          /\ history' = history /\ attached' = attached
      BY <2>6, Before DEF BeginCheckout, Goto, Call
    <3>2. checkout \in [state : {"clean", "dirty", "partial"}, at : Commit]
      BY Types DEF TransactionInv
    <3>3. checkout'.at = checkout.at BY <2>6, <3>2 DEF BeginCheckout
    <3> QED BY <1>1, <2>1, <3>1, <3>3 DEF Good, Following, Followed, Current
  <2>7. CASE /\ ~CheckoutFollows(d) /\ ~NoShipHandoff(d) /\ ~RepositoryWritten(d)
    <3>1. UNCHANGED repository BY <2>7, Writes
    <3>2. call'[d].pc = "handoff" => call[d].pc = "handoff"
      BY <2>7, HandoffReached DEF RepositoryWritten
    <3>3. control'[d].stage = "closed" => control[d].stage = "closed" \/ support[d].disposition
      <4>1. CASE control' = control BY <4>1
      <4>2. CASE RecordClosure(d)
        <5>1. support[d].completion BY <4>2 DEF RecordClosure
        <5> QED BY <1>1, <4>2, <5>1, Staged DEF Good, Supported
      <4>3. CASE RecordObservation(d) BY <4>3, Staged, Before DEF Call, Outcomes
      <4> QED BY <1>3, <4>1, <4>2, <4>3, Staged, Writes DEF ControlWritten
    <3>4. support'[d].disposition => support[d].disposition \/ call[d].pc = "handoff"
      <4>1. CASE CompleteFailed(d) \/ RecordClosure(d)
        BY <4>1, Before DEF CompleteFailed, RecordClosure, NoSupport
      <4>2. CASE RetainDisposition(d) BY <4>2 DEF RetainDisposition, At
      <4>3. CASE SampleFailure(d) \/ SampleClosure(d)
        BY <4>3, Before DEF SampleFailure, SampleClosure, Support
      <4> QED BY <1>3, <4>1, <4>2, <4>3, Writes DEF SupportWritten
    <3> QED BY <1>1, <2>1, <3>1, <3>2, <3>3, <3>4
        DEF Good, Following, Followed, Current, repository
  <2> QED BY <2>2, <2>3, <2>4, <2>5, <2>6, <2>7 DEF RepositoryWritten
<1> QED BY <1>2, <1>3

\* A Store that is not written, and a call that goes on at another place.
LEMMA Moved ==
  ASSUME TransactionInv, NEW d \in Delivery, DeliveryStep(d)
  PROVE  /\ \A pc \in Pcs : Goto(d, pc) =>
              /\ call'[d].pc = pc
              /\ call'[d].mayHaveApplied = call[d].mayHaveApplied
         /\ \A o \in Outcomes : Conclude(d, o) =>
              call'[d].pc = "record" /\ call'[d].outcome = o
         /\ EndCall(d) => call'[d].pc = "idle"
BY Before DEF Goto, Conclude, EndCall, NoCall, Call

LEMMA WorkingKept ==
  ASSUME TransactionInv, NEW d \in Delivery, DeliveryStep(d)
  PROVE  Working(d)'
<1> USE DEF At, Stage
<1>1. Good(d) /\ holder \in Delivery \cup {"none"}
  BY Before DEF TransactionInv, TypeOK
<1> DEFINE CanObserve ==
      control[d].stage = "intended" /\ control[d].observations # MaxObservations
<1>2. ASSUME call'[d].pc = "idle" PROVE Working(d)'
  BY <1>2 DEF Working, Locking, Observing, Unpublished
<1>3. ASSUME EndCall(d) PROVE Working(d)' BY <1>2, <1>3, Moved
<1>4. ASSUME NEW o \in Outcomes, Conclude(d, o), control' = control, moved' = moved,
             CanObserve,
             o = "applied" /\ IsAcceptance(d) => K(d) \in moved,
             o = "not-applied" => K(d) \notin moved
      PROVE  Working(d)'
  <2>1. /\ call'[d].pc = "record" /\ call'[d].outcome = o
        /\ K(d)' = K(d) /\ IsAcceptance(d)' = IsAcceptance(d)
    BY <1>4, Moved DEF K, IsAcceptance
  <2> QED BY <1>4, <2>1 DEF Working, Locking, Observing, Unpublished
<1>5. CASE Integrate(d)
  <2>1. call'[d].pc = "idle" BY <1>5 DEF Integrate
  <2> QED BY <1>2, <2>1
<1>6. CASE \E op \in Operations : Begin(d, op)
  <2>1. /\ call'[d].pc = "step" /\ moved' = moved /\ control[d].stage = "ready"
    BY <1>6, Before DEF Begin, NoCall, repository
  <2>2. control'[d].stage = "opened" /\ K(d)'.by = d BY <1>6, Staged DEF K
  <2>3. K(d)' \notin moved BY <1>1, <2>1, <2>2 DEF Good, Truth
  <2> QED BY <2>1, <2>2, <2>3 DEF Working, Locking, Observing, Unpublished
<1>7. CASE Recover(d)
  <2>1. /\ call'[d].pc = "step" /\ moved' = moved /\ control' = control
        /\ control[d].stage # "ready"
        /\ call'[d].mayHaveApplied = (control[d].stage # "opened")
    BY <1>7, Before DEF Recover, NoCall, Durable, repository, EarlierCallMayHaveApplied
  <2>2. K(d)' = K(d) /\ K(d).by = d BY <2>1 DEF K
  <2>3. control[d].stage = "opened" => K(d) \notin moved
    BY <1>1, <2>2 DEF Good, Truth
  <2> QED BY <2>1, <2>2, <2>3 DEF Working, Locking, Observing, Unpublished
<1>8. CASE RecordIntent(d)
  <2>1. /\ call' = call /\ moved' = moved /\ call[d].pc = "step"
        /\ control[d].stage = "opened" /\ control'[d].stage = "intended"
        /\ K(d)' = K(d)
    BY <1>8, Staged, Identity DEF RecordIntent, Begin, Durable, repository
  <2> QED BY <1>1, <2>1 DEF Good, Working, Locking, Observing, Unpublished
<1>9. CASE RecordObservation(d)
  <2>1. CASE EndCall(d) BY <1>3, <2>1
  <2>2. CASE ~EndCall(d)
    <3>1. /\ call'[d].pc = "step" /\ call[d].outcome # "indeterminate"
      BY <1>9, <2>2, Moved DEF RecordObservation, Pcs
    <3>2. control'[d].stage \in {"applied", "not-applied"}
      BY <1>9, <3>1, Staged, Before DEF Call, Outcomes
    <3> QED BY <3>1, <3>2 DEF Working, Locking, Observing, Unpublished
  <2> QED BY <2>1, <2>2
<1>10. CASE LockTarget(d)
  <2>1. /\ holder' = d /\ control' = control /\ moved' = moved
        /\ call'[d].pc = LockedStep(d)
        /\ call'[d].mayHaveApplied = call[d].mayHaveApplied
        /\ IsAcceptance(d)
    BY <1>10, Moved
    DEF LockTarget, NeedsLock, Acquire, Durable, repository, LockedStep, Pcs
  <2>2. K(d)' = K(d) /\ IsAcceptance(d)' = IsAcceptance(d)
    BY <2>1 DEF K, IsAcceptance
  <2>3. CASE At(d, "relock") \/ Observable(d)
    <3>1. call'[d].pc = "observe" BY <2>1, <2>3 DEF LockedStep
    <3>2. CanObserve /\ call[d].pc \in {"step", "relock"}
      BY <1>1, <2>3, Before, TransactionAssumption
      DEF Good, Working, Observing, Observable, Control
    <3> QED BY <1>1, <2>1, <2>2, <3>1, <3>2
            DEF Good, Working, Locking, Observing, Unpublished
  <2>4. CASE ~(At(d, "relock") \/ Observable(d))
    <3>1. call'[d].pc = "synchronize" /\ control[d].stage = "applied"
      BY <1>10, <2>1, <2>4 DEF LockedStep, LockTarget, NeedsLock
    <3>2. K(d) \in moved BY <1>1, <2>1, <3>1 DEF Good, Truth
    <3> QED BY <2>1, <2>2, <3>1, <3>2 DEF Working, Locking, Observing, Unpublished
  <2> QED BY <2>3, <2>4
<1>11. CASE ObserveNoShip(d)
  <2>1. /\ call'[d].pc = "record" /\ call'[d].outcome = "applied"
        /\ control' = control /\ ~IsAcceptance(d) /\ CanObserve
    BY <1>11, Before, TransactionAssumption
    DEF ObserveNoShip, Observable, Call, Control
  <2>2. ~IsAcceptance(d)' BY <2>1 DEF IsAcceptance
  <2> QED BY <2>1, <2>2 DEF Working, Locking, Observing, Unpublished
<1>12. CASE ReadFails(d) \/ Uncertain(d) \/ Refuse(d) \/ PublicationRefused(d)
  <2>1. /\ control' = control /\ moved' = moved
        /\ call[d].pc \in {"observe", "after", "publish"}
    BY <1>12
    DEF ReadFails, Uncertain, Refuse, PublicationRefused, Durable, repository
  <2>2. CanObserve BY <1>1, <2>1 DEF Good, Working, Observing
  <2>3. CASE ReadFails(d) \/ Uncertain(d)
    BY <1>4, <2>1, <2>2, <2>3 DEF ReadFails, Uncertain, Outcomes
  <2>4. CASE Refuse(d) \/ PublicationRefused(d)
    <3>1. Conclude(d, "not-applied") /\ ~call[d].mayHaveApplied
          /\ call[d].pc \in {"observe", "publish"}
      BY <1>1, <2>4 DEF Refuse, PublicationRefused, Good, Working, Unpublished
    <3>2. K(d) \notin moved
      BY <1>1, <2>2, <3>1 DEF Good, Working, Unpublished
    <3> QED BY <1>4, <2>1, <2>2, <3>1, <3>2 DEF Outcomes
  <2> QED BY <1>12, <2>3, <2>4
<1>13. CASE Recognize(d)
  <2>1. /\ call'[d].pc = "synchronize" /\ control' = control /\ moved' = moved
        /\ holder' = holder /\ call[d].pc \in {"observe", "after"}
        /\ K(d) \in Commits(history)
    BY <1>13, Moved DEF Recognize, Durable, repository, Published, Pcs
  <2>2. K(d)' = K(d) /\ IsAcceptance(d)' = IsAcceptance(d) /\ K(d).by = d
    BY <2>1 DEF K, IsAcceptance
  <2>3. K(d) \in moved BY <1>1, <2>1, <2>2 DEF Good, Built, Commits
  <2> QED BY <1>1, <2>1, <2>2, <2>3 DEF Good, Working, Locking, Observing, Unpublished
<1>14. CASE Prepare(d)
  <2>1. /\ control' = control /\ moved' = moved /\ call[d].pc = "observe"
        /\ call'[d].mayHaveApplied = call[d].mayHaveApplied
        /\ ~call[d].mayHaveApplied
        /\ call'[d].pc \in {"prepare", "publish"}
        /\ call'[d].pc = "publish" => holder' = holder
    BY <1>14, Moved DEF Prepare, Durable, repository, Pcs
  <2>2. K(d)' = K(d) /\ IsAcceptance(d)' = IsAcceptance(d)
    BY <2>1 DEF K, IsAcceptance
  <2> QED BY <1>1, <2>1, <2>2 DEF Good, Working, Locking, Observing, Unpublished
<1>15. CASE \E r \in {"complete", "failed"} : PreparationEnds(d, r)
  <2>1. /\ control' = control /\ moved' = moved /\ call[d].pc = "prepare"
        /\ call'[d].mayHaveApplied = call[d].mayHaveApplied
        /\ call'[d].pc = "relock"
    BY <1>15, Before DEF PreparationEnds, Durable, repository, Call
  <2>2. K(d)' = K(d) /\ IsAcceptance(d)' = IsAcceptance(d)
    BY <2>1 DEF K, IsAcceptance
  <2> QED BY <1>1, <2>1, <2>2 DEF Good, Working, Locking, Observing, Unpublished
<1>16. CASE Publish(d) \/ PublicationLost(d)
  <2>1. /\ control' = control /\ call[d].pc = "publish" /\ call'[d].pc = "after"
        /\ holder' = holder
    BY <1>16, Moved DEF Publish, PublicationLost, Pcs
  <2>2. K(d)' = K(d) /\ IsAcceptance(d)' = IsAcceptance(d)
    BY <2>1 DEF K, IsAcceptance
  <2> QED BY <1>1, <2>1, <2>2 DEF Good, Working, Locking, Observing, Unpublished
<1>17. CASE CheckoutFollows(d) \/ FinishCheckout(d)
  <2>1. /\ control' = control /\ moved' = moved /\ Synchronized(d)
        /\ call[d].pc \in {"synchronize", "checkout"}
    BY <1>17 DEF CheckoutFollows, FinishCheckout, Durable, repository
  <2>2. K(d) \in moved /\ (CanObserve \/ control[d].stage = "applied")
    BY <1>1, <2>1 DEF Good, Working
  <2>3. CASE control[d].stage = "intended"
    BY <1>4, <2>1, <2>2, <2>3 DEF Synchronized, Outcomes
  <2>4. CASE control[d].stage # "intended"
    <3>1. call'[d].pc = "handoff" BY <2>1, <2>4, Moved DEF Synchronized, Pcs
    <3> QED BY <2>1, <2>2, <2>4, <3>1 DEF Working, Locking, Observing, Unpublished
  <2> QED BY <2>3, <2>4
<1>18. CASE BeginCheckout(d)
  <2>1. /\ control' = control /\ moved' = moved /\ holder' = holder
        /\ call[d].pc = "synchronize" /\ call'[d].pc = "checkout"
        /\ history' = history /\ attached' = attached /\ Current(d)
    BY <1>18, Moved DEF BeginCheckout, Pcs
  <2>2. /\ K(d)' = K(d) /\ IsAcceptance(d)' = IsAcceptance(d) /\ Current(d)'
    BY <2>1 DEF K, IsAcceptance, Current
  <2> QED BY <1>1, <2>1, <2>2 DEF Good, Working, Locking, Observing, Unpublished
<1>19. CASE CheckoutConflicts(d)
  <2>1. CASE EndCall(d) BY <1>3, <2>1
  <2>2. CASE ~EndCall(d)
    <3>1. /\ control' = control /\ moved' = moved /\ Conclude(d, "indeterminate")
          /\ control[d].stage = "intended" /\ call[d].pc = "synchronize"
      BY <1>19, <2>2 DEF CheckoutConflicts, Durable, repository
    <3>2. CanObserve BY <1>1, <3>1 DEF Good, Working
    <3> QED BY <1>4, <3>1, <3>2 DEF Outcomes
  <2> QED BY <2>1, <2>2
<1>20. CASE NoShipHandoff(d)
  <2>1. call'[d].pc = "handoff" /\ control' = control /\ control[d].stage = "applied"
    BY <1>20, Moved DEF NoShipHandoff, Pcs
  <2> QED BY <2>1 DEF Working, Locking, Observing, Unpublished
<1>21. CASE RetainDisposition(d)
  <2>1. /\ call'[d].pc = "step" /\ control' = control /\ control[d].stage = "applied"
    BY <1>1, <1>21, Moved DEF RetainDisposition, Pcs, Good, Working
  <2> QED BY <2>1 DEF Working, Locking, Observing, Unpublished
<1>22. CASE SampleFailure(d) \/ SampleClosure(d)
  <2>1. /\ call' = call /\ control' = control /\ call[d].pc = "step"
        /\ control[d].stage \in {"not-applied", "applied"}
    BY <1>22 DEF SampleFailure, SampleClosure
  <2> QED BY <2>1 DEF Working, Locking, Observing, Unpublished
<1>23. CASE RecordClosure(d) \/ Seal(d) \/ PrepareArchive(d)
  <2>1. call' = call /\ call[d].pc = "step" /\ control'[d].stage = "closed"
    BY <1>23, Staged DEF RecordClosure, Seal, PrepareArchive
  <2> QED BY <2>1 DEF Working, Locking, Observing, Unpublished
<1>24. CASE \/ ObservationRefused(d) \/ LockBusy(d) \/ CompleteFailed(d)
            \/ DispositionRefused(d) \/ MoveArchive(d) \/ Crash(d)
  BY <1>3, <1>24
  DEF ObservationRefused, LockBusy, CompleteFailed, DispositionRefused, MoveArchive, Crash
<1> QED
  BY <1>5, <1>6, <1>7, <1>8, <1>9, <1>10, <1>11, <1>12, <1>13, <1>14, <1>15, <1>16,
     <1>17, <1>18, <1>19, <1>20, <1>21, <1>22, <1>23, <1>24
  DEF DeliveryStep, ObservationStep, DispositionStep

LEMMA OwnStep ==
  ASSUME TransactionInv, NEW d \in Delivery, DeliveryStep(d)
  PROVE  Good(d)'
BY AttemptedKept, TruthKept, BuiltKept, SupportedKept, FollowingKept, WorkingKept DEF Good

------------------------------------------------------------------------------
(* People.                                                                    *)
\* A commit of a person, a forced branch or another checkout, and the facts of
\* a Delivery: what moved does not lose, and a checkout that follows the tip.
LEMMA PersonStep ==
  ASSUME TransactionInv, Person
  PROVE  TransactionInv'
<1> USE TransactionAssumption
<1>1. /\ history \in Seq(Commit) /\ moved \subseteq Commit /\ attached \in BOOLEAN
      /\ checkout \in [state : {"clean", "dirty", "partial"}, at : Commit]
      /\ moves \in 0..MaxMoves /\ faults \in 0..MaxFaults
  BY DEF TransactionInv, TypeOK
<1>2. /\ UNCHANGED <<holder, control, support, call, faults>>
      /\ \A d \in Delivery : call[d].pc # "checkout"
      /\ moves' = moves \/ PersonMoves
  BY DEF Person, PersonCommits, PersonRewrites, PersonEdits, PersonDetaches,
         PersonRestores, PersonMoves, At
<1>3. moves' \in 0..MaxMoves BY <1>1, <1>2 DEF PersonMoves
<1> DEFINE Repository ==
      /\ history' \in Seq(Commit) /\ moved' \subseteq Commit /\ attached' \in BOOLEAN
      /\ checkout' \in [state : {"clean", "dirty", "partial"}, at : Commit]
    Kept(d) ==
      /\ \A c \in moved' : c \in moved \/ c.by # d
      /\ moved \subseteq moved'
      /\ Built(d)'
      /\ Current(d)' /\ (Current(d) => checkout.at = K(d)) => checkout'.at = K(d)
<1>4. Repository /\ \A d \in Delivery : Kept(d)
  <2>1. CASE PersonCommits
    <3> DEFINE c == [by |-> "person", n |-> moves + 1]
               h == Append(history, c)
    <3>1. /\ history' = h /\ moved' = moved \cup {Tip(h)} /\ checkout' = Follow(h)
          /\ attached' = attached /\ moves + 1 \in 1..MaxMoves
      BY <1>1, <2>1 DEF PersonCommits, PersonMoves
    <3>2. c \in Commit /\ c.by = "person" BY <3>1 DEF Commit
    <3> HIDE DEF c
    <3>3. h \in Seq(Commit) /\ Tip(h) = c BY <1>1, <3>2 DEF Tip
    <3>4. Repository BY <1>1, <3>1, <3>2, <3>3 DEF Follow
    <3>5. ASSUME NEW d \in Delivery PROVE Built(d)'
      <4> SUFFICES ASSUME NEW i \in DOMAIN h, h[i].by = d
                   PROVE  h[i] \in moved' /\ Predecessor(h, i) = control[d].parent
        BY <1>2, <3>1 DEF Built
      <4>1. i # Len(history) + 1 BY <1>1, <3>2
      <4>2. /\ i \in DOMAIN history /\ h[i] = history[i]
            /\ Predecessor(h, i) = Predecessor(history, i)
        BY <1>1, <3>2, <4>1 DEF Predecessor
      <4> QED BY <3>1, <4>2 DEF TransactionInv, Good, Built
    <3>6. ASSUME NEW d \in Delivery PROVE ~Current(d)'
      <4>1. K(d)'.by = d BY DEF K
      <4> QED BY <3>1, <3>2, <3>3, <4>1 DEF Current
    <3> QED BY <3>1, <3>2, <3>3, <3>4, <3>5, <3>6
  <2>2. CASE PersonRewrites
    <3>1. PICK n \in 0..(Len(history) - 1) :
            /\ history' = SubSeq(history, 1, n) /\ checkout' = Follow(SubSeq(history, 1, n))
            /\ attached' = attached /\ moved' = moved
      BY <2>2 DEF PersonRewrites
    <3> DEFINE h == SubSeq(history, 1, n)
    <3>2. /\ h \in Seq(Commit) /\ Len(h) = n
          /\ \A i \in 1..n : i \in DOMAIN history /\ h[i] = history[i]
      BY <1>1
    <3> HIDE DEF h
    <3>3. Tip(h) \in Commit BY <3>2, TipTyped
    <3>4. /\ history' = h /\ checkout' = Follow(h) BY <3>1 DEF h
    <3>5. Repository BY <1>1, <3>1, <3>2, <3>3, <3>4 DEF Follow
    <3>6. ASSUME NEW d \in Delivery PROVE Built(d)'
      <4> SUFFICES ASSUME NEW i \in DOMAIN h, h[i].by = d
                   PROVE  h[i] \in moved /\ Predecessor(h, i) = control[d].parent
        BY <1>2, <3>1, <3>4 DEF Built
      <4>1. i \in 1..n BY <3>2
      <4>2. i = 1 \/ i - 1 \in 1..n BY <4>1
      <4>3. Predecessor(h, i) = Predecessor(history, i)
        BY <3>2, <4>1, <4>2 DEF Predecessor
      <4> QED BY <3>2, <4>1, <4>3 DEF TransactionInv, Good, Built
    <3>7. ASSUME NEW d \in Delivery, Current(d)' PROVE checkout'.at = K(d)
      BY <1>2, <3>1, <3>4, <3>7 DEF Current, Follow, K
    <3> QED BY <3>1, <3>5, <3>6, <3>7
  <2>3. CASE PersonEdits \/ PersonDetaches
    <3>1. /\ history' = history /\ moved' = moved /\ attached' \in BOOLEAN
          /\ attached' => attached
      <4>1. CASE PersonEdits BY <1>1, <4>1 DEF PersonEdits
      <4>2. CASE PersonDetaches BY <1>1, <4>2 DEF PersonDetaches
      <4> QED BY <2>3, <4>1, <4>2
    <3>2. checkout' = checkout \/ checkout' = [checkout EXCEPT !.state = "dirty"]
      BY <2>3 DEF PersonEdits, PersonDetaches
    <3>3. /\ checkout' \in [state : {"clean", "dirty", "partial"}, at : Commit]
          /\ checkout'.at = checkout.at
      BY <1>1, <3>2
    <3>4. ASSUME NEW d \in Delivery PROVE Built(d)'
      BY <1>2, <3>1 DEF TransactionInv, Good, Built
    <3>5. ASSUME NEW d \in Delivery, Current(d)' PROVE Current(d)
      <4>1. K(d)' = K(d) BY <1>2 DEF K
      <4>2. attached' /\ Tip(history) = K(d) BY <3>1, <3>5, <4>1 DEF Current
      <4> QED BY <3>1, <4>2 DEF Current
    <3>6. Repository BY <1>1, <3>1, <3>3
    <3>7. ASSUME NEW d \in Delivery PROVE Kept(d) BY <3>1, <3>3, <3>4, <3>5
    <3> QED BY <3>6, <3>7
  <2>4. CASE PersonRestores
    <3>1. /\ history' = history /\ moved' = moved /\ attached' = TRUE
          /\ checkout' = [state |-> "clean", at |-> Tip(history)]
      BY <2>4 DEF PersonRestores
    <3>2. Tip(history) \in Commit BY <1>1, TipTyped
    <3>3. ASSUME NEW d \in Delivery
          PROVE  Built(d)' /\ (Current(d)' => checkout'.at = K(d))
      BY <1>2, <3>1 DEF TransactionInv, Good, Built, Current, K
    <3> QED BY <1>1, <3>1, <3>2, <3>3
  <2> QED BY <2>1, <2>2, <2>3, <2>4 DEF Person
<1>5. TypeOK' BY <1>1, <1>2, <1>3, <1>4 DEF TransactionInv, TypeOK
<1>6. ASSUME NEW d \in Delivery PROVE Good(d)'
  <2>1. Good(d) /\ Kept(d) BY <1>4 DEF TransactionInv
  <2>2. /\ K(d)' = K(d) /\ IsAcceptance(d)' = IsAcceptance(d) /\ K(d).by = d
        /\ Followed(d)' = Followed(d)
    BY <1>2 DEF K, IsAcceptance, Followed
  <2>3. Attempted(d)' /\ Supported(d)'
    BY <1>2, <2>1 DEF Good, Attempted, Supported
  <2>4. Truth(d)' BY <1>2, <2>1, <2>2 DEF Good, Truth
  <2>5. Following(d)' BY <2>1, <2>2 DEF Good, Following
  <2>6. Working(d)' BY <1>2, <2>1, <2>2 DEF Good, Working
  <2> QED BY <2>1, <2>3, <2>4, <2>5, <2>6 DEF Good
<1> QED BY <1>5, <1>6 DEF TransactionInv

------------------------------------------------------------------------------
LEMMA TransactionKept == TransactionInv /\ [Next]_vars => TransactionInv'
<1> SUFFICES ASSUME TransactionInv, [Next]_vars PROVE TransactionInv' OBVIOUS
<1>1. CASE \E d \in Delivery : DeliveryStep(d)
  <2> PICK d \in Delivery : DeliveryStep(d) BY <1>1
  <2> QED BY StepTyped, OwnStep, OtherStep DEF TransactionInv
<1>2. CASE Person BY <1>2, PersonStep
<1>3. CASE UNCHANGED vars
  BY <1>3
  DEF vars, repository, TransactionInv, TypeOK, Good, Attempted, Truth, Built, Supported,
      Followed, Following, Working, K, IsAcceptance, Current
<1> QED BY <1>1, <1>2, <1>3 DEF Next, DeliveryStep

LEMMA TransactionHolds == Spec => []TransactionInv
BY InitGood, TransactionKept, PTL DEF Spec

(* Stores, calls, branch and checkout keep their types.                       *)
THEOREM TransactionTyped == Spec => []TypeOK
<1>1. TransactionInv => TypeOK BY DEF TransactionInv
<1> QED BY <1>1, TransactionHolds, PTL

(* What a Store retains of its acceptance or no-ship is what happened on the  *)
(* branch, for any number of Deliveries, deaths, lost answers and movements.  *)
THEOREM RecordIsTrue == Spec => []TruthfulRecord
<1>1. TransactionInv => TruthfulRecord
  BY DEF TransactionInv, Good, Truth, TruthfulRecord, TruthfulRefusal,
         TruthfulDisposition
<1> QED BY <1>1, TransactionHolds, PTL

(* An accepted commit sits on the parent that its Candidate was proved on.    *)
THEOREM ParentIsExact == Spec => []ExactParent
<1>1. TransactionInv => ExactParent BY DEF TransactionInv, Good, Built, ExactParent
<1> QED BY <1>1, TransactionHolds, PTL

(* Kernel support and the seal follow the activity through every death.       *)
THEOREM SupportFollows == Spec => []SupportLifetime
<1>1. TransactionInv => SupportLifetime
  BY DEF TransactionInv, Good, Supported, SupportLifetime
<1> QED BY <1>1, TransactionHolds, PTL

(* A closed acceptance at the tip leaves no checkout that would revert it.    *)
THEOREM CheckoutIsFollowed == Spec => []ClosedCheckoutFollows
<1>1. TransactionInv => ClosedCheckoutFollows
  BY DEF TransactionInv, Good, Following, Followed, ClosedCheckoutFollows
<1> QED BY <1>1, TransactionHolds, PTL

(* A commit that somebody rewrote away is not published a second time.        *)
THEOREM NothingIsRepublished == Spec => PublishedOnce
<1>1. TransactionInv /\ [Next]_vars =>
        [\A d \in Delivery :
           K(d) \in moved /\ ~Published(d) => K(d) \notin Commits(history')]_vars
  <2> SUFFICES ASSUME TransactionInv, Next, NEW e \in Delivery,
                      K(e) \in moved, ~Published(e)
               PROVE  K(e) \notin Commits(history')
    OBVIOUS
  <2>1. history \in Seq(Commit) /\ K(e).by = e /\ K(e) \notin Commits(history)
    BY Types DEF TransactionInv, Published, K
  <2>2. CASE \E d \in Delivery : DeliveryStep(d)
    <3> PICK d \in Delivery : DeliveryStep(d) BY <2>2
    <3>1. CASE Publish(d)
      <4>1. /\ history' = Append(history, K(d)) /\ K(d) \in Commit /\ K(d) \notin moved
        BY <3>1, PublishedFresh DEF Publish
      <4> QED BY <2>1, <4>1 DEF Commits
    <3>2. CASE ~Publish(d)
      <4>1. history' = history
        BY <3>2, Writes DEF RepositoryWritten, BeginCheckout, FinishCheckout, repository
      <4> QED BY <2>1, <4>1
    <3> QED BY <3>1, <3>2
  <2>3. CASE PersonCommits
    <3> DEFINE c == [by |-> "person", n |-> moves + 1]
    <3>1. history' = Append(history, c) BY <2>3 DEF PersonCommits
    <3>2. c # K(e) BY <2>1, TransactionAssumption
    <3> HIDE DEF c
    <3>3. \A i \in DOMAIN history' :
            history'[i] = c \/ (i \in DOMAIN history /\ history'[i] = history[i])
      BY <2>1, <3>1
    <3> QED BY <2>1, <3>2, <3>3 DEF Commits
  <2>4. CASE PersonRewrites
    <3>1. PICK n \in 0..(Len(history) - 1) : history' = SubSeq(history, 1, n)
      BY <2>4 DEF PersonRewrites
    <3>2. \A i \in DOMAIN history' : i \in DOMAIN history /\ history'[i] = history[i]
      BY <2>1, <3>1
    <3> QED BY <2>1, <3>2 DEF Commits
  <2>5. CASE PersonEdits \/ PersonDetaches \/ PersonRestores
    BY <2>1, <2>5 DEF PersonEdits, PersonDetaches, PersonRestores
  <2> QED BY <2>2, <2>3, <2>4, <2>5 DEF Next, DeliveryStep, Person
<1> QED BY <1>1, TransactionHolds, PTL DEF Spec, PublishedOnce

------------------------------------------------------------------------------
(* The settlement of each attempt by what happened on the branch.             *)
\* What the mapping to a settlement rests on besides: a parent outlives its
\* integration, and only an acceptance can be refused.
Based(d) == control[d].stage # "ready" => control[d].parent = control[d].base
Refusable(d) ==
  call[d].pc = "record" /\ ~IsAcceptance(d) => call[d].outcome = "applied"
Settling(d) == Based(d) /\ Refusable(d)
SettlementInv == TransactionInv /\ \A d \in Delivery : Settling(d)

LEMMA InitSettling == Init => SettlementInv
<1>1. Init => \A d \in Delivery : Settling(d)
  BY DEF Init, Settling, Based, Refusable, NoCall
<1> QED BY <1>1, InitGood DEF SettlementInv

LEMMA BasedKept ==
  ASSUME SettlementInv, NEW d \in Delivery, DeliveryStep(d)
  PROVE  Based(d)'
<1> USE Before DEF Based, SettlementInv
<1>1. CASE control' = control BY <1>1 DEF Settling
<1>2. CASE Integrate(d)
  <2>1. control'[d].stage = "ready" BY <1>2 DEF Integrate, Control
  <2> QED BY <2>1
<1>3. CASE \E op \in Operations : Begin(d, op)
  <2>1. control'[d].parent = control[d].base /\ control'[d].base = control[d].base
    BY <1>3 DEF Begin, Control
  <2> QED BY <2>1
<1>4. CASE RecordIntent(d) \/ RecordObservation(d) \/ RecordClosure(d)
  <2>1. control[d].stage # "ready"
    BY <1>4 DEF Good, Working, RecordIntent, RecordObservation, RecordClosure, Stage, At
  <2>2. control'[d].parent = control[d].parent /\ control'[d].base = control[d].base
    BY <1>4 DEF RecordIntent, RecordObservation, RecordClosure, Control
  <2> QED BY <2>1, <2>2 DEF Settling
<1>5. CASE CompleteFailed(d)
  <2>1. control'[d].stage = "ready" BY <1>5 DEF CompleteFailed, Control
  <2> QED BY <2>1
<1>6. CASE Seal(d) \/ PrepareArchive(d) \/ MoveArchive(d)
  <2>1. /\ control'[d].parent = control[d].parent /\ control'[d].base = control[d].base
        /\ control'[d].stage = control[d].stage
    BY <1>6 DEF Seal, PrepareArchive, MoveArchive, Control
  <2> QED BY <2>1 DEF Settling
<1> QED BY <1>1, <1>2, <1>3, <1>4, <1>5, <1>6, Writes DEF ControlWritten

\* A conclusion is about an acceptance, or a no-ship that was observed.
LEMMA Concludes ==
  ASSUME TransactionInv, NEW d \in Delivery, DeliveryStep(d), call'[d].pc = "record"
  PROVE  \/ call'[d].outcome = "applied"
         \/ /\ control' = control
            /\ call[d].pc \in Observing \cup {"synchronize", "checkout"}
<1> USE Before DEF Call
<1>1. CASE Integrate(d) \/ (\E op \in Operations : Begin(d, op)) \/ Recover(d) \/ Crash(d)
  <2>1. CASE Integrate(d) BY <2>1 DEF Integrate, At
  <2>2. CASE \E op \in Operations : Begin(d, op) BY <2>2 DEF Begin, NoCall
  <2>3. CASE Recover(d) BY <2>3 DEF Recover, NoCall
  <2>4. CASE Crash(d) BY <2>4 DEF Crash, EndCall, NoCall
  <2> QED BY <1>1, <2>1, <2>2, <2>3, <2>4
<1>2. CASE ObservationStep(d)
  <2>1. CASE RecordIntent(d) \/ ObservationRefused(d) \/ LockTarget(d) \/ LockBusy(d)
    <3>1. CASE RecordIntent(d) BY <3>1 DEF RecordIntent, Stage, At
    <3>2. CASE ObservationRefused(d) \/ LockBusy(d)
      BY <3>2 DEF ObservationRefused, LockBusy, EndCall, NoCall
    <3>3. CASE LockTarget(d) BY <3>3 DEF LockTarget, LockedStep, Goto
    <3> QED BY <2>1, <3>1, <3>2, <3>3
  <2>2. CASE ObserveNoShip(d) BY <2>2 DEF ObserveNoShip
  <2>3. CASE ReadFails(d) \/ Recognize(d) \/ Uncertain(d) \/ Refuse(d) \/ Prepare(d)
             \/ (\E r \in {"complete", "failed"} : PreparationEnds(d, r))
             \/ Publish(d) \/ PublicationRefused(d) \/ PublicationLost(d)
    BY <2>3 DEF ReadFails, Recognize, Uncertain, Refuse, Prepare, PreparationEnds,
       Publish, PublicationRefused, PublicationLost, Observing, At
  <2>4. CASE CheckoutFollows(d) \/ BeginCheckout(d) \/ FinishCheckout(d)
             \/ CheckoutConflicts(d)
    BY <2>4 DEF CheckoutFollows, BeginCheckout, FinishCheckout, CheckoutConflicts, At
  <2>5. CASE RecordObservation(d)
    BY <2>5 DEF RecordObservation, EndCall, Goto, NoCall
  <2> QED BY <1>2, <2>1, <2>2, <2>3, <2>4, <2>5 DEF ObservationStep
<1>3. CASE DispositionStep(d)
  BY <1>3 DEF DispositionStep, SampleFailure, CompleteFailed, NoShipHandoff,
     RetainDisposition, SampleClosure, DispositionRefused, RecordClosure, Seal,
     PrepareArchive, MoveArchive, EndCall, Goto, NoCall, Stage, At
<1> QED BY <1>1, <1>2, <1>3 DEF DeliveryStep

LEMMA SettlingKept == SettlementInv /\ [Next]_vars => SettlementInv'
<1> SUFFICES ASSUME SettlementInv, [Next]_vars, NEW e \in Delivery PROVE Settling(e)'
  BY TransactionKept DEF SettlementInv
<1>1. ASSUME NEW d \in Delivery, DeliveryStep(d) PROVE Settling(e)'
  <2>1. CASE e = d
    <3>1. Refusable(d)'
      <4>1. CASE call'[d].pc = "record" /\ call'[d].outcome # "applied"
        <5>1. control' = control /\ IsAcceptance(d)
          BY <1>1, <4>1, Concludes, Before DEF SettlementInv, Good, Working
        <5> QED BY <5>1 DEF Refusable, IsAcceptance
      <4> QED BY <4>1 DEF Refusable
    <3> QED BY <1>1, <2>1, <3>1, BasedKept DEF Settling
  <2>2. CASE e # d
    <3>1. control'[e] = control[e] /\ call'[e] = call[e]
      BY <1>1, <2>2, ControlTyped, CallTyped DEF SettlementInv
    <3> QED BY <3>1 DEF SettlementInv, Settling, Based, Refusable, IsAcceptance
  <2> QED BY <2>1, <2>2
<1>2. CASE Person \/ UNCHANGED vars
  <2>1. UNCHANGED <<control, call>>
    BY <1>2 DEF vars, Person, PersonCommits, PersonRewrites, PersonEdits,
       PersonDetaches, PersonRestores, PersonMoves
  <2> QED BY <2>1 DEF SettlementInv, Settling, Based, Refusable, IsAcceptance
<1> QED BY <1>1, <1>2 DEF Next, DeliveryStep

------------------------------------------------------------------------------
\* Where a fate is read: a stage with what the branch has seen.
LEMMA Fates ==
  ASSUME NEW d \in Delivery
  PROVE  /\ control[d].stage = "ready" =>
              Fate(d) = IF control[d].attempt = 0 THEN "none" ELSE "refused"
         /\ control[d].stage = "not-applied" => Fate(d) = "refused"
         /\ control[d].stage \in {"opened", "intended"} =>
              Fate(d) = IF K(d) \in moved THEN "published" ELSE "pending"
         /\ control[d].stage \in {"applied", "closed"} =>
              Fate(d) = IF IsAcceptance(d) THEN "accepted" ELSE "no-ship"
BY DEF Fate

LEMMA FatesNext ==
  ASSUME NEW d \in Delivery
  PROVE  /\ control'[d].stage = "ready" =>
              Fate(d)' = IF control'[d].attempt = 0 THEN "none" ELSE "refused"
         /\ control'[d].stage = "not-applied" => Fate(d)' = "refused"
         /\ control'[d].stage \in {"opened", "intended"} =>
              Fate(d)' = IF K(d)' \in moved' THEN "published" ELSE "pending"
         /\ control'[d].stage \in {"applied", "closed"} =>
              Fate(d)' = IF IsAcceptance(d)' THEN "accepted" ELSE "no-ship"
BY DEF Fate

TerminalOf(d) ==
  [attempt |-> control[d].attempt, operation |-> control[d].operation,
   parent |-> control[d].base, fate |-> Fate(d)]

\* Only the Delivery that steps has another fate.
LEMMA OthersSettled ==
  ASSUME TransactionInv, NEW d \in Delivery, DeliveryStep(d)
  PROVE  Terminal' = [Terminal EXCEPT ![d] = TerminalOf(d)']
<1>1. ASSUME NEW e \in Delivery \ {d} PROVE TerminalOf(e)' = TerminalOf(e)
  <2>1. control'[e] = control[e] BY ControlTyped
  <2>2. K(e)' = K(e) /\ IsAcceptance(e)' = IsAcceptance(e) /\ K(e) # K(d)
    BY <2>1 DEF K, IsAcceptance
  <2>3. moved' = moved \/ moved' = moved \cup {K(d)}
    BY Writes DEF RepositoryWritten, repository, Publish, BeginCheckout, FinishCheckout
  <2>4. K(e)' \in moved' <=> K(e) \in moved BY <2>2, <2>3
  <2>5. Fate(e)' = Fate(e) BY <2>1, <2>2, <2>4 DEF Fate
  <2> QED BY <2>1, <2>5 DEF TerminalOf
<1>2. Terminal = [e \in Delivery |-> TerminalOf(e)] BY DEF Terminal, TerminalOf
<1>3. Terminal' = [e \in Delivery |-> TerminalOf(e)'] BY DEF Terminal, TerminalOf
<1> HIDE DEF TerminalOf
<1> QED BY <1>1, <1>2, <1>3

\* A step that leaves a Delivery's fate and the branch alone.
LEMMA Unsettling ==
  ASSUME TransactionInv, NEW d \in Delivery, DeliveryStep(d),
         history' = history, TerminalOf(d)' = TerminalOf(d)
  PROVE  UNCHANGED Settlement!vars
<1>1. Terminal[d] = TerminalOf(d) BY DEF Terminal, TerminalOf
<1>2. Terminal = [Terminal EXCEPT ![d] = TerminalOf(d)]
  BY <1>1 DEF Terminal
<1>3. Terminal' = Terminal BY <1>2, OthersSettled
<1> QED BY <1>3 DEF Settlement!vars

LEMMA StepSettles ==
  ASSUME SettlementInv, NEW d \in Delivery, DeliveryStep(d)
  PROVE  [Settlement!Next]_(Settlement!vars)
<1> DEFINE t == Terminal[d]
<1>1. /\ TransactionInv /\ Good(d) /\ Settling(d)
      /\ control \in [Delivery -> Control] /\ control[d] \in Control
      /\ control' \in [Delivery -> Control] /\ control'[d] \in Control
      /\ call[d] \in Call
  BY Before, ControlTyped DEF SettlementInv
<1>2. /\ t.attempt = control[d].attempt /\ t.operation = control[d].operation
      /\ t.parent = control[d].base /\ t.fate = Fate(d) /\ t = TerminalOf(d)
  BY DEF Terminal, TerminalOf
<1>3. Terminal' = [Terminal EXCEPT ![d] = TerminalOf(d)']
  BY <1>1, OthersSettled
<1>4. CASE control' = control /\ ~Publish(d)
  <2>1. moved' = moved /\ history' = history
    BY <1>4, Writes, <1>1 DEF RepositoryWritten, repository, BeginCheckout, FinishCheckout
  <2>2. TerminalOf(d)' = TerminalOf(d)
    BY <1>4, <2>1 DEF TerminalOf, Fate, K, IsAcceptance
  <2> QED BY <1>1, <2>1, <2>2, Unsettling
<1>5. CASE Integrate(d)
  <2>1. /\ control'[d] = [control[d] EXCEPT !.base = Tip(history)]
        /\ control[d].stage = "ready" /\ history' = history
    BY <1>1, <1>5 DEF Integrate, repository
  <2>2. /\ control'[d].stage = "ready" /\ control'[d].attempt = control[d].attempt
        /\ control'[d].operation = control[d].operation
        /\ control'[d].base = Tip(history)
    BY <1>1, <2>1 DEF Control
  <2>3. Fate(d)' = Fate(d) /\ Fate(d) \in {"none", "refused"}
    BY <2>1, <2>2, Fates, FatesNext
  <2>4. TerminalOf(d)' = [t EXCEPT !.parent = Tip(history)]
    BY <1>2, <2>2, <2>3 DEF TerminalOf
  <2>5. Settlement!Integrate(d)
    BY <1>2, <1>3, <2>1, <2>3, <2>4
    DEF Settlement!Integrate, Settlement!Open, Settlement!Top, Tip, Terminal
  <2> QED BY <2>5 DEF Settlement!Next
<1>6. CASE \E op \in Operations : Begin(d, op)
  <2>1. PICK op \in Operations : Begin(d, op) BY <1>6
  <2>2. /\ control[d].stage = "ready" /\ history' = history /\ moved' = moved
        /\ control'[d].stage = "opened"
        /\ control'[d].attempt = control[d].attempt + 1
        /\ control'[d].operation = op
        /\ control'[d].base = control[d].base
    BY <1>1, <2>1 DEF Begin, repository, Control
  <2>3. K(d)' \notin moved'
    BY <1>1, <2>2 DEF Good, Truth, K
  <2>4. Fate(d)' = "pending" /\ Fate(d) \in {"none", "refused"}
    BY <2>2, <2>3, Fates, FatesNext
  <2>5. TerminalOf(d)' = [attempt |-> t.attempt + 1, operation |-> op,
                          parent |-> t.parent, fate |-> "pending"]
    BY <1>2, <2>2, <2>4 DEF TerminalOf
  <2>6. Settlement!Attempt(d)
    BY <1>2, <1>3, <2>1, <2>2, <2>4, <2>5
    DEF Settlement!Attempt, Settlement!Open, Settlement!Operations, Operations, Terminal
  <2> QED BY <2>6 DEF Settlement!Next
<1>7. CASE RecordIntent(d) \/ CompleteFailed(d) \/ RecordClosure(d)
            \/ Seal(d) \/ PrepareArchive(d) \/ MoveArchive(d)
  <2>1. /\ history' = history /\ moved' = moved
        /\ control'[d].attempt = control[d].attempt
        /\ control'[d].operation = control[d].operation
        /\ control'[d].base = control[d].base
        /\ K(d)' = K(d) /\ IsAcceptance(d)' = IsAcceptance(d)
    BY <1>1, <1>7
    DEF RecordIntent, CompleteFailed, RecordClosure, Seal, PrepareArchive, MoveArchive,
        Durable, repository, Control, K, IsAcceptance
  <2>2. \/ control[d].stage = "opened" /\ control'[d].stage = "intended"
        \/ /\ control[d].stage = "not-applied" /\ control'[d].stage = "ready"
           /\ control[d].attempt # 0
        \/ control[d].stage = "applied" /\ control'[d].stage = "closed"
        \/ control'[d].stage = control[d].stage
    BY <1>1, <1>7
    DEF RecordIntent, CompleteFailed, RecordClosure, Seal, PrepareArchive, MoveArchive,
        Stage, Control, Good, Attempted
  <2>3. Fate(d)' = Fate(d)
    <3>1. CASE control'[d].stage = control[d].stage
      BY <2>1, <3>1 DEF Fate
    <3> QED BY <2>1, <2>2, <3>1, Fates, FatesNext
  <2>4. TerminalOf(d)' = TerminalOf(d) BY <2>1, <2>3 DEF TerminalOf
  <2> QED BY <1>1, <2>1, <2>4, Unsettling
<1>8. CASE RecordObservation(d)
  <2> DEFINE o == call[d].outcome
  <2>1. /\ history' = history /\ moved' = moved /\ call[d].pc = "record"
        /\ control'[d].attempt = control[d].attempt
        /\ control'[d].operation = control[d].operation
        /\ control'[d].base = control[d].base
        /\ control'[d].stage = IF o = "indeterminate" THEN "intended" ELSE o
        /\ K(d)' = K(d) /\ IsAcceptance(d)' = IsAcceptance(d)
    BY <1>1, <1>8 DEF RecordObservation, Durable, repository, Control, K, IsAcceptance, At
  <2>2. /\ control[d].stage = "intended" /\ o \in Outcomes
        /\ o = "applied" /\ IsAcceptance(d) => K(d) \in moved
        /\ o = "not-applied" => K(d) \notin moved
        /\ o = "not-applied" => IsAcceptance(d)
        /\ K(d) \in moved => IsAcceptance(d)
    <3>1. K(d) \in moved => IsAcceptance(d) BY <1>1 DEF Good, Truth, K
    <3> QED BY <1>1, <2>1, <3>1 DEF Good, Working, Call, Settling, Refusable
  <2>3. Fate(d) = IF K(d) \in moved THEN "published" ELSE "pending"
    BY <2>2, Fates
  <2>4. TerminalOf(d)' = [t EXCEPT !.fate = Fate(d)']
    BY <1>2, <2>1 DEF TerminalOf
  <2>5. Settlement!Become(d, Fate(d)')
    <3>1. Terminal' = [Terminal EXCEPT ![d] = [t EXCEPT !.fate = Fate(d)']]
      BY <1>3, <2>4
    <3> QED BY <3>1 DEF Settlement!Become
  <2>6. CASE o = "indeterminate"
    <3>1. Fate(d)' = Fate(d) BY <2>1, <2>3, <2>6, FatesNext
    <3>2. TerminalOf(d)' = TerminalOf(d) BY <2>1, <3>1 DEF TerminalOf
    <3> QED BY <1>1, <2>1, <3>2, Unsettling
  <2>7. CASE o = "not-applied"
    <3>1. Fate(d)' = "refused" /\ Fate(d) = "pending"
      BY <2>1, <2>2, <2>3, <2>7, FatesNext
    <3>2. Settlement!Refuse(d)
      BY <1>2, <2>1, <2>2, <2>5, <2>7, <3>1 DEF Settlement!Refuse, IsAcceptance
    <3> QED BY <3>2 DEF Settlement!Next
  <2>8. CASE o = "applied" /\ IsAcceptance(d)
    <3>1. Fate(d)' = "accepted" /\ Fate(d) = "published"
      BY <2>1, <2>2, <2>3, <2>8, FatesNext
    <3>2. Settlement!Accept(d)
      BY <1>2, <2>1, <2>5, <3>1 DEF Settlement!Accept
    <3> QED BY <3>2 DEF Settlement!Next
  <2>9. CASE o = "applied" /\ ~IsAcceptance(d)
    <3>1. Fate(d)' = "no-ship" /\ Fate(d) = "pending"
      BY <2>1, <2>2, <2>3, <2>9, FatesNext
    <3>2. control[d].operation = "delivery.no-ship"
      BY <1>1, <2>9 DEF IsAcceptance, Control, Operations
    <3>3. Settlement!NoShip(d)
      BY <1>2, <2>1, <2>5, <3>1, <3>2 DEF Settlement!NoShip
    <3> QED BY <3>3 DEF Settlement!Next
  <2> QED BY <2>2, <2>6, <2>7, <2>8, <2>9 DEF Outcomes
<1>9. CASE Publish(d)
  <2>1. /\ control' = control /\ history' = Append(history, K(d))
        /\ moved' = moved \cup {K(d)}
        /\ control[d].stage = "intended" /\ IsAcceptance(d) /\ K(d) \notin moved
        /\ Tip(history) = control[d].parent
    BY <1>1, <1>9, PublishedFresh DEF Publish
  <2>2. K(d)' = K(d) /\ IsAcceptance(d)' = IsAcceptance(d) BY <2>1 DEF K, IsAcceptance
  <2>3. Fate(d) = "pending" /\ Fate(d)' = "published"
    BY <2>1, <2>2, Fates, FatesNext
  <2>4. TerminalOf(d)' = [t EXCEPT !.fate = "published"]
    BY <1>2, <2>1, <2>3 DEF TerminalOf
  <2>5. Terminal' = [Terminal EXCEPT ![d] = [t EXCEPT !.fate = "published"]]
    BY <1>3, <2>4
  <2>6. Settlement!Become(d, "published")
    BY <2>5 DEF Settlement!Become
  <2>7. K(d) = Settlement!Work(d) BY <1>2 DEF K, Settlement!Work
  <2>8. Settlement!Top = t.parent
    BY <1>1, <1>2, <2>1 DEF Settlement!Top, Tip, Settling, Based
  <2>9. Settlement!Publish(d)
    BY <1>2, <2>1, <2>3, <2>6, <2>7, <2>8 DEF Settlement!Publish, IsAcceptance
  <2> QED BY <2>9 DEF Settlement!Next
<1> QED BY <1>1, <1>4, <1>5, <1>6, <1>7, <1>8, <1>9, Writes DEF ControlWritten

\* People move the branch, and settle nothing.
LEMMA PersonSettles ==
  ASSUME SettlementInv, Person
  PROVE  [Settlement!Next]_(Settlement!vars)
<1> USE TransactionAssumption
<1>1. history \in Seq(Commit) BY Types DEF SettlementInv, TransactionInv
<1>2. control' = control
  BY DEF Person, PersonCommits, PersonRewrites, PersonEdits, PersonDetaches,
         PersonRestores, PersonMoves
<1>3. ASSUME NEW d \in Delivery, NEW c, c.by = "person", moved' \in {moved, moved \cup {c}}
      PROVE  TerminalOf(d)' = TerminalOf(d)
  <2>1. K(d)' = K(d) /\ IsAcceptance(d)' = IsAcceptance(d) /\ K(d) # c
    BY <1>2, <1>3 DEF K, IsAcceptance
  <2> QED BY <1>2, <1>3, <2>1 DEF TerminalOf, Fate
<1>4. (\A d \in Delivery : TerminalOf(d)' = TerminalOf(d)) => Terminal' = Terminal
  BY DEF Terminal, TerminalOf
<1>5. CASE PersonCommits
  <2> DEFINE c == [by |-> "person", n |-> moves + 1]
  <2>1. history' = Append(history, c) /\ moved' = moved \cup {Tip(Append(history, c))}
        /\ moves + 1 \in 1..MaxMoves
    BY <1>5 DEF PersonCommits, PersonMoves, SettlementInv, TransactionInv, TypeOK
  <2>2. c \in [by : {"person"}, n : 1..MaxMoves] /\ c \in Commit /\ c.by = "person"
    BY <2>1 DEF Commit
  <2>3. Tip(Append(history, c)) = c BY <1>1, <2>2 DEF Tip
  <2> HIDE DEF c
  <2>4. Terminal' = Terminal BY <1>3, <1>4, <2>1, <2>2, <2>3
  <2>5. Settlement!Person
    BY <2>1, <2>2, <2>4 DEF Settlement!Person, Settlement!Commit
  <2> QED BY <2>5 DEF Settlement!Next
<1>6. CASE PersonRewrites
  <2>1. PICK n \in 0..(Len(history) - 1) :
          history' = SubSeq(history, 1, n) /\ moved' = moved
    BY <1>6 DEF PersonRewrites
  <2>2. n \in 0..Len(history) BY <1>1
  <2>3. [by |-> "person", n |-> 0].by = "person" OBVIOUS
  <2>4. Terminal' = Terminal BY <1>3, <1>4, <2>1, <2>3
  <2>5. Settlement!Person
    BY <2>1, <2>2, <2>4 DEF Settlement!Person, Settlement!Rewrite
  <2> QED BY <2>5 DEF Settlement!Next
<1>7. CASE PersonEdits \/ PersonDetaches \/ PersonRestores
  <2>1. history' = history /\ moved' = moved
    BY <1>7 DEF PersonEdits, PersonDetaches, PersonRestores
  <2>2. [by |-> "person", n |-> 0].by = "person" OBVIOUS
  <2>3. Terminal' = Terminal BY <1>3, <1>4, <2>1, <2>2
  <2> QED BY <2>1, <2>3 DEF Settlement!vars
<1> QED BY <1>5, <1>6, <1>7 DEF Person

(* Whatever calls die, contend and repeat, and however people move the        *)
(* branch, the terminal transactions implement the settlement of each attempt *)
(* by what happened on the branch.                                            *)
THEOREM AttemptsAreSettled == Spec => ImplementsSettlement
<1>1. Init => Settlement!Init
  BY DEF Init, Settlement!Init, Terminal, Fate
<1>2. SettlementInv /\ [Next]_vars => [Settlement!Next]_(Settlement!vars)
  <2> SUFFICES ASSUME SettlementInv, [Next]_vars
               PROVE  [Settlement!Next]_(Settlement!vars)
    OBVIOUS
  <2>1. CASE \E d \in Delivery : DeliveryStep(d) BY <2>1, StepSettles
  <2>2. CASE Person BY <2>2, PersonSettles
  <2>3. CASE UNCHANGED vars
    BY <2>3 DEF vars, repository, Settlement!vars, Terminal, Fate, K, IsAcceptance
  <2> QED BY <2>1, <2>2, <2>3 DEF Next, DeliveryStep
<1> QED
  BY <1>1, <1>2, InitSettling, SettlingKept, PTL
  DEF Spec, ImplementsSettlement, Settlement!Spec
==============================================================================
