------------------------- MODULE DelegationStopProofs -------------------------
(* That a stop of a work delegation which was answered holds, and never       *)
(* stands in the way of Closure, for any number of callers and grants.        *)
EXTENDS DelegationRefinement, TLAPS

------------------------------------------------------------------------------
(* The inductive invariant.                                                   *)

\* The run holds the Delivery lock for as long as it goes on, and what it is
\* about to open was not stopped when it decided.
RunHolds ==
  /\ RunAt("idle") <=> lock # {"run"}
  /\ run.at \in {"reserve", "dispatch"} => ~State.stopped /\ State.grant # 0

\* No event is of a later delegation than the current one.
GrantsAdvance == \A n \in 1..HeadSequence : journal[n].grant <= State.grant

\* The current delegation is stopped if and only if a request was folded.
StoppedIsFolded == State.stopped <=> StoppedBy(State.grant) # {}

\* An acknowledged stop names an event and a delegation of the Journal, and if
\* that delegation is the current one it is stopped or about to be.
AnswersAreOfJournal ==
  \A c \in Callers : Acknowledged(c) =>
    /\ caller[c].head \in 1..HeadSequence
    /\ caller[c].grant <= State.grant
    /\ caller[c].grant = State.grant => State.stopped \/ pending # {}

\* How far the run has accounted for what was charged since it began.
Accounted ==
  LET charged == State.charged - journal[run.start].charged
  IN  ~RunAt("idle") =>
        /\ run.start \in 1..HeadSequence
        /\ run.at \in {"observe", "decide", "reserve", "dispatch"} =>
             run.settled = charged
        /\ run.at \in {"reserve", "dispatch"} => run.head <= HeadSequence
        /\ RunAt("dispatch") => run.head = HeadSequence
        /\ RunAt("work") => Created
        /\ run.at \in {"work", "return"} =>
             charged = IF Created THEN run.settled + 1 ELSE run.settled

StopInv ==
  /\ TypeOK /\ RunHolds /\ GrantsAdvance /\ StoppedIsFolded
  /\ AnswersAreOfJournal /\ Accounted
  /\ PendingIsCurrent /\ AcknowledgedStopHolds /\ FirstRequestStands

------------------------------------------------------------------------------
(* What one step does to the Journal and to the retained request.             *)

JournalType == journal \in Seq(Event) /\ journal # <<>>

LEMMA HeadIsEvent ==
  ASSUME JournalType
  PROVE  /\ HeadSequence \in Nat \ {0} /\ State \in Event
         /\ \A n \in 1..HeadSequence : journal[n] \in Event
  BY DEF JournalType, HeadSequence, State

\* An appended event becomes the state, and nothing before it changes.
LEMMA Grows ==
  ASSUME JournalType, NEW e \in Event, journal' = Append(journal, e)
  PROVE  /\ JournalType'
         /\ HeadSequence' = HeadSequence + 1 /\ State' = e
         /\ \A n \in 1..HeadSequence : journal'[n] = journal[n]
  BY DEF JournalType, HeadSequence, State

LEMMA InStoppedBy ==
  ASSUME NEW grant, NEW x
  PROVE  x \in StoppedBy(grant) <=>
           \E n \in 1..HeadSequence :
             /\ journal[n].event = "stopped" /\ journal[n].grant = grant
             /\ x \in journal[n].request
  BY DEF StoppedBy

LEMMA InStoppedByNext ==
  ASSUME NEW grant, NEW x
  PROVE  x \in StoppedBy(grant)' <=>
           \E n \in 1..HeadSequence' :
             /\ journal'[n].event = "stopped" /\ journal'[n].grant = grant
             /\ x \in journal'[n].request
  BY DEF StoppedBy

\* What was folded for a delegation grows by what a stop of it folds.
LEMMA StoppedByGrows ==
  ASSUME JournalType, NEW e \in Event, journal' = Append(journal, e), NEW grant
  PROVE  StoppedBy(grant)' =
           StoppedBy(grant) \union
             (IF e.event = "stopped" /\ e.grant = grant THEN e.request ELSE {})
<1>1. /\ HeadSequence \in Nat \ {0} /\ HeadSequence' = HeadSequence + 1
      /\ \A n \in 1..HeadSequence : journal'[n] = journal[n]
      /\ journal'[HeadSequence + 1] = e
  BY Grows, HeadIsEvent DEF State
<1>2. ASSUME NEW x
      PROVE  x \in StoppedBy(grant)' <=>
               \/ x \in StoppedBy(grant)
               \/ e.event = "stopped" /\ e.grant = grant /\ x \in e.request
  <2> DEFINE Stops(f, n) == f[n].event = "stopped" /\ f[n].grant = grant /\ x \in f[n].request
  <2>1. x \in StoppedBy(grant) <=> \E n \in 1..HeadSequence : Stops(journal, n)
    BY InStoppedBy
  <2>2. x \in StoppedBy(grant)' <=> \E n \in 1..HeadSequence' : Stops(journal', n)
    BY InStoppedByNext
  <2>3. Stops(journal', HeadSequence + 1)
          <=> e.event = "stopped" /\ e.grant = grant /\ x \in e.request
    BY <1>1
  <2>4. \A n \in 1..HeadSequence : Stops(journal', n) <=> Stops(journal, n)
    BY <1>1
  <2>5. (\E n \in 1..HeadSequence' : Stops(journal', n))
          <=> (\E n \in 1..HeadSequence : Stops(journal', n))
                \/ Stops(journal', HeadSequence + 1)
    <3> HIDE DEF Stops
    <3> QED
      BY <1>1
  <2> QED
    BY <2>1, <2>2, <2>3, <2>4, <2>5
<1>3. CASE e.event = "stopped" /\ e.grant = grant
  BY <1>2, <1>3
<1>4. CASE ~(e.event = "stopped" /\ e.grant = grant)
  BY <1>2, <1>4
<1> QED
  BY <1>3, <1>4

\* A step leaves Journal and request alone, retains a request, or appends one
\* event: a fold, an opening or completion, a grant, or the Closure.
Requested ==
  /\ UNCHANGED journal /\ pending = {} /\ Stoppable /\ ~sealed
  /\ \E c \in Callers : pending' = {[grant |-> State.grant, by |-> c]}

Folded(e) ==
  /\ e.event = "stopped" /\ e.stopped /\ e.request = pending
  /\ e.grant = State.grant /\ e.charged = State.charged /\ e.open = State.open
  /\ pending # {} /\ pending' = {}

Continued(e) ==
  /\ e.event \in {"opened", "settled"} /\ e.request = {}
  /\ e.grant = State.grant /\ e.stopped = State.stopped
  /\ pending' = pending
  /\ pending = {} \/ (e.event = "settled" /\ e.open = "none")

Charged(e) ==
  \/ e.charged = State.charged
  \/ e.charged = State.charged + 1 /\ pending = {} /\ RunAt("dispatch")

Granted(e) ==
  /\ e.event = "set" /\ e.request = {} /\ e.open = "none"
  /\ e.grant = State.grant + 1 /\ ~e.stopped /\ e.charged = State.charged
  /\ pending = {} /\ pending' = {}

Closes(e) ==
  /\ e.event = "closed" /\ e.request = {} /\ e.charged = State.charged
  /\ e.grant = State.grant /\ e.stopped = State.stopped
  /\ pending = {} /\ pending' = {}

Grown ==
  \E e \in Event :
    /\ journal' = Append(journal, e)
    /\ Folded(e) \/ (Continued(e) /\ Charged(e)) \/ Granted(e) \/ Closes(e)

JournalStep ==
  /\ UNCHANGED <<journal, pending>> \/ Requested \/ Grown
  /\ sealed' = sealed \/ (sealed' = TRUE /\ pending = {} /\ UNCHANGED <<journal, pending>>)

LEMMA EventWith ==
  ASSUME NEW s \in Event
  PROVE  /\ \A x \in {"admitted", "set", "opened", "settled", "stopped", "closed"} :
              [s EXCEPT !.event = x] \in Event
         /\ \A x \in Grants : [s EXCEPT !.grant = x] \in Event
         /\ \A x \in BOOLEAN : [s EXCEPT !.stopped = x] \in Event
         /\ \A x \in Nat : [s EXCEPT !.admission = x] \in Event
         /\ \A x \in Nat : [s EXCEPT !.basis = x] \in Event
         /\ \A x \in Operations \union {"none"} : [s EXCEPT !.open = x] \in Event
         /\ \A x \in Nat : [s EXCEPT !.charged = x] \in Event
         /\ \A x \in SUBSET Requests : [s EXCEPT !.request = x] \in Event
  BY DEF Event

LEMMA FoldGrows ==
  ASSUME TypeOK, Fold, pending # {}
  PROVE  Grown
<1> DEFINE e == [State EXCEPT !.event = "stopped", !.stopped = TRUE, !.request = pending]
<1>1. State \in Event /\ pending \in SUBSET Requests
  BY HeadIsEvent DEF TypeOK, JournalType
<1>2. [State EXCEPT !.event = "stopped", !.stopped = TRUE] \in Event
  <2>1. [State EXCEPT !.event = "stopped"] \in Event
    BY <1>1, EventWith
  <2> QED
    BY <2>1, EventWith
<1>3. e \in Event
  BY <1>1, <1>2, EventWith
<1>4. Folded(e)
  BY <1>1 DEF Folded, Fold, Event
<1> QED
  BY <1>3, <1>4 DEF Grown, Fold

LEMMA FoldStopGrows ==
  ASSUME TypeOK, FoldStop
  PROVE  UNCHANGED <<journal, pending>> \/ Grown
  BY FoldGrows DEF FoldStop

LEMMA OpenGrows ==
  ASSUME TypeOK, NEW operation \in Operations, NEW charge \in {0, 1},
         OpenOperation(operation, charge), UNCHANGED pending,
         charge = 1 => RunAt("dispatch")
  PROVE  Grown
<1> DEFINE s == [State EXCEPT !.event = "opened", !.open = operation,
                              !.charged = @ + charge]
           e == [s EXCEPT !.request = {}]
<1>1. State \in Event /\ State.charged + charge \in Nat
  BY HeadIsEvent DEF TypeOK, JournalType, Event
<1>2. [State EXCEPT !.event = "opened"] \in Event
  BY <1>1, EventWith
<1>3. [State EXCEPT !.event = "opened", !.open = operation] \in Event
  BY <1>2, EventWith
<1>4. s \in Event
  BY <1>1, <1>3, EventWith
<1>5. e \in Event
  BY <1>4, EventWith
<1>6. /\ e.event = "opened" /\ e.request = {} /\ e.grant = State.grant
      /\ e.stopped = State.stopped /\ e.charged = State.charged + charge
  BY <1>1 DEF Event
<1>7. pending = {} /\ journal' = Append(journal, e)
  BY DEF OpenOperation, MayAppend, Appended
<1>8. Continued(e) /\ Charged(e)
  BY <1>1, <1>6, <1>7 DEF Continued, Charged, Event
<1> QED
  BY <1>5, <1>7, <1>8 DEF Grown

LEMMA SettleGrows ==
  ASSUME TypeOK, UNCHANGED pending, NEW state \in Event, Settle(state),
         state.grant = State.grant, state.stopped = State.stopped,
         state.charged = State.charged
  PROVE  Grown
<1> DEFINE s == [state EXCEPT !.event = "settled", !.open = "none"]
           e == [s EXCEPT !.request = {}]
<1>1. [state EXCEPT !.event = "settled"] \in Event
  BY EventWith
<1>2. s \in Event
  BY <1>1, EventWith
<1>3. e \in Event
  BY <1>2, EventWith
<1>4. Continued(e) /\ Charged(e)
  BY DEF Continued, Charged, Event
<1> QED
  BY <1>3, <1>4 DEF Grown, Settle, Appended

LEMMA SetGrows ==
  ASSUME TypeOK, SetDelegation
  PROVE  Grown
<1> DEFINE s == [State EXCEPT !.event = "set", !.grant = @ + 1,
                              !.stopped = FALSE, !.basis = State.admission]
           e == [s EXCEPT !.request = {}]
<1>1. State \in Event /\ State.grant + 1 \in Grants /\ State.admission \in Nat
  <2>1. State \in Event
    BY HeadIsEvent DEF TypeOK, JournalType
  <2>2. State.grant \in 0..MaxGrants /\ State.admission \in Nat
    BY <2>1 DEF Event, Grants
  <2> QED
    BY <2>1, <2>2, StopAssumption DEF Grants, SetDelegation
<1>2. [State EXCEPT !.event = "set"] \in Event
  BY <1>1, EventWith
<1>3. [State EXCEPT !.event = "set", !.grant = @ + 1] \in Event
  BY <1>1, <1>2, EventWith
<1>4. [State EXCEPT !.event = "set", !.grant = @ + 1, !.stopped = FALSE] \in Event
  BY <1>3, EventWith
<1>5. s \in Event
  BY <1>1, <1>4, EventWith
<1>6. e \in Event
  BY <1>5, EventWith
<1>7. Granted(e)
  BY <1>1 DEF Granted, SetDelegation, Settled, MayAppend, WriterOnly, Event
<1> QED
  BY <1>6, <1>7 DEF Grown, SetDelegation, Appended

LEMMA CloseGrows ==
  ASSUME TypeOK, Close
  PROVE  Grown
<1> DEFINE s == [State EXCEPT !.event = "closed", !.open = "none"]
           e == [s EXCEPT !.request = {}]
<1>1. State \in Event
  BY HeadIsEvent DEF TypeOK, JournalType
<1>2. [State EXCEPT !.event = "closed"] \in Event
  BY <1>1, EventWith
<1>3. s \in Event
  BY <1>2, EventWith
<1>4. e \in Event
  BY <1>3, EventWith
<1>5. Closes(e)
  BY <1>1 DEF Closes, Close, MayAppend, WriterOnly, Event
<1> QED
  BY <1>4, <1>5 DEF Grown, Close, Appended

LEMMA ConcludeGrows ==
  ASSUME TypeOK, Conclude
  PROVE  Grown
<1>1. State \in Event /\ [State EXCEPT !.admission = @ + 1] \in Event
  <2>1. State \in Event /\ State.admission + 1 \in Nat
    BY HeadIsEvent DEF TypeOK, JournalType, Event
  <2> QED
    BY <2>1, EventWith
<1>2. CASE Settle(State)
  BY <1>1, <1>2, SettleGrows DEF Conclude, WriterOnly
<1>3. CASE Settle([State EXCEPT !.admission = @ + 1])
  BY <1>1, <1>3, SettleGrows DEF Conclude, WriterOnly, Event
<1> QED
  BY <1>2, <1>3 DEF Conclude

LEMMA RunJournal ==
  ASSUME TypeOK, Run
  PROVE  (UNCHANGED <<journal, pending>> \/ Grown) /\ UNCHANGED <<sealed, caller>>
<1>1. CASE Observe
  BY <1>1, FoldStopGrows DEF Observe
<1>2. CASE Decide \/ Reserve
  BY <1>2 DEF Decide, Reserve
<1>3. CASE Dispatch
  BY <1>3, OpenGrows DEF Dispatch, Operations
<1>4. CASE Work
  <2>1. State \in Event
    BY HeadIsEvent DEF TypeOK, JournalType
  <2>2. Settle(State) \/ UNCHANGED journal
    BY <1>4 DEF Work
  <2> QED
    BY <1>4, <2>1, <2>2, SettleGrows DEF Work
<1>5. CASE ReadBack
  BY <1>5, FoldStopGrows DEF ReadBack, FoldAfterWork
<1> QED
  BY <1>1, <1>2, <1>3, <1>4, <1>5 DEF Run

LEMMA WriterJournal ==
  ASSUME TypeOK, Writer
  PROVE  JournalStep /\ UNCHANGED <<run, caller>>
<1>1. CASE SetDelegation
  BY <1>1, SetGrows DEF JournalStep, SetDelegation, WriterOnly
<1>2. CASE Recover \/ WriterDies
  BY <1>2 DEF JournalStep, Recover, WriterDies, WriterOnly
<1>3. CASE Conclude
  BY <1>3, ConcludeGrows DEF JournalStep, Conclude, WriterOnly
<1>4. CASE Close
  BY <1>4, CloseGrows DEF JournalStep, Close, WriterOnly
<1>5. CASE Seal
  BY <1>5 DEF JournalStep, Seal, WriterOnly
<1>6. ASSUME NEW operation \in Operations, OpenUndelegated(operation)
      PROVE  JournalStep /\ UNCHANGED <<run, caller>>
  <2>1. OpenOperation(operation, 0) /\ UNCHANGED <<pending, run, caller, sealed>>
    BY <1>6 DEF OpenUndelegated, WriterOnly
  <2>2. Grown
    BY <2>1, OpenGrows
  <2> QED
    BY <2>1, <2>2 DEF JournalStep
<1> QED
  BY <1>1, <1>2, <1>3, <1>4, <1>5, <1>6 DEF Writer

LEMMA CallerJournal ==
  ASSUME TypeOK, NEW c \in Callers, RequestStop(c) \/ TryFold(c) \/ CallerDies(c)
  PROVE  JournalStep /\ UNCHANGED run
<1>1. CASE RequestStop(c)
  BY <1>1 DEF RequestStop, JournalStep, Requested, Retain
<1>2. CASE TryFold(c)
  BY <1>2, FoldGrows DEF TryFold, JournalStep
<1>3. CASE CallerDies(c)
  BY <1>3, FoldGrows DEF CallerDies, JournalStep
<1> QED
  BY <1>1, <1>2, <1>3

LEMMA NextJournal ==
  ASSUME TypeOK, [Next]_vars
  PROVE  JournalStep
<1>1. CASE StartRun \/ RunDies \/ UNCHANGED vars
  BY <1>1 DEF StartRun, RunDies, vars, JournalStep
<1>2. CASE Run
  BY <1>2, RunJournal DEF JournalStep
<1> QED
  BY <1>1, <1>2, WriterJournal, CallerJournal DEF Next

------------------------------------------------------------------------------
(* Types.                                                                     *)

LEMMA RunWith ==
  ASSUME NEW R, R = [at : {"idle", "observe", "decide", "reserve", "dispatch",
                           "work", "return"},
                     start : Nat, head : Nat, settled : Nat,
                     failed : BOOLEAN, died : BOOLEAN],
         NEW r \in R
  PROVE  /\ \A x \in {"idle", "observe", "decide", "reserve", "dispatch",
                        "work", "return"} : [r EXCEPT !.at = x] \in R
         /\ \A x \in Nat : [r EXCEPT !.start = x] \in R
         /\ \A x \in Nat : [r EXCEPT !.head = x] \in R
         /\ \A x \in Nat : [r EXCEPT !.settled = x] \in R
         /\ \A x \in BOOLEAN : [r EXCEPT !.failed = x] \in R
         /\ \A x \in BOOLEAN : [r EXCEPT !.died = x] \in R
         /\ IdleRun \in R
  BY DEF IdleRun

RunType ==
  run \in [at : {"idle", "observe", "decide", "reserve", "dispatch", "work",
                  "return"},
            start : Nat, head : Nat, settled : Nat,
            failed : BOOLEAN, died : BOOLEAN]
CallerType ==
  caller \in [Callers ->
    [at : {"idle", "fold", "answered"}, grant : Grants,
     disposition : {"none", "pending", "stopped"}, head : Nat,
     request : SUBSET Requests]]
RequestType == pending = {} \/ \E request \in Requests : pending = {request}
OtherTypes == sealed \in BOOLEAN /\ lock \in {{}, {"run"}, {"writer"}} /\ faults \in 0..MaxFaults

LEMMA TypeParts ==
  /\ TypeOK <=> JournalType /\ RequestType /\ RunType /\ CallerType /\ OtherTypes
  /\ TypeOK' <=> JournalType' /\ RequestType' /\ RunType' /\ CallerType' /\ OtherTypes'
  BY DEF TypeOK, JournalType, RequestType, RunType, CallerType, OtherTypes

LEMMA JournalTypes ==
  ASSUME TypeOK, JournalStep
  PROVE  JournalType' /\ RequestType'
<1>1. JournalType /\ RequestType /\ State \in Event
  BY TypeParts, HeadIsEvent
<1>2. CASE UNCHANGED <<journal, pending>>
  BY <1>1, <1>2 DEF JournalType, RequestType
<1>3. CASE Requested
  <2>1. \A c \in Callers : [grant |-> State.grant, by |-> c] \in Requests
    BY <1>1 DEF Event, Requests
  <2> QED
    BY <1>1, <1>3, <2>1 DEF JournalType, RequestType, Requested
<1>4. CASE Grown
  <2>1. PICK e \in Event : /\ journal' = Append(journal, e)
                           /\ Folded(e) \/ Continued(e) \/ Granted(e) \/ Closes(e)
    BY <1>4 DEF Grown
  <2>2. JournalType'
    BY <1>1, <2>1, Grows
  <2>3. pending' = {} \/ pending' = pending
    BY <2>1 DEF Folded, Continued, Granted, Closes
  <2> QED
    BY <1>1, <2>2, <2>3 DEF RequestType
<1> QED
  BY <1>2, <1>3, <1>4 DEF JournalStep

LEMMA RunTypes ==
  ASSUME TypeOK, StartRun \/ Run \/ RunDies
  PROVE  RunType' /\ lock' \in {{}, {"run"}, {"writer"}} /\ faults' \in 0..MaxFaults
<1> DEFINE R == [at : {"idle", "observe", "decide", "reserve", "dispatch", "work",
                       "return"},
                 start : Nat, head : Nat, settled : Nat,
                 failed : BOOLEAN, died : BOOLEAN]
<1>1. run \in R /\ IdleRun \in R /\ run.settled \in Nat
  BY RunWith DEF TypeOK
<1>2. HeadSequence \in Nat
  BY HeadIsEvent, TypeParts
<1>3. faults' = faults \/ (faults < MaxFaults /\ faults' = faults + 1)
  BY DEF StartRun, Run, RunDies, Observe, Decide, Reserve, Dispatch, Work, ReadBack, Fault
<1>4. faults' \in 0..MaxFaults
  BY <1>3, StopAssumption DEF TypeOK
<1>5. run' \in R
  <2>1. \A r \in R : /\ \A x \in {"idle", "observe", "decide", "reserve", "dispatch",
                                    "work", "return"} : [r EXCEPT !.at = x] \in R
                     /\ \A x \in Nat : [r EXCEPT !.start = x] \in R
                     /\ \A x \in Nat : [r EXCEPT !.head = x] \in R
                     /\ \A x \in Nat : [r EXCEPT !.settled = x] \in R
                     /\ \A x \in BOOLEAN : [r EXCEPT !.failed = x] \in R
                     /\ \A x \in BOOLEAN : [r EXCEPT !.died = x] \in R
    BY RunWith
  <2> HIDE DEF R
  <2>2. CASE StartRun
    <3>1. [IdleRun EXCEPT !.at = "observe"] \in R
      BY <1>1, <2>1
    <3>2. [IdleRun EXCEPT !.at = "observe", !.start = HeadSequence] \in R
      BY <1>2, <2>1, <3>1
    <3> QED
      BY <2>2, <3>2 DEF StartRun
  <2>3. CASE RunDies
    BY <1>1, <2>1, <2>3 DEF RunDies
  <2>4. CASE Observe
    BY <1>1, <2>1, <2>4 DEF Observe
  <2>5. CASE Decide
    <3>1. [run EXCEPT !.at = "reserve"] \in R
      BY <1>1, <2>1
    <3>2. [run EXCEPT !.at = "reserve", !.head = HeadSequence] \in R
      BY <1>2, <2>1, <3>1
    <3> QED
      BY <1>1, <2>1, <2>5, <3>2 DEF Decide, Finish
  <2>6. CASE Reserve
    BY <1>1, <2>1, <2>6 DEF Reserve, Finish
  <2>7. CASE Dispatch
    <3>1. [run EXCEPT !.at = "return"] \in R
      BY <1>1, <2>1
    <3>2. [run EXCEPT !.at = "return", !.failed = TRUE] \in R
      BY <2>1, <3>1
    <3> QED
      BY <1>1, <2>1, <2>7, <3>2 DEF Dispatch
  <2>8. CASE Work
    <3>1. [run EXCEPT !.at = "return"] \in R
      BY <1>1, <2>1
    <3>2. \A failed \in BOOLEAN : [run EXCEPT !.at = "return", !.failed = failed] \in R
      BY <2>1, <3>1
    <3> QED
      BY <2>8, <3>2 DEF Work
  <2>9. CASE ReadBack
    <3>1. Report \in Nat
      BY <1>1 DEF Report
    <3>2. [run EXCEPT !.at = "observe"] \in R
      BY <1>1, <2>1
    <3>3. [run EXCEPT !.at = "observe", !.settled = Report] \in R
      BY <2>1, <3>1, <3>2
    <3>4. [run EXCEPT !.at = "observe", !.settled = Report, !.head = 1] \in R
      BY <2>1, <3>3
    <3> QED
      BY <1>1, <2>1, <2>9, <3>1, <3>4 DEF ReadBack, Finish
  <2> QED
    BY <2>2, <2>3, <2>4, <2>5, <2>6, <2>7, <2>8, <2>9 DEF Run
<1>6. lock' \in {{}, {"run"}, {"writer"}}
  BY DEF TypeOK, StartRun, Run, RunDies, Observe, Decide, Reserve, Dispatch, Work,
     ReadBack, Finish
<1> QED
  BY <1>4, <1>5, <1>6 DEF RunType

LEMMA WriterTypes ==
  ASSUME TypeOK, Writer
  PROVE  lock' \in {{}, {"run"}, {"writer"}} /\ faults' \in 0..MaxFaults
<1>1. faults' = faults \/ (faults < MaxFaults /\ faults' = faults + 1)
  BY DEF Writer, SetDelegation, Recover, Conclude, Close, Seal, WriterDies,
     OpenUndelegated, Fault
<1>2. lock' = lock \/ lock' \in {{}, {"writer"}}
  BY DEF Writer, SetDelegation, Recover, Conclude, Close, Seal, WriterDies,
     OpenUndelegated
<1> QED
  BY <1>1, <1>2, StopAssumption DEF TypeOK

\* What a step leaves of what a caller knows: nothing, what it knew, or the
\* answer that the step gives it.
Kept(c) ==
  /\ caller'[c].disposition = caller[c].disposition
  /\ caller'[c].head = caller[c].head /\ caller'[c].grant = caller[c].grant
  /\ caller'[c].request = caller[c].request
Answering(c) ==
  /\ caller'[c].head = HeadSequence' /\ caller'[c].grant = State.grant
  /\ State'.grant = State.grant
  /\ \/ /\ State'.stopped /\ pending' = {}
        /\ caller'[c].request = StoppedBy(State.grant)'
     \/ /\ ~State'.stopped /\ pending' # {}
        /\ caller'[c].request = pending'
Answers(c) == caller'[c].disposition = "none" \/ Kept(c) \/ Answering(c)

LEMMA StoppedByType ==
  ASSUME TypeOK, NEW grant
  PROVE  StoppedBy(grant) \in SUBSET Requests
<1>1. \A n \in 1..HeadSequence : journal[n].request \in SUBSET Requests
  BY TypeParts, HeadIsEvent DEF Event
<1> QED
  BY <1>1, InStoppedBy

LEMMA CallerTypes ==
  ASSUME TypeOK, NEW c \in Callers, RequestStop(c) \/ TryFold(c) \/ CallerDies(c)
  PROVE  CallerType' /\ UNCHANGED lock /\ faults' \in 0..MaxFaults
<1> DEFINE A == [at : {"idle", "fold", "answered"}, grant : Grants,
                 disposition : {"none", "pending", "stopped"}, head : Nat,
                 request : SUBSET Requests]
<1>1. CallerType /\ State \in Event /\ State.grant \in Grants /\ pending \in SUBSET Requests
  BY TypeParts, HeadIsEvent DEF Event, RequestType
<1>2. HeadSequence' \in Nat
  <2>1. JournalType'
    BY CallerJournal, JournalTypes
  <2> QED
    BY <2>1 DEF JournalType, HeadSequence
<1>3. faults' \in 0..MaxFaults
  BY StopAssumption DEF TypeOK, RequestStop, TryFold, CallerDies, Fault
<1>4. \A place \in {"fold", "answered"}, d \in {"pending", "stopped"},
         r \in SUBSET Requests :
        Answer(c, place, State.grant, d, r) => CallerType'
  <2>1. \A place \in {"fold", "answered"}, d \in {"pending", "stopped"},
           r \in SUBSET Requests :
          [at |-> place, grant |-> State.grant, disposition |-> d,
           head |-> HeadSequence', request |-> r] \in A
    BY <1>1, <1>2
  <2> HIDE DEF A
  <2>2. \A a \in A : [caller EXCEPT ![c] = a] \in [Callers -> A]
    BY <1>1 DEF CallerType, A
  <2>3. ASSUME NEW place \in {"fold", "answered"}, NEW d \in {"pending", "stopped"},
               NEW r \in SUBSET Requests, Answer(c, place, State.grant, d, r)
        PROVE  caller' \in [Callers -> A]
    BY <2>1, <2>2, <2>3 DEF Answer
  <2> QED
    BY <2>3 DEF CallerType, A
<1>5. [caller EXCEPT ![c].at = "answered"] \in [Callers -> A]
  BY <1>1 DEF CallerType
<1>6. CASE RequestStop(c)
  <2>1. PICK grant \in 1..State.grant :
       \/ /\ grant # State.grant \/ (Terminal /\ ~State.stopped)
          /\ caller' = [caller EXCEPT ![c].at = "answered"]
          /\ UNCHANGED pending
       \/ /\ grant = State.grant /\ State.stopped
          /\ Answer(c, "answered", grant, "stopped", StoppedBy(grant))
          /\ UNCHANGED pending
       \/ /\ grant = State.grant /\ Stoppable
          /\ pending' = Retain(c, grant)
          /\ Answer(c, IF Settled THEN "fold" ELSE "answered", grant, "pending",
                    Retain(c, grant))
    BY <1>6 DEF RequestStop
  <2>2. Retain(c, State.grant) \in SUBSET Requests
    BY <1>1 DEF Retain, Requests
  <2> QED
    BY <1>3, <1>4, <1>5, <1>6, <2>1, <2>2, StoppedByType DEF RequestStop, CallerType
<1>7. CASE TryFold(c)
  BY <1>1, <1>3, <1>4, <1>5, <1>7, StoppedByType DEF TryFold, CallerType
<1>8. CASE CallerDies(c)
  <2>1. Answered \in A
    BY StopAssumption DEF Answered, Idle, Grants
  <2> QED
    BY <1>1, <1>3, <1>8, <2>1 DEF CallerDies, CallerType
<1> QED
  BY <1>6, <1>7, <1>8

LEMMA NextType ==
  ASSUME TypeOK, [Next]_vars
  PROVE  TypeOK'
<1>1. JournalType' /\ RequestType'
  BY NextJournal, JournalTypes
<1>2. sealed' \in BOOLEAN
  BY NextJournal DEF JournalStep, TypeOK
<1>3. CASE StartRun \/ Run \/ RunDies
  <2>1. UNCHANGED caller
    BY <1>3, RunJournal DEF StartRun, RunDies
  <2> QED
    BY <1>1, <1>2, <1>3, <2>1, RunTypes, TypeParts DEF CallerType, OtherTypes
<1>4. CASE Writer
  BY <1>1, <1>2, <1>4, WriterTypes, WriterJournal, TypeParts
     DEF CallerType, RunType, OtherTypes
<1>5. ASSUME NEW c \in Callers, RequestStop(c) \/ TryFold(c) \/ CallerDies(c)
      PROVE  TypeOK'
  <2>1. UNCHANGED run
    BY <1>5, CallerJournal
  <2> QED
    BY <1>1, <1>2, <1>5, <2>1, CallerTypes, TypeParts DEF RunType, OtherTypes
<1>6. CASE UNCHANGED vars
  BY <1>6 DEF vars, TypeOK
<1> QED
  BY <1>3, <1>4, <1>5, <1>6 DEF Next

------------------------------------------------------------------------------
(* What every step keeps of the Journal and of the request.                   *)

LEMMA PendingStep ==
  ASSUME TypeOK, PendingIsCurrent, JournalStep
  PROVE  PendingIsCurrent'
<1>1. JournalType /\ State \in Event
  BY TypeParts, HeadIsEvent
<1>2. CASE UNCHANGED <<journal, pending>>
  <2>1. State' = State
    BY <1>2 DEF State, HeadSequence
  <2> QED
    BY <1>2, <2>1 DEF JournalStep, PendingIsCurrent, Closed
<1>3. CASE Requested
  <2>1. State' = State /\ sealed' = sealed
    BY <1>3 DEF Requested, State, HeadSequence, JournalStep
  <2> QED
    BY <1>3, <2>1 DEF Requested, PendingIsCurrent, Stoppable, Terminal, Closed
<1>4. CASE Grown
  <2>1. PICK e \in Event : /\ journal' = Append(journal, e)
                           /\ Folded(e) \/ Continued(e) \/ Granted(e) \/ Closes(e)
    BY <1>4 DEF Grown
  <2>2. State' = e /\ journal' # journal
    BY <1>1, <2>1, Grows DEF HeadSequence
  <2>3. sealed' = sealed
    BY <2>2 DEF JournalStep
  <2>4. CASE pending' = {}
    BY <2>4 DEF PendingIsCurrent
  <2>5. CASE pending' # {}
    <3>1. Continued(e) /\ e.event = "settled" /\ e.open = "none"
      BY <2>1, <2>5 DEF Folded, Continued, Granted, Closes
    <3> QED
      BY <2>2, <2>3, <3>1 DEF Continued, PendingIsCurrent, Closed
  <2> QED
    BY <2>4, <2>5
<1> QED
  BY <1>2, <1>3, <1>4 DEF JournalStep

JournalFacts == GrantsAdvance /\ StoppedIsFolded

\* What is folded of a delegation, and what the request still asks of it.
Asked(grant) ==
  StoppedBy(grant) \union {request \in pending : request.grant = grant}

\* A grant of the Journal is never granted again, a stop of it stays, and
\* nothing that was asked about it is lost or replaced by an append.
GrantStep(grant) ==
  /\ grant <= State'.grant
  /\ grant = State'.grant =>
       /\ grant = State.grant
       /\ State.stopped => State'.stopped
       /\ pending # {} => State'.stopped \/ pending' # {}
  /\ Asked(grant)' = Asked(grant)
       \/ (grant = State.grant /\ pending = {} /\ ~State.stopped /\ Requested)

LEMMA JournalFactsStep ==
  ASSUME TypeOK, PendingIsCurrent, JournalFacts, JournalStep
  PROVE  /\ JournalFacts'
         /\ HeadSequence <= HeadSequence' /\ HeadSequence' \in Nat
         /\ \A n \in 1..HeadSequence : journal'[n] = journal[n]
         /\ \A n \in HeadSequence + 1..HeadSequence' :
              journal'[n].charged > journal'[n - 1].charged =>
                /\ journal'[n].grant = State.grant
                /\ pending = {} /\ RunAt("dispatch")
         /\ \A grant \in Grants : grant <= State.grant => GrantStep(grant)
<1>1. /\ JournalType /\ State \in Event /\ State.grant \in Nat
      /\ HeadSequence \in Nat \ {0} /\ pending \in SUBSET Requests
  BY TypeParts, HeadIsEvent DEF RequestType, Event, Grants
<1>2. \A grant : Asked(grant) = StoppedBy(grant) \union {request \in pending : request.grant = grant}
  BY DEF Asked
<1>3. \A grant : Asked(grant)' = StoppedBy(grant)' \union {request \in pending' : request.grant = grant}
  BY DEF Asked
<1>4. CASE UNCHANGED journal
  <2>1. State' = State /\ HeadSequence' = HeadSequence
    BY <1>4 DEF State, HeadSequence
  <2>2. \A grant : StoppedBy(grant)' = StoppedBy(grant)
    BY <1>4, <2>1 DEF StoppedBy
  <2>3. JournalFacts'
    BY <1>4, <2>1, <2>2 DEF JournalFacts, GrantsAdvance, StoppedIsFolded
  <2>4. pending' = pending \/ Requested
    <3>1. ASSUME Grown PROVE FALSE
      <4>1. PICK e \in Event : journal' = Append(journal, e)
        BY <3>1 DEF Grown
      <4> QED
        BY <1>1, <2>1, <4>1, Grows
    <3> QED
      BY <3>1 DEF JournalStep
  <2>5. ASSUME NEW grant \in Grants, grant <= State.grant PROVE GrantStep(grant)
    <3>1. CASE pending' = pending
      BY <1>2, <1>3, <2>1, <2>2, <2>5, <3>1 DEF GrantStep
    <3>2. CASE Requested /\ grant = State.grant
      BY <2>1, <2>5, <3>2 DEF GrantStep, Requested, Stoppable
    <3>3. CASE Requested /\ grant # State.grant
      <4>1. {request \in pending' : request.grant = grant} = {}
        BY <3>3 DEF Requested
      <4>2. {request \in pending : request.grant = grant} = {}
        BY <3>3 DEF Requested
      <4>3. Asked(grant)' = Asked(grant)
        BY <1>2, <1>3, <2>2, <4>1, <4>2
      <4> QED
        BY <2>1, <2>5, <3>3, <4>3 DEF GrantStep
    <3> QED
      BY <2>4, <3>1, <3>2, <3>3
  <2> QED
    BY <1>1, <1>4, <2>1, <2>3, <2>5
<1>5. CASE Grown
  <2>1. PICK e \in Event : /\ journal' = Append(journal, e)
                           /\ Folded(e) \/ (Continued(e) /\ Charged(e)) \/ Granted(e)
                              \/ Closes(e)
    BY <1>5 DEF Grown
  <2>2. /\ HeadSequence' = HeadSequence + 1 /\ State' = e
        /\ \A n \in 1..HeadSequence : journal'[n] = journal[n]
    BY <1>1, <2>1, Grows
  <2>3. \A grant : StoppedBy(grant)' = StoppedBy(grant) \union
          (IF e.event = "stopped" /\ e.grant = grant THEN e.request ELSE {})
    BY <1>1, <2>1, StoppedByGrows
  <2>4. e.grant \in Nat /\ \A n \in 1..HeadSequence : journal[n].grant \in Nat
    BY <1>1, HeadIsEvent DEF Event, Grants
  <2>5. \A n \in 1..HeadSequence' : n = HeadSequence + 1 \/ n \in 1..HeadSequence
    BY <1>1, <2>2
  <2>6. journal'[HeadSequence + 1] = e
    BY <2>2 DEF State
  <2>7. State.grant <= e.grant
    BY <1>1, <2>1, <2>4 DEF Folded, Continued, Granted, Closes
  <2>8. GrantsAdvance'
    <3>1. \A n \in 1..HeadSequence : journal'[n].grant <= e.grant
      BY <1>1, <2>2, <2>4, <2>7 DEF JournalFacts, GrantsAdvance
    <3> QED
      BY <2>2, <2>4, <2>5, <2>6, <3>1 DEF GrantsAdvance
  <2>9. StoppedIsFolded'
    <3>1. State'.stopped <=> StoppedBy(e.grant)' # {}
      <4>1. CASE Folded(e)
        BY <2>2, <2>3, <4>1 DEF Folded
      <4>2. CASE Continued(e) \/ Closes(e)
        BY <2>2, <2>3, <4>2 DEF Continued, Closes, JournalFacts, StoppedIsFolded
      <4>3. CASE Granted(e)
        <5>1. StoppedBy(e.grant) = {}
          <6>1. \A n \in 1..HeadSequence : journal[n].grant # e.grant
            BY <1>1, <2>4, <4>3 DEF Granted, JournalFacts, GrantsAdvance
          <6> QED
            BY <6>1, InStoppedBy
        <5> QED
          BY <2>2, <2>3, <4>3, <5>1 DEF Granted
      <4> QED
        BY <2>1, <4>1, <4>2, <4>3
    <3> QED
      BY <2>2, <3>1 DEF StoppedIsFolded
  <2>10. \A n \in HeadSequence + 1..HeadSequence' :
           journal'[n].charged > journal'[n - 1].charged =>
             /\ journal'[n].grant = State.grant
             /\ pending = {} /\ RunAt("dispatch")
    <3>1. \A n \in HeadSequence + 1..HeadSequence' :
            journal'[n] = e /\ journal'[n - 1] = State
      BY <1>1, <2>2, <2>6 DEF State
    <3>2. e.charged > State.charged =>
            e.grant = State.grant /\ pending = {} /\ RunAt("dispatch")
      <4>1. State.charged \in Nat /\ e.charged \in Nat
        BY <1>1 DEF Event
      <4> QED
        BY <2>1, <4>1 DEF Folded, Continued, Charged, Granted, Closes
    <3> QED
      BY <3>1, <3>2
  <2>11. ASSUME NEW grant \in Grants, grant <= State.grant PROVE GrantStep(grant)
    <3>1. Asked(grant)' = Asked(grant)
      <4>1. CASE Folded(e)
        <5>1. \A request \in pending : request.grant = State.grant
          BY DEF PendingIsCurrent
        <5>2. CASE grant = State.grant
          <6>1. {request \in pending : request.grant = grant} = pending
            BY <5>1, <5>2
          <6> QED
            BY <1>2, <1>3, <2>3, <4>1, <5>2, <6>1 DEF Folded
        <5>3. CASE grant # State.grant
          <6>1. {request \in pending : request.grant = grant} = {}
            BY <5>1, <5>3
          <6> QED
            BY <1>2, <1>3, <2>3, <4>1, <5>3, <6>1 DEF Folded
        <5> QED
          BY <5>2, <5>3
      <4>2. CASE Continued(e) \/ Granted(e) \/ Closes(e)
        <5>1. pending' = pending /\ StoppedBy(grant)' = StoppedBy(grant)
          BY <2>3, <4>2 DEF Continued, Granted, Closes
        <5> QED
          BY <1>2, <1>3, <5>1
      <4> QED
        BY <2>1, <4>1, <4>2
    <3>2. /\ grant <= State'.grant
          /\ grant = State'.grant =>
               /\ grant = State.grant
               /\ State.stopped => State'.stopped
               /\ pending # {} => State'.stopped \/ pending' # {}
      <4>1. grant \in Nat
        BY DEF Grants
      <4> QED
        BY <1>1, <2>1, <2>2, <2>4, <2>7, <2>11, <4>1 DEF Folded, Continued, Granted, Closes
    <3> QED
      BY <3>1, <3>2 DEF GrantStep
  <2> QED
    BY <1>1, <2>2, <2>8, <2>9, <2>10, <2>11 DEF JournalFacts
<1> QED
  BY <1>4, <1>5 DEF JournalStep, Requested

------------------------------------------------------------------------------
(* What a caller was told.                                                    *)

\* A fold answers for the current delegation, with what it folds.
LEMMA FoldAnswers ==
  ASSUME TypeOK, PendingIsCurrent, StoppedIsFolded, Fold, pending # {}
  PROVE  /\ State'.grant = State.grant /\ State'.stopped /\ pending' = {}
         /\ StoppedBy(State.grant)' = pending
<1> DEFINE e == [State EXCEPT !.event = "stopped", !.stopped = TRUE, !.request = pending]
<1>1. JournalType /\ State \in Event /\ pending \in SUBSET Requests
  BY TypeParts, HeadIsEvent DEF RequestType
<1>2. [State EXCEPT !.event = "stopped", !.stopped = TRUE] \in Event
  <2>1. [State EXCEPT !.event = "stopped"] \in Event
    BY <1>1, EventWith
  <2> QED
    BY <2>1, EventWith
<1>3. e \in Event
  BY <1>1, <1>2, EventWith
<1>4. /\ e.event = "stopped" /\ e.stopped /\ e.request = pending
      /\ e.grant = State.grant
  BY <1>1 DEF Event
<1>5. journal' = Append(journal, e) /\ pending' = {}
  BY DEF Fold
<1> HIDE DEF e
<1>6. State' = e
  BY <1>1, <1>3, <1>5, Grows
<1>7. StoppedBy(State.grant) = {}
  BY DEF PendingIsCurrent, StoppedIsFolded
<1>8. StoppedBy(State.grant)' = pending
  <2>1. \A grant : StoppedBy(grant)' = StoppedBy(grant) \union
          (IF e.event = "stopped" /\ e.grant = grant THEN e.request ELSE {})
    BY <1>1, <1>3, <1>5, StoppedByGrows
  <2> QED
    BY <1>4, <1>6, <1>7, <2>1
<1> QED
  BY <1>4, <1>5, <1>6, <1>8

LEMMA AnswersStep ==
  ASSUME TypeOK, PendingIsCurrent, StoppedIsFolded, [Next]_vars, NEW c \in Callers
  PROVE  Answers(c)
<1>1. CallerType
  BY TypeParts
<1>2. CASE UNCHANGED caller
  BY <1>2 DEF Answers, Kept
<1>3. ASSUME NEW d \in Callers, RequestStop(d) \/ TryFold(d) \/ CallerDies(d)
      PROVE  Answers(c)
  <2>1. CASE c # d
    <3>1. caller'[c] = caller[c]
      BY <1>1, <1>3, <2>1 DEF CallerType, RequestStop, TryFold, CallerDies, Answer
    <3> QED
      BY <3>1 DEF Answers, Kept
  <2>2. CASE caller' = [caller EXCEPT ![d].at = "answered"]
    BY <1>1, <2>2 DEF CallerType, Answers, Kept
  <2>3. CASE c = d /\ RequestStop(d) /\ caller' # [caller EXCEPT ![d].at = "answered"]
    <3>1. State' = State /\ UNCHANGED journal
      BY <2>3 DEF RequestStop, State, HeadSequence
    <3>2. \A grant : StoppedBy(grant)' = StoppedBy(grant)
      BY <3>1 DEF StoppedBy, HeadSequence
    <3>3. CASE /\ State.stopped /\ UNCHANGED pending
               /\ Answer(d, "answered", State.grant, "stopped", StoppedBy(State.grant))
      <4>1. pending = {}
        BY <3>3 DEF PendingIsCurrent
      <4> QED
        BY <1>1, <2>3, <3>1, <3>2, <3>3, <4>1 DEF Answers, Answering, Answer, CallerType
    <3>4. CASE /\ Stoppable /\ pending' = Retain(d, State.grant)
               /\ Answer(d, IF Settled THEN "fold" ELSE "answered", State.grant, "pending",
                         Retain(d, State.grant))
      <4>1. pending' # {} /\ ~State.stopped
        BY <3>4 DEF Retain, Stoppable
      <4> QED
        BY <1>1, <2>3, <3>1, <3>4, <4>1 DEF Answers, Answering, Answer, CallerType
    <3> QED
      BY <2>3, <3>3, <3>4 DEF RequestStop
  <2>4. CASE c = d /\ TryFold(d) /\ caller' # [caller EXCEPT ![d].at = "answered"]
    <3>1. CASE pending # {} /\ Fold /\ Answer(d, "answered", State.grant, "stopped", pending)
      BY <1>1, <2>4, <3>1, FoldAnswers DEF Answers, Answering, Answer, CallerType
    <3>2. CASE /\ State.stopped /\ UNCHANGED <<journal, pending>>
               /\ Answer(d, "answered", State.grant, "stopped", StoppedBy(State.grant))
      <4>1. pending = {}
        BY <3>2 DEF PendingIsCurrent
      <4>2. State' = State /\ StoppedBy(State.grant)' = StoppedBy(State.grant)
        BY <3>2 DEF State, HeadSequence, StoppedBy
      <4> QED
        BY <1>1, <2>4, <3>2, <4>1, <4>2 DEF Answers, Answering, Answer, CallerType
    <3> QED
      BY <2>4, <3>1, <3>2 DEF TryFold
  <2>5. CASE c = d /\ CallerDies(d)
    BY <1>1, <2>5 DEF CallerDies, Answers, Answered, Idle, CallerType
  <2> QED
    BY <1>3, <2>1, <2>2, <2>3, <2>4, <2>5
<1>4. CASE StartRun \/ Run \/ RunDies
  BY <1>2, <1>4, RunJournal DEF StartRun, RunDies
<1>5. CASE Writer
  BY <1>2, <1>5, WriterJournal
<1>6. CASE UNCHANGED vars
  BY <1>2, <1>6 DEF vars
<1> QED
  BY <1>3, <1>4, <1>5, <1>6 DEF Next

\* An answer that was given before a step is as good after it.
LEMMA KeptStep ==
  ASSUME StopInv, JournalStep, NEW c \in Callers,
         Kept(c), Acknowledged(c)
  PROVE  /\ caller'[c].head \in 1..HeadSequence'
         /\ caller'[c].grant <= State'.grant
         /\ caller'[c].grant = State'.grant => State'.stopped \/ pending' # {}
         /\ \A n \in caller'[c].head + 1..HeadSequence' :
              journal'[n].charged > journal'[n - 1].charged =>
                journal'[n].grant # caller'[c].grant
         /\ caller'[c].request # {}
         /\ caller'[c].request = Asked(caller[c].grant)'
<1> DEFINE h == caller[c].head
           g == caller[c].grant
<1>1. /\ HeadSequence <= HeadSequence' /\ HeadSequence' \in Nat
      /\ \A n \in 1..HeadSequence : journal'[n] = journal[n]
      /\ \A n \in HeadSequence + 1..HeadSequence' :
           journal'[n].charged > journal'[n - 1].charged =>
             /\ journal'[n].grant = State.grant
             /\ pending = {} /\ RunAt("dispatch")
      /\ \A grant \in Grants : grant <= State.grant => GrantStep(grant)
  BY JournalFactsStep DEF StopInv, JournalFacts
<1>2. /\ Acknowledged(c) /\ h \in 1..HeadSequence /\ g <= State.grant
      /\ g = State.grant => State.stopped \/ pending # {}
  BY DEF StopInv, AnswersAreOfJournal
<1>3. g \in Grants /\ HeadSequence \in Nat \ {0}
  BY TypeParts, HeadIsEvent DEF StopInv, CallerType
<1>4. GrantStep(g)
  BY <1>1, <1>2, <1>3
<1>5. /\ caller'[c].head = h /\ caller'[c].grant = g
      /\ caller'[c].request = caller[c].request
  BY DEF Kept
<1>6. caller[c].request # {} /\ caller[c].request = Asked(g)
  BY <1>2 DEF StopInv, FirstRequestStands, Asked
<1>7. Asked(g)' = Asked(g)
  BY <1>2, <1>4 DEF GrantStep
<1>8. ASSUME NEW n \in h + 1..HeadSequence', journal'[n].charged > journal'[n - 1].charged
      PROVE  journal'[n].grant # g
  <2>1. CASE n <= HeadSequence
    <3>1. n \in 1..HeadSequence /\ n - 1 \in 1..HeadSequence /\ n \in h + 1..HeadSequence
      BY <1>1, <1>2, <1>3, <2>1
    <3>2. journal'[n] = journal[n] /\ journal'[n - 1] = journal[n - 1]
      BY <1>1, <3>1
    <3> QED
      BY <1>2, <1>8, <3>1, <3>2 DEF StopInv, AcknowledgedStopHolds
  <2>2. CASE ~(n <= HeadSequence)
    <3>1. n \in HeadSequence + 1..HeadSequence'
      BY <1>1, <1>2, <1>3, <2>2
    <3>2. journal'[n].grant = State.grant /\ pending = {} /\ ~State.stopped
      BY <1>1, <1>8, <3>1 DEF StopInv, RunHolds, RunAt
    <3> QED
      BY <1>2, <3>2
  <2> QED
    BY <2>1, <2>2
<1>9. h \in 1..HeadSequence'
  BY <1>1, <1>2, <1>3
<1>10. g <= State'.grant /\ (g = State'.grant => State'.stopped \/ pending' # {})
  BY <1>2, <1>4 DEF GrantStep
<1>11. Asked(caller[c].grant)' = Asked(g)'
  BY <1>5 DEF Asked, StoppedBy
<1> HIDE DEF h, g
<1> QED
  BY <1>5, <1>6, <1>7, <1>8, <1>9, <1>10, <1>11

LEMMA AnsweringStep ==
  ASSUME TypeOK', JournalFacts', PendingIsCurrent', NEW c \in Callers, Answering(c)
  PROVE  /\ caller'[c].head \in 1..HeadSequence'
         /\ caller'[c].grant <= State'.grant
         /\ caller'[c].grant = State'.grant => State'.stopped \/ pending' # {}
         /\ \A n \in caller'[c].head + 1..HeadSequence' :
              journal'[n].charged > journal'[n - 1].charged =>
                journal'[n].grant # caller'[c].grant
         /\ caller'[c].request # {}
         /\ caller'[c].request = Asked(caller[c].grant)'
<1>1. HeadSequence' \in Nat \ {0} /\ State'.grant \in Nat
  <2>1. JournalType'
    BY TypeParts
  <2>2. HeadSequence' \in Nat \ {0} /\ State' \in Event
    BY <2>1 DEF JournalType, HeadSequence, State
  <2> QED
    BY <2>2 DEF Event, Grants
<1>2. caller'[c].head = HeadSequence' /\ caller'[c].grant = State'.grant
  BY DEF Answering
<1>3. \A n \in caller'[c].head + 1..HeadSequence' : FALSE
  <2>1. \A h \in Nat : \A n \in h + 1..h : FALSE
    OBVIOUS
  <2> QED
    BY <1>1, <1>2, <2>1
<1>4. Asked(caller[c].grant)' = StoppedBy(State.grant)'
                                  \union {request \in pending' : request.grant = State'.grant}
  BY <1>2 DEF Asked, StoppedBy
<1>5. /\ caller'[c].head \in 1..HeadSequence' /\ caller'[c].grant <= State'.grant
      /\ \A n \in caller'[c].head + 1..HeadSequence' :
           journal'[n].charged > journal'[n - 1].charged =>
             journal'[n].grant # caller'[c].grant
  <2>1. HeadSequence' \in 1..HeadSequence' /\ State'.grant <= State'.grant
    BY <1>1
  <2> QED
    BY <1>2, <1>3, <2>1
<1>6. ASSUME State'.stopped /\ pending' = {} /\ caller'[c].request = StoppedBy(State.grant)'
      PROVE  caller'[c].request # {} /\ caller'[c].request = Asked(caller[c].grant)'
  <2>1. StoppedBy(State.grant)' # {}
    BY <1>6 DEF JournalFacts, StoppedIsFolded
  <2> QED
    BY <1>4, <1>6, <2>1
<1>7. ASSUME ~State'.stopped /\ pending' # {} /\ caller'[c].request = pending'
      PROVE  caller'[c].request # {} /\ caller'[c].request = Asked(caller[c].grant)'
  <2>1. StoppedBy(State.grant)' = {}
    BY <1>7 DEF JournalFacts, StoppedIsFolded
  <2>2. {request \in pending' : request.grant = State'.grant} = pending'
    BY DEF PendingIsCurrent
  <2> QED
    BY <1>4, <1>7, <2>1, <2>2
<1>8. State'.stopped \/ pending' # {}
  BY DEF Answering
<1>9. caller'[c].request # {} /\ caller'[c].request = Asked(caller[c].grant)'
  BY <1>6, <1>7 DEF Answering
<1> QED
  BY <1>5, <1>8, <1>9

\* Every answer stays true of the Journal and of the request.
LEMMA AnswersStay ==
  ASSUME StopInv, [Next]_vars
  PROVE  AnswersAreOfJournal' /\ AcknowledgedStopHolds' /\ FirstRequestStands'
<1>1. TypeOK' /\ JournalStep
  BY NextType, NextJournal DEF StopInv
<1>2. JournalFacts' /\ PendingIsCurrent'
  BY <1>1, PendingStep, JournalFactsStep DEF StopInv, JournalFacts
<1>3. ASSUME NEW c \in Callers, Acknowledged(c)'
      PROVE  /\ caller'[c].head \in 1..HeadSequence'
             /\ caller'[c].grant <= State'.grant
             /\ caller'[c].grant = State'.grant => State'.stopped \/ pending' # {}
             /\ \A n \in caller'[c].head + 1..HeadSequence' :
                  journal'[n].charged > journal'[n - 1].charged =>
                    journal'[n].grant # caller'[c].grant
             /\ caller'[c].request # {}
             /\ caller'[c].request = Asked(caller[c].grant)'
  <2>1. Answers(c)
    BY AnswersStep DEF StopInv
  <2>2. (Kept(c) /\ Acknowledged(c)) \/ Answering(c)
    BY <1>3, <2>1 DEF Answers, Kept, Acknowledged
  <2> QED
    BY <1>1, <1>2, <2>2, KeptStep, AnsweringStep
<1>4. AnswersAreOfJournal'
  BY <1>3 DEF AnswersAreOfJournal
<1>5. AcknowledgedStopHolds'
  BY <1>3 DEF AcknowledgedStopHolds
<1>6. FirstRequestStands'
  BY <1>3 DEF FirstRequestStands, Asked
<1> QED
  BY <1>4, <1>5, <1>6

------------------------------------------------------------------------------
(* What the run has accounted for.                                            *)

LEMMA RunHoldsStep ==
  ASSUME TypeOK, RunHolds, [Next]_vars
  PROVE  RunHolds'
<1>1. UNCHANGED journal => State' = State
  BY DEF State, HeadSequence
<1>2. CASE StartRun \/ RunDies
  BY <1>2 DEF StartRun, RunDies, RunHolds, RunAt, IdleRun, TypeOK
<1>3. CASE Observe
  BY <1>3 DEF Observe, RunHolds, RunAt, TypeOK
<1>4. CASE Decide
  BY <1>1, <1>4 DEF Decide, Finish, MayDelegate, Governs, RunHolds, RunAt, IdleRun, TypeOK
<1>5. CASE Reserve
  BY <1>1, <1>5 DEF Reserve, Finish, RunHolds, RunAt, IdleRun, TypeOK
<1>6. CASE Dispatch
  BY <1>6 DEF Dispatch, RunHolds, RunAt, TypeOK
<1>7. CASE Work
  BY <1>7 DEF Work, RunHolds, RunAt, TypeOK
<1>8. CASE ReadBack
  BY <1>8 DEF ReadBack, Finish, RunHolds, RunAt, IdleRun, TypeOK
<1>9. CASE Writer
  <2>1. lock # {"run"} /\ lock' # {"run"}
    BY <1>9 DEF Writer, SetDelegation, Recover, Conclude, Close, Seal, WriterDies,
       OpenUndelegated
  <2> QED
    BY <1>9, <2>1, WriterJournal DEF RunHolds, RunAt
<1>10. ASSUME NEW c \in Callers, RequestStop(c) \/ TryFold(c) \/ CallerDies(c)
       PROVE  RunHolds'
  <2>1. UNCHANGED <<lock, run>> /\ (UNCHANGED journal \/ lock = {})
    BY <1>10 DEF RequestStop, TryFold, CallerDies, MayFold
  <2> QED
    BY <1>1, <2>1 DEF RunHolds, RunAt
<1>11. CASE UNCHANGED vars
  BY <1>1, <1>11 DEF vars, RunHolds, RunAt
<1> QED
  BY <1>2, <1>3, <1>4, <1>5, <1>6, <1>7, <1>8, <1>9, <1>10, <1>11 DEF Next, Run

\* A fold charges nothing and leaves open what is open.
LEMMA FoldCharges ==
  ASSUME TypeOK, FoldStop
  PROVE  /\ State'.charged = State.charged /\ State'.open = State.open
         /\ HeadSequence <= HeadSequence' /\ HeadSequence' \in Nat
         /\ \A n \in 1..HeadSequence : journal'[n] = journal[n]
<1>1. JournalType /\ HeadSequence \in Nat \ {0}
  BY TypeParts, HeadIsEvent
<1>2. CASE UNCHANGED journal
  BY <1>1, <1>2 DEF State, HeadSequence
<1>3. CASE Fold
  <2> DEFINE e == [State EXCEPT !.event = "stopped", !.stopped = TRUE, !.request = pending]
  <2>1. JournalType /\ State \in Event /\ pending \in SUBSET Requests
    BY TypeParts, HeadIsEvent DEF RequestType
  <2>2. [State EXCEPT !.event = "stopped", !.stopped = TRUE] \in Event
    <3>1. [State EXCEPT !.event = "stopped"] \in Event
      BY <2>1, EventWith
    <3> QED
      BY <3>1, EventWith
  <2>3. e \in Event
    BY <2>1, <2>2, EventWith
  <2>4. e.charged = State.charged /\ e.open = State.open
    BY <2>1 DEF Event
  <2>5. journal' = Append(journal, e)
    BY <1>3 DEF Fold
  <2> HIDE DEF e
  <2>6. /\ State' = e /\ HeadSequence' = HeadSequence + 1
        /\ \A n \in 1..HeadSequence : journal'[n] = journal[n]
    BY <2>1, <2>3, <2>5, Grows
  <2> QED
    BY <1>1, <2>4, <2>6
<1> QED
  BY <1>2, <1>3 DEF FoldStop

LEMMA AccountedStep ==
  ASSUME TypeOK, RunHolds, Accounted, [Next]_vars
  PROVE  Accounted'
<1> DEFINE charged == State.charged - journal[run.start].charged
<1>1. /\ JournalType /\ HeadSequence \in Nat \ {0} /\ State \in Event
      /\ State.charged \in Nat /\ \A n \in 1..HeadSequence : journal[n].charged \in Nat
  <2>1. JournalType
    BY TypeParts
  <2> QED
    BY <2>1, HeadIsEvent DEF Event
<1>2. run.settled \in Nat /\ run.head \in Nat
  BY DEF TypeOK
<1>3. CASE RunAt("idle")'
  BY <1>3 DEF Accounted
<1>4. UNCHANGED journal => State' = State /\ HeadSequence' = HeadSequence
  BY DEF State, HeadSequence
<1>5. CASE UNCHANGED <<journal, run>>
  BY <1>4, <1>5 DEF Accounted, Created, RunAt
<1>6. CASE StartRun
  <2>1. /\ run'.start = HeadSequence /\ run'.at = "observe" /\ run'.settled = 0
        /\ UNCHANGED journal
    BY <1>6 DEF StartRun, IdleRun
  <2>2. journal[HeadSequence] = State
    BY DEF State
  <2> QED
    BY <1>1, <1>4, <2>1, <2>2 DEF Accounted, RunAt
<1>7. ASSUME ~RunAt("idle"), run'.start = run.start,
             HeadSequence <= HeadSequence', HeadSequence' \in Nat,
             \A n \in 1..HeadSequence : journal'[n] = journal[n]
      PROVE  run'.start \in 1..HeadSequence' /\ journal'[run'.start] = journal[run.start]
  BY <1>1, <1>7 DEF Accounted
<1>8. CASE Observe
  <2>1. /\ run.at = "observe" /\ run'.at = "decide" /\ run'.start = run.start
        /\ run'.settled = run.settled
    BY <1>8 DEF Observe, RunAt, TypeOK
  <2>2. /\ State'.charged = State.charged
        /\ HeadSequence <= HeadSequence' /\ HeadSequence' \in Nat
        /\ \A n \in 1..HeadSequence : journal'[n] = journal[n]
    BY <1>8, FoldCharges DEF Observe
  <2>3. run'.start \in 1..HeadSequence' /\ journal'[run'.start] = journal[run.start]
    BY <1>7, <2>1, <2>2 DEF RunAt
  <2> QED
    BY <2>1, <2>2, <2>3 DEF Accounted, RunAt
<1>9. CASE Decide /\ ~RunAt("idle")'
  <2>1. /\ run.at = "decide" /\ run'.at = "reserve" /\ run'.start = run.start
        /\ run'.settled = run.settled /\ run'.head = HeadSequence /\ UNCHANGED journal
    BY <1>9 DEF Decide, Finish, IdleRun, RunAt, TypeOK
  <2> QED
    BY <1>1, <1>4, <2>1 DEF Accounted, RunAt
<1>10. CASE Reserve /\ ~RunAt("idle")'
  <2>1. /\ run.at = "reserve" /\ run' = [run EXCEPT !.at = "dispatch"]
        /\ HeadSequence = run.head /\ UNCHANGED journal
    BY <1>10 DEF Reserve, Finish, IdleRun, RunAt, TypeOK
  <2>2. /\ run'.at = "dispatch" /\ run'.start = run.start
        /\ run'.settled = run.settled /\ run'.head = run.head
    BY <2>1 DEF TypeOK
  <2> QED
    BY <1>1, <1>4, <2>1, <2>2 DEF Accounted, RunAt
<1>11. CASE Dispatch
  <2>1. run.at = "dispatch" /\ run.head = HeadSequence /\ run.settled = charged
    BY <1>11 DEF Dispatch, Accounted, RunAt
  <2>2. CASE OpenOperation("work", 1) /\ run' = [run EXCEPT !.at = "work"]
    <3> DEFINE s == [State EXCEPT !.event = "opened", !.open = "work",
                                  !.charged = @ + 1]
               e == [s EXCEPT !.request = {}]
    <3>1. e.charged = State.charged + 1
      BY <1>1 DEF Event
    <3>2. /\ HeadSequence' = HeadSequence + 1 /\ State' = e
          /\ \A n \in 1..HeadSequence : journal'[n] = journal[n]
      <4>1. journal' = Append(journal, e)
        BY <2>2 DEF OpenOperation, Appended
      <4> QED
        BY <1>1, <4>1 DEF JournalType, HeadSequence, State
    <3>3. /\ run'.at = "work" /\ run'.start = run.start
          /\ run'.settled = run.settled /\ run'.head = run.head
      BY <2>2 DEF TypeOK
    <3>4. run'.start \in 1..HeadSequence' /\ journal'[run'.start] = journal[run.start]
      BY <1>1, <1>7, <2>1, <3>2, <3>3 DEF RunAt
    <3>5. journal[run.start].charged \in Nat
      BY <1>1, <2>1 DEF Accounted, RunAt
    <3>6. State'.charged = State.charged + 1
      BY <3>1, <3>2
    <3> QED
      BY <1>1, <2>1, <3>2, <3>3, <3>4, <3>5, <3>6 DEF Accounted, Created, RunAt
  <2>3. CASE UNCHANGED journal /\ run' = [run EXCEPT !.at = "return", !.failed = TRUE]
    <3>1. /\ run'.at = "return" /\ run'.start = run.start
          /\ run'.settled = run.settled /\ run'.head = run.head
      BY <2>3 DEF TypeOK
    <3> QED
      BY <1>1, <1>4, <2>1, <2>3, <3>1 DEF Accounted, Created, RunAt
  <2> QED
    BY <1>11, <2>2, <2>3 DEF Dispatch
<1>12. CASE Work
  <2>1. /\ run.at = "work" /\ run'.at = "return" /\ run'.start = run.start
        /\ run'.settled = run.settled /\ run'.head = run.head
    BY <1>12 DEF Work, RunAt, TypeOK
  <2>2. /\ State'.charged = State.charged
        /\ HeadSequence <= HeadSequence' /\ HeadSequence' \in Nat
        /\ \A n \in 1..HeadSequence : journal'[n] = journal[n]
    <3>1. CASE Settle(State)
      <4> DEFINE s == [State EXCEPT !.event = "settled", !.open = "none"]
                 e == [s EXCEPT !.request = {}]
      <4>1. e.charged = State.charged
        BY <1>1 DEF Event
      <4>2. journal' = Append(journal, e)
        BY <3>1 DEF Settle, Appended
      <4> HIDE DEF e
      <4>3. /\ HeadSequence' = HeadSequence + 1 /\ State' = e
            /\ \A n \in 1..HeadSequence : journal'[n] = journal[n]
        BY <1>1, <4>2 DEF JournalType, HeadSequence, State
      <4> QED
        BY <1>1, <4>1, <4>3
    <3>2. CASE UNCHANGED journal
      BY <1>1, <1>4, <3>2
    <3> QED
      BY <1>12, <3>1, <3>2 DEF Work
  <2>3. run'.start \in 1..HeadSequence' /\ journal'[run'.start] = journal[run.start]
    BY <1>7, <2>1, <2>2 DEF RunAt
  <2>4. Created /\ Created' /\ charged = run.settled + 1
    BY <1>1, <1>2, <2>1, <2>2 DEF Accounted, Created, RunAt
  <2> QED
    BY <2>1, <2>2, <2>3, <2>4 DEF Accounted, RunAt
<1>13. CASE ReadBack /\ ~RunAt("idle")'
  <2>1. /\ run.at = "return" /\ run'.at = "observe" /\ run'.start = run.start
        /\ run'.settled = Report /\ Settled
    BY <1>13 DEF ReadBack, Finish, IdleRun, RunAt, TypeOK
  <2>2. /\ State'.charged = State.charged
        /\ HeadSequence <= HeadSequence' /\ HeadSequence' \in Nat
        /\ \A n \in 1..HeadSequence : journal'[n] = journal[n]
    BY <1>13, <2>1, FoldCharges DEF ReadBack, FoldAfterWork
  <2>3. run'.start \in 1..HeadSequence' /\ journal'[run'.start] = journal[run.start]
    BY <1>7, <2>1, <2>2 DEF RunAt
  <2>4. charged = Report
    BY <2>1 DEF Accounted, Report, RunAt
  <2> QED
    BY <2>1, <2>2, <2>3, <2>4 DEF Accounted, RunAt
<1>14. CASE RunDies
  BY <1>3, <1>14 DEF RunDies, IdleRun, RunAt
<1>15. CASE Writer
  <2>1. lock # {"run"} \/ UNCHANGED journal
    BY <1>15 DEF Writer, SetDelegation, Recover, Conclude, Close, Seal, WriterDies,
       OpenUndelegated
  <2> QED
    BY <1>3, <1>5, <1>15, <2>1, WriterJournal DEF RunHolds, RunAt
<1>16. ASSUME NEW c \in Callers, RequestStop(c) \/ TryFold(c) \/ CallerDies(c)
       PROVE  Accounted'
  <2>1. UNCHANGED run /\ (UNCHANGED journal \/ lock = {})
    BY <1>16 DEF RequestStop, TryFold, CallerDies, MayFold
  <2> QED
    BY <1>3, <1>5, <2>1 DEF RunHolds, RunAt
<1>17. CASE UNCHANGED vars
  BY <1>5, <1>17 DEF vars
<1> QED
  BY <1>3, <1>6, <1>8, <1>9, <1>10, <1>11, <1>12, <1>13, <1>14, <1>15, <1>16, <1>17
     DEF Next, Run

\* A run ends, other than by its death, with what it was charged for reported.
LEMMA ReportStep ==
  ASSUME TypeOK, Accounted, [Next]_vars,
         ~RunAt("idle"), run'.at = "idle", ~run'.died
  PROVE  LET charged == State.charged - journal[run.start].charged
         IN  IF Settled THEN run'.settled = charged
             ELSE charged \in {run'.settled, run'.settled + 1}
<1>1. run' # run
  BY DEF RunAt
<1>2. ~(StartRun \/ RunDies \/ Writer \/ UNCHANGED vars)
  BY <1>1, WriterJournal DEF StartRun, RunDies, IdleRun, vars, RunAt
<1>3. Run
  BY <1>1, <1>2, CallerJournal DEF Next
<1>4. Decide \/ Reserve \/ ReadBack
  BY <1>3 DEF Run, Observe, Dispatch, Work, TypeOK
<1>5. CASE Decide \/ Reserve
  <2>1. run'.settled = run.settled /\ run.at \in {"decide", "reserve"}
    BY <1>5 DEF Decide, Reserve, Finish, IdleRun, RunAt, TypeOK
  <2> QED
    BY <2>1 DEF Accounted, RunAt
<1>6. CASE ReadBack
  <2>1. run'.settled = Report /\ run.at = "return"
    BY <1>6 DEF ReadBack, Finish, IdleRun, RunAt, TypeOK
  <2> QED
    BY <2>1 DEF Accounted, Report, RunAt
<1> QED
  BY <1>4, <1>5, <1>6

------------------------------------------------------------------------------
(* The theorems.                                                              *)

LEMMA InitStop == Init => StopInv
<1> SUFFICES ASSUME Init PROVE StopInv
  OBVIOUS
<1>1. First \in Event /\ First.event = "admitted" /\ First.request = {}
      /\ ~First.stopped /\ First.grant = 0
  BY StopAssumption DEF First, Event, Grants, Operations
<1>2. HeadSequence = 1 /\ State = First /\ journal \in Seq(Event) /\ journal # <<>>
  BY <1>1 DEF Init, HeadSequence, State
<1>3. TypeOK
  <2>1. CallerType
    <3>1. 0 \in Grants
      BY StopAssumption DEF Grants
    <3>2. Idle \in [at : {"idle", "fold", "answered"}, grant : Grants,
                    disposition : {"none", "pending", "stopped"}, head : Nat,
                    request : SUBSET Requests]
      BY <3>1 DEF Idle
    <3> QED
      BY <3>2 DEF Init, CallerType
  <2>2. RunType
    BY DEF Init, RunType, IdleRun
  <2>3. JournalType
    BY <1>2 DEF JournalType
  <2>4. RequestType
    BY DEF Init, RequestType
  <2>5. OtherTypes
    <3>1. sealed \in BOOLEAN /\ lock = {} /\ faults = 0
      BY DEF Init
    <3>2. lock \in {{}, {"run"}, {"writer"}}
      BY <3>1
    <3>3. faults \in 0..MaxFaults
      BY <3>1, StopAssumption
    <3> QED
      BY <3>1, <3>2, <3>3 DEF OtherTypes
  <2> QED
    BY <2>1, <2>2, <2>3, <2>4, <2>5, TypeParts
<1>4. \A grant : StoppedBy(grant) = {}
  BY <1>1, <1>2 DEF StoppedBy, Init, State
<1>5. \A c \in Callers : ~Acknowledged(c)
  BY DEF Init, Acknowledged, Idle
<1>6. RunHolds /\ GrantsAdvance /\ StoppedIsFolded /\ Accounted
  BY <1>1, <1>2, <1>4 DEF Init, RunHolds, GrantsAdvance, StoppedIsFolded, Accounted,
     RunAt, IdleRun, State
<1>7. AnswersAreOfJournal /\ AcknowledgedStopHolds /\ FirstRequestStands /\ PendingIsCurrent
  BY <1>5 DEF Init, AnswersAreOfJournal, AcknowledgedStopHolds, FirstRequestStands,
     PendingIsCurrent
<1> QED
  BY <1>3, <1>6, <1>7 DEF StopInv

LEMMA StepStop ==
  ASSUME StopInv, [Next]_vars
  PROVE  StopInv'
<1>1. TypeOK' /\ JournalStep
  BY NextType, NextJournal DEF StopInv
<1>2. PendingIsCurrent'
  BY <1>1, PendingStep DEF StopInv
<1>3. GrantsAdvance' /\ StoppedIsFolded'
  BY <1>1, JournalFactsStep DEF StopInv, JournalFacts
<1> QED
  BY <1>1, <1>2, <1>3, AnswersStay, RunHoldsStep, AccountedStep DEF StopInv

\* The strengthening that the theorems below come from.
THEOREM StopInvariant == Spec => []StopInv
<1>1. StopInv /\ [Next]_vars => StopInv'
  BY StepStop
<1> QED
  BY InitStop, <1>1, PTL DEF Spec

\* The journal, the retained request, the run and the callers keep their types,
\* for every number of them (requestWorkDelegationStop and the run).
THEOREM StopTyped == Spec => []TypeOK
<1>1. StopInv => TypeOK
  BY DEF StopInv
<1> QED
  BY <1>1, StopInvariant, PTL

\* A stop that is retained names the delegation that governs the Delivery, and
\* never one of a Delivery that closes or has closed (the refusals of
\* requestWorkDelegationStop and the seal's verification in control/store.ts).
THEOREM RequestIsCurrent == Spec => []PendingIsCurrent
<1>1. StopInv => PendingIsCurrent
  BY DEF StopInv
<1> QED
  BY <1>1, StopInvariant, PTL

\* Once Stop has answered a caller that its request is retained or folded, no
\* operation is charged to that delegation, whatever runs, dies or is granted
\* meanwhile (the append owner's check against the retained request).
THEOREM StopIsFinal == Spec => []AcknowledgedStopHolds
<1>1. StopInv => AcknowledgedStopHolds
  BY DEF StopInv
<1> QED
  BY <1>1, StopInvariant, PTL

\* Whoever asks again and whoever folds, every answer names the first request
\* for that delegation, retained or in the Journal (insert-or-read of the
\* request row, and its deletion in the transaction that appends the stop).
THEOREM FirstRequestIsKept == Spec => []FirstRequestStands
<1>1. StopInv => FirstRequestStands
  BY DEF StopInv
<1> QED
  BY <1>1, StopInvariant, PTL

\* A run of delegated work that returns reports exactly what was charged to it,
\* also when a dispatch threw after it had opened (the read-back of the Store in
\* process/work-delegation-runtime.ts).
THEOREM RunReportsCharges == Spec => ChargesAreReported
<1>1. StopInv /\ [Next]_vars =>
        [~RunAt("idle") /\ run'.at = "idle" /\ ~run'.died =>
           LET charged == State.charged - journal[run.start].charged
           IN  IF Settled THEN run'.settled = charged
               ELSE charged \in {run'.settled, run'.settled + 1}]_vars
  BY ReportStep DEF StopInv
<1> QED
  BY <1>1, StopInvariant, PTL DEF Spec, ChargesAreReported

------------------------------------------------------------------------------
(* The ledger of the delegation.                                              *)

\* What the mapping to a ledger rests on besides: a Closure leaves nothing open,
\* a delegation is of an admission that was, what a run is about to open is still
\* governed by it, and what it works on is still open.
Timely ==
  /\ (Closed => Settled) /\ State.basis <= State.admission
  /\ (pending # {} => State.grant # 0) /\ (Paid => State.open = "work")
RunGoverned ==
  /\ run.at \in {"reserve", "dispatch"} => Governs
  /\ RunAt("work") => ~Settled
LedgerInv == StopInv /\ Timely /\ RunGoverned

LedgerStep == Timely' /\ [Ledger!Next]_(Ledger!vars)

LEMMA LedgerTyped ==
  ASSUME LedgerInv
  PROVE  /\ TypeOK /\ JournalType /\ State \in Event /\ HeadSequence \in Nat \ {0}
         /\ pending \in SUBSET Requests
<1>1. TypeOK
  BY DEF LedgerInv, StopInv
<1>2. JournalType
  BY <1>1, TypeParts
<1>3. State \in Event /\ HeadSequence \in Nat \ {0}
  BY <1>2, HeadIsEvent
<1>4. pending \in SUBSET Requests
  BY <1>1 DEF TypeOK
<1> QED
  BY <1>1, <1>2, <1>3, <1>4

LEMMA Booleans ==
  /\ Governs \in BOOLEAN /\ Governs' \in BOOLEAN
  /\ Paid \in BOOLEAN /\ Paid' \in BOOLEAN
  /\ Closed \in BOOLEAN /\ Closed' \in BOOLEAN
  /\ RequestStands \in BOOLEAN /\ RequestStands' \in BOOLEAN
  BY DEF Governs, Paid, Closed, RequestStands

\* What the ledger reads of the Journal.
LEMMA Appends ==
  ASSUME LedgerInv, NEW e \in Event, journal' = Append(journal, e)
  PROVE  /\ State \in Event /\ State' = e
         /\ Settled' <=> e.open = "none"
         /\ Closed' <=> e.event = "closed"
         /\ Governs' <=> (e.grant # 0 /\ e.basis = e.admission)
         /\ Paid' <=> (e.open # "none" /\ e.charged > State.charged)
<1>1. HeadSequence \in Nat \ {0} /\ State \in Event /\ JournalType
  BY LedgerTyped
<1>2. /\ HeadSequence' = HeadSequence + 1 /\ State' = e
      /\ journal'[HeadSequence] = State
  <2>1. /\ HeadSequence' = HeadSequence + 1 /\ State' = e
        /\ \A n \in 1..HeadSequence : journal'[n] = journal[n]
    BY <1>1, Grows
  <2>2. journal'[HeadSequence] = journal[HeadSequence]
    <3>1. HeadSequence \in 1..HeadSequence
      BY <1>1
    <3> QED
      BY <2>1, <3>1
  <2> QED
    BY <2>1, <2>2 DEF State
<1>3. HeadSequence' - 1 = HeadSequence
  BY <1>1, <1>2
<1>4. Settled' <=> e.open = "none"
  BY <1>2 DEF Settled
<1>5. (Closed' <=> e.event = "closed")
      /\ (Governs' <=> (e.grant # 0 /\ e.basis = e.admission))
  BY <1>2 DEF Closed, Governs
<1>6. Paid' <=> (e.open # "none" /\ e.charged > State.charged)
  BY <1>2, <1>3, <1>4 DEF Paid
<1> QED
  BY <1>1, <1>2, <1>4, <1>5, <1>6

\* The Journal and the request stay.
LEMMA LedgerStays ==
  ASSUME LedgerInv, UNCHANGED <<journal, pending>>
  PROVE  LedgerStep
<1>1. State' = State /\ HeadSequence' = HeadSequence
  BY DEF State, HeadSequence
<1>2. Settled' = Settled /\ Closed' = Closed /\ Governs' = Governs /\ OpenKind' = OpenKind
  BY <1>1 DEF Settled, Closed, Governs, OpenKind
<1>3. Paid' = Paid
  BY <1>1, <1>2 DEF Paid
<1>4. RequestStands' = RequestStands
  BY DEF RequestStands
<1>5. Timely'
  BY <1>1, <1>2, <1>3 DEF LedgerInv, Timely
<1> QED
  BY <1>1, <1>2, <1>3, <1>4, <1>5 DEF LedgerStep, Ledger!vars,
     Ledger!delegation, Ledger!activity

LEMMA Opens ==
  ASSUME LedgerInv, NEW operation \in Operations, NEW charge \in {0, 1},
         OpenOperation(operation, charge), UNCHANGED pending
  PROVE  /\ Settled /\ ~Closed /\ pending = {} /\ pending' = {} /\ ~Paid
         /\ ~Settled' /\ ~Closed' /\ (Governs' <=> Governs) /\ (Paid' <=> charge = 1)
         /\ State'.open = operation
         /\ State'.grant = State.grant /\ State'.stopped = State.stopped
         /\ State'.basis = State.basis /\ State'.admission = State.admission
<1> DEFINE s == [State EXCEPT !.event = "opened", !.open = operation,
                              !.charged = @ + charge]
           e == [s EXCEPT !.request = {}]
<1>1. State \in Event /\ State.charged \in Nat /\ State.charged + charge \in Nat
  BY LedgerTyped DEF Event
<1>2. /\ e.event = "opened" /\ e.open = operation /\ e.charged = State.charged + charge
      /\ e.grant = State.grant /\ e.stopped = State.stopped
      /\ e.basis = State.basis /\ e.admission = State.admission
  BY <1>1 DEF Event
<1>3. e \in Event
  <2>1. [State EXCEPT !.event = "opened"] \in Event
    BY <1>1, EventWith
  <2>2. [State EXCEPT !.event = "opened", !.open = operation] \in Event
    BY <2>1, EventWith
  <2>3. s \in Event
    BY <1>1, <2>2, EventWith
  <2> QED
    BY <2>3, EventWith
<1>4. journal' = Append(journal, e) /\ Settled /\ ~Closed /\ pending = {} /\ pending' = {}
  BY DEF OpenOperation, Appended, MayAppend
<1> HIDE DEF s, e
<1>5. /\ State' = e /\ ~Settled' /\ ~Closed' /\ (Governs' <=> Governs)
      /\ (Paid' <=> charge = 1) /\ ~Paid
  <2>1. operation # "none"
    BY DEF Operations
  <2>2. ~Paid
    BY <1>4 DEF Paid
  <2>3. Paid' <=> charge = 1
    BY <1>1, <1>2, <1>3, <1>4, <2>1, Appends
  <2>4. Governs' <=> Governs
    BY <1>2, <1>3, <1>4, Appends DEF Governs
  <2> QED
    BY <1>2, <1>3, <1>4, <2>1, <2>2, <2>3, <2>4, Appends
<1> QED
  BY <1>2, <1>4, <1>5

LEMMA OpenIsLedger ==
  ASSUME LedgerInv, NEW operation \in Operations, NEW charge \in {0, 1},
         OpenOperation(operation, charge), UNCHANGED pending,
         charge = 1 => operation = "work" /\ Governs /\ ~State.stopped,
         charge = 0 /\ operation = "work" => ~Governs \/ State.stopped
  PROVE  LedgerStep
<1>5. /\ Settled /\ ~Closed /\ pending = {} /\ pending' = {} /\ ~Paid
      /\ ~Settled' /\ ~Closed' /\ (Governs' <=> Governs) /\ (Paid' <=> charge = 1)
      /\ State'.open = operation
      /\ State'.grant = State.grant /\ State'.stopped = State.stopped
      /\ State'.basis = State.basis /\ State'.admission = State.admission
  BY Opens
<1>6. State.open = "none"
  BY <1>5 DEF Settled
<1>7. Timely'
  BY <1>5 DEF LedgerInv, Timely
<1>8. CASE charge = 1
  <2>1. Paid' = TRUE /\ Governs' = Governs /\ Closed' = Closed /\ RequestStands' = RequestStands /\ ~RequestStands
    BY <1>5, <1>8, Booleans DEF RequestStands
  <2>2. OpenKind = "none" /\ OpenKind' = "work"
    BY <1>5, <1>6, <1>8 DEF OpenKind
  <2>3. Ledger!OpenPaid
    BY <1>5, <1>8, <2>1, <2>2
    DEF Ledger!OpenPaid, Ledger!Settled, Ledger!Pays, Ledger!delegation
  <2> QED
    BY <1>7, <2>3 DEF LedgerStep, Ledger!Next
<1>9. CASE charge = 0
  <2> DEFINE kind == IF operation = "admission" THEN "other" ELSE operation
  <2>1. kind \in Ledger!Kinds /\ (kind = "work" <=> operation = "work")
    BY DEF Operations, Ledger!Kinds
  <2>2. Paid' = FALSE /\ Governs' = Governs /\ Closed' = Closed /\ RequestStands' = RequestStands /\ ~RequestStands
    BY <1>5, <1>9, Booleans DEF RequestStands
  <2>3. OpenKind = "none" /\ OpenKind' = kind
    BY <1>5, <1>6 DEF OpenKind
  <2> HIDE DEF kind
  <2>4. Ledger!OpenFree(kind)
    BY <1>5, <1>9, <2>1, <2>2, <2>3
    DEF Ledger!OpenFree, Ledger!Settled, Ledger!Pays, Ledger!delegation
  <2> QED
    BY <1>7, <2>1, <2>4 DEF LedgerStep, Ledger!Next
<1> QED
  BY <1>8, <1>9

\* What ends leaves the delegation as it was, but for a readmission.
LEMMA SettleIsLedger ==
  ASSUME LedgerInv, UNCHANGED pending, ~Settled,
         \/ Settle(State)
         \/ State.open = "admission" /\ Settle([State EXCEPT !.admission = @ + 1])
  PROVE  LedgerStep
<1>1. /\ State \in Event /\ State.admission \in Nat /\ State.basis \in Nat
      /\ State.charged \in Nat /\ State.basis <= State.admission
  BY LedgerTyped DEF LedgerInv, Event, Timely
<1>2. PICK t \in {State, [State EXCEPT !.admission = @ + 1]} :
        Settle(t) /\ (t = State \/ State.open = "admission")
  OBVIOUS
<1>3. /\ t \in Event /\ t.grant = State.grant /\ t.stopped = State.stopped
      /\ t.basis = State.basis /\ t.charged = State.charged
      /\ t.admission = IF t = State THEN State.admission ELSE State.admission + 1
  <2>1. CASE t = State
    BY <1>1, <2>1
  <2>2. CASE t = [State EXCEPT !.admission = @ + 1]
    <3>1. t \in Event
      <4>1. State.admission + 1 \in Nat
        BY <1>1
      <4> QED
        BY <1>1, <2>2, <4>1, EventWith
    <3> QED
      BY <1>1, <2>2, <3>1 DEF Event
  <2> QED
    BY <2>1, <2>2
<1> DEFINE s == [t EXCEPT !.event = "settled", !.open = "none"]
           e == [s EXCEPT !.request = {}]
<1>4. /\ e.event = "settled" /\ e.open = "none"
      /\ e.grant = t.grant /\ e.stopped = t.stopped
      /\ e.basis = t.basis /\ e.admission = t.admission /\ e.charged = t.charged
  BY <1>3 DEF Event
<1>5. e \in Event
  <2>1. [t EXCEPT !.event = "settled"] \in Event
    BY <1>3, EventWith
  <2>2. s \in Event
    BY <2>1, EventWith
  <2> QED
    BY <2>2, EventWith
<1>6. journal' = Append(journal, e)
  BY <1>2 DEF Settle, Appended
<1> HIDE DEF s, e
<1>7. /\ State' = e /\ Settled' /\ ~Closed' /\ ~Paid'
      /\ Governs' <=> (e.grant # 0 /\ e.basis = e.admission)
  BY <1>4, <1>5, <1>6, Appends
<1>8. Timely'
  BY <1>1, <1>3, <1>4, <1>7 DEF LedgerInv, Timely
<1>9. ~Closed /\ State.open # "none"
  BY DEF LedgerInv, Timely, Settled
<1>10. CASE t = State
  <2>1. Governs' <=> Governs
    BY <1>3, <1>4, <1>7, <1>10 DEF Governs
  <2>2. /\ Paid' = FALSE /\ Governs' = Governs /\ Closed' = Closed /\ RequestStands' = RequestStands
        /\ OpenKind # "none" /\ OpenKind' = "none"
    BY <1>4, <1>7, <1>9, <2>1, Booleans DEF RequestStands, OpenKind, Settled
  <2>3. Ledger!Settle
    BY <1>3, <1>4, <1>7, <2>2 DEF Ledger!Settle, Ledger!delegation
  <2> QED
    BY <1>8, <2>3 DEF LedgerStep, Ledger!Next
<1>11. CASE t # State
  <2>1. ~Governs'
    BY <1>1, <1>3, <1>4, <1>7, <1>11
  <2>2. State.open = "admission"
    BY <1>2, <1>11
  <2>3. ~Paid
    BY <2>2 DEF LedgerInv, Timely
  <2>4. /\ Paid' = Paid /\ Governs' = FALSE /\ Closed' = Closed /\ RequestStands' = RequestStands
        /\ OpenKind = "other" /\ OpenKind' = "none"
    BY <1>4, <1>7, <1>9, <2>1, <2>2, <2>3, Booleans DEF RequestStands, OpenKind, Settled
  <2>5. Ledger!Readmit
    BY <1>3, <1>4, <1>7, <2>4 DEF Ledger!Readmit
  <2> QED
    BY <1>8, <2>5 DEF LedgerStep, Ledger!Next
<1> QED
  BY <1>10, <1>11

LEMMA FoldIsLedger ==
  ASSUME LedgerInv, Fold, Settled, pending # {}
  PROVE  LedgerStep
<1> DEFINE e == [State EXCEPT !.event = "stopped", !.stopped = TRUE, !.request = pending]
<1>1. State \in Event /\ pending \in SUBSET Requests
  BY LedgerTyped
<1>2. e \in Event
  <2>1. [State EXCEPT !.event = "stopped"] \in Event
    BY <1>1, EventWith
  <2>2. [State EXCEPT !.event = "stopped", !.stopped = TRUE] \in Event
    BY <2>1, EventWith
  <2> QED
    BY <1>1, <2>2, EventWith
<1>3. /\ e.event = "stopped" /\ e.open = State.open /\ e.stopped = TRUE
      /\ e.grant = State.grant /\ e.basis = State.basis
      /\ e.admission = State.admission
  BY <1>1 DEF Event
<1>4. journal' = Append(journal, e) /\ pending' = {}
  BY DEF Fold
<1> HIDE DEF e
<1>5. ~State.stopped /\ State.grant # 0 /\ ~Closed
  <2>1. PICK request \in Requests : pending = {request}
    BY DEF LedgerInv, StopInv, TypeOK
  <2>2. request.grant = State.grant /\ ~State.stopped /\ ~Closed
    BY <2>1 DEF LedgerInv, StopInv, PendingIsCurrent
  <2>3. State.grant # 0
    BY DEF LedgerInv, Timely
  <2> QED
    BY <2>2, <2>3
<1>6. State.open = "none" /\ ~Paid
  BY DEF Settled, Paid
<1>7. State' = e /\ Settled' /\ ~Closed' /\ ~Paid' /\ (Governs' <=> Governs)
  BY <1>2, <1>3, <1>4, <1>6, Appends DEF Governs
<1>8. Timely'
  BY <1>3, <1>7 DEF LedgerInv, Timely
<1>9. /\ Paid' = Paid /\ Governs' = Governs /\ Closed' = Closed /\ RequestStands' = FALSE
      /\ OpenKind = "none" /\ OpenKind' = OpenKind
  BY <1>3, <1>4, <1>5, <1>6, <1>7, Booleans DEF RequestStands, OpenKind, Settled
<1>10. Ledger!Stop
  BY <1>3, <1>5, <1>7, <1>9 DEF Ledger!Stop, Ledger!Settled, Ledger!activity
<1> QED
  BY <1>8, <1>10 DEF LedgerStep, Ledger!Next

LEMMA SetIsLedger ==
  ASSUME LedgerInv, SetDelegation
  PROVE  LedgerStep
<1> DEFINE s == [State EXCEPT !.event = "set", !.grant = @ + 1,
                              !.stopped = FALSE, !.basis = State.admission]
           e == [s EXCEPT !.request = {}]
<1>1. State \in Event /\ State.grant \in Nat /\ State.admission \in Nat
  BY LedgerTyped DEF Event, Grants
<1>2. e \in Event
  <2>1. State.grant + 1 \in Grants
    BY <1>1, StopAssumption DEF Grants, SetDelegation
  <2>2. [State EXCEPT !.event = "set"] \in Event
    BY <1>1, EventWith
  <2>3. [State EXCEPT !.event = "set", !.grant = @ + 1] \in Event
    BY <1>1, <2>1, <2>2, EventWith
  <2>4. [State EXCEPT !.event = "set", !.grant = @ + 1, !.stopped = FALSE] \in Event
    BY <2>3, EventWith
  <2>5. s \in Event
    BY <1>1, <2>4, EventWith
  <2> QED
    BY <2>5, EventWith
<1>3. /\ e.event = "set" /\ e.open = State.open /\ e.stopped = FALSE
      /\ e.grant = State.grant + 1 /\ e.basis = State.admission
      /\ e.admission = State.admission
  BY <1>1 DEF Event
<1>4. /\ journal' = Append(journal, e) /\ pending = {} /\ pending' = {}
      /\ Settled /\ ~Closed
  BY DEF SetDelegation, Appended, MayAppend, WriterOnly
<1> HIDE DEF s, e
<1>5. State.open = "none" /\ ~Paid
  BY <1>4 DEF Settled, Paid
<1>6. State' = e /\ Settled' /\ ~Closed' /\ ~Paid' /\ Governs'
  BY <1>1, <1>2, <1>3, <1>4, <1>5, Appends
<1>7. Timely'
  BY <1>1, <1>3, <1>6 DEF Timely
<1>8. /\ Paid' = Paid /\ Governs' = TRUE /\ Closed' = Closed /\ ~RequestStands /\ RequestStands' = RequestStands
      /\ OpenKind = "none" /\ OpenKind' = OpenKind
  BY <1>3, <1>4, <1>5, <1>6, Booleans DEF RequestStands, OpenKind, Settled
<1>9. Ledger!Grant
  BY <1>3, <1>4, <1>6, <1>8 DEF Ledger!Grant, Ledger!Settled, Ledger!activity
<1> QED
  BY <1>7, <1>9 DEF LedgerStep, Ledger!Next

LEMMA CloseIsLedger ==
  ASSUME LedgerInv, Close
  PROVE  LedgerStep
<1> DEFINE s == [State EXCEPT !.event = "closed", !.open = "none"]
           e == [s EXCEPT !.request = {}]
<1>1. State \in Event
  BY LedgerTyped
<1>2. e \in Event
  <2>1. [State EXCEPT !.event = "closed"] \in Event
    BY <1>1, EventWith
  <2>2. s \in Event
    BY <2>1, EventWith
  <2> QED
    BY <2>2, EventWith
<1>3. /\ e.event = "closed" /\ e.open = "none" /\ e.stopped = State.stopped
      /\ e.grant = State.grant /\ e.basis = State.basis
      /\ e.admission = State.admission
  BY <1>1 DEF Event
<1>4. /\ journal' = Append(journal, e) /\ pending = {} /\ pending' = {}
      /\ State.open = "terminal"
  BY DEF Close, Appended, MayAppend, WriterOnly
<1> HIDE DEF s, e
<1>5. State' = e /\ Settled' /\ Closed' /\ ~Paid' /\ (Governs' <=> Governs)
  BY <1>2, <1>3, <1>4, Appends DEF Governs
<1>6. Timely'
  BY <1>3, <1>4, <1>5 DEF LedgerInv, Timely
<1>7. /\ Paid' = FALSE /\ Governs' = Governs /\ Closed' = TRUE /\ ~RequestStands /\ RequestStands' = RequestStands
      /\ OpenKind = "terminal" /\ OpenKind' = "none"
  BY <1>3, <1>4, <1>5, Booleans DEF RequestStands, OpenKind, Settled
<1>8. Ledger!Close
  BY <1>3, <1>5, <1>7 DEF Ledger!Close, Ledger!delegation
<1> QED
  BY <1>6, <1>8 DEF LedgerStep, Ledger!Next

LEMMA RequestIsLedger ==
  ASSUME LedgerInv, NEW c \in Callers, RequestStop(c)
  PROVE  LedgerStep
<1>1. UNCHANGED journal
  BY DEF RequestStop
<1>2. CASE UNCHANGED pending
  BY <1>1, <1>2, LedgerStays
<1>3. CASE pending' # pending
  <2>1. Stoppable /\ State.grant # 0 /\ pending' # {}
    <3>1. PICK grant \in 1..State.grant : grant = State.grant /\ Stoppable
                                         /\ pending' = Retain(c, grant)
      BY <1>3 DEF RequestStop
    <3>2. State.grant \in Nat
      BY LedgerTyped DEF Event, Grants
    <3>3. State.grant # 0
      BY <3>1, <3>2
    <3> QED
      BY <3>1, <3>3 DEF Retain
  <2>2. State' = State /\ HeadSequence' = HeadSequence
    BY <1>1 DEF State, HeadSequence
  <2>3. Settled' = Settled /\ Closed' = Closed /\ Governs' = Governs /\ OpenKind' = OpenKind
    BY <2>2 DEF Settled, Closed, Governs, OpenKind
  <2>4. Paid' = Paid
    BY <1>1, <2>2, <2>3 DEF Paid
  <2>5. Timely'
    BY <2>1, <2>2, <2>3, <2>4 DEF LedgerInv, Timely
  <2>6. RequestStands' = TRUE /\ OpenKind # "terminal" /\ ~Closed
    BY <2>1 DEF RequestStands, OpenKind, Stoppable, Terminal
  <2>7. Ledger!Ask
    BY <2>1, <2>2, <2>3, <2>4, <2>6 DEF Ledger!Ask, Ledger!activity, Stoppable
  <2> QED
    BY <2>5, <2>7 DEF LedgerStep, Ledger!Next
<1> QED
  BY <1>2, <1>3

LEMMA LedgerKept ==
  ASSUME LedgerInv, [Next]_vars
  PROVE  LedgerStep
<1>1. CASE StartRun \/ RunDies \/ UNCHANGED vars \/ Decide \/ Reserve
  BY <1>1, LedgerStays DEF StartRun, RunDies, vars, Decide, Reserve
<1>2. CASE Observe \/ ReadBack
  BY <1>2, LedgerStays, FoldIsLedger DEF Observe, ReadBack, FoldAfterWork, FoldStop
<1>3. CASE Dispatch
  <2>1. Governs /\ ~State.stopped
    BY <1>3 DEF Dispatch, LedgerInv, RunGoverned, StopInv, RunHolds, RunAt
  <2>2. UNCHANGED <<journal, pending>> \/ (OpenOperation("work", 1) /\ UNCHANGED pending)
    BY <1>3 DEF Dispatch
  <2> QED
    BY <2>1, <2>2, LedgerStays, OpenIsLedger DEF Operations
<1>4. CASE Work
  <2>1. UNCHANGED pending /\ (UNCHANGED journal \/ Settle(State))
    BY <1>4 DEF Work
  <2>2. ~Settled
    BY <1>4 DEF Work, LedgerInv, RunGoverned
  <2> QED
    BY <2>1, <2>2, LedgerStays, SettleIsLedger
<1>5. CASE Writer
  <2>1. CASE SetDelegation
    BY <2>1, SetIsLedger
  <2>2. CASE Recover \/ Seal \/ WriterDies
    BY <2>2, LedgerStays DEF Recover, Seal, WriterDies, WriterOnly
  <2>3. CASE Conclude
    BY <2>3, SettleIsLedger DEF Conclude, WriterOnly
  <2>4. CASE Close
    BY <2>4, CloseIsLedger
  <2>5. ASSUME NEW operation \in Operations, OpenUndelegated(operation)
        PROVE  LedgerStep
    BY <2>5, OpenIsLedger DEF OpenUndelegated, WriterOnly
  <2> QED
    BY <1>5, <2>1, <2>2, <2>3, <2>4, <2>5 DEF Writer
<1>6. ASSUME NEW c \in Callers, RequestStop(c) \/ TryFold(c) \/ CallerDies(c)
      PROVE  LedgerStep
  BY <1>6, RequestIsLedger, LedgerStays, FoldIsLedger DEF TryFold, CallerDies
<1> QED
  BY <1>1, <1>2, <1>3, <1>4, <1>5, <1>6 DEF Next, Run

LEMMA RunGovernedKept ==
  ASSUME LedgerInv, [Next]_vars
  PROVE  RunGoverned'
<1>1. UNCHANGED journal => (Governs' <=> Governs) /\ (Settled' <=> Settled)
  BY DEF Governs, Settled, State, HeadSequence
<1>2. CASE StartRun \/ RunDies
  BY <1>2 DEF StartRun, RunDies, RunGoverned, RunAt, IdleRun, LedgerInv, StopInv, TypeOK
<1>3. CASE Observe
  BY <1>3 DEF Observe, RunGoverned, RunAt, LedgerInv, StopInv, TypeOK
<1>4. CASE Decide
  BY <1>1, <1>4 DEF Decide, Finish, MayDelegate, RunGoverned, RunAt, IdleRun, LedgerInv,
     StopInv, TypeOK
<1>5. CASE Reserve
  BY <1>1, <1>5 DEF Reserve, Finish, RunGoverned, RunAt, IdleRun, LedgerInv, StopInv,
     TypeOK
<1>6. CASE Dispatch
  <2>1. CASE OpenOperation("work", 1) /\ run' = [run EXCEPT !.at = "work"]
    <3>1. ~Settled'
      BY <1>6, <2>1, Opens DEF Dispatch, Operations
    <3>2. run'.at = "work"
      BY <2>1 DEF LedgerInv, StopInv, TypeOK
    <3> QED
      BY <3>1, <3>2 DEF RunGoverned, RunAt
  <2>2. CASE run' = [run EXCEPT !.at = "return", !.failed = TRUE]
    BY <2>2 DEF RunGoverned, RunAt, LedgerInv, StopInv, TypeOK
  <2> QED
    BY <1>6, <2>1, <2>2 DEF Dispatch
<1>11. CASE Work
  BY <1>11 DEF Work, RunGoverned, RunAt, LedgerInv, StopInv, TypeOK
<1>7. CASE ReadBack
  BY <1>7 DEF ReadBack, Finish, RunGoverned, RunAt, IdleRun, LedgerInv, StopInv, TypeOK
<1>8. CASE Writer
  <2>1. lock # {"run"} /\ run' = run
    BY <1>8, WriterJournal DEF Writer, SetDelegation, Recover, Conclude, Close, Seal,
       WriterDies, OpenUndelegated, LedgerInv, StopInv
  <2>2. run.at = "idle"
    BY <2>1 DEF LedgerInv, StopInv, RunHolds, RunAt
  <2> QED
    BY <2>1, <2>2 DEF RunGoverned, RunAt
<1>9. ASSUME NEW c \in Callers, RequestStop(c) \/ TryFold(c) \/ CallerDies(c)
      PROVE  RunGoverned'
  <2>1. run' = run /\ (UNCHANGED journal \/ lock = {})
    BY <1>9 DEF RequestStop, TryFold, CallerDies, MayFold
  <2>2. lock = {} => run.at = "idle"
    BY DEF LedgerInv, StopInv, RunHolds, RunAt
  <2> QED
    BY <1>1, <2>1, <2>2 DEF RunGoverned, RunAt, LedgerInv
<1>10. CASE UNCHANGED vars
  BY <1>1, <1>10 DEF vars, RunGoverned, RunAt, LedgerInv
<1> QED
  BY <1>2, <1>3, <1>4, <1>5, <1>6, <1>7, <1>8, <1>9, <1>10, <1>11 DEF Next, Run

LEMMA InitLedger == Init => LedgerInv /\ Ledger!Init
<1> SUFFICES ASSUME Init PROVE LedgerInv /\ Ledger!Init
  OBVIOUS
<1>1. HeadSequence = 1 /\ State = First /\ pending = {} /\ run = IdleRun
  BY DEF Init, HeadSequence, State
<1>2. State.grant = 0 /\ State.basis = State.admission /\ ~State.stopped /\ State.open = "none"
      /\ State.event = "admitted" /\ State.basis = 0
  BY <1>1 DEF First
<1>3. ~Governs /\ Settled /\ ~Closed /\ ~Paid /\ ~RequestStands /\ OpenKind = "none"
  BY <1>1, <1>2 DEF Governs, Settled, Closed, Paid, RequestStands, OpenKind
<1>4. run.at = "idle"
  BY <1>1 DEF IdleRun
<1>5. Timely /\ RunGoverned
  BY <1>1, <1>2, <1>3, <1>4 DEF Timely, RunGoverned, RunAt
<1>6. Ledger!Init
  <2>1. State.stopped = FALSE
    BY <1>1 DEF First
  <2>2. Governs = FALSE /\ Closed = FALSE /\ Paid = FALSE /\ RequestStands = FALSE
    BY <1>3, Booleans
  <2> QED
    BY <1>2, <1>3, <2>1, <2>2 DEF Ledger!Init
<1> QED
  BY <1>5, <1>6, InitStop DEF LedgerInv

\* Whatever is granted, opened, asked, folded, settled, recovered or lost, and by
\* whom, the Journal and the request row beside it are a ledger of the delegation:
\* nothing is charged to one that was stopped or left behind by a readmission, or
\* while a stop of it is retained, and no productive work goes past one that
\* governs (the append owner's checks in control/store.ts and the run's reserve
\* and dispatch in process/work-delegation-runtime.ts).
THEOREM StopKeepsLedger == Spec => ImplementsLedger
<1>1. LedgerInv /\ [Next]_vars => LedgerInv' /\ [Ledger!Next]_(Ledger!vars)
  BY StepStop, LedgerKept, RunGovernedKept DEF LedgerInv, LedgerStep
<1> QED
  BY <1>1, InitLedger, PTL DEF Spec, ImplementsLedger, Ledger!Spec
==============================================================================
