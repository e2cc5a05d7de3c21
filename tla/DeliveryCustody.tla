--------------------------- MODULE DeliveryCustody ----------------------------
(* Where the Store of each Delivery of one target is, from the call of        *)
(* delivery.prepare that creates it to its archive: control/delivery-custody  *)
(* .ts, control/archive.ts and control/delivery-operation-lock.ts, as         *)
(* runtime-mutation-v7.ts and the Inbox of runtime-read.ts use them.          *)
(*                                                                            *)
(* A root is built in the staging area, renamed to the active area once it    *)
(* holds its first Activity, and renamed to the archive once it is closed,    *)
(* sealed and has its manifest.  delivery.prepare draws a new identity for    *)
(* every call, so that a Delivery has one creator, and takes no Delivery      *)
(* lock; every other operation holds it.  Readers hold no lock: they look at  *)
(* the areas one after the other while Stores move between them.              *)
EXTENDS Naturals, FiniteSets

CONSTANTS
  Delivery,     \* identities that calls of delivery.prepare draw
  MaxFaults     \* bound: deaths of a creator or of a call

ASSUME CustodyAssumption ==
  /\ MaxFaults \in Nat /\ "none" \notin Delivery

VARIABLES
  root,       \* per Delivery: [place, content] of its Store root
  creator,    \* per Delivery: the delivery.prepare call that drew it
  call,       \* per Delivery: the call that holds its lock
  reader,     \* one reader of the Inbox or of one selected Delivery
  faults

vars == <<root, creator, call, reader, faults>>

\* "settled" stands for the life of a Delivery between its first preparation
\* and its Closure.  Until its database holds the identity, nothing tells
\* whose root a staged one is.
Undiscoverable == {"directory", "blank"}
Retained == {"opened", "settled", "closed", "sealed", "prepared"}

Root == [place : {"none"}, content : {"none"}]
  \cup [place : {"staging"},
        content : Undiscoverable \cup {"created", "begun", "opened"}]
  \cup [place : {"active"}, content : Retained]
  \cup [place : {"archive"}, content : {"prepared"}]

Inventory == [active : SUBSET Delivery, archived : SUBSET Delivery]
In(place) == {d \in Delivery : root[d].place = place}
CurrentInventory == [active |-> In("active"), archived |-> In("archive")]
Exposed(d) == root[d].place \in {"active", "archive"}

NoInventory == [active |-> {}, archived |-> {}]
\* seen is what the present listing has read, first the listing before it;
\* actual and exposed are history: what was there when the first listing
\* ended, and whether the selected Delivery was exposed when the read began.
Idle == [pc |-> "idle", subject |-> "none", pass |-> 1, seen |-> NoInventory,
         todo |-> {}, first |-> NoInventory, actual |-> NoInventory,
         exposed |-> FALSE]
ReaderPcs == {"idle", "active", "archive", "staging", "open", "shown",
              "select", "select-archive", "select-staging", "absent", "selected"}
Reader == [pc : ReaderPcs, subject : Delivery \cup {"none"}, pass : {1, 2},
           seen : Inventory, todo : SUBSET Delivery, first : Inventory,
           actual : Inventory, exposed : BOOLEAN]

Init ==
  /\ root = [d \in Delivery |-> [place |-> "none", content |-> "none"]]
  /\ creator = [d \in Delivery |-> "unborn"]
  /\ call = [d \in Delivery |-> "idle"]
  /\ reader = Idle
  /\ faults = 0

------------------------------------------------------------------------------
(* Creation, by a call that holds no lock.                                    *)
Becomes(d, content) == root' = [root EXCEPT ![d].content = content]
Moves(d, place) == root' = [root EXCEPT ![d].place = place]
Creating(d, content) ==
  /\ creator[d] = "creating" /\ root[d].content = content
  /\ UNCHANGED <<call, reader, faults>>

StageRoot(d) ==
  /\ creator[d] = "unborn"
  /\ root' = [root EXCEPT ![d] = [place |-> "staging", content |-> "directory"]]
  /\ creator' = [creator EXCEPT ![d] = "creating"]
  /\ UNCHANGED <<call, reader, faults>>

\* The empty database file is durable before its schema and identity are.
CreateDatabase(d) ==
  Creating(d, "directory") /\ Becomes(d, "blank") /\ UNCHANGED creator
InitializeStore(d) ==
  Creating(d, "blank") /\ Becomes(d, "created") /\ UNCHANGED creator
AppendCreation(d) ==
  Creating(d, "created") /\ Becomes(d, "begun") /\ UNCHANGED creator
OpenPreparation(d) ==
  Creating(d, "begun") /\ Becomes(d, "opened") /\ UNCHANGED creator

\* Opening fails.  What is provably fresh is removed; with an opening retained
\* the Store is published all the same.
DiscardableAlways == {"begun", "opened"}
Discardable == {"begun"}
RefuseOpening(d) ==
  /\ root[d].content \in Discardable
  /\ Creating(d, root[d].content)
  /\ creator' = [creator EXCEPT ![d] = "discarding"]
  /\ UNCHANGED root

DiscardFiles(d) ==
  /\ creator[d] = "discarding" /\ root[d].content # "directory"
  /\ Becomes(d, "directory")
  /\ UNCHANGED <<creator, call, reader, faults>>

DiscardRoot(d) ==
  /\ creator[d] = "discarding" /\ root[d].content = "directory"
  /\ root' = [root EXCEPT ![d] = [place |-> "none", content |-> "none"]]
  /\ creator' = [creator EXCEPT ![d] = "gone"]
  /\ UNCHANGED <<call, reader, faults>>

\* Only what has its first Activity is published.
PublishableBegun == {"begun", "opened"}
Publishable == {"opened"}
Publish(d) ==
  /\ root[d].content \in Publishable /\ root[d].place = "staging"
  /\ Creating(d, root[d].content)
  /\ Moves(d, "active")
  /\ creator' = [creator EXCEPT ![d] = "operating"]

\* The creator goes on to operate the preparation it opened.
CreatorSettles(d) ==
  /\ creator[d] = "operating" /\ root[d].content = "opened"
  /\ Becomes(d, "settled")
  /\ creator' = [creator EXCEPT ![d] = "gone"]
  /\ UNCHANGED <<call, reader, faults>>

\* Its operation failed, was left to recovery, or was settled by another call.
CreatorEnds(d) ==
  /\ creator[d] = "operating"
  /\ creator' = [creator EXCEPT ![d] = "gone"]
  /\ UNCHANGED <<root, call, reader, faults>>

CreatorDies(d) ==
  /\ creator[d] \notin {"unborn", "gone"}
  /\ faults < MaxFaults /\ faults' = faults + 1
  /\ creator' = [creator EXCEPT ![d] = "gone"]
  /\ UNCHANGED <<root, call, reader>>

------------------------------------------------------------------------------
(* Calls under the Delivery lock.                                             *)
\* The entries of an active root allow for no archive manifest.
Openable(d) == root[d].place = "active" /\ root[d].content # "prepared"

\* Recovery selects an open Activity, or what a Closure left to do.
RecoversClosure == {"closed", "sealed"}
Recoverable == {"opened"} \cup RecoversClosure

Recover(d) ==
  /\ call[d] = "idle" /\ Openable(d) /\ root[d].content \in Recoverable
  /\ call' = [call EXCEPT ![d] =
       IF root[d].content = "opened" THEN "recovering" ELSE "closing"]
  /\ UNCHANGED <<root, creator, reader, faults>>

NoShip(d) ==
  /\ call[d] = "idle" /\ Openable(d) /\ root[d].content = "settled"
  /\ call' = [call EXCEPT ![d] = "closing"]
  /\ UNCHANGED <<root, creator, reader, faults>>

RecoverySettles(d) ==
  /\ call[d] = "recovering" /\ root[d].content = "opened"
  /\ Becomes(d, "settled")
  /\ call' = [call EXCEPT ![d] = "idle"]
  /\ UNCHANGED <<creator, reader, faults>>

\* The creator settled the Activity first.
RecoveryRefused(d) ==
  /\ call[d] = "recovering" /\ root[d].content # "opened"
  /\ call' = [call EXCEPT ![d] = "idle"]
  /\ UNCHANGED <<root, creator, reader, faults>>

Closing(d, content) ==
  /\ call[d] = "closing" /\ root[d].content = content
  /\ UNCHANGED <<creator, reader, faults>>

Close(d) == Closing(d, "settled") /\ Becomes(d, "closed") /\ UNCHANGED call
Seal(d) == Closing(d, "closed") /\ Becomes(d, "sealed") /\ UNCHANGED call
WriteManifest(d) ==
  Closing(d, "sealed") /\ Becomes(d, "prepared") /\ UNCHANGED call
MoveArchive(d) ==
  /\ Closing(d, "prepared") /\ Moves(d, "archive")
  /\ call' = [call EXCEPT ![d] = "idle"]

CallDies(d) ==
  /\ call[d] # "idle"
  /\ faults < MaxFaults /\ faults' = faults + 1
  /\ call' = [call EXCEPT ![d] = "idle"]
  /\ UNCHANGED <<root, creator, reader>>

------------------------------------------------------------------------------
(* The Inbox: two listings of the target, with its rows read in between.  A   *)
(* listing that meets anything out of place is refused as a whole.            *)
Reads == UNCHANGED <<root, creator, call, faults>>
Refused == reader' = Idle

BeginInbox ==
  /\ reader.pc = "idle"
  /\ reader' = [reader EXCEPT !.pc = "active"]
  /\ Reads

ReadActive ==
  /\ reader.pc = "active"
  /\ reader' = [reader EXCEPT !.pc = "archive", !.seen.active = In("active")]
  /\ Reads

ReadArchive ==
  /\ reader.pc = "archive"
  /\ IF reader.seen.active \cap In("archive") = {}
     THEN reader' = [reader EXCEPT !.pc = "staging",
                                   !.seen.archived = In("archive")]
     ELSE Refused
  /\ Reads

\* validateStagingArea: every staged root has to say whose it is.
StagingIsLegible ==
  \A d \in In("staging") :
    /\ root[d].content \notin Undiscoverable
    /\ d \notin reader.seen.active \cup reader.seen.archived

ReadStaging ==
  /\ reader.pc = "staging"
  /\ IF StagingIsLegible
     THEN reader' = [reader EXCEPT !.pc = "open",
                       !.todo = reader.seen.active \cup reader.seen.archived]
     ELSE Refused
  /\ Reads

\* Each listed Store is opened where it was seen.
StillThere(d) ==
  IF d \in reader.seen.active THEN Openable(d) ELSE root[d].place = "archive"
OpenListed(d) ==
  /\ reader.pc = "open" /\ d \in reader.todo
  /\ IF StillThere(d) THEN reader' = [reader EXCEPT !.todo = @ \ {d}]
                      ELSE Refused
  /\ Reads

EndFirstListing ==
  /\ reader.pc = "open" /\ reader.todo = {} /\ reader.pass = 1
  /\ reader' = [reader EXCEPT !.pc = "active", !.pass = 2,
                  !.first = reader.seen, !.actual = CurrentInventory]
  /\ Reads

SameInventoryUnchecked == TRUE
SameInventory == reader.seen = reader.first
EndSecondListing ==
  /\ reader.pc = "open" /\ reader.todo = {} /\ reader.pass = 2
  /\ IF SameInventory THEN reader' = [reader EXCEPT !.pc = "shown"]
                      ELSE Refused
  /\ Reads

------------------------------------------------------------------------------
(* Selection of one Delivery: active, archive and staging, in this order.     *)
BeginSelection(d) ==
  /\ reader.pc = "idle"
  /\ reader' = [reader EXCEPT !.pc = "select", !.subject = d,
                              !.exposed = Exposed(d)]
  /\ Reads

SelectActive ==
  /\ reader.pc = "select"
  /\ reader' = [reader EXCEPT !.pc = "select-archive",
                  !.seen.active = {reader.subject} \cap In("active")]
  /\ Reads

SelectArchive ==
  /\ reader.pc = "select-archive"
  /\ reader' = [reader EXCEPT !.pc = "select-staging",
                  !.seen.archived = {reader.subject} \cap In("archive")]
  /\ Reads

\* Found in two areas, or in staging: refused.  In none: absent.
SelectStaging ==
  LET seen == reader.seen
  IN /\ reader.pc = "select-staging"
     /\ IF \/ root[reader.subject].place = "staging"
           \/ seen.active \cap seen.archived # {}
        THEN Refused
        ELSE reader' = [reader EXCEPT !.pc =
               IF seen = NoInventory THEN "absent" ELSE "selected"]
     /\ Reads

ReaderDone ==
  /\ reader.pc \in {"shown", "absent", "selected"}
  /\ Refused /\ Reads

------------------------------------------------------------------------------
\* A call once begun goes on to its end.
CreatorStep(d) ==
  \/ CreateDatabase(d) \/ InitializeStore(d) \/ AppendCreation(d)
  \/ OpenPreparation(d) \/ RefuseOpening(d) \/ DiscardFiles(d)
  \/ DiscardRoot(d) \/ Publish(d) \/ CreatorSettles(d) \/ CreatorEnds(d)

CallStep(d) ==
  \/ RecoverySettles(d) \/ RecoveryRefused(d)
  \/ Close(d) \/ Seal(d) \/ WriteManifest(d) \/ MoveArchive(d)

ReaderStep ==
  \/ BeginInbox \/ ReadActive \/ ReadArchive \/ ReadStaging
  \/ \E d \in Delivery : OpenListed(d)
  \/ EndFirstListing \/ EndSecondListing
  \/ \E d \in Delivery : BeginSelection(d)
  \/ SelectActive \/ SelectArchive \/ SelectStaging \/ ReaderDone

Next ==
  \/ \E d \in Delivery :
       \/ StageRoot(d) \/ CreatorStep(d) \/ CreatorDies(d)
       \/ Recover(d) \/ NoShip(d) \/ CallStep(d) \/ CallDies(d)
  \/ ReaderStep

Spec == Init /\ [][Next]_vars

(* Somebody calls delivery.recover on what it accepts, and a call goes on     *)
(* until it ends or dies.  Nobody has to create, close or read anything.      *)
FairSpec ==
  /\ Spec
  /\ \A d \in Delivery :
       WF_vars(Recover(d)) /\ WF_vars(CallStep(d)) /\ WF_vars(CreatorStep(d))

------------------------------------------------------------------------------
(* Type invariant.  A root that others can find is whole: it has its first    *)
(* Activity, and in the archive its manifest (the custody tests: "without     *)
(* exposing an empty active Store").                                          *)
TypeOK ==
  /\ root \in [Delivery -> Root]
  /\ creator \in [Delivery ->
       {"unborn", "creating", "discarding", "operating", "gone"}]
  /\ call \in [Delivery -> {"idle", "recovering", "closing"}]
  /\ reader \in Reader
  /\ faults \in 0..MaxFaults

(* What an unlocked reader is told was true at one moment of its reading,     *)
(* however many Stores were published and archived under it: an Inbox that is *)
(* shown is the inventory as it was between its two listings ("without silent *)
(* omission"), and a Delivery that was there is never reported absent.        *)
ReadsAreTrue ==
  /\ reader.pc = "shown" => reader.first = reader.actual
  /\ reader.pc = "absent" => ~reader.exposed

(* DELIVERY.md: "only a provably empty, unexposed staging Store may be        *)
(* removed."  A retained Activity stays, and what is exposed stays exposed.   *)
RetainedIsKept ==
  [][\A d \in Delivery :
       /\ root[d].content \in Retained => root'[d].content \in Retained
       /\ Exposed(d) => Exposed(d)']_vars

(* A published preparation is settled, whoever died over it and whether its   *)
(* creator or a recovery that overlapped with it came first.                  *)
ExposedIsSettled ==
  \A d \in Delivery :
    root[d].place = "active" /\ root[d].content = "opened"
      ~> root[d].content # "opened"

------------------------------------------------------------------------------
(* A statement of the documentation that the code does not meet.              *)

(* DELIVERY.md: "Once an Activity or support obligation is retained, its      *)
(* named Store remains recoverable."                                          *)
RetainedIsRecoverable ==
  \A d \in Delivery :
    root[d].content = "opened" ~> root[d].content # "opened"
==============================================================================
