------------------------ MODULE DeliveryCustodyProofs -------------------------
(* Proofs about DeliveryCustody, for every set of Deliveries and any number   *)
(* of deaths.                                                                 *)
(*                                                                            *)
(* A Store only moves on: from staging to the active area to the archive.     *)
(* That a creator works in staging and a call under the lock only on what is  *)
(* exposed (Placed) makes every step of theirs keep this order (MovesOn), and *)
(* what a reader has seen bounds from then on where those Stores are          *)
(* (Listed, Selecting).                                                       *)
EXTENDS DeliveryCustody, TLAPS

\* Where a creator or a call can be at work.
Placed ==
  \A d \in Delivery :
    /\ creator[d] = "unborn" => root[d].place = "none"
    /\ creator[d] = "creating" => root[d].place = "staging"
    /\ creator[d] = "discarding" =>
         root[d].place = "staging" /\ root[d].content \notin Retained
    /\ creator[d] = "operating" => Exposed(d)
    /\ call[d] # "idle" => Exposed(d)

StoreInv == TypeOK /\ Placed

\* A step of the Stores, which leaves the reader alone.
StoreStep(d) ==
  \/ StageRoot(d) \/ CreatorStep(d) \/ CreatorDies(d)
  \/ Recover(d) \/ NoShip(d) \/ CallStep(d) \/ CallDies(d)

MovedOn(d) ==
  /\ Exposed(d) => Exposed(d)'
  /\ root[d].place = "archive" => root'[d].place = "archive"
  /\ root[d].content \in Retained => root'[d].content \in Retained

------------------------------------------------------------------------------
(* The Stores.                                                                *)
LEMMA InitStores == Init => StoreInv
<1>1. Init => TypeOK
  BY CustodyAssumption
  DEF Init, TypeOK, Root, Reader, ReaderPcs, Idle, NoInventory, Inventory
<1>2. Init => Placed
  BY DEF Init, Placed, Exposed
<1> QED BY <1>1, <1>2 DEF StoreInv

\* One root and one creator or call change, the reader does not.
LEMMA StoreKept ==
  ASSUME StoreInv, NEW d \in Delivery, StoreStep(d)
  PROVE  /\ StoreInv'
         /\ \A e \in Delivery : MovedOn(e)
         /\ reader' = reader
<1> USE CustodyAssumption
<1> USE DEF Becomes, Moves, Creating, Closing, Retained, Undiscoverable, Exposed
<1>1. root \in [Delivery -> Root] BY DEF StoreInv, TypeOK
<1>2. /\ root' \in [Delivery -> Root]
      /\ \A e \in Delivery : MovedOn(e)
  <2>1. CASE StageRoot(d) \/ CreatorStep(d) \/ CreatorDies(d)
    BY <1>1, <2>1
    DEF StoreInv, TypeOK, Placed, MovedOn, Root, CreatorStep, StageRoot, CreateDatabase,
        InitializeStore, AppendCreation, OpenPreparation, RefuseOpening, DiscardFiles,
        DiscardRoot, Publish, Publishable, CreatorSettles, CreatorEnds, CreatorDies
  <2>2. CASE Recover(d) \/ NoShip(d) \/ CallDies(d)
    BY <1>1, <2>2 DEF MovedOn, Recover, NoShip, CallDies
  <2>3. CASE CallStep(d)
    BY <1>1, <2>3
    DEF StoreInv, TypeOK, Placed, MovedOn, Root, CallStep, RecoverySettles,
        RecoveryRefused, Close, Seal, WriteManifest, MoveArchive
  <2> QED BY <2>1, <2>2, <2>3 DEF StoreStep
<1>3. /\ creator' \in [Delivery ->
           {"unborn", "creating", "discarding", "operating", "gone"}]
      /\ call' \in [Delivery -> {"idle", "recovering", "closing"}]
      /\ faults' \in 0..MaxFaults
      /\ reader' = reader
  BY DEF StoreInv, TypeOK, StoreStep, CreatorStep, StageRoot, CreateDatabase,
         InitializeStore, AppendCreation, OpenPreparation, RefuseOpening, DiscardFiles,
         DiscardRoot, Publish, CreatorSettles, CreatorEnds, CreatorDies, Recover, NoShip,
         CallStep, RecoverySettles, RecoveryRefused, Close, Seal, WriteManifest,
         MoveArchive, CallDies
<1>4. Placed'
  <2>1. CASE StageRoot(d) \/ CreatorStep(d) \/ CreatorDies(d)
    BY <1>1, <2>1
    DEF StoreInv, TypeOK, Placed, Root, CreatorStep, StageRoot, CreateDatabase,
        InitializeStore, AppendCreation, OpenPreparation, RefuseOpening, DiscardFiles,
        DiscardRoot, Publish, Publishable, Discardable, CreatorSettles, CreatorEnds,
        CreatorDies
  <2>2. CASE Recover(d) \/ NoShip(d) \/ CallDies(d)
    BY <1>1, <2>2 DEF StoreInv, TypeOK, Placed, Recover, NoShip, CallDies, Openable
  <2>3. CASE CallStep(d)
    BY <1>1, <2>3
    DEF StoreInv, TypeOK, Placed, Root, CallStep, RecoverySettles,
        RecoveryRefused, Close, Seal, WriteManifest, MoveArchive
  <2> QED BY <2>1, <2>2, <2>3 DEF StoreStep
<1> QED BY <1>2, <1>3, <1>4 DEF StoreInv, TypeOK

------------------------------------------------------------------------------
(* The reader.                                                                *)
LEMMA ReaderTyped ==
  ASSUME StoreInv, ReaderStep
  PROVE  StoreInv' /\ UNCHANGED <<root, creator, call, faults>>
<1>1. UNCHANGED <<root, creator, call, faults>>
  BY DEF ReaderStep, BeginInbox, ReadActive, ReadArchive, ReadStaging, OpenListed,
         EndFirstListing, EndSecondListing, BeginSelection, SelectActive, SelectArchive,
         SelectStaging, ReaderDone, Reads
<1>2. reader \in Reader BY DEF StoreInv, TypeOK
<1>3. Idle \in Reader
  BY CustodyAssumption DEF Idle, Reader, ReaderPcs, NoInventory, Inventory
<1>4. /\ In("active") \in SUBSET Delivery /\ In("archive") \in SUBSET Delivery
      /\ CurrentInventory \in Inventory
  BY DEF In, CurrentInventory, Inventory
<1>5. reader' \in Reader
  <2> USE <1>2, <1>3, <1>4 DEF Reader, ReaderPcs, Refused
  <2>1. CASE BeginInbox BY <2>1 DEF BeginInbox
  <2>2. CASE ReadActive BY <2>2 DEF ReadActive, Inventory
  <2>3. CASE ReadArchive
    <3>1. [reader.seen EXCEPT !.archived = In("archive")] \in Inventory
      BY DEF Inventory
    <3> QED BY <2>3, <3>1 DEF ReadArchive
  <2>4. CASE ReadStaging
    <3>1. reader.seen.active \cup reader.seen.archived \in SUBSET Delivery
      BY DEF Inventory
    <3> QED BY <2>4, <3>1 DEF ReadStaging
  <2>5. CASE \E d \in Delivery : OpenListed(d) BY <2>5 DEF OpenListed
  <2>6. CASE EndFirstListing BY <2>6 DEF EndFirstListing
  <2>7. CASE EndSecondListing BY <2>7 DEF EndSecondListing
  <2>8. CASE \E d \in Delivery : BeginSelection(d)
    <3> PICK d \in Delivery : BeginSelection(d) BY <2>8
    <3>1. Exposed(d) \in BOOLEAN BY DEF Exposed
    <3> QED BY <3>1 DEF BeginSelection
  <2>9. CASE SelectActive BY <2>9 DEF SelectActive, Inventory
  <2>10. CASE SelectArchive BY <2>10 DEF SelectArchive, Inventory
  <2>11. CASE SelectStaging BY <2>11 DEF SelectStaging
  <2>12. CASE ReaderDone BY <2>12 DEF ReaderDone
  <2> QED BY <2>1, <2>2, <2>3, <2>4, <2>5, <2>6, <2>7, <2>8, <2>9, <2>10, <2>11,
             <2>12 DEF ReaderStep
<1> QED BY <1>1, <1>5 DEF StoreInv, TypeOK, Placed, Exposed

------------------------------------------------------------------------------
(* What was seen bounds what is.                                              *)
Found == {d \in Delivery : Exposed(d)}
Archived == In("archive")

\* The listing so far, whichever of the two it is.
Listed ==
  /\ reader.pc = "idle" => reader.pass = 1
  /\ reader.pc \in {"archive", "staging", "open"} => reader.seen.active \subseteq Found
  /\ reader.pc \in {"staging", "open"} => reader.seen.archived \subseteq Archived

\* The second listing is compared with what was there before it began.
Compared ==
  /\ reader.pass = 2 /\ reader.pc \in {"active", "archive", "staging", "open"} =>
       /\ reader.first.active \subseteq reader.actual.active \cup reader.actual.archived
       /\ reader.first.archived \subseteq reader.actual.archived
       /\ reader.actual.active \subseteq Found
       /\ reader.actual.archived \subseteq Archived
       /\ reader.actual.active \cap reader.actual.archived = {}
  /\ reader.pass = 2 /\ reader.pc \in {"archive", "staging", "open"} =>
       /\ reader.seen.active \cap reader.actual.archived = {}
       /\ reader.actual.active \subseteq reader.seen.active \cup Archived
  /\ reader.pass = 2 /\ reader.pc \in {"staging", "open"} =>
       /\ reader.actual.active \subseteq reader.seen.active \cup reader.seen.archived
       /\ reader.actual.archived \subseteq reader.seen.archived
  /\ reader.pc = "shown" => reader.first = reader.actual

\* One Delivery that was exposed is found in one of the areas.
Selecting ==
  /\ reader.pc = "select" /\ reader.exposed => reader.subject \in Found
  /\ reader.pc = "select-archive" /\ reader.exposed =>
       reader.subject \in reader.seen.active \cup Archived
  /\ reader.pc = "select-staging" /\ reader.exposed => reader.seen # NoInventory
  /\ reader.pc = "absent" => ~reader.exposed

CustodyInv == StoreInv /\ Listed /\ Compared /\ Selecting

LEMMA InitCustody == Init => CustodyInv
<1>1. Init => Listed /\ Compared /\ Selecting
  BY DEF Init, Idle, Listed, Compared, Selecting
<1> QED BY <1>1, InitStores DEF CustodyInv

\* Stores that move on stay within what a reader knows of them.
LEMMA ReaderHolds ==
  ASSUME CustodyInv, NEW d \in Delivery, StoreStep(d)
  PROVE  CustodyInv'
<1>1. /\ StoreInv'
      /\ \A e \in Delivery : MovedOn(e)
      /\ reader' = reader
  BY StoreKept DEF CustodyInv
<1>2. Found \subseteq Found' /\ Archived \subseteq Archived'
  BY <1>1 DEF MovedOn, Found, Archived, In
<1>3. Listed' BY <1>1, <1>2 DEF CustodyInv, Listed
<1>4. Compared' BY <1>1, <1>2 DEF CustodyInv, Compared
<1>5. Selecting' BY <1>1, <1>2 DEF CustodyInv, Selecting
<1> QED BY <1>1, <1>3, <1>4, <1>5 DEF CustodyInv

\* The areas a listing has read, once more under the names of the invariant.
LEMMA Areas ==
  /\ In("active") \subseteq Found /\ Archived \subseteq Found
  /\ Found = In("active") \cup Archived
  /\ In("active") \cap Archived = {}
  /\ CurrentInventory = [active |-> In("active"), archived |-> Archived]
BY DEF Found, Archived, In, Exposed, CurrentInventory

LEMMA ReadingHolds ==
  ASSUME CustodyInv, ReaderStep
  PROVE  CustodyInv'
<1>1. StoreInv' /\ UNCHANGED <<root, creator, call, faults>>
  BY ReaderTyped DEF CustodyInv
<1>2. Found' = Found /\ Archived' = Archived
  BY <1>1 DEF Found, Archived, In, Exposed
<1>3. /\ reader \in Reader /\ reader.seen \in Inventory
      /\ reader.first \in Inventory /\ reader.actual \in Inventory
  BY DEF CustodyInv, StoreInv, TypeOK, Reader
<1>4. Listed /\ Compared /\ Selecting BY DEF CustodyInv
<1> SUFFICES Listed' /\ Compared' /\ Selecting' BY <1>1 DEF CustodyInv
<1>5. ASSUME Refused PROVE Listed' /\ Compared' /\ Selecting'
  BY <1>5 DEF Refused, Idle, Listed, Compared, Selecting
<1>6. CASE BeginInbox
  BY <1>2, <1>3, <1>4, <1>6 DEF BeginInbox, Reader, Listed, Compared, Selecting
<1>7. CASE ReadActive
  <2>1. reader' = [reader EXCEPT !.pc = "archive",
                     !.seen = [reader.seen EXCEPT !.active = In("active")]]
    BY <1>3, <1>7 DEF ReadActive, Reader, Inventory
  <2>2. /\ reader'.pc = "archive" /\ reader'.pass = reader.pass
        /\ reader'.seen.active = In("active")
        /\ reader'.first = reader.first /\ reader'.actual = reader.actual
        /\ reader.pc = "active"
    BY <1>3, <1>7, <2>1 DEF ReadActive, Reader, Inventory
  <2> QED BY <1>2, <1>4, <2>2, Areas DEF Listed, Compared, Selecting
<1>8. CASE ReadArchive
  <2>1. CASE Refused BY <1>5, <2>1
  <2>2. CASE ~Refused
    <3>1. /\ reader.pc = "archive"
          /\ reader' = [reader EXCEPT !.pc = "staging",
                          !.seen = [reader.seen EXCEPT !.archived = In("archive")]]
      BY <1>3, <1>8, <2>2 DEF ReadArchive, Reader, Inventory
    <3>2. /\ reader'.pc = "staging" /\ reader'.pass = reader.pass
          /\ reader'.seen.active = reader.seen.active
          /\ reader'.seen.archived = Archived
          /\ reader'.first = reader.first /\ reader'.actual = reader.actual
      BY <1>3, <3>1 DEF Reader, Inventory, Archived
    <3> QED BY <1>2, <1>4, <3>1, <3>2 DEF Listed, Compared, Selecting
  <2> QED BY <2>1, <2>2
<1>9. CASE ReadStaging \/ \E d \in Delivery : OpenListed(d)
  <2>1. CASE Refused BY <1>5, <2>1
  <2>2. CASE ~Refused
    <3>1. /\ reader.pc \in {"staging", "open"} /\ reader'.pc = "open"
          /\ reader'.pass = reader.pass /\ reader'.seen = reader.seen
          /\ reader'.first = reader.first /\ reader'.actual = reader.actual
      BY <1>3, <1>9, <2>2 DEF ReadStaging, OpenListed, Reader
    <3> QED BY <1>2, <1>4, <3>1 DEF Listed, Compared, Selecting
  <2> QED BY <2>1, <2>2
<1>10. CASE EndFirstListing
  <2>1. /\ reader.pc = "open" /\ reader'.pc = "active" /\ reader'.pass = 2
        /\ reader'.first = reader.seen /\ reader'.actual = CurrentInventory
    BY <1>3, <1>10 DEF EndFirstListing, Reader
  <2>2. /\ reader'.actual.active = In("active") /\ reader'.actual.archived = Archived
    BY <2>1, Areas
  <2> QED BY <1>2, <1>4, <2>1, <2>2, Areas DEF Listed, Compared, Selecting
<1>11. CASE EndSecondListing
  <2>1. CASE Refused BY <1>5, <2>1
  <2>2. CASE ~Refused
    <3>1. /\ reader.pc = "open" /\ reader.pass = 2 /\ reader.seen = reader.first
          /\ reader'.pc = "shown"
          /\ reader'.first = reader.first /\ reader'.actual = reader.actual
      BY <1>3, <1>11, <2>2 DEF EndSecondListing, SameInventory, Reader
    <3>2. /\ reader.first.active = reader.actual.active
          /\ reader.first.archived = reader.actual.archived
      BY <1>4, <3>1 DEF Compared
    <3>3. reader.first = reader.actual
      BY <1>3, <3>2 DEF Inventory
    <3> QED BY <3>1, <3>3 DEF Listed, Compared, Selecting
  <2> QED BY <2>1, <2>2
<1>12. CASE \E d \in Delivery : BeginSelection(d)
  <2> PICK d \in Delivery : BeginSelection(d) BY <1>12
  <2>1. /\ reader'.pc = "select" /\ reader'.subject = d
        /\ reader'.exposed = Exposed(d)
    BY <1>3 DEF BeginSelection, Reader
  <2> QED BY <1>2, <2>1 DEF Listed, Compared, Selecting, Found
<1>13. CASE SelectActive
  <2>1. /\ reader.pc = "select"
        /\ reader' = [reader EXCEPT !.pc = "select-archive",
             !.seen = [reader.seen EXCEPT !.active = {reader.subject} \cap In("active")]]
    BY <1>3, <1>13 DEF SelectActive, Reader, Inventory
  <2>2. /\ reader'.pc = "select-archive"
        /\ reader'.subject = reader.subject /\ reader'.exposed = reader.exposed
        /\ reader'.seen.active = {reader.subject} \cap In("active")
    BY <1>3, <2>1 DEF Reader, Inventory
  <2> QED BY <1>2, <1>4, <2>1, <2>2, Areas DEF Listed, Compared, Selecting
<1>14. CASE SelectArchive
  <2>1. /\ reader.pc = "select-archive"
        /\ reader' = [reader EXCEPT !.pc = "select-staging",
             !.seen = [reader.seen EXCEPT !.archived = {reader.subject} \cap In("archive")]]
    BY <1>3, <1>14 DEF SelectArchive, Reader, Inventory
  <2>2. /\ reader'.pc = "select-staging" /\ reader'.exposed = reader.exposed
        /\ reader'.seen.active = reader.seen.active
        /\ reader'.seen.archived = {reader.subject} \cap Archived
    BY <1>3, <2>1 DEF Reader, Inventory, Archived
  <2>3. reader.exposed => reader'.seen.active # {} \/ reader'.seen.archived # {}
    BY <1>4, <2>1, <2>2 DEF Selecting
  <2>4. reader.exposed => reader'.seen # NoInventory
    BY <2>3 DEF NoInventory
  <2> QED BY <2>2, <2>4 DEF Listed, Compared, Selecting
<1>15. CASE SelectStaging
  <2>1. CASE Refused BY <1>5, <2>1
  <2>2. CASE ~Refused
    <3>1. /\ reader.pc = "select-staging" /\ reader'.exposed = reader.exposed
          /\ reader'.pc = IF reader.seen = NoInventory THEN "absent" ELSE "selected"
      BY <1>3, <1>15, <2>2 DEF SelectStaging, Reader
    <3> QED BY <1>4, <3>1 DEF Listed, Compared, Selecting
  <2> QED BY <2>1, <2>2
<1>16. CASE ReaderDone BY <1>5, <1>16 DEF ReaderDone
<1> QED
  BY <1>6, <1>7, <1>8, <1>9, <1>10, <1>11, <1>12, <1>13, <1>14, <1>15, <1>16
  DEF ReaderStep

------------------------------------------------------------------------------
LEMMA CustodyKept == CustodyInv /\ [Next]_vars => CustodyInv'
<1> SUFFICES ASSUME CustodyInv, [Next]_vars PROVE CustodyInv' OBVIOUS
<1>1. CASE \E d \in Delivery : StoreStep(d) BY <1>1, ReaderHolds
<1>2. CASE ReaderStep BY <1>2, ReadingHolds
<1>3. CASE UNCHANGED vars
  BY <1>3 DEF vars, CustodyInv, StoreInv, TypeOK, Placed, Exposed, Listed, Compared,
              Selecting, Found, Archived, In
<1> QED BY <1>1, <1>2, <1>3 DEF Next, StoreStep

LEMMA CustodyHolds == Spec => []CustodyInv
BY InitCustody, CustodyKept, PTL DEF Spec

(* Whatever its creators and callers do and wherever they die, a Store root   *)
(* is one of the few shapes the code can tell apart, and whole where others   *)
(* find it.                                                                   *)
THEOREM CustodyTyped == Spec => []TypeOK
<1>1. CustodyInv => TypeOK BY DEF CustodyInv, StoreInv
<1> QED BY <1>1, CustodyHolds, PTL

(* Two listings of areas that are read one after another, without a lock,     *)
(* agree only on an inventory that was there between them, for any number of  *)
(* Deliveries that are published and archived meanwhile; and a Delivery that  *)
(* was there is not reported absent.                                          *)
THEOREM ReadsTrue == Spec => []ReadsAreTrue
<1>1. CustodyInv => ReadsAreTrue
  BY DEF CustodyInv, Compared, Selecting, ReadsAreTrue
<1> QED BY <1>1, CustodyHolds, PTL

(* Neither the removal of a staging root nor any other step takes away a      *)
(* retained Activity or hides a Delivery that was exposed.                    *)
THEOREM RetainedKept == Spec => RetainedIsKept
<1>1. CustodyInv /\ [Next]_vars =>
        [\A d \in Delivery :
           /\ root[d].content \in Retained => root'[d].content \in Retained
           /\ Exposed(d) => Exposed(d)']_vars
  <2> SUFFICES ASSUME CustodyInv, Next, NEW e \in Delivery
               PROVE  /\ root[e].content \in Retained => root'[e].content \in Retained
                      /\ Exposed(e) => Exposed(e)'
    OBVIOUS
  <2>1. CASE \E d \in Delivery : StoreStep(d)
    BY <2>1, StoreKept DEF CustodyInv, MovedOn
  <2>2. CASE ReaderStep
    BY <2>2, ReaderTyped DEF CustodyInv, Exposed
  <2> QED BY <2>1, <2>2 DEF Next, StoreStep
<1> QED BY <1>1, CustodyHolds, PTL DEF Spec, RetainedIsKept
==============================================================================
