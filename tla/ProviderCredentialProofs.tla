----------------------- MODULE ProviderCredentialProofs -----------------------
(* Proofs about ProviderCredential, for any number of executions, credentials,*)
(* generations, receipts, deaths and changes by the owner.                    *)
(*                                                                            *)
(* A settlement may be interrupted between any two of its files.  What makes  *)
(* it resumable is that its intent names the claim until the receipt names    *)
(* the intent (Intent), and that only a contained execution settles, so that  *)
(* nothing transfers the credential any more when the claim is released       *)
(* (Cells).  Where the owner leaves the file alone, its content is at every   *)
(* step determined by the intent and the claim (Installed).                   *)
EXTENDS CredentialRefinement, TLAPS

State == [generation : 0..MaxGenerations, credential : MaybeCredential,
          blocked : MaybeCredential, active : Subject \cup {"none"}]
CallRecord == [pc : Pcs, op : {"none", "claim", "settlement", "settle"},
               subject : Subject \cup {"none"}, outcome : Outcome,
               bytes : MaybeCredential]

\* Nothing of a contained execution takes the credential any more.
Cells ==
  /\ session \subseteq {state.active}
  /\ contained \cap session = {}
  /\ \A s \in contained : reader[s] = 0

\* The intent, its claim, its receipt and the prepared bytes.
Intent ==
  /\ state.active # "none" => state.generation # 0
  /\ pending # NoReceipt =>
       /\ Bound
       /\ state.active = pending.subject \/ receipts[pending.subject] = pending
       /\ pending.subject \in contained
       /\ pending.disposition = "updated" => pending.result \in Credential
       /\ pending.disposition = "unused" => pending.result = pending.original
       /\ pending.disposition = "lost" => pending.result = "none"
       /\ /\ pending.disposition = "updated" /\ state.active # "none"
          /\ pendingAuth # "none"
          => pendingAuth = pending.result

Swapping == {"recheck", "replace", "verify"}
Concluding == {"release", "unoriginal", "unprepared", "unpending"}
Released == {"unoriginal", "unprepared", "unpending"}
Claiming == {"snapshot", "confirm", "retain"}
Settling == {"prepare", "intend"}

\* Where a call is, and what it has established there.
Working ==
  /\ At("idle") <=> call.subject = "none"
  /\ call.op = "claim" => state.generation # MaxGenerations
  /\ call.op = "settle" => call.subject \in contained
  /\ call.pc \in Swapping \cup Concluding \cup {"receipt"} =>
       pending # NoReceipt /\ pending.subject = call.subject
  /\ call.pc \in Swapping \cup {"receipt"} => state.active = call.subject
  /\ call.pc \in Swapping => pending.disposition = "updated"
  /\ call.pc \in {"recheck", "replace"} => pendingAuth # "none"
  /\ call.pc \in Concluding => receipts[call.subject] = pending
  /\ call.pc \in Released => state.active = "none"
  /\ call.pc \in Claiming =>
       /\ call.op = "claim" /\ call.bytes \in Credential
       /\ state.active = "none" /\ pending = NoReceipt
  /\ call.pc \in Settling =>
       /\ call.op = "settle" /\ state.active = call.subject
       /\ pending = NoReceipt /\ ~Settled(call.subject)
  /\ call.pc = "prepare" => call.outcome.kind = "updated"
  /\ call.pc = "intend" /\ call.outcome.kind = "updated" =>
       pendingAuth = call.outcome.bytes

CustodyInv == TypeOK /\ Cells /\ Intent /\ Working

\* What a settlement leaves installed.
Final == IF pending.result = "none" THEN pending.original ELSE pending.result

\* The file, while its owner has not touched it.
Installed ==
  moves = 0 =>
    /\ auth # "none"
    /\ state.generation # 0 /\ (state.active = "none" \/ pending = NoReceipt) =>
         auth = state.credential
    /\ pending # NoReceipt =>
         /\ auth \in {pending.original, pending.result}
         /\ receipts[pending.subject] = pending \/ At("receipt") => auth = Final
    /\ call.pc \in Claiming => call.bytes = auth

------------------------------------------------------------------------------
(* Records.                                                                   *)
LEMMA ReceiptShape ==
  /\ NoReceipt \notin Receipt
  /\ \A r \in Receipt :
       /\ r.subject \in Subject /\ r.generation \in 1..MaxGenerations
       /\ r.disposition \in Kinds /\ r.original \in Credential
       /\ r.result \in MaybeCredential
  /\ \A o \in Outcome :
       /\ o.kind \in Kinds /\ o.bytes \in MaybeCredential
       /\ o.kind = "updated" => o.bytes \in Credential
       /\ o.kind # "updated" => o.bytes = "none"
  /\ "none" \notin Credential /\ "none" \notin Subject
  /\ \A n \in 1..MaxGenerations : n # 0 /\ n \in 0..MaxGenerations
<1>1. NoReceipt \notin Receipt BY DEF NoReceipt, Receipt, Kinds
<1>2. \A r \in Receipt :
        /\ r.subject \in Subject /\ r.generation \in 1..MaxGenerations
        /\ r.disposition \in Kinds /\ r.original \in Credential
        /\ r.result \in MaybeCredential
  BY DEF Receipt
<1>3. \A o \in Outcome :
        /\ o.kind \in Kinds /\ o.bytes \in MaybeCredential
        /\ o.kind = "updated" => o.bytes \in Credential
        /\ o.kind # "updated" => o.bytes = "none"
  BY DEF Outcome, Kinds, MaybeCredential
<1>4. /\ "none" \notin Credential /\ "none" \notin Subject
      /\ \A n \in 1..MaxGenerations : n # 0 /\ n \in 0..MaxGenerations
  BY CustodyAssumption
<1> QED BY <1>1, <1>2, <1>3, <1>4

LEMMA Types ==
  ASSUME TypeOK
  PROVE  /\ state \in State /\ call \in CallRecord
         /\ auth \in MaybeCredential /\ original \in MaybeCredential
         /\ pendingAuth \in MaybeCredential
         /\ pending # NoReceipt => pending \in Receipt
         /\ receipts \in [Subject -> Receipt \cup {NoReceipt}]
         /\ reader \in [Subject -> 0..MaxGenerations]
         /\ contained \subseteq Subject /\ session \subseteq Subject
         /\ state.active \in Subject \cup {"none"}
         /\ state.generation \in 0..MaxGenerations
         /\ state.credential \in MaybeCredential
         /\ state.generation # 0 => state.credential \in Credential
         /\ call.outcome \in Outcome /\ call.subject \in Subject \cup {"none"}
         /\ moves \in 0..MaxMoves /\ faults \in 0..MaxFaults
BY CustodyAssumption DEF TypeOK, State, CallRecord

\* What a call is after it went on, or ended.
LEMMA CallAfter ==
  ASSUME call \in CallRecord
  PROVE  /\ \A pc \in Pcs : Goto(pc) =>
              /\ call' \in CallRecord /\ call'.pc = pc /\ call'.op = call.op
              /\ call'.subject = call.subject /\ call'.outcome = call.outcome
              /\ call'.bytes = call.bytes
         /\ EndCall =>
              /\ call' \in CallRecord /\ call'.pc = "idle" /\ call'.op = "none"
              /\ call'.subject = "none" /\ call'.outcome.kind = "unused"
<1>1. ASSUME NEW pc \in Pcs, Goto(pc)
      PROVE  /\ call' \in CallRecord /\ call'.pc = pc /\ call'.op = call.op
             /\ call'.subject = call.subject /\ call'.outcome = call.outcome
             /\ call'.bytes = call.bytes
  BY <1>1 DEF Goto, CallRecord
<1>2. ASSUME EndCall
      PROVE  /\ call' \in CallRecord /\ call'.pc = "idle" /\ call'.op = "none"
             /\ call'.subject = "none" /\ call'.outcome.kind = "unused"
  <2>1. Unasked \in Outcome BY DEF Unasked, Outcome
  <2> QED BY <1>2, <2>1
          DEF EndCall, NoCall, CallRecord, Unasked, Pcs, MaybeCredential
<1> QED BY <1>1, <1>2

LEMMA InitCustody == Init => CustodyInv /\ Installed
<1> SUFFICES ASSUME Init PROVE CustodyInv /\ Installed OBVIOUS
<1> USE CustodyAssumption
<1>1. Unasked \in Outcome BY DEF Unasked, Outcome
<1>2. TypeOK
  BY <1>1 DEF Init, TypeOK, NoCall, Pcs, MaybeCredential
<1>3. Cells /\ Intent BY DEF Init, Cells, Intent
<1>4. Working
  BY DEF Init, Working, NoCall, At, Swapping, Concluding, Released, Claiming, Settling
<1>5. Installed BY DEF Init, Installed, NoCall, Claiming
<1> QED BY <1>2, <1>3, <1>4, <1>5 DEF CustodyInv

------------------------------------------------------------------------------
(* Steps that only move the call.                                             *)
LEMMA CallOnly ==
  ASSUME CustodyInv, Installed, UNCHANGED <<auth, custody, cells, moves, faults>>,
         call' \in CallRecord, Working',
         moves = 0 /\ call'.pc = "receipt" /\ pending # NoReceipt => auth = Final,
         moves = 0 /\ call'.pc \in Claiming => call'.bytes = auth
  PROVE  CustodyInv' /\ Installed'
<1> USE DEF custody, cells
<1>1. TypeOK' BY DEF CustodyInv, TypeOK, CallRecord
<1>2. Cells' BY DEF CustodyInv, Cells
<1>3. Intent' BY DEF CustodyInv, Intent, Bound
<1>4. Installed' BY DEF Installed, Final, At
<1> QED BY <1>1, <1>2, <1>3, <1>4 DEF CustodyInv

\* The places of a call, where a leaf needs to tell them apart.
LEMMA EndedWorks ==
  ASSUME call'.pc = "idle", call'.subject = "none", call'.op = "none"
  PROVE  Working' /\ call'.pc \notin Claiming /\ call'.pc # "receipt"
BY DEF Working, At, Swapping, Concluding, Released, Claiming, Settling

LEMMA CallMoves ==
  ASSUME CustodyInv, Installed,
         \/ NothingToResume \/ Resume \/ ResumeRefused \/ Recheck \/ Verify
         \/ (\E s \in Subject : ReadCredential(s) \/ BeginSettlement(s))
         \/ Confirm \/ Answer
  PROVE  CustodyInv' /\ Installed'
<1> USE DEF World, custody, cells, At
<1>1. UNCHANGED <<auth, custody, cells, moves, faults>>
  BY DEF NothingToResume, Resume, ResumeRefused, Recheck, Verify, ReadCredential,
         BeginSettlement, Confirm, Answer
<1>2. /\ TypeOK /\ Cells /\ Intent /\ Working BY DEF CustodyInv
<1>3. call \in CallRecord BY <1>2, Types
<1>4. ASSUME EndCall PROVE CustodyInv' /\ Installed'
  BY <1>1, <1>3, <1>4, CallAfter, EndedWorks, CallOnly
<1>5. CASE NothingToResume
  <2>1. Goto("request") BY <1>5 DEF NothingToResume
  <2>2. call' \in CallRecord /\ call'.pc = "request" /\ call'.op = call.op
        /\ call'.subject = call.subject
    BY <1>3, <2>1, CallAfter DEF Pcs
  <2>3. call.pc = "resume" BY <1>5 DEF NothingToResume
  <2>4. Working'
    BY <1>1, <1>2, <2>2, <2>3
    DEF Working, Swapping, Concluding, Released, Claiming, Settling
  <2> QED BY <1>1, <2>2, <2>4, CallOnly DEF Claiming
<1>6. CASE Resume
  <2>1. Goto(ResumedAt) /\ call.pc = "resume" /\ Resumable
        /\ pending # NoReceipt /\ pending.subject = call.subject
    BY <1>6 DEF Resume, Pends
  <2>2. ResumedAt \in {"release", "receipt", "recheck", "verify"} BY DEF ResumedAt
  <2>3. call' \in CallRecord /\ call'.pc = ResumedAt /\ call'.op = call.op
        /\ call'.subject = call.subject
    BY <1>3, <2>1, <2>2, CallAfter DEF Pcs
  <2>4. /\ ResumedAt = "release" => receipts[pending.subject] = pending
        /\ ResumedAt # "release" =>
             ~Settled(pending.subject) /\ state.active = pending.subject
        /\ ResumedAt \in Swapping => pending.disposition = "updated"
        /\ ResumedAt = "recheck" => pendingAuth # "none"
    BY <2>1, <2>2 DEF ResumedAt, Resumable, Swapping, Settled, Replaces
  <2>5. Working'
    BY <1>1, <1>2, <2>1, <2>2, <2>3, <2>4
    DEF Working, Swapping, Concluding, Released, Claiming, Settling
  <2>6. ASSUME moves = 0, ResumedAt = "receipt" PROVE auth = Final
    <3>1. pending.disposition # "updated" /\ ~Settled(pending.subject)
      BY <2>6 DEF ResumedAt, Settled, Replaces
    <3>2. auth = pending.original \/ auth = "none"
      BY <2>1, <3>1 DEF Resumable, InstalledAgain
    <3>3. auth # "none" BY <2>6 DEF Installed
    <3>4. pending \in Receipt BY <1>2, <2>1, Types
    <3>5. pending.disposition \in {"unused", "lost"} BY <3>1, <3>4, ReceiptShape DEF Kinds
    <3> QED BY <1>2, <2>1, <3>2, <3>3, <3>5 DEF Intent, Final
  <2> QED BY <1>1, <2>2, <2>3, <2>5, <2>6, CallOnly DEF Claiming
<1>7. CASE ResumeRefused BY <1>4, <1>7 DEF ResumeRefused
<1>8. CASE Recheck
  <2>1. CASE EndCall BY <1>4, <2>1
  <2>2. CASE ~EndCall
    <3>1. Goto("replace") /\ call.pc = "recheck" BY <1>8, <2>2 DEF Recheck
    <3>2. call' \in CallRecord /\ call'.pc = "replace" /\ call'.op = call.op
          /\ call'.subject = call.subject
      BY <1>3, <3>1, CallAfter DEF Pcs
    <3>3. Working'
      BY <1>1, <1>2, <3>1, <3>2
      DEF Working, Swapping, Concluding, Released, Claiming, Settling
    <3> QED BY <1>1, <3>2, <3>3, CallOnly DEF Claiming
  <2> QED BY <2>1, <2>2
<1>9. CASE Verify
  <2>1. CASE EndCall BY <1>4, <2>1
  <2>2. CASE ~EndCall
    <3>1. Goto("receipt") /\ call.pc = "verify" /\ auth = pending.result
      BY <1>9, <2>2 DEF Verify
    <3>2. call' \in CallRecord /\ call'.pc = "receipt" /\ call'.op = call.op
          /\ call'.subject = call.subject
      BY <1>3, <3>1, CallAfter DEF Pcs
    <3>3. Working'
      BY <1>1, <1>2, <3>1, <3>2
      DEF Working, Swapping, Concluding, Released, Claiming, Settling
    <3>4. pending # NoReceipt => auth = Final
      BY <1>2, <3>1, ReceiptShape DEF Working, Swapping, Intent, Final
    <3> QED BY <1>1, <3>2, <3>3, <3>4, CallOnly DEF Claiming
  <2> QED BY <2>1, <2>2
<1>10. CASE \E s \in Subject : ReadCredential(s)
  <2>1. /\ call.pc = "request" /\ call.op = "claim" /\ Claimable(call.subject)
        /\ call' = [call EXCEPT !.pc = "snapshot", !.bytes = auth]
    BY <1>10 DEF ReadCredential
  <2>2. [call EXCEPT !.pc = "snapshot", !.bytes = auth] \in CallRecord
    BY <1>2, <1>3, Types DEF CallRecord, Pcs
  <2>3. /\ call' \in CallRecord /\ call'.pc = "snapshot" /\ call'.op = call.op
        /\ call'.subject = call.subject /\ call'.bytes = auth
    BY <1>3, <2>1, <2>2 DEF CallRecord
  <2>4. auth \in Credential /\ state.active = "none" /\ pending = NoReceipt
    BY <1>2, <2>1, Types DEF Claimable, MaybeCredential
  <2>5. Working'
    BY <1>1, <1>2, <2>1, <2>3, <2>4
    DEF Working, Swapping, Concluding, Released, Claiming, Settling
  <2> QED BY <1>1, <2>3, <2>5, CallOnly
<1>11. CASE \E s \in Subject : BeginSettlement(s)
  <2> DEFINE pc == IF call.outcome.kind = "updated" THEN "prepare" ELSE "intend"
  <2>1. /\ call.pc = "request" /\ call.op = "settle" /\ Settleable(call.subject)
        /\ Goto(pc)
    BY <1>11 DEF BeginSettlement
  <2>2. call' \in CallRecord /\ call'.pc = pc /\ call'.op = call.op
        /\ call'.subject = call.subject /\ call'.outcome = call.outcome
    BY <1>3, <2>1, CallAfter DEF Pcs
  <2>3. ~Settled(call.subject) /\ state.active = call.subject /\ pending = NoReceipt
    BY <2>1 DEF Settleable
  <2>4. Working'
    BY <1>1, <1>2, <2>1, <2>2, <2>3
    DEF Working, Swapping, Concluding, Released, Claiming, Settling, Settled
  <2> QED BY <1>1, <2>2, <2>4, CallOnly DEF Claiming
<1>12. CASE Confirm
  <2>1. CASE EndCall BY <1>4, <2>1
  <2>2. CASE ~EndCall
    <3>1. Goto("retain") /\ call.pc = "confirm" /\ auth = call.bytes
      BY <1>12, <2>2 DEF Confirm
    <3>2. call' \in CallRecord /\ call'.pc = "retain" /\ call'.op = call.op
          /\ call'.subject = call.subject /\ call'.bytes = call.bytes
      BY <1>3, <3>1, CallAfter DEF Pcs
    <3>3. Working'
      BY <1>1, <1>2, <3>1, <3>2
      DEF Working, Swapping, Concluding, Released, Claiming, Settling
    <3> QED BY <1>1, <3>1, <3>2, <3>3, CallOnly
  <2> QED BY <2>1, <2>2
<1>13. CASE Answer BY <1>4, <1>13 DEF Answer
<1> QED BY <1>5, <1>6, <1>7, <1>8, <1>9, <1>10, <1>11, <1>12, <1>13

------------------------------------------------------------------------------
(* The calls of the driver and the readers.                                   *)
LEMMA CallBegins ==
  ASSUME CustodyInv, Installed, NEW s \in Subject,
         Claim(s) \/ Settlement(s) \/ \E o \in Outcome : Settle(s, o)
  PROVE  CustodyInv' /\ Installed'
<1> USE DEF custody, cells
<1>1. PICK op \in {"claim", "settlement", "settle"}, o \in Outcome :
        /\ Begin(s, op, o)
        /\ op = "claim" => state.generation < MaxGenerations
        /\ \/ UNCHANGED cells /\ op # "settle"
           \/ /\ contained' = contained \cup {s} /\ session' = session \ {s}
              /\ reader' = [reader EXCEPT ![s] = 0]
  <2>1. Unasked \in Outcome BY DEF Unasked, Outcome
  <2>2. CASE Claim(s) BY <2>1, <2>2 DEF Claim
  <2>3. CASE Settlement(s) BY <2>1, <2>3 DEF Settlement
  <2>4. CASE \E o \in Outcome : Settle(s, o) BY <2>4 DEF Settle
  <2> QED BY <2>2, <2>3, <2>4
<1>2. /\ TypeOK /\ Cells /\ Intent /\ Working BY DEF CustodyInv
<1>3. /\ call' = [pc |-> "resume", op |-> op, subject |-> s, outcome |-> o,
                  bytes |-> "none"]
      /\ UNCHANGED <<auth, state, original, pendingAuth, pending, receipts,
                     moves, faults>>
  BY <1>1 DEF Begin
<1>4. call' \in CallRecord BY <1>3 DEF CallRecord, Pcs, MaybeCredential
<1>5. /\ contained \subseteq contained' /\ contained' \subseteq contained \cup {s}
      /\ session' \subseteq session
      /\ s \in contained' \/ UNCHANGED cells
      /\ op = "settle" => s \in contained'
      /\ s \in contained' => s \notin session' /\ reader'[s] = 0
      /\ reader' \in [Subject -> 0..MaxGenerations]
      /\ \A t \in Subject \ {s} : reader'[t] = reader[t]
  BY <1>1, <1>2, CustodyAssumption, Types DEF Cells
<1>6. TypeOK' BY <1>2, <1>3, <1>4, <1>5, Types DEF TypeOK, CallRecord
<1>7. Cells' BY <1>2, <1>3, <1>5, Types DEF Cells
<1>8. Intent' BY <1>2, <1>3, <1>5 DEF Intent, Bound
<1>9. s # "none" /\ (op = "claim" => state.generation # MaxGenerations)
  BY <1>1, <1>2, Types, CustodyAssumption
<1>10. Working'
  BY <1>3, <1>5, <1>9
  DEF Working, At, Swapping, Concluding, Released, Claiming, Settling
<1>11. Installed' BY <1>3 DEF Installed, Final, At, Claiming
<1> QED BY <1>6, <1>7, <1>8, <1>10, <1>11 DEF CustodyInv

LEMMA CellMoves ==
  ASSUME CustodyInv, Installed, NEW s \in Subject, OpenReader(s) \/ Transfer(s)
  PROVE  CustodyInv' /\ Installed'
<1> USE DEF custody, cells
<1>1. /\ TypeOK /\ Cells /\ Intent /\ Working BY DEF CustodyInv
<1>2. /\ UNCHANGED <<auth, custody, contained, call, moves, faults>>
      /\ s \notin contained
      /\ reader' \in [Subject -> 0..MaxGenerations]
      /\ \A t \in Subject \ {s} : reader'[t] = reader[t]
      /\ session' = session \/ (session' = session \cup {s} /\ state.active = s)
  <2>1. CASE OpenReader(s) BY <1>1, <2>1, Types DEF OpenReader
  <2>2. CASE Transfer(s) BY <1>1, <2>2, Types, CustodyAssumption DEF Transfer, Cells
  <2> QED BY <2>1, <2>2
<1>3. TypeOK' BY <1>1, <1>2 DEF TypeOK
<1>4. Cells' BY <1>1, <1>2, Types DEF Cells
<1>5. Intent' /\ Working'
  BY <1>1, <1>2
  DEF Intent, Bound, Working, At, Settled, Swapping, Concluding, Released, Claiming,
      Settling
<1>6. Installed' BY <1>2 DEF Installed, Final, At
<1> QED BY <1>3, <1>4, <1>5, <1>6 DEF CustodyInv

LEMMA ReceiptForgotten ==
  ASSUME CustodyInv, Installed, NEW s \in Subject, Forget(s)
  PROVE  CustodyInv' /\ Installed'
<1> USE DEF Forget, World, custody, cells
<1>1. /\ TypeOK /\ Cells /\ Intent /\ Working BY DEF CustodyInv
<1>2. /\ receipts' \in [Subject -> Receipt \cup {NoReceipt}]
      /\ \A t \in Subject \ {s} : receipts'[t] = receipts[t]
      /\ pending # NoReceipt => pending.subject \in Subject \ {s}
  BY <1>1, Types, ReceiptShape DEF Pends
<1>3. TypeOK' BY <1>1, <1>2 DEF TypeOK
<1>4. Cells' BY <1>1 DEF Cells
<1>5. Intent' BY <1>1, <1>2 DEF Intent, Bound
<1>6. Working'
  BY <1>1 DEF Working, At, Swapping, Concluding, Released, Claiming, Settling
<1>7. Installed' BY <1>2 DEF Installed, Final, At, Claiming
<1> QED BY <1>3, <1>4, <1>5, <1>6, <1>7 DEF CustodyInv

------------------------------------------------------------------------------
(* The file operations of a call.                                             *)
LEMMA Replaced ==
  ASSUME CustodyInv, Installed, Replace
  PROVE  CustodyInv' /\ Installed'
<1> USE DEF World, custody, cells, At
<1>1. /\ TypeOK /\ Cells /\ Intent /\ Working BY DEF CustodyInv
<1>2. /\ call.pc = "replace" /\ Goto("verify")
      /\ auth' = pendingAuth /\ pendingAuth' = "none"
      /\ UNCHANGED <<state, original, pending, receipts, cells, moves, faults>>
  BY DEF Replace
<1>3. /\ call' \in CallRecord /\ call'.pc = "verify" /\ call'.op = call.op
      /\ call'.subject = call.subject
  BY <1>1, <1>2, Types, CallAfter DEF Pcs
<1>4. /\ pending # NoReceipt /\ pending.disposition = "updated"
      /\ state.active # "none" /\ pendingAuth = pending.result
      /\ pending.result \in Credential
  BY <1>1, <1>2 DEF Working, Swapping, Intent
<1>5. TypeOK' BY <1>1, <1>2, <1>3 DEF TypeOK, CallRecord, MaybeCredential
<1>6. Cells' BY <1>1, <1>2 DEF Cells
<1>7. Intent' BY <1>1, <1>2 DEF Intent, Bound
<1>8. Working'
  BY <1>1, <1>2, <1>3 DEF Working, Swapping, Concluding, Released, Claiming, Settling
<1>9. Installed'
  BY <1>2, <1>3, <1>4, ReceiptShape DEF Installed, Final, Claiming
<1> QED BY <1>5, <1>6, <1>7, <1>8, <1>9 DEF CustodyInv

LEMMA ReceiptRetained ==
  ASSUME CustodyInv, Installed, RetainReceipt
  PROVE  CustodyInv' /\ Installed'
<1> USE DEF World, custody, cells, At
<1>1. /\ TypeOK /\ Cells /\ Intent /\ Working BY DEF CustodyInv
<1>2. /\ call.pc = "receipt" /\ Goto("release")
      /\ receipts' = [receipts EXCEPT ![pending.subject] = pending]
      /\ UNCHANGED <<auth, state, original, pendingAuth, pending, cells, moves, faults>>
  BY DEF RetainReceipt
<1>3. /\ call' \in CallRecord /\ call'.pc = "release" /\ call'.op = call.op
      /\ call'.subject = call.subject
  BY <1>1, <1>2, Types, CallAfter DEF Pcs
<1>4. pending \in Receipt /\ pending # NoReceipt /\ pending.subject = call.subject
  BY <1>1, <1>2, Types DEF Working
<1>5. /\ receipts' \in [Subject -> Receipt \cup {NoReceipt}]
      /\ receipts'[pending.subject] = pending
  BY <1>1, <1>2, <1>4, Types, ReceiptShape
<1>6. TypeOK' BY <1>1, <1>2, <1>3, <1>5 DEF TypeOK, CallRecord
<1>7. Cells' BY <1>1, <1>2 DEF Cells
<1>8. Intent' BY <1>1, <1>2, <1>5 DEF Intent, Bound
<1>9. Working'
  BY <1>1, <1>2, <1>3, <1>4, <1>5
  DEF Working, Swapping, Concluding, Released, Claiming, Settling
<1>10. Installed' BY <1>2, <1>3, <1>4 DEF Installed, Final, Claiming
<1> QED BY <1>6, <1>7, <1>8, <1>9, <1>10 DEF CustodyInv

LEMMA ClaimReleased ==
  ASSUME CustodyInv, Installed, Release
  PROVE  CustodyInv' /\ Installed'
<1> USE DEF World, custody, cells, At
<1>1. /\ TypeOK /\ Cells /\ Intent /\ Working BY DEF CustodyInv
<1>2. /\ call.pc = "release" /\ Goto("unoriginal")
      /\ state'.generation = pending.generation /\ state'.credential = Final
      /\ state'.active = "none"
      /\ state' = [generation |-> pending.generation, credential |-> Final,
                   blocked |-> IF pending.disposition = "lost" THEN pending.original
                                                               ELSE "none",
                   active |-> "none"]
      /\ UNCHANGED <<auth, original, pendingAuth, pending, receipts, cells, moves,
                     faults>>
  BY DEF Release, Final
<1>3. /\ call' \in CallRecord /\ call'.pc = "unoriginal" /\ call'.op = call.op
      /\ call'.subject = call.subject
  BY <1>1, <1>2, Types, CallAfter DEF Pcs
<1>4. /\ pending \in Receipt /\ pending # NoReceipt /\ pending.subject = call.subject
      /\ receipts[pending.subject] = pending
  BY <1>1, <1>2, Types DEF Working, Concluding
<1>5. /\ pending.generation \in 1..MaxGenerations /\ Final \in Credential
      /\ pending.original \in Credential
  BY <1>4, ReceiptShape DEF Final, MaybeCredential
<1>6. session = {}
  BY <1>1, <1>4, Types, ReceiptShape DEF Cells, Intent, Bound
<1>7. state' \in State /\ state'.generation # 0
  BY <1>2, <1>5, ReceiptShape DEF State, MaybeCredential
<1>8. TypeOK'
  BY <1>1, <1>2, <1>3, <1>5, <1>7 DEF TypeOK, CallRecord, State
<1>9. Cells' BY <1>1, <1>2, <1>6 DEF Cells
<1>10. Intent' BY <1>1, <1>2, <1>4 DEF Intent, Bound
<1>11. call.op = "claim" => state'.generation # MaxGenerations
  BY <1>1, <1>2, <1>4 DEF Working, Intent, Bound
<1>12. Working'
  BY <1>1, <1>2, <1>3, <1>4, <1>11
  DEF Working, Swapping, Concluding, Released, Claiming, Settling
<1>13. Installed'
  BY <1>2, <1>3, <1>4 DEF Installed, Final, Claiming
<1> QED BY <1>8, <1>9, <1>10, <1>12, <1>13 DEF CustodyInv

LEMMA FilesWritten ==
  ASSUME CustodyInv, Installed,
         \/ RemoveOriginal \/ RemovePrepared \/ RemovePending
         \/ WriteSnapshot \/ PrepareReplacement
  PROVE  CustodyInv' /\ Installed'
<1> USE DEF World, custody, cells, At
<1>1. /\ TypeOK /\ Cells /\ Intent /\ Working BY DEF CustodyInv
<1>2. UNCHANGED <<auth, state, receipts, cells, moves, faults>>
  BY DEF RemoveOriginal, RemovePrepared, RemovePending, WriteSnapshot,
         PrepareReplacement
<1>3. Cells' BY <1>1, <1>2 DEF Cells
<1>4. call \in CallRecord BY <1>1, Types
<1>5. CASE RemoveOriginal
  <2>1. /\ call' \in CallRecord /\ call'.pc = "unprepared" /\ call'.op = call.op
        /\ call'.subject = call.subject
    BY <1>4, <1>5, CallAfter DEF RemoveOriginal, Pcs
  <2>2. TypeOK'
    BY <1>1, <1>2, <1>5, <2>1 DEF RemoveOriginal, TypeOK, CallRecord, MaybeCredential
  <2>3. Intent' BY <1>1, <1>2, <1>5 DEF RemoveOriginal, Intent, Bound
  <2>4. Working'
    BY <1>1, <1>2, <1>5, <2>1
    DEF RemoveOriginal, Working, Swapping, Concluding, Released, Claiming, Settling
  <2>5. Installed' BY <1>2, <1>5, <2>1 DEF RemoveOriginal, Installed, Final, Claiming
  <2> QED BY <1>3, <2>2, <2>3, <2>4, <2>5 DEF CustodyInv
<1>6. CASE RemovePrepared
  <2>1. /\ call' \in CallRecord /\ call'.pc = "unpending" /\ call'.op = call.op
        /\ call'.subject = call.subject
    BY <1>4, <1>6, CallAfter DEF RemovePrepared, Pcs
  <2>2. TypeOK'
    BY <1>1, <1>2, <1>6, <2>1 DEF RemovePrepared, TypeOK, CallRecord, MaybeCredential
  <2>3. Intent' BY <1>1, <1>2, <1>6 DEF RemovePrepared, Intent, Bound
  <2>4. Working'
    BY <1>1, <1>2, <1>6, <2>1
    DEF RemovePrepared, Working, Swapping, Concluding, Released, Claiming, Settling
  <2>5. Installed' BY <1>2, <1>6, <2>1 DEF RemovePrepared, Installed, Final, Claiming
  <2> QED BY <1>3, <2>2, <2>3, <2>4, <2>5 DEF CustodyInv
<1>7. CASE RemovePending
  <2>1. /\ call' \in CallRecord /\ call'.pc = "request" /\ call'.op = call.op
        /\ call'.subject = call.subject
    BY <1>4, <1>7, CallAfter DEF RemovePending, Pcs
  <2>2. state.active = "none" BY <1>1, <1>7 DEF RemovePending, Working, Released
  <2>3. TypeOK' BY <1>1, <1>2, <1>7, <2>1 DEF RemovePending, TypeOK, CallRecord
  <2>4. Intent' BY <1>1, <1>2, <1>7 DEF RemovePending, Intent
  <2>5. Working'
    BY <1>1, <1>2, <1>7, <2>1
    DEF RemovePending, Working, Swapping, Concluding, Released, Claiming, Settling
  <2>6. Installed' BY <1>2, <1>7, <2>1, <2>2 DEF RemovePending, Installed, Claiming
  <2> QED BY <1>3, <2>3, <2>4, <2>5, <2>6 DEF CustodyInv
<1>8. CASE WriteSnapshot
  <2>1. /\ call' \in CallRecord /\ call'.pc = "confirm" /\ call'.op = call.op
        /\ call'.subject = call.subject /\ call'.bytes = call.bytes
    BY <1>4, <1>8, CallAfter DEF WriteSnapshot, Pcs
  <2>2. call.pc = "snapshot" /\ call.bytes \in MaybeCredential
    BY <1>4, <1>8 DEF WriteSnapshot, CallRecord
  <2>3. TypeOK' BY <1>1, <1>2, <1>8, <2>1, <2>2 DEF WriteSnapshot, TypeOK, CallRecord
  <2>4. Intent' BY <1>1, <1>2, <1>8 DEF WriteSnapshot, Intent, Bound
  <2>5. Working'
    BY <1>1, <1>2, <1>8, <2>1, <2>2
    DEF WriteSnapshot, Working, Swapping, Concluding, Released, Claiming, Settling
  <2>6. Installed'
    BY <1>2, <1>8, <2>1, <2>2 DEF WriteSnapshot, Installed, Final, Claiming
  <2> QED BY <1>3, <2>3, <2>4, <2>5, <2>6 DEF CustodyInv
<1>9. CASE PrepareReplacement
  <2>1. /\ call' \in CallRecord /\ call'.pc = "intend" /\ call'.op = call.op
        /\ call'.subject = call.subject /\ call'.outcome = call.outcome
    BY <1>4, <1>9, CallAfter DEF PrepareReplacement, Pcs
  <2>2. call.pc = "prepare" /\ call.outcome.bytes \in MaybeCredential
    BY <1>1, <1>9, Types, ReceiptShape DEF PrepareReplacement
  <2>3. pending = NoReceipt BY <1>1, <2>2 DEF Working, Settling
  <2>4. TypeOK'
    BY <1>1, <1>2, <1>9, <2>1, <2>2 DEF PrepareReplacement, TypeOK, CallRecord
  <2>5. Intent' BY <1>1, <1>2, <1>9, <2>3 DEF PrepareReplacement, Intent
  <2>6. Working'
    BY <1>1, <1>2, <1>9, <2>1, <2>2
    DEF PrepareReplacement, Working, Settled, Swapping, Concluding, Released, Claiming,
        Settling
  <2>7. Installed'
    BY <1>2, <1>9, <2>1, <2>3 DEF PrepareReplacement, Installed, Claiming
  <2> QED BY <1>3, <2>4, <2>5, <2>6, <2>7 DEF CustodyInv
<1> QED BY <1>5, <1>6, <1>7, <1>8, <1>9

LEMMA ClaimRetained ==
  ASSUME CustodyInv, Installed, RetainClaim
  PROVE  CustodyInv' /\ Installed'
<1> USE DEF World, custody, cells, At
<1>1. /\ TypeOK /\ Cells /\ Intent /\ Working BY DEF CustodyInv
<1>2. /\ call.pc = "retain" /\ EndCall
      /\ state' = [generation |-> state.generation + 1, credential |-> call.bytes,
                   blocked |-> "none", active |-> call.subject]
      /\ UNCHANGED <<auth, original, pendingAuth, pending, receipts, cells, moves,
                     faults>>
  BY DEF RetainClaim
<1>3. /\ call' \in CallRecord /\ call'.pc = "idle" /\ call'.op = "none"
      /\ call'.subject = "none"
  BY <1>1, <1>2, Types, CallAfter
<1>4. /\ state.generation # MaxGenerations /\ call.bytes \in Credential
      /\ state.active = "none" /\ pending = NoReceipt
  BY <1>1, <1>2 DEF Working, Claiming
<1>5. /\ state.generation + 1 \in 0..MaxGenerations /\ state.generation + 1 # 0
      /\ call.bytes # "none"
  BY <1>1, <1>4, Types, CustodyAssumption
<1>6. session = {} BY <1>1, <1>4, Types, CustodyAssumption DEF Cells
<1>7. TypeOK'
  BY <1>1, <1>2, <1>3, <1>4, <1>5, Types DEF TypeOK, CallRecord, MaybeCredential
<1>8. Cells' BY <1>1, <1>2, <1>6 DEF Cells
<1>9. Intent' BY <1>2, <1>4, <1>5 DEF Intent
<1>10. Working' BY <1>3, EndedWorks
<1>11. Installed' BY <1>2, <1>3, <1>4, <1>5 DEF Installed, Claiming
<1> QED BY <1>7, <1>8, <1>9, <1>10, <1>11 DEF CustodyInv

LEMMA SettlementIntended ==
  ASSUME CustodyInv, Installed, IntendSettlement
  PROVE  CustodyInv' /\ Installed'
<1> USE DEF World, custody, cells, At
<1> DEFINE r == IF call.outcome.kind = "unused" THEN state.credential
                                                ELSE call.outcome.bytes
<1>1. /\ TypeOK /\ Cells /\ Intent /\ Working BY DEF CustodyInv
<1>2. /\ call.pc = "intend" /\ Goto("resume")
      /\ pending' = [subject |-> call.subject, generation |-> state.generation,
                     disposition |-> call.outcome.kind, original |-> state.credential,
                     result |-> r]
      /\ UNCHANGED <<auth, state, original, pendingAuth, receipts, cells, moves,
                     faults>>
  BY DEF IntendSettlement
<1>3. /\ call' \in CallRecord /\ call'.pc = "resume" /\ call'.op = call.op
      /\ call'.subject = call.subject
  BY <1>1, <1>2, Types, CallAfter DEF Pcs
<1>4. /\ state.active = call.subject /\ pending = NoReceipt
      /\ ~Settled(call.subject) /\ call.subject \in contained
      /\ call.outcome.kind = "updated" => pendingAuth = call.outcome.bytes
      /\ call.subject \in Subject /\ call.subject # "none"
  BY <1>1, <1>2, Types DEF Working, Settling
<1>5. /\ state.generation \in 1..MaxGenerations /\ state.credential \in Credential
  BY <1>1, <1>4, Types, CustodyAssumption DEF Intent
<1>6. /\ call.outcome.kind \in Kinds /\ r \in MaybeCredential
      /\ call.outcome.kind = "updated" => r \in Credential /\ r = pendingAuth
      /\ call.outcome.kind = "unused" => r = state.credential
      /\ call.outcome.kind = "lost" => r = "none"
  BY <1>1, <1>4, <1>5, Types, ReceiptShape DEF MaybeCredential
<1> HIDE DEF r
<1>7. /\ pending' \in Receipt
      /\ pending'.subject = call.subject /\ pending'.generation = state.generation
      /\ pending'.disposition = call.outcome.kind
      /\ pending'.original = state.credential /\ pending'.result = r
  BY <1>2, <1>4, <1>5, <1>6 DEF Receipt
<1>8. receipts[call.subject] # pending'
  BY <1>4, <1>7, ReceiptShape DEF Settled
<1>9. TypeOK' BY <1>1, <1>2, <1>3, <1>7 DEF TypeOK, CallRecord
<1>10. Cells' BY <1>1, <1>2 DEF Cells
<1>11. Intent'
  BY <1>1, <1>2, <1>4, <1>5, <1>6, <1>7 DEF Intent, Bound
<1>12. Working'
  BY <1>1, <1>2, <1>3, <1>7
  DEF Working, Swapping, Concluding, Released, Claiming, Settling
<1>13. Installed'
  BY <1>2, <1>3, <1>4, <1>5, <1>7, <1>8, ReceiptShape DEF Installed, Claiming
<1> QED BY <1>9, <1>10, <1>11, <1>12, <1>13 DEF CustodyInv

------------------------------------------------------------------------------
(* A death, and the owner of the installation.                                *)
LEMMA CallDies ==
  ASSUME CustodyInv, Installed, Crash
  PROVE  CustodyInv' /\ Installed'
<1> USE DEF custody, cells, At
<1>1. /\ TypeOK /\ Cells /\ Intent /\ Working BY DEF CustodyInv
<1>2. /\ EndCall /\ faults' = faults + 1 /\ faults < MaxFaults
      /\ reader' = [reader EXCEPT ![call.subject] = 0]
      /\ UNCHANGED <<auth, custody, contained, session, moves>>
  BY DEF Crash
<1>3. /\ call' \in CallRecord /\ call'.pc = "idle" /\ call'.op = "none"
      /\ call'.subject = "none"
  BY <1>1, <1>2, Types, CallAfter
<1>4. /\ reader' \in [Subject -> 0..MaxGenerations]
      /\ \A t \in contained : reader'[t] = 0
  <2>1. /\ reader \in [Subject -> 0..MaxGenerations] /\ contained \subseteq Subject
        /\ 0 \in 0..MaxGenerations
        /\ \A t \in contained : reader[t] = 0
    BY <1>1, Types, CustodyAssumption DEF Cells
  <2> QED BY <1>2, <2>1
<1>5. faults' \in 0..MaxFaults BY <1>1, <1>2, Types, CustodyAssumption
<1>6. TypeOK' BY <1>1, <1>2, <1>3, <1>4, <1>5 DEF TypeOK, CallRecord
<1>7. Cells' BY <1>1, <1>2, <1>4 DEF Cells
<1>8. Intent' BY <1>1, <1>2 DEF Intent, Bound
<1>9. Working' BY <1>3, EndedWorks
<1>10. Installed' BY <1>2, <1>3 DEF Installed, Final, Claiming
<1> QED BY <1>6, <1>7, <1>8, <1>9, <1>10 DEF CustodyInv

\* While the owner never changed the file there is nothing to give back.
LEMMA OwnerMoves ==
  ASSUME CustodyInv, Installed, OwnerChanges \/ OwnerReinstates
  PROVE  CustodyInv' /\ Installed'
<1> USE DEF custody, cells
<1>1. /\ TypeOK /\ Cells /\ Intent /\ Working BY DEF CustodyInv
<1>2. UNCHANGED <<custody, cells, call, faults>>
  BY DEF OwnerChanges, OwnerReinstates
<1>3. /\ auth' \in MaybeCredential
      /\ moves' \in 0..MaxMoves /\ moves' # 0
  <2>1. CASE OwnerChanges BY <1>1, <2>1, Types, CustodyAssumption DEF OwnerChanges
  <2>2. CASE OwnerReinstates
    <3>1. state.active # "none" /\ auth # state.credential
          /\ (pending # NoReceipt => auth # pending.result)
          /\ auth' = state.credential /\ moves' = moves
      BY <2>2 DEF OwnerReinstates
    <3>2. moves # 0
      BY <1>1, <3>1 DEF Installed, Intent, Bound
    <3> QED BY <1>1, <3>1, <3>2, Types
  <2> QED BY <2>1, <2>2
<1>4. TypeOK' BY <1>1, <1>2, <1>3 DEF TypeOK
<1>5. Cells' BY <1>1, <1>2 DEF Cells
<1>6. Intent' /\ Working'
  BY <1>1, <1>2
  DEF Intent, Bound, Working, At, Settled, Swapping, Concluding, Released, Claiming,
      Settling
<1>7. Installed' BY <1>3 DEF Installed
<1> QED BY <1>4, <1>5, <1>6, <1>7 DEF CustodyInv

LEMMA Stutters ==
  ASSUME CustodyInv, Installed, UNCHANGED vars
  PROVE  CustodyInv' /\ Installed'
<1> USE DEF vars, custody, cells
<1>1. /\ TypeOK /\ Cells /\ Intent /\ Working BY DEF CustodyInv
<1>2. TypeOK' /\ Cells' BY <1>1 DEF TypeOK, Cells
<1>3. Intent' /\ Working'
  BY <1>1
  DEF Intent, Bound, Working, At, Settled, Swapping, Concluding, Released, Claiming,
      Settling
<1>4. Installed' BY DEF Installed, Final, At
<1> QED BY <1>2, <1>3, <1>4 DEF CustodyInv

------------------------------------------------------------------------------
(* The invariant.                                                             *)
LEMMA NextCustody == CustodyInv /\ Installed /\ [Next]_vars => CustodyInv' /\ Installed'
<1> SUFFICES ASSUME CustodyInv, Installed, [Next]_vars
             PROVE  CustodyInv' /\ Installed'
  OBVIOUS
<1>1. ASSUME NEW s \in Subject, Claim(s) \/ Settlement(s) \/ \E o \in Outcome : Settle(s, o)
      PROVE  CustodyInv' /\ Installed'
  BY <1>1, CallBegins
<1>2. ASSUME NEW s \in Subject, OpenReader(s) \/ Transfer(s)
      PROVE  CustodyInv' /\ Installed'
  BY <1>2, CellMoves
<1>3. ASSUME NEW s \in Subject, Forget(s) PROVE CustodyInv' /\ Installed'
  BY <1>3, ReceiptForgotten
<1>4. CASE CallStep
  <2>1. CASE \/ NothingToResume \/ Resume \/ ResumeRefused \/ Recheck \/ Verify
             \/ (\E s \in Subject : ReadCredential(s) \/ BeginSettlement(s))
             \/ Confirm \/ Answer
    BY <2>1, CallMoves
  <2>2. CASE \/ RemoveOriginal \/ RemovePrepared \/ RemovePending
             \/ WriteSnapshot \/ PrepareReplacement
    BY <2>2, FilesWritten
  <2>3. CASE Replace BY <2>3, Replaced
  <2>4. CASE RetainReceipt BY <2>4, ReceiptRetained
  <2>5. CASE Release BY <2>5, ClaimReleased
  <2>6. CASE RetainClaim BY <2>6, ClaimRetained
  <2>7. CASE IntendSettlement BY <2>7, SettlementIntended
  <2> QED BY <1>4, <2>1, <2>2, <2>3, <2>4, <2>5, <2>6, <2>7 DEF CallStep, ResumeStep
<1>5. CASE Crash BY <1>5, CallDies
<1>6. CASE OwnerChanges \/ OwnerReinstates BY <1>6, OwnerMoves
<1>7. CASE UNCHANGED vars BY <1>7, Stutters
<1> QED BY <1>1, <1>2, <1>3, <1>4, <1>5, <1>6, <1>7 DEF Next

LEMMA AlwaysCustody == Spec => [](CustodyInv /\ Installed)
BY InitCustody, NextCustody, PTL DEF Spec

(* Every file, every reader and every call has its type in every state of     *)
(* every installation, under any interleaving of deaths and owner changes.    *)
THEOREM CredentialTyped == Spec => []TypeOK
BY AlwaysCustody, PTL DEF CustodyInv

(* At most one Cell ever has the refreshable session, and it is the Cell of   *)
(* the active claim: read transfers under the claim only, and settlement      *)
(* releases a claim only after its Cell was contained.                        *)
THEOREM OneSession == Spec => []SessionIsClaimed
<1>1. CustodyInv => SessionIsClaimed BY DEF CustodyInv, Cells, SessionIsClaimed
<1> QED BY <1>1, AlwaysCustody, PTL

(* A retained intent is bound to its claim or to its receipt until it is      *)
(* removed: no resume meets one that it must refuse as substituted.           *)
THEOREM IntentHolds == Spec => []IntentIsBound
<1>1. CustodyInv => IntentIsBound BY DEF CustodyInv, Intent, IntentIsBound
<1> QED BY <1>1, AlwaysCustody, PTL

(* Where the owner leaves auth.json alone, the next claim takes the bytes the *)
(* last settlement installed, wherever its calls died.                        *)
THEOREM RefreshIsTaken == Spec => RefreshReachesNextClaim
<1> DEFINE Taken == moves = 0 /\ state.generation > 0
                    /\ state'.generation > state.generation
                    => state'.credential = state.credential
<1>1. ASSUME CustodyInv, Installed, [Next]_vars
      PROVE  [Taken]_vars
  <2> SUFFICES ASSUME Next, moves = 0, state.generation > 0,
                      state'.generation > state.generation
               PROVE  state'.credential = state.credential
    BY <1>1
  <2> USE DEF World, custody, cells, At
  <2>1. /\ TypeOK /\ Intent /\ Working BY <1>1 DEF CustodyInv
  <2>2. state.generation \in Nat BY <2>1, Types, CustodyAssumption
  <2>3. ~UNCHANGED state BY <2>2
  <2>4. Release \/ RetainClaim
    <3>1. ~\E s \in Subject : Claim(s) \/ Settlement(s) \/ \E o \in Outcome : Settle(s, o)
      BY <2>3 DEF Claim, Settlement, Settle, Begin
    <3>2. ~\E s \in Subject : OpenReader(s) \/ Transfer(s) \/ Forget(s)
      BY <2>3 DEF OpenReader, Transfer, Forget
    <3>3. ~(Crash \/ OwnerChanges \/ OwnerReinstates)
      BY <2>3 DEF Crash, OwnerChanges, OwnerReinstates
    <3>4. CallStep BY <3>1, <3>2, <3>3 DEF Next
    <3>5. /\ ~\E s \in Subject : ReadCredential(s) \/ BeginSettlement(s)
          /\ ~(WriteSnapshot \/ Confirm \/ PrepareReplacement \/ IntendSettlement
               \/ Answer)
      BY <2>3 DEF ReadCredential, BeginSettlement, WriteSnapshot, Confirm,
                  PrepareReplacement, IntendSettlement, Answer
    <3>6. ~(NothingToResume \/ Resume \/ ResumeRefused \/ Recheck \/ Replace \/ Verify
           \/ RetainReceipt \/ RemoveOriginal \/ RemovePrepared \/ RemovePending)
      BY <2>3 DEF NothingToResume, Resume, ResumeRefused, Recheck, Replace, Verify,
                  RetainReceipt, RemoveOriginal, RemovePrepared, RemovePending
    <3> QED BY <3>4, <3>5, <3>6 DEF CallStep, ResumeStep
  <2>5. CASE Release
    <3>1. pending # NoReceipt /\ state'.generation = pending.generation
      BY <2>1, <2>5 DEF Release, Working, Concluding
    <3>2. state'.generation = state.generation
      BY <2>1, <3>1 DEF Intent, Bound
    <3> QED BY <2>2, <3>2
  <2>6. CASE RetainClaim
    <3>1. state'.credential = call.bytes /\ call.pc = "retain" BY <2>6 DEF RetainClaim
    <3>2. state.active = "none" BY <2>1, <3>1 DEF Working, Claiming
    <3> QED BY <1>1, <2>2, <3>1, <3>2 DEF Installed, Claiming
  <2> QED BY <2>4, <2>5, <2>6
<1> QED BY <1>1, AlwaysCustody, PTL DEF Spec, RefreshReachesNextClaim

------------------------------------------------------------------------------
(* The files as one lease.                                                    *)

\* What is needed beyond the invariant: what a claim was checked for still
\* holds when it is retained, a receipt of the active claim is its intent, and
\* releasing a second time changes nothing.
Recorded ==
  /\ state.active # "none" => receipts[state.active] \in {NoReceipt, pending}
  /\ pending # NoReceipt /\ state.active = "none" =>
       /\ state.credential = Final
       /\ state.blocked = IF pending.disposition = "lost" THEN pending.original
                                                         ELSE "none"
  /\ call.pc \in Claiming =>
       ~Settled(call.subject) /\ call.bytes # state.blocked

LeaseInv == CustodyInv /\ Installed /\ Recorded

\* A step that writes none of the files a lease is read from.
LEMMA CallRecords ==
  ASSUME Recorded, UNCHANGED <<state, pending, receipts>>,
         call'.pc \in Claiming =>
           /\ call.pc \in Claiming
           /\ call'.subject = call.subject /\ call'.bytes = call.bytes
  PROVE  Recorded'
BY DEF Recorded, Final, Settled

LEMMA EndedRecords ==
  ASSUME Recorded, UNCHANGED <<state, pending, receipts>>, EndCall
  PROVE  Recorded'
<1>1. call'.pc \notin Claiming BY DEF EndCall, NoCall, Claiming
<1> QED BY <1>1, CallRecords

LEMMA GoneRecords ==
  ASSUME Recorded, UNCHANGED <<state, pending, receipts>>, call \in CallRecord,
         NEW pc \in Pcs, Goto(pc), pc \in Claiming => call.pc \in Claiming
  PROVE  Recorded'
<1>1. call'.pc = pc /\ call'.subject = call.subject /\ call'.bytes = call.bytes
  BY CallAfter
<1> QED BY <1>1, CallRecords

LEMMA CallStepRecords ==
  ASSUME LeaseInv, CallStep
  PROVE  Recorded'
<1> USE DEF World, custody, cells, At
<1>1. /\ TypeOK /\ Cells /\ Intent /\ Working /\ Recorded /\ Installed
  BY DEF LeaseInv, CustodyInv
<1>2. call \in CallRecord BY <1>1, Types
<1>3. CASE NothingToResume
  <2>1. UNCHANGED <<state, pending, receipts>> /\ Goto("request")
    BY <1>3 DEF NothingToResume
  <2> QED BY <1>1, <1>2, <2>1, GoneRecords DEF Pcs, Claiming
<1>4. CASE Resume
  <2>1. UNCHANGED <<state, pending, receipts>> /\ Goto(ResumedAt)
    BY <1>4 DEF Resume
  <2>2. ResumedAt \in {"release", "receipt", "recheck", "verify"} BY DEF ResumedAt
  <2>3. ResumedAt \in Pcs /\ ResumedAt \notin Claiming BY <2>2 DEF Pcs, Claiming
  <2> QED BY <1>1, <1>2, <2>1, <2>3, GoneRecords
<1>5. CASE ResumeRefused
  <2>1. UNCHANGED <<state, pending, receipts>> /\ EndCall BY <1>5 DEF ResumeRefused
  <2> QED BY <1>1, <2>1, EndedRecords
<1>6. CASE Recheck
  <2>1. UNCHANGED <<state, pending, receipts>> /\ (EndCall \/ Goto("replace"))
    BY <1>6 DEF Recheck
  <2> QED BY <1>1, <1>2, <2>1, EndedRecords, GoneRecords DEF Pcs, Claiming
<1>7. CASE Replace
  <2>1. UNCHANGED <<state, pending, receipts>> /\ Goto("verify") BY <1>7 DEF Replace
  <2> QED BY <1>1, <1>2, <2>1, GoneRecords DEF Pcs, Claiming
<1>8. CASE Verify
  <2>1. UNCHANGED <<state, pending, receipts>> /\ (EndCall \/ Goto("receipt"))
    BY <1>8 DEF Verify
  <2> QED BY <1>1, <1>2, <2>1, EndedRecords, GoneRecords DEF Pcs, Claiming
<1>9. CASE RetainReceipt
  <2>1. /\ UNCHANGED <<state, pending>> /\ Goto("release") /\ call.pc = "receipt"
        /\ receipts' = [receipts EXCEPT ![pending.subject] = pending]
    BY <1>9 DEF RetainReceipt
  <2>2. call'.pc = "release" BY <1>2, <2>1, CallAfter DEF Pcs
  <2>3. state.active = pending.subject /\ pending # NoReceipt
    BY <1>1, <2>1 DEF Working
  <2>4. pending.subject \in Subject BY <1>1, <2>3, Types, ReceiptShape
  <2>5. receipts'[state.active] = pending BY <1>1, <2>1, <2>3, <2>4, Types
  <2> QED BY <1>1, <2>1, <2>2, <2>3, <2>4, <2>5, ReceiptShape
          DEF Recorded, Claiming
<1>10. CASE Release
  <2>1. /\ UNCHANGED <<pending, receipts>> /\ Goto("unoriginal")
        /\ state'.active = "none"
        /\ state'.credential = IF pending.result = "none" THEN pending.original
                                                         ELSE pending.result
        /\ state'.blocked = IF pending.disposition = "lost" THEN pending.original
                                                           ELSE "none"
    BY <1>10 DEF Release
  <2>2. call'.pc = "unoriginal" BY <1>2, <2>1, CallAfter DEF Pcs
  <2> QED BY <2>1, <2>2 DEF Recorded, Claiming, Final
<1>11. CASE RemoveOriginal
  <2>1. UNCHANGED <<state, pending, receipts>> /\ Goto("unprepared")
    BY <1>11 DEF RemoveOriginal
  <2> QED BY <1>1, <1>2, <2>1, GoneRecords DEF Pcs, Claiming
<1>12. CASE RemovePrepared
  <2>1. UNCHANGED <<state, pending, receipts>> /\ Goto("unpending")
    BY <1>12 DEF RemovePrepared
  <2> QED BY <1>1, <1>2, <2>1, GoneRecords DEF Pcs, Claiming
<1>13. CASE RemovePending
  <2>1. /\ UNCHANGED <<state, receipts>> /\ pending' = NoReceipt
        /\ Goto("request") /\ call.pc = "unpending"
    BY <1>13 DEF RemovePending
  <2>2. call'.pc = "request" BY <1>2, <2>1, CallAfter DEF Pcs
  <2>3. state.active = "none" BY <1>1, <2>1 DEF Working, Released
  <2> QED BY <2>1, <2>2, <2>3 DEF Recorded, Claiming
<1>14. CASE \E s \in Subject : ReadCredential(s)
  <2>1. /\ UNCHANGED <<state, pending, receipts>> /\ Claimable(call.subject)
        /\ call' = [call EXCEPT !.pc = "snapshot", !.bytes = auth]
    BY <1>14 DEF ReadCredential
  <2>2. call'.subject = call.subject /\ call'.bytes = auth
    BY <1>2, <2>1 DEF CallRecord
  <2>3. ~Settled(call.subject) /\ auth # state.blocked BY <2>1 DEF Claimable
  <2> QED BY <1>1, <2>1, <2>2, <2>3 DEF Recorded, Settled, Final
<1>15. CASE \E s \in Subject : BeginSettlement(s)
  <2>1. /\ UNCHANGED <<state, pending, receipts>>
        /\ Goto("prepare") \/ Goto("intend")
    BY <1>15 DEF BeginSettlement
  <2> QED BY <1>1, <1>2, <2>1, GoneRecords DEF Pcs, Claiming
<1>16. CASE WriteSnapshot
  <2>1. UNCHANGED <<state, pending, receipts>> /\ Goto("confirm") /\ call.pc = "snapshot"
    BY <1>16 DEF WriteSnapshot
  <2> QED BY <1>1, <1>2, <2>1, GoneRecords DEF Pcs, Claiming
<1>17. CASE Confirm
  <2>1. /\ UNCHANGED <<state, pending, receipts>> /\ call.pc = "confirm"
        /\ EndCall \/ Goto("retain")
    BY <1>17 DEF Confirm
  <2> QED BY <1>1, <1>2, <2>1, EndedRecords, GoneRecords DEF Pcs, Claiming
<1>18. CASE RetainClaim
  <2>1. /\ UNCHANGED <<pending, receipts>> /\ EndCall /\ call.pc = "retain"
        /\ state'.active = call.subject
    BY <1>18 DEF RetainClaim
  <2>2. call'.pc = "idle" BY <1>2, <2>1, CallAfter
  <2>3. receipts[call.subject] = NoReceipt /\ pending = NoReceipt
    BY <1>1, <2>1 DEF Recorded, Working, Claiming, Settled
  <2> QED BY <2>1, <2>2, <2>3 DEF Recorded, Claiming
<1>19. CASE PrepareReplacement
  <2>1. UNCHANGED <<state, pending, receipts>> /\ Goto("intend")
    BY <1>19 DEF PrepareReplacement
  <2> QED BY <1>1, <1>2, <2>1, GoneRecords DEF Pcs, Claiming
<1>20. CASE IntendSettlement
  <2>1. UNCHANGED <<state, receipts>> /\ Goto("resume") /\ call.pc = "intend"
    BY <1>20 DEF IntendSettlement
  <2>2. call'.pc = "resume" BY <1>2, <2>1, CallAfter DEF Pcs
  <2>3. state.active = call.subject /\ receipts[call.subject] = NoReceipt
        /\ call.subject # "none"
    BY <1>1, <2>1 DEF Working, Settling, Settled
  <2> QED BY <2>1, <2>2, <2>3 DEF Recorded, Claiming
<1>21. CASE Answer
  <2>1. UNCHANGED <<state, pending, receipts>> /\ EndCall BY <1>21 DEF Answer
  <2> QED BY <1>1, <2>1, EndedRecords
<1> QED BY <1>3, <1>4, <1>5, <1>6, <1>7, <1>8, <1>9, <1>10, <1>11, <1>12, <1>13,
           <1>14, <1>15, <1>16, <1>17, <1>18, <1>19, <1>20, <1>21
        DEF CallStep, ResumeStep

LEMMA NextRecords == LeaseInv /\ [Next]_vars => Recorded'
<1> SUFFICES ASSUME LeaseInv, [Next]_vars PROVE Recorded' OBVIOUS
<1> USE DEF World, custody, cells
<1>1. TypeOK /\ Recorded BY DEF LeaseInv, CustodyInv
<1>2. ASSUME NEW s \in Subject, Claim(s) \/ Settlement(s) \/ \E o \in Outcome : Settle(s, o)
      PROVE  Recorded'
  <2>1. UNCHANGED <<state, pending, receipts>> /\ call'.pc = "resume"
    BY <1>2 DEF Claim, Settlement, Settle, Begin
  <2> QED BY <1>1, <2>1, CallRecords DEF Claiming
<1>3. ASSUME NEW s \in Subject, OpenReader(s) \/ Transfer(s) PROVE Recorded'
  BY <1>1, <1>3, CallRecords DEF OpenReader, Transfer
<1>4. ASSUME NEW s \in Subject, Forget(s) PROVE Recorded'
  <2>1. /\ UNCHANGED <<state, pending, call>> /\ call.pc = "idle" /\ state.active # s
        /\ receipts' = [receipts EXCEPT ![s] = NoReceipt]
    BY <1>4 DEF Forget, At
  <2>2. state.active # "none" => receipts'[state.active] = receipts[state.active]
    BY <1>1, <2>1, Types
  <2> QED BY <1>1, <2>1, <2>2 DEF Recorded, Claiming, Final
<1>5. CASE CallStep BY <1>5, CallStepRecords
<1>6. CASE Crash
  <2>1. UNCHANGED <<state, pending, receipts>> /\ EndCall BY <1>6 DEF Crash
  <2> QED BY <1>1, <2>1, EndedRecords
<1>7. CASE OwnerChanges \/ OwnerReinstates \/ UNCHANGED vars
  <2>1. UNCHANGED <<state, pending, receipts, call>>
    BY <1>7 DEF OwnerChanges, OwnerReinstates, vars
  <2> QED BY <1>1, <2>1, CallRecords
<1> QED BY <1>2, <1>3, <1>4, <1>5, <1>6, <1>7 DEF Next

LEMMA LeaseKept ==
  /\ Init => LeaseInv
  /\ LeaseInv /\ [Next]_vars => LeaseInv'
<1>1. Init => Recorded BY DEF Init, Recorded, NoCall, Claiming
<1> QED BY <1>1, InitCustody, NextCustody, NextRecords DEF LeaseInv

------------------------------------------------------------------------------
(* Each step as a step of the lease.                                          *)
LEMMA Mapped ==
  ASSUME TypeOK, Intent
  PROVE  /\ Said(NoReceipt) = Lease!Undecided
         /\ \A r \in Receipt :
              /\ Said(r) = [disposition |-> r.disposition, result |-> r.result]
              /\ Said(r) # Lease!Undecided
         /\ state.active = "none" => Decision = Lease!Undecided
         /\ pending = NoReceipt => Decision = Lease!Undecided
         /\ pending # NoReceipt /\ state.active # "none" =>
              /\ Decision = [disposition |-> pending.disposition,
                             result |-> pending.result]
              /\ Decision # Lease!Undecided
<1>1. Said(NoReceipt) = Lease!Undecided
  BY DEF Said, NoReceipt, Lease!Undecided
<1>2. ASSUME NEW r \in Receipt
      PROVE  /\ Said(r) = [disposition |-> r.disposition, result |-> r.result]
             /\ Said(r) # Lease!Undecided
  <2>1. r # NoReceipt /\ r.disposition # "none" BY ReceiptShape DEF Kinds
  <2>2. Said(r) = [disposition |-> r.disposition, result |-> r.result]
    BY <2>1 DEF Said
  <2> QED BY <2>1, <2>2 DEF Lease!Undecided
<1>3. pending # NoReceipt => pending \in Receipt BY Types
<1> QED BY <1>1, <1>2, <1>3 DEF Decision

\* A step that writes none of the files a lease is read from.
LEMMA LeaseStays ==
  ASSUME UNCHANGED <<auth, moves, state, pending, receipts, session, contained>>
  PROVE  UNCHANGED Lease!vars
BY DEF Lease!vars, Decision, Record

LEMMA LeaseCalls ==
  ASSUME LeaseInv, NEW s \in Subject,
         \/ Claim(s) \/ Settlement(s) \/ \E o \in Outcome : Settle(s, o)
         \/ OpenReader(s) \/ Transfer(s) \/ Forget(s)
  PROVE  [Lease!Next]_(Lease!vars)
<1> USE DEF World, custody, cells
<1>1. TypeOK /\ Cells /\ Intent BY DEF LeaseInv, CustodyInv
<1>2. CASE Claim(s) BY <1>2, LeaseStays DEF Claim, Begin
<1>3. CASE Settlement(s) BY <1>3, LeaseStays DEF Settlement, Begin
<1>4. CASE \E o \in Outcome : Settle(s, o)
  <2>1. /\ UNCHANGED <<auth, moves, state, pending, receipts>>
        /\ contained' = contained \cup {s} /\ session' = session \ {s}
    BY <1>4 DEF Settle, Begin
  <2>2. Decision' = Decision /\ Record' = Record BY <2>1 DEF Decision, Record
  <2>3. Lease!End(s) BY <2>1, <2>2 DEF Lease!End
  <2> QED BY <2>3 DEF Lease!Next
<1>5. CASE OpenReader(s) BY <1>5, LeaseStays DEF OpenReader
<1>6. CASE Transfer(s)
  <2>1. /\ UNCHANGED <<auth, moves, state, pending, receipts, contained>>
        /\ reader[s] # 0
        /\ \/ session' = session
           \/ state.active = s /\ Unchanged /\ session' = session \cup {s}
    BY <1>6 DEF Transfer
  <2>2. Decision' = Decision /\ Record' = Record BY <2>1 DEF Decision, Record
  <2>3. CASE session' = session BY <2>1, <2>3, LeaseStays
  <2>4. CASE state.active = s /\ Unchanged /\ session' = session \cup {s}
    <3>1. s \notin contained BY <1>1, <2>1 DEF Cells
    <3>2. Lease!Receive(s) BY <2>1, <2>2, <2>4, <3>1 DEF Lease!Receive, Unchanged
    <3> QED BY <3>2 DEF Lease!Next
  <2> QED BY <2>1, <2>3, <2>4
<1>7. CASE Forget(s)
  <2>1. /\ UNCHANGED <<auth, moves, state, pending, contained, session>>
        /\ state.active # s
        /\ receipts' = [receipts EXCEPT ![s] = NoReceipt]
    BY <1>7 DEF Forget
  <2>2. Decision' = Decision BY <2>1 DEF Decision
  <2>3. Record' = [Record EXCEPT ![s] = Lease!Undecided]
    BY <1>1, <2>1, Types, Mapped DEF Record
  <2>4. Lease!Forget(s) BY <2>1, <2>2, <2>3 DEF Lease!Forget
  <2> QED BY <2>4 DEF Lease!Next
<1> QED BY <1>2, <1>3, <1>4, <1>5, <1>6, <1>7

\* A claim is retained with what was read, unlost, and never twice.
LEMMA LeaseClaimed ==
  ASSUME LeaseInv, RetainClaim
  PROVE  Lease!Next
<1>1. TypeOK /\ Intent /\ Working /\ Recorded /\ Installed BY DEF LeaseInv, CustodyInv
<1>2. /\ UNCHANGED <<pending, receipts, auth, moves, session, contained>>
      /\ call.pc = "retain"
      /\ state' = [generation |-> state.generation + 1, credential |-> call.bytes,
                   blocked |-> "none", active |-> call.subject]
  BY DEF RetainClaim, World, cells, At
<1>3. /\ state.active = "none" /\ pending = NoReceipt /\ call.bytes \in Credential
      /\ call.subject # "none"
      /\ ~Settled(call.subject) /\ call.bytes # state.blocked
      /\ moves = 0 => call.bytes = auth
  BY <1>1, <1>2 DEF Working, Claiming, Recorded, Installed, At
<1>4. call.subject \in Subject BY <1>1, <1>3, Types
<1>5. Decision = Lease!Undecided /\ Decision' = Lease!Undecided
  BY <1>1, <1>2, <1>3, Mapped DEF Decision
<1>6. Record[call.subject] = Lease!Undecided /\ Record' = Record
  <2>1. receipts[call.subject] = NoReceipt BY <1>3 DEF Settled
  <2>2. state'.active = call.subject BY <1>2
  <2>3. \A s \in Subject :
          (IF state'.active = s THEN NoReceipt ELSE receipts'[s])
            = IF state.active = s THEN NoReceipt ELSE receipts[s]
    BY <1>2, <1>3, <2>1, <2>2, CustodyAssumption
  <2> QED BY <1>1, <1>3, <1>4, <2>1, <2>3, Mapped, CustodyAssumption DEF Record
<1>7. Lease!Claim(call.subject)
  <2>1. call.bytes \in Credential \ {state.blocked} BY <1>3
  <2>2. ~(moves # 0) => call.bytes = auth BY <1>3
  <2> QED BY <1>2, <1>3, <1>5, <1>6, <2>1, <2>2 DEF Lease!Claim
<1> QED BY <1>4, <1>7 DEF Lease!Next

\* The intent is the decision.
LEMMA LeaseDecided ==
  ASSUME LeaseInv, IntendSettlement
  PROVE  Lease!Next
<1> DEFINE r == IF call.outcome.kind = "unused" THEN state.credential
                                                ELSE call.outcome.bytes
<1>1. TypeOK /\ Intent /\ Working BY DEF LeaseInv, CustodyInv
<1>2. /\ UNCHANGED <<state, receipts, auth, moves, session, contained>>
      /\ call.pc = "intend"
      /\ pending' = [subject |-> call.subject, generation |-> state.generation,
                     disposition |-> call.outcome.kind,
                     original |-> state.credential, result |-> r]
  BY DEF IntendSettlement, World, cells, At
<1>3. /\ state.active = call.subject /\ pending = NoReceipt
      /\ call.subject \in contained /\ call.subject # "none"
  BY <1>1, <1>2 DEF Working, Settling, At
<1>4. call.subject \in Subject BY <1>1, <1>3, Types
<1>5. /\ call.outcome.kind \in Kinds
      /\ call.outcome.kind = "updated" => r \in Credential
      /\ call.outcome.kind = "unused" => r = state.credential
      /\ call.outcome.kind = "lost" => r = "none"
  BY <1>1, Types, ReceiptShape
<1> HIDE DEF r
<1>6. Decision = Lease!Undecided BY <1>1, <1>3, Mapped
<1>7. Decision' = [disposition |-> call.outcome.kind, result |-> r]
  <2>1. pending'.disposition = call.outcome.kind /\ pending'.result = r BY <1>2
  <2>2. pending' # NoReceipt
    BY <1>5, <2>1 DEF NoReceipt, Kinds
  <2>3. state'.active # "none" BY <1>2, <1>3
  <2> QED BY <2>1, <2>2, <2>3 DEF Decision, Said
<1>8. Decision' \in Lease!Decisions
  BY <1>5, <1>7 DEF Lease!Decisions, Kinds
<1>9. Record' = Record BY <1>2 DEF Record
<1>10. Lease!Decide(call.subject) BY <1>2, <1>3, <1>6, <1>8, <1>9 DEF Lease!Decide
<1> QED BY <1>4, <1>10 DEF Lease!Next

LEMMA LeaseInstalls ==
  ASSUME LeaseInv, Replace
  PROVE  Lease!Next
<1>1. TypeOK /\ Intent /\ Working BY DEF LeaseInv, CustodyInv
<1>2. /\ UNCHANGED <<state, pending, receipts, moves, session, contained>>
      /\ auth' = pendingAuth /\ call.pc = "replace"
  BY DEF Replace, cells, At
<1>3. /\ pending # NoReceipt /\ state.active = call.subject
      /\ pending.disposition = "updated" /\ pendingAuth # "none"
      /\ call.subject # "none"
  BY <1>1, <1>2 DEF Working, Swapping, At
<1>4. pendingAuth = pending.result BY <1>1, <1>3 DEF Intent
<1>5. Decision = [disposition |-> pending.disposition, result |-> pending.result]
  BY <1>1, <1>3, Mapped
<1>6. Decision' = Decision /\ Record' = Record BY <1>2 DEF Decision, Record
<1>7. Lease!Install BY <1>2, <1>3, <1>4, <1>5, <1>6 DEF Lease!Install
<1> QED BY <1>7 DEF Lease!Next

LEMMA StateReleased ==
  ASSUME state \in State, NEW c, NEW b
  PROVE  [state EXCEPT !.active = "none", !.credential = c, !.blocked = b]
           = [generation |-> state.generation, credential |-> c, blocked |-> b,
              active |-> "none"]
<1> DEFINE r == [state EXCEPT !.active = "none", !.credential = c, !.blocked = b]
<1>1. r \in [generation : {state.generation}, credential : {c}, blocked : {b},
             active : {"none"}]
  BY DEF State
<1> HIDE DEF r
<1>2. r = [generation |-> r.generation, credential |-> r.credential,
           blocked |-> r.blocked, active |-> r.active]
  BY <1>1
<1>3. /\ r.generation = state.generation /\ r.credential = c /\ r.blocked = b
      /\ r.active = "none"
  BY <1>1
<1> QED BY <1>2, <1>3 DEF r

\* The first writing of state.json ends the lease; a call that resumes after it
\* writes the same again.
LEMMA LeaseReleased ==
  ASSUME LeaseInv, Release
  PROVE  [Lease!Next]_(Lease!vars)
<1>1. TypeOK /\ Intent /\ Working /\ Recorded /\ Installed BY DEF LeaseInv, CustodyInv
<1>2. /\ UNCHANGED <<pending, receipts, auth, moves, session, contained>>
      /\ call.pc = "release"
      /\ state' = [generation |-> pending.generation, credential |-> Final,
                   blocked |-> IF pending.disposition = "lost" THEN pending.original
                                                               ELSE "none",
                   active |-> "none"]
  BY DEF Release, World, cells, At, Final
<1>3. /\ pending # NoReceipt /\ pending.subject = call.subject
      /\ receipts[call.subject] = pending
  BY <1>1, <1>2 DEF Working, Concluding
<1>4. pending \in Receipt /\ state \in State /\ call.subject \in Subject
  BY <1>1, <1>3, Types, ReceiptShape
<1>5. state.generation = pending.generation BY <1>1, <1>3 DEF Intent, Bound
<1>6. CASE state.active = "none"
  <2>1. state' = state BY <1>1, <1>2, <1>3, <1>4, <1>5, <1>6 DEF Recorded, State
  <2> QED BY <1>2, <2>1, LeaseStays
<1>7. CASE state.active # "none"
  <2>1. state.active = call.subject /\ state.credential = pending.original
    BY <1>1, <1>3, <1>5, <1>7 DEF Intent, Bound
  <2>2. /\ Decision = [disposition |-> pending.disposition, result |-> pending.result]
        /\ Decision # Lease!Undecided /\ Said(pending) = Decision
    BY <1>1, <1>3, <1>4, <1>7, Mapped
  <2>3. Lease!Left = Final
    <3>1. pending.disposition \in Kinds /\ "none" \notin Credential
          /\ pending.original \in Credential
      BY <1>4, ReceiptShape
    <3>2. Decision.disposition = pending.disposition
          /\ Decision.result = pending.result
      BY <2>2
    <3> QED BY <1>1, <1>3, <2>1, <3>1, <3>2 DEF Lease!Left, Final, Intent, Kinds
  <2>4. Decision.disposition = pending.disposition BY <2>2
  <2>5. state' = [state EXCEPT
          !.active = "none", !.credential = Lease!Left,
          !.blocked = IF Decision.disposition = "lost" THEN state.credential
                                                       ELSE "none"]
    <3> DEFINE b == IF Decision.disposition = "lost" THEN state.credential ELSE "none"
               c == Lease!Left
    <3>1. state' = [generation |-> state.generation, credential |-> c, blocked |-> b,
                    active |-> "none"]
      BY <1>2, <1>5, <2>1, <2>3, <2>4
    <3> HIDE DEF b, c
    <3>2. state' = [state EXCEPT !.active = "none", !.credential = c, !.blocked = b]
      BY <1>4, <3>1, StateReleased
    <3> QED BY <3>2 DEF b, c
  <2>6. Decision' = Lease!Undecided
    <3>1. state'.active = "none" BY <1>2
    <3> QED BY <1>1, <3>1, Mapped DEF Decision
  <2>7. Record' = [Record EXCEPT ![call.subject] = Decision]
    <3>1. state'.active = "none" /\ "none" \notin Subject BY <1>2, CustodyAssumption
    <3>2. \A s \in Subject :
            Said(IF state'.active = s THEN NoReceipt ELSE receipts'[s])
              = IF s = call.subject THEN Decision
                ELSE Said(IF state.active = s THEN NoReceipt ELSE receipts[s])
      BY <1>2, <1>3, <2>1, <2>2, <3>1
    <3> QED BY <1>4, <3>2 DEF Record
  <2>8. moves = 0 => auth = Lease!Left
    BY <1>1, <1>3, <2>3 DEF Installed
  <2>9. Lease!Release(call.subject)
    BY <1>2, <2>1, <2>2, <2>5, <2>6, <2>7, <2>8 DEF Lease!Release
  <2> QED BY <1>4, <2>9 DEF Lease!Next
<1> QED BY <1>6, <1>7

LEMMA LeaseFiles ==
  ASSUME LeaseInv, CallStep, ~Release, ~Replace, ~RetainClaim, ~IntendSettlement
  PROVE  UNCHANGED Lease!vars
<1> USE DEF World, custody, cells, At
<1>1. TypeOK /\ Intent /\ Working BY DEF LeaseInv, CustodyInv
<1>2. CASE RetainReceipt
  <2>1. /\ UNCHANGED <<auth, moves, state, pending, session, contained>>
        /\ call.pc = "receipt"
        /\ receipts' = [receipts EXCEPT ![pending.subject] = pending]
    BY <1>2 DEF RetainReceipt
  <2>2. state.active = pending.subject BY <1>1, <2>1 DEF Working
  <2>3. \A s \in Subject :
          (IF state'.active = s THEN NoReceipt ELSE receipts'[s])
            = IF state.active = s THEN NoReceipt ELSE receipts[s]
    BY <1>1, <2>1, <2>2, Types
  <2>4. Record' = Record BY <2>3 DEF Record
  <2>5. Decision' = Decision BY <2>1 DEF Decision
  <2> QED BY <2>1, <2>4, <2>5 DEF Lease!vars
<1>3. CASE RemovePending
  <2>1. UNCHANGED <<auth, moves, state, receipts, session, contained>>
        /\ call.pc = "unpending"
    BY <1>3 DEF RemovePending
  <2>2. state.active = "none" BY <1>1, <2>1 DEF Working, Released
  <2>3. Decision' = Decision BY <2>1, <2>2 DEF Decision
  <2>4. Record' = Record BY <2>1 DEF Record
  <2> QED BY <2>1, <2>3, <2>4 DEF Lease!vars
<1>4. CASE NothingToResume \/ Resume \/ ResumeRefused \/ Recheck \/ Verify
  BY <1>4, LeaseStays DEF NothingToResume, Resume, ResumeRefused, Recheck, Verify
<1>5. CASE RemoveOriginal \/ RemovePrepared \/ WriteSnapshot \/ PrepareReplacement
  BY <1>5, LeaseStays
  DEF RemoveOriginal, RemovePrepared, WriteSnapshot, PrepareReplacement
<1>6. CASE \/ \E s \in Subject : ReadCredential(s) \/ BeginSettlement(s)
           \/ Confirm \/ Answer
  BY <1>6, LeaseStays DEF ReadCredential, BeginSettlement, Confirm, Answer
<1> QED BY <1>2, <1>3, <1>4, <1>5, <1>6 DEF CallStep, ResumeStep

\* While its owner leaves the file alone, there is nothing to reinstate.
LEMMA LeaseOwned ==
  ASSUME LeaseInv, OwnerChanges \/ OwnerReinstates
  PROVE  Lease!Next
<1>1. TypeOK /\ Intent /\ Installed BY DEF LeaseInv, CustodyInv
<1>2. UNCHANGED <<state, pending, receipts, session, contained>>
  BY DEF OwnerChanges, OwnerReinstates, custody, cells
<1>3. auth' \in MaybeCredential /\ moves' # 0
  <2>1. CASE OwnerChanges BY <1>1, <2>1, Types, CustodyAssumption DEF OwnerChanges
  <2>2. CASE OwnerReinstates
    <3>1. state.active # "none" /\ auth # state.credential
          /\ (pending # NoReceipt => auth # pending.result)
          /\ auth' = state.credential /\ moves' = moves
      BY <2>2 DEF OwnerReinstates
    <3>2. moves # 0 BY <1>1, <3>1 DEF Installed, Intent, Bound
    <3> QED BY <1>1, <3>1, <3>2, Types
  <2> QED BY <2>1, <2>2
<1>4. Decision' = Decision /\ Record' = Record BY <1>2 DEF Decision, Record
<1>5. (moves' # 0) = TRUE BY <1>3
<1>6. Lease!Owner BY <1>2, <1>3, <1>4, <1>5 DEF Lease!Owner, MaybeCredential
<1> QED BY <1>6 DEF Lease!Next

(* Whichever file of the custody a call dies after, and whatever the owner    *)
(* does to auth.json, what claim, read, settle, resume and forgetSettlement   *)
(* leave behind is one lease at a time, settled once and in one step: the     *)
(* writing of state.json.                                                     *)
THEOREM CustodyIsLease == Spec => ImplementsLease
<1>1. Init => Lease!Init
  <2> SUFFICES ASSUME Init PROVE Lease!Init OBVIOUS
  <2>1. Said(NoReceipt) = Lease!Undecided BY DEF Said, NoReceipt, Lease!Undecided
  <2>2. (moves # 0) = FALSE BY DEF Init
  <2>3. Record = [s \in Subject |-> Lease!Undecided] BY <2>1 DEF Init, Record
  <2>4. Decision = Lease!Undecided BY <2>1 DEF Init, Decision
  <2> QED BY <2>2, <2>3, <2>4 DEF Init, Lease!Init
<1>2. LeaseInv /\ [Next]_vars => [Lease!Next]_(Lease!vars)
  <2> SUFFICES ASSUME LeaseInv, [Next]_vars PROVE [Lease!Next]_(Lease!vars)
    OBVIOUS
  <2>1. ASSUME NEW s \in Subject,
               \/ Claim(s) \/ Settlement(s) \/ \E o \in Outcome : Settle(s, o)
               \/ OpenReader(s) \/ Transfer(s) \/ Forget(s)
        PROVE  [Lease!Next]_(Lease!vars)
    BY <2>1, LeaseCalls
  <2>2. CASE CallStep
    BY <2>2, LeaseClaimed, LeaseDecided, LeaseInstalls, LeaseReleased, LeaseFiles
  <2>3. CASE Crash BY <2>3, LeaseStays DEF Crash, custody
  <2>4. CASE OwnerChanges \/ OwnerReinstates BY <2>4, LeaseOwned
  <2>5. CASE UNCHANGED vars BY <2>5, LeaseStays DEF vars, custody, cells
  <2> QED BY <2>1, <2>2, <2>3, <2>4, <2>5 DEF Next
<1> QED BY <1>1, <1>2, LeaseKept, PTL DEF Spec, ImplementsLease, Lease!Spec
==============================================================================
