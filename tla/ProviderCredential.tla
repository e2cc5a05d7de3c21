-------------------------- MODULE ProviderCredential ---------------------------
(* The custody of the one provider credential of an installation              *)
(* (execution/provider-credential-custody-v1.ts) as the Docker driver uses    *)
(* it: an execution claims the credential, hands it once to its Cell, and     *)
(* settles the claim when the Cell is contained, with the refreshed bytes of  *)
(* the Cell, with none ("lost"), or unused.                                   *)
(*                                                                            *)
(* A transition runs under a non-blocking descriptor lock, so there is at     *)
(* most one call; one that finds the lock taken changes nothing and is left   *)
(* out.  Its file operations are separate steps: it may die between any two   *)
(* of them, and the person who owns the installation may at any time replace  *)
(* or remove auth.json, the one file that the lock does not protect.  A file  *)
(* is written to a scratch name and renamed: one step.  A settlement receipt  *)
(* is [subject, generation, disposition, original, result].                   *)
EXTENDS Naturals, FiniteSets

CONSTANTS
  Subject,         \* executions: one Specification, Engine and allocation each
  Credential,      \* contents of a credential file
  MaxGenerations,  \* bound: claims retained
  MaxReceipts,     \* receipt inventory limit (1024 in the code)
  MaxMoves,        \* bound: changes of auth.json by the owner
  MaxFaults        \* bound: deaths of a call

ASSUME CustodyAssumption ==
  /\ "none" \notin Subject \cup Credential
  /\ MaxGenerations \in Nat /\ MaxReceipts \in Nat
  /\ MaxMoves \in Nat /\ MaxFaults \in Nat

VARIABLES
  auth,         \* auth.json
  state,        \* state.json; active is the claiming subject
  original,     \* original.auth: the snapshot of the claimed credential
  pendingAuth,  \* pending.auth: the prepared replacement
  pending,      \* pending.json: the receipt that is to be retained
  receipts,     \* per subject: its retained settlement receipt
  reader,       \* per subject: generation of an unconsumed reader, or 0
  contained,    \* executions whose Cell is contained: they start no more
  session,      \* history variable: subjects whose Cell has the credential
  call, moves, faults

custody == <<state, original, pendingAuth, pending, receipts>>
cells == <<reader, contained, session>>
vars == <<auth, custody, cells, call, moves, faults>>

Kinds == {"updated", "unused", "lost"}
MaybeCredential == Credential \cup {"none"}
Receipt == [subject : Subject, generation : 1..MaxGenerations,
            disposition : Kinds, original : Credential, result : MaybeCredential]
Outcome == [kind : {"unused", "lost"}, bytes : {"none"}]
             \cup [kind : {"updated"}, bytes : Credential]
Pcs == {"idle", "resume", "recheck", "replace", "verify", "receipt", "release",
        "unoriginal", "unprepared", "unpending", "request",
        "snapshot", "confirm", "retain", "prepare", "intend"}
NoReceipt == [disposition |-> "none"]
Unasked == [kind |-> "unused", bytes |-> "none"]
NoCall == [pc |-> "idle", op |-> "none", subject |-> "none",
           outcome |-> Unasked, bytes |-> "none"]

Init ==
  /\ auth \in Credential
  /\ state = [generation |-> 0, credential |-> "none", blocked |-> "none",
              active |-> "none"]
  /\ original = "none" /\ pendingAuth = "none" /\ pending = NoReceipt
  /\ receipts = [s \in Subject |-> NoReceipt]
  /\ reader = [s \in Subject |-> 0] /\ contained = {} /\ session = {}
  /\ call = NoCall /\ moves = 0 /\ faults = 0

At(pc) == call.pc = pc
Goto(pc) == call' = [call EXCEPT !.pc = pc]
EndCall == call' = NoCall
Pends(s) == pending # NoReceipt /\ pending.subject = s
Settled(s) == receipts[s] # NoReceipt
World == UNCHANGED <<auth, cells, moves, faults>>

------------------------------------------------------------------------------
(* The calls of the driver.                                                   *)
Begin(s, op, outcome) ==
  /\ At("idle")
  /\ call' = [pc |-> "resume", op |-> op, subject |-> s, outcome |-> outcome,
              bytes |-> "none"]
  /\ UNCHANGED <<auth, custody, moves, faults>>

Claim(s) ==
  /\ state.generation < MaxGenerations
  /\ Begin(s, "claim", Unasked) /\ UNCHANGED cells
Settlement(s) == Begin(s, "settlement", Unasked) /\ UNCHANGED cells

\* settleProviderCredential: the Cell is contained, and whoever was about to
\* start it is this process or dead; "unused" if the Cell never had the
\* credential.  A retry may not change a retained outcome.
Settle(s, outcome) ==
  /\ outcome.kind = "unused" => s \notin session
  /\ Pends(s) => /\ pending.disposition = outcome.kind
                 /\ outcome.kind = "updated" => pending.result = outcome.bytes
  /\ Begin(s, "settle", outcome)
  /\ contained' = contained \cup {s} /\ session' = session \ {s}
  /\ reader' = [reader EXCEPT ![s] = 0]

Unchanged == auth = state.credential

\* read: the claim is checked when the reader is opened and when it transfers.
OpenReader(s) ==
  /\ At("idle") /\ s \notin contained
  /\ state.active = s /\ Unchanged /\ original = state.credential
  /\ reader' = [reader EXCEPT ![s] = state.generation]
  /\ UNCHANGED <<auth, custody, contained, session, call, moves, faults>>

Transfer(s) ==
  /\ At("idle") /\ reader[s] # 0
  /\ reader' = [reader EXCEPT ![s] = 0]
  /\ session' = IF state.active = s /\ state.generation = reader[s] /\ Unchanged
                THEN session \cup {s} ELSE session
  /\ UNCHANGED <<auth, custody, contained, call, moves, faults>>

\* forgetSettlement, when the Cell and its resources are reclaimed.
Forget(s) ==
  /\ At("idle") /\ Settled(s)
  /\ state.active # s /\ ~Pends(s)
  /\ receipts' = [receipts EXCEPT ![s] = NoReceipt]
  /\ UNCHANGED <<state, original, pendingAuth, pending, call>> /\ World

------------------------------------------------------------------------------
(* resume: an intent that was retained for this subject is carried out, with  *)
(* pending in the place of the receipt until that is written.                 *)
Bound ==
  /\ state.generation = pending.generation
  /\ state.active # "none" =>
       state.active = pending.subject /\ state.credential = pending.original

NothingToResume ==
  /\ At("resume") /\ ~Pends(call.subject)
  /\ Goto("request")
  /\ UNCHANGED custody /\ World

\* With prepared bytes and the original still installed, they are swapped in;
\* otherwise the result must be installed already.
Replaces ==
  auth = pending.original /\ (pending.original # pending.result \/ pendingAuth # "none")

InstalledAgain(disposition, credential) ==
  auth = credential \/ (disposition = "lost" /\ auth = "none")

Resumable ==
  LET s == pending.subject
  IN /\ Bound
     /\ IF Settled(s) THEN receipts[s] = pending
        ELSE /\ state.active = s
             /\ IF pending.disposition = "updated"
                THEN /\ auth \in {pending.original, pending.result}
                     /\ Replaces => pendingAuth # "none"
                ELSE InstalledAgain(pending.disposition, pending.original)

ResumedAtUninstalled ==
  IF Settled(pending.subject) THEN "release" ELSE "receipt"

ResumedAt ==
  IF Settled(pending.subject) THEN "release"
  ELSE IF pending.disposition # "updated" THEN "receipt"
  ELSE IF Replaces THEN "recheck" ELSE "verify"

Resume ==
  /\ At("resume") /\ Pends(call.subject) /\ Resumable
  /\ Goto(ResumedAt)
  /\ UNCHANGED custody /\ World

\* A refusal changes nothing: the intent stays retained.
ResumeRefused ==
  /\ At("resume") /\ Pends(call.subject) /\ ~Resumable
  /\ EndCall
  /\ UNCHANGED custody /\ World

Recheck ==
  /\ At("recheck")
  /\ IF Unchanged THEN Goto("replace") ELSE EndCall
  /\ UNCHANGED custody /\ World

\* The compare was the step before: this one replaces whatever is installed.
Replace ==
  /\ At("replace")
  /\ auth' = pendingAuth /\ pendingAuth' = "none"
  /\ Goto("verify")
  /\ UNCHANGED <<state, original, pending, receipts, cells, moves, faults>>

Verify ==
  /\ At("verify")
  /\ IF auth = pending.result THEN Goto("receipt") ELSE EndCall
  /\ UNCHANGED custody /\ World

RetainReceipt ==
  /\ At("receipt")
  /\ receipts' = [receipts EXCEPT ![pending.subject] = pending]
  /\ Goto("release")
  /\ UNCHANGED <<auth, state, original, pendingAuth, pending, cells, moves, faults>>

\* The claim is released; a lost credential is blocked.
Release ==
  /\ At("release")
  /\ state' = [generation |-> pending.generation,
               credential |-> IF pending.result = "none" THEN pending.original
                                                         ELSE pending.result,
               blocked |-> IF pending.disposition = "lost" THEN pending.original
                                                           ELSE "none",
               active |-> "none"]
  /\ Goto("unoriginal")
  /\ UNCHANGED <<original, pendingAuth, pending, receipts>> /\ World

RemoveOriginal ==
  /\ At("unoriginal") /\ original' = "none" /\ Goto("unprepared")
  /\ UNCHANGED <<state, pendingAuth, pending, receipts>> /\ World
RemovePrepared ==
  /\ At("unprepared") /\ pendingAuth' = "none" /\ Goto("unpending")
  /\ UNCHANGED <<state, original, pending, receipts>> /\ World
RemovePending ==
  /\ At("unpending") /\ pending' = NoReceipt /\ Goto("request")
  /\ UNCHANGED <<state, original, pendingAuth, receipts>> /\ World

------------------------------------------------------------------------------
(* claim, after resume.                                                       *)
ClaimableWhileClaimed(s) ==
  /\ ~Settled(s) /\ pending = NoReceipt
  /\ Cardinality({t \in Subject : Settled(t)}) < MaxReceipts
  /\ auth # "none" /\ auth # state.blocked
ClaimableDuringIntent(s) ==
  /\ ~Settled(s) /\ state.active = "none"
  /\ Cardinality({t \in Subject : Settled(t)}) < MaxReceipts
  /\ auth # "none" /\ auth # state.blocked
ClaimableAbsent(s) ==
  /\ ~Settled(s) /\ state.active = "none" /\ pending = NoReceipt
  /\ Cardinality({t \in Subject : Settled(t)}) < MaxReceipts
  /\ auth # state.blocked
Claimable(s) ==
  /\ ~Settled(s) /\ state.active = "none" /\ pending = NoReceipt
  /\ Cardinality({t \in Subject : Settled(t)}) < MaxReceipts
  /\ auth # "none" /\ auth # state.blocked

ReadCredential(s) ==
  /\ At("request") /\ call.op = "claim" /\ call.subject = s /\ Claimable(s)
  /\ call' = [call EXCEPT !.pc = "snapshot", !.bytes = auth]
  /\ UNCHANGED custody /\ World

WriteSnapshot ==
  /\ At("snapshot") /\ original' = call.bytes /\ Goto("confirm")
  /\ UNCHANGED <<state, pendingAuth, pending, receipts>> /\ World

Confirm ==
  /\ At("confirm")
  /\ IF auth = call.bytes THEN Goto("retain") ELSE EndCall
  /\ UNCHANGED custody /\ World

RetainClaim ==
  /\ At("retain")
  /\ state' = [generation |-> state.generation + 1, credential |-> call.bytes,
               blocked |-> "none", active |-> call.subject]
  /\ EndCall
  /\ UNCHANGED <<original, pendingAuth, pending, receipts>> /\ World

------------------------------------------------------------------------------
(* settle, after resume.                                                      *)
Settleable(s) ==
  /\ ~Settled(s) /\ state.active = s /\ pending = NoReceipt
  /\ InstalledAgain(call.outcome.kind, state.credential)

BeginSettlement(s) ==
  /\ At("request") /\ call.op = "settle" /\ call.subject = s /\ Settleable(s)
  /\ Goto(IF call.outcome.kind = "updated" THEN "prepare" ELSE "intend")
  /\ UNCHANGED custody /\ World

PrepareReplacement ==
  /\ At("prepare") /\ pendingAuth' = call.outcome.bytes /\ Goto("intend")
  /\ UNCHANGED <<state, original, pending, receipts>> /\ World

IntendSettlement ==
  /\ At("intend")
  /\ pending' = [subject |-> call.subject, generation |-> state.generation,
                 disposition |-> call.outcome.kind, original |-> state.credential,
                 result |-> IF call.outcome.kind = "unused" THEN state.credential
                                                            ELSE call.outcome.bytes]
  /\ Goto("resume")
  /\ UNCHANGED <<state, original, pendingAuth, receipts>> /\ World

\* Nothing left to do: answered, busy, unavailable or refused.
Answer ==
  /\ At("request")
  /\ CASE call.op = "claim" -> ~Claimable(call.subject)
       [] call.op = "settle" -> ~Settleable(call.subject)
       [] OTHER -> TRUE
  /\ EndCall
  /\ UNCHANGED custody /\ World

------------------------------------------------------------------------------
\* The process dies, and its readers with it.  A running Cell does not.
Crash ==
  /\ ~At("idle") /\ faults < MaxFaults /\ faults' = faults + 1
  /\ reader' = [reader EXCEPT ![call.subject] = 0]
  /\ EndCall
  /\ UNCHANGED <<auth, custody, contained, session, moves>>

\* The owner logs in again, restores an old file, or removes it.
OwnerChanges ==
  /\ moves < MaxMoves /\ moves' = moves + 1
  /\ \E c \in MaybeCredential \ {auth} : auth' = c
  /\ UNCHANGED <<custody, cells, call, faults>>

\* The owner gives the claimed credential back: its snapshot is in custody.
OwnerReinstates ==
  /\ state.active # "none" /\ auth # state.credential
  /\ pending # NoReceipt => auth # pending.result
  /\ auth' = state.credential
  /\ UNCHANGED <<custody, cells, call, moves, faults>>

ResumeStep ==
  \/ NothingToResume \/ Resume \/ ResumeRefused
  \/ Recheck \/ Replace \/ Verify \/ RetainReceipt \/ Release
  \/ RemoveOriginal \/ RemovePrepared \/ RemovePending

CallStep ==
  \/ ResumeStep
  \/ \E s \in Subject : ReadCredential(s) \/ BeginSettlement(s)
  \/ WriteSnapshot \/ Confirm \/ RetainClaim
  \/ PrepareReplacement \/ IntendSettlement \/ Answer

Next ==
  \/ \E s \in Subject :
       \/ Claim(s) \/ Settlement(s) \/ \E o \in Outcome : Settle(s, o)
       \/ OpenReader(s) \/ Transfer(s) \/ Forget(s)
  \/ CallStep
  \/ Crash \/ OwnerChanges \/ OwnerReinstates

Spec == Init /\ [][Next]_vars

(* A call goes on; whoever is left with an intent asks for the settlement     *)
(* again, and gets the lock in the end; the owner reinstates what was changed *)
(* under a claim.                                                             *)
FairSpec ==
  /\ Spec /\ WF_vars(CallStep) /\ WF_vars(OwnerReinstates)
  /\ \A s \in Subject : SF_vars(Settlement(s))

------------------------------------------------------------------------------
(* Type invariant.                                                            *)
TypeOK ==
  /\ auth \in MaybeCredential
  /\ state \in [generation : 0..MaxGenerations, credential : MaybeCredential,
                blocked : MaybeCredential, active : Subject \cup {"none"}]
  /\ state.generation > 0 => state.credential \in Credential
  /\ original \in MaybeCredential /\ pendingAuth \in MaybeCredential
  /\ pending \in Receipt \cup {NoReceipt}
  /\ receipts \in [Subject -> Receipt \cup {NoReceipt}]
  /\ reader \in [Subject -> 0..MaxGenerations]
  /\ contained \subseteq Subject /\ session \subseteq Subject
  /\ call \in [pc : Pcs, op : {"none", "claim", "settlement", "settle"},
               subject : Subject \cup {"none"}, outcome : Outcome,
               bytes : MaybeCredential]
  /\ moves \in 0..MaxMoves /\ faults \in 0..MaxFaults

(* At most one Cell has the credential, and it is that of the active claim:   *)
(* no reader that outlived its claim, no death of a controller and no later   *)
(* claim puts the refreshable session in two Cells (EXECUTION.md: "it cannot  *)
(* borrow the snapshot or replace the claim").                                *)
SessionIsClaimed == session \subseteq {state.active}

(* A retained intent stays tied to its claim or to its receipt until it is    *)
(* removed: no recovery meets an intent that it must refuse as substituted.   *)
IntentIsBound ==
  pending # NoReceipt =>
    /\ Bound
    /\ state.active = pending.subject \/ receipts[pending.subject] = pending

(* With an owner who leaves the file alone, the next claim takes exactly what *)
(* the last settlement installed: a refresh is neither lost nor undone, at    *)
(* whichever step of the settlement a call died.                              *)
RefreshReachesNextClaim ==
  [][moves = 0 /\ state.generation > 0 /\ state'.generation > state.generation
       => state'.credential = state.credential]_vars

\* The owner replaced auth.json between the swap and the receipt: the
\* refreshed bytes are nowhere any more.
Stranded ==
  /\ pending # NoReceipt /\ ~Settled(pending.subject)
  /\ pending.disposition = "updated"
  /\ pendingAuth = "none" /\ auth # pending.result

(* A retained intent is carried out, whatever calls died and whatever the     *)
(* owner did and took back, unless the refreshed bytes were overwritten.      *)
IntentConcludes ==
  \A s \in Subject : Pends(s) ~> ~Pends(s) \/ Stranded
==============================================================================
