---------------------------- MODULE CredentialLease ----------------------------
(* What the custody of the provider credential promises, with no file, lock,  *)
(* reader or process in sight: the credential is leased to one execution at a *)
(* time, what becomes of a lease is decided once and when its Cell has ended, *)
(* and a lease ends in one step, with its record and with the credential it   *)
(* leaves behind.  ProviderCredential implements it: see CredentialRefinement.*)
EXTENDS Naturals

CONSTANTS
  Subject,     \* executions that may lease the credential
  Credential   \* contents of the credential

VARIABLES
  installed,   \* the credential of the installation, as its owner sees it
  touched,     \* its owner has changed it
  lease,       \* [generation, credential, blocked, active] of the last lease
  decision,    \* what is to become of the active lease
  record,      \* per execution: what became of its lease, while remembered
  session,     \* executions whose Cell has the credential
  ended        \* executions whose Cell starts no more

vars == <<installed, touched, lease, decision, record, session, ended>>

Undecided == [disposition |-> "none", result |-> "none"]
Decisions ==
  [disposition : {"updated"}, result : Credential]
    \cup [disposition : {"unused"}, result : {lease.credential}]
    \cup [disposition : {"lost"}, result : {"none"}]

\* What the lease leaves behind: a lost credential stays where it is.
Left == IF decision.disposition = "lost" THEN lease.credential ELSE decision.result

Init ==
  /\ installed \in Credential /\ touched = FALSE
  /\ lease = [generation |-> 0, credential |-> "none", blocked |-> "none",
              active |-> "none"]
  /\ decision = Undecided /\ record = [s \in Subject |-> Undecided]
  /\ session = {} /\ ended = {}

\* Nobody else holds it; what was lost is not leased again.
Claim(s) ==
  /\ lease.active = "none" /\ record[s] = Undecided
  /\ \E c \in Credential \ {lease.blocked} :
       /\ ~touched => c = installed
       /\ lease' = [generation |-> lease.generation + 1, credential |-> c,
                    blocked |-> "none", active |-> s]
  /\ UNCHANGED <<installed, touched, decision, record, session, ended>>

\* A Cell takes what is leased, and only while that is what is installed.
Receive(s) ==
  /\ lease.active = s /\ s \notin ended /\ installed = lease.credential
  /\ session' = session \cup {s}
  /\ UNCHANGED <<installed, touched, lease, decision, record, ended>>

End(s) ==
  /\ ended' = ended \cup {s} /\ session' = session \ {s}
  /\ UNCHANGED <<installed, touched, lease, decision, record>>

Decide(s) ==
  /\ lease.active = s /\ s \in ended /\ decision = Undecided
  /\ decision' \in Decisions
  /\ UNCHANGED <<installed, touched, lease, record, session, ended>>

Install ==
  /\ decision.disposition = "updated"
  /\ installed' = decision.result
  /\ UNCHANGED <<touched, lease, decision, record, session, ended>>

Release(s) ==
  /\ lease.active = s /\ decision # Undecided
  /\ ~touched => installed = Left
  /\ lease' = [lease EXCEPT
       !.active = "none", !.credential = Left,
       !.blocked = IF decision.disposition = "lost" THEN lease.credential ELSE "none"]
  /\ record' = [record EXCEPT ![s] = decision] /\ decision' = Undecided
  /\ UNCHANGED <<installed, touched, session, ended>>

Forget(s) ==
  /\ lease.active # s
  /\ record' = [record EXCEPT ![s] = Undecided]
  /\ UNCHANGED <<installed, touched, lease, decision, session, ended>>

Owner ==
  /\ installed' \in Credential \cup {"none"} /\ touched' = TRUE
  /\ UNCHANGED <<lease, decision, record, session, ended>>

Next ==
  \/ \E s \in Subject :
       Claim(s) \/ Receive(s) \/ End(s) \/ Decide(s) \/ Release(s) \/ Forget(s)
  \/ Install \/ Owner

Spec == Init /\ [][Next]_vars
==============================================================================
