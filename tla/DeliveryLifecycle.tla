-------------------------- MODULE DeliveryLifecycle --------------------------
(***************************************************************************)
(* What a Delivery promises its Director, with no activity, effect or      *)
(* record in sight: a mandate under which work is done, work that is       *)
(* proven ready, and one final verdict.  The Delivery reducer implements   *)
(* it: see Lifecycle in DeliveryRefinement.                                *)
(***************************************************************************)
EXTENDS Naturals

VARIABLES
  standing,  \* where the Delivery stands
  mandate,   \* the admitted mandate, 0 before the first admission
  work,      \* the current revision of the work, 0 before there is any
  verdict    \* the mandate and the work accepted, or that there is none

vars == <<standing, mandate, work, verdict>>

NoVerdict == [kind |-> "none", mandate |-> 0, work |-> 0]
Working == {"active", "decision-ready"}
Waiting == {"awaiting-admission", "awaiting-readmission"}

Init ==
  /\ standing = "framing"
  /\ mandate = 0 /\ work = 0
  /\ verdict = NoVerdict

\* A mandate is proposed, first or in answer to a pause.
Propose ==
  /\ \/ standing = "framing" /\ standing' = "awaiting-admission"
     \/ standing = "boundary-paused" /\ standing' = "awaiting-readmission"
  /\ UNCHANGED <<mandate, work, verdict>>

\* The Director admits a mandate never admitted before.
Admit ==
  /\ standing \in Waiting
  /\ standing' = "active"
  /\ mandate' > mandate
  /\ UNCHANGED <<work, verdict>>

\* Work moves on only while a mandate is in force and nothing pauses it, and
\* costs whatever had been proven.
Work ==
  /\ standing \in Working
  /\ standing' = "active"
  /\ work' = work + 1
  /\ UNCHANGED <<mandate, verdict>>

Prove ==
  /\ standing = "active" /\ work # 0
  /\ standing' = "decision-ready"
  /\ UNCHANGED <<mandate, work, verdict>>

Pause ==
  /\ standing \in Working
  /\ standing' = "boundary-paused"
  /\ UNCHANGED <<mandate, work, verdict>>

\* Acceptance is of work proven under the mandate in force.
Accept ==
  /\ standing = "decision-ready"
  /\ standing' = "closed"
  /\ verdict' = [kind |-> "accepted", mandate |-> mandate, work |-> work]
  /\ UNCHANGED <<mandate, work>>

\* The Director may stop a Delivery at any time.
NoShip ==
  /\ standing # "closed"
  /\ standing' = "closed"
  /\ verdict' = [kind |-> "no-ship", mandate |-> 0, work |-> work]
  /\ UNCHANGED <<mandate, work>>

Next == Propose \/ Admit \/ Work \/ Prove \/ Pause \/ Accept \/ NoShip

Spec == Init /\ [][Next]_vars
==============================================================================
