-------------------------- MODULE TerminalSettlement ---------------------------
(* What the terminal transactions promise about the canonical branch, with no *)
(* call, lock, Store or checkout in sight: every attempt of a Delivery to end *)
(* itself is settled once, by what happened on the branch.                    *)
(* TerminalTransaction implements it: see Settlement in TerminalRefinement.   *)
EXTENDS Naturals, Sequences

CONSTANTS
  Delivery,  \* Deliveries of one target repository
  Root,      \* the commit on which the branch starts
  Foreign    \* the commits that people make

VARIABLES
  branch,    \* commits of the canonical branch, above Root
  terminal   \* per Delivery: its last attempt, and what became of it

vars == <<branch, terminal>>

Fates == {"none", "pending", "published", "refused", "accepted", "no-ship"}
Operations == {"delivery.accept", "delivery.no-ship"}

Top == IF branch = <<>> THEN Root ELSE branch[Len(branch)]
Work(d) == [by |-> d, n |-> terminal[d].attempt]
Become(d, fate) == terminal' = [terminal EXCEPT ![d].fate = fate]

Init ==
  /\ branch = <<>>
  /\ terminal = [d \in Delivery |-> [attempt |-> 0, operation |-> "delivery.accept",
                                     parent |-> Root, fate |-> "none"]]

Open(d) == terminal[d].fate \in {"none", "refused"}

\* The work is brought onto the branch as it is now.
Integrate(d) ==
  /\ Open(d)
  /\ terminal' = [terminal EXCEPT ![d].parent = Top]
  /\ UNCHANGED branch

\* Only a conclusive refusal makes room for another attempt, of whichever kind.
Attempt(d) ==
  /\ Open(d)
  /\ \E operation \in Operations :
       terminal' = [terminal EXCEPT
         ![d] = [attempt |-> @.attempt + 1, operation |-> operation,
                 parent |-> @.parent, fate |-> "pending"]]
  /\ UNCHANGED branch

\* The branch takes the work exactly on the parent it was proven on.
Publish(d) ==
  /\ terminal[d].fate = "pending" /\ terminal[d].operation = "delivery.accept"
  /\ Top = terminal[d].parent
  /\ branch' = Append(branch, Work(d))
  /\ Become(d, "published")

Refuse(d) ==
  /\ terminal[d].fate = "pending" /\ terminal[d].operation = "delivery.accept"
  /\ Become(d, "refused")
  /\ UNCHANGED branch

Accept(d) ==
  /\ terminal[d].fate = "published"
  /\ Become(d, "accepted")
  /\ UNCHANGED branch

NoShip(d) ==
  /\ terminal[d].fate = "pending" /\ terminal[d].operation = "delivery.no-ship"
  /\ Become(d, "no-ship")
  /\ UNCHANGED branch

\* People commit work of their own, and take commits off the branch.
Commit ==
  \E c \in Foreign : branch' = Append(branch, c)
Rewrite ==
  \E n \in 0..Len(branch) : branch' = SubSeq(branch, 1, n)
Person == (Commit \/ Rewrite) /\ UNCHANGED terminal

Next ==
  \/ \E d \in Delivery :
       Integrate(d) \/ Attempt(d) \/ Publish(d) \/ Refuse(d) \/ Accept(d) \/ NoShip(d)
  \/ Person

Spec == Init /\ [][Next]_vars
==============================================================================
