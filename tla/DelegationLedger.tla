--------------------------- MODULE DelegationLedger ----------------------------
(* What a work delegation promises the Director who grants and stops it, with *)
(* no journal, request row, lock or process in sight.  Two models implement   *)
(* it: the reducer, which decides what a journal may say (DeliveryRefinement),*)
(* and the processes that write the journal beside the retained request       *)
(* (DelegationRefinement).                                                    *)
EXTENDS Naturals

VARIABLES
  grant,    \* the delegation last granted, 0 before the first
  governs,  \* it was granted under the mandate in force
  asked,    \* a stop of it is retained and not yet carried out
  stopped,  \* it was stopped
  open,     \* what the open activity is for, if there is one
  paid,     \* ... and whether it was charged to the delegation
  closed    \* the Delivery is closed

delegation == <<grant, governs, asked, stopped>>
activity == <<open, paid, closed>>
vars == <<delegation, activity>>

Kinds == {"work", "terminal", "other"}

Init ==
  /\ grant = 0 /\ governs = FALSE /\ asked = FALSE /\ stopped = FALSE
  /\ open = "none" /\ paid = FALSE /\ closed = FALSE

Settled == open = "none" /\ ~closed
Pays == governs /\ ~stopped

\* A grant replaces what was granted before, and while nothing is open.
Grant ==
  /\ Settled /\ ~asked
  /\ grant' = grant + 1 /\ governs' = TRUE /\ stopped' = FALSE
  /\ UNCHANGED <<asked, activity>>

\* A stop may be asked for while work is open, unless it is of the last thing
\* a Delivery does.
Ask ==
  /\ grant # 0 /\ ~stopped /\ ~closed /\ open # "terminal"
  /\ asked' = TRUE
  /\ UNCHANGED <<grant, governs, stopped, activity>>

Stop ==
  /\ Settled /\ grant # 0 /\ ~stopped
  /\ stopped' = TRUE /\ asked' = FALSE
  /\ UNCHANGED <<grant, governs, activity>>

\* Delegated work is charged to the delegation that governs it.
OpenPaid ==
  /\ Settled /\ ~asked /\ Pays
  /\ open' = "work" /\ paid' = TRUE
  /\ UNCHANGED <<delegation, closed>>

\* While a delegation pays, no work goes past it.
OpenFree(kind) ==
  /\ Settled /\ ~asked
  /\ kind = "work" => ~Pays
  /\ open' = kind /\ paid' = FALSE
  /\ UNCHANGED <<delegation, closed>>

Settle ==
  /\ open # "none"
  /\ open' = "none" /\ paid' = FALSE
  /\ UNCHANGED <<delegation, closed>>

\* A new mandate leaves the delegation behind; no work is open meanwhile.
Readmit ==
  /\ open = "other"
  /\ governs' = FALSE
  /\ open' \in {"other", "none"}
  /\ UNCHANGED <<grant, asked, stopped, paid, closed>>

Close ==
  /\ open = "terminal" /\ ~asked
  /\ open' = "none" /\ paid' = FALSE /\ closed' = TRUE
  /\ UNCHANGED delegation

Next ==
  \/ Grant \/ Ask \/ Stop \/ OpenPaid
  \/ \E kind \in Kinds : OpenFree(kind)
  \/ Settle \/ Readmit \/ Close

Spec == Init /\ [][Next]_vars
==============================================================================
