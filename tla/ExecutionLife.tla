----------------------------- MODULE ExecutionLife -----------------------------
(* What an execution promises the Delivery that opened it, and the ledger it  *)
(* is handed to, with no checkpoint, call, lease, marker or worker in sight:  *)
(* its Cell is one, runs once on an authority that is consumed once, is       *)
(* contained for good, is answered for truthfully, and is removed by nobody   *)
(* before its handover and by no half.  CellReclamation implements it: see    *)
(* ExecutionRefinement.                                                       *)
EXTENDS Naturals

VARIABLES
  authority,   \* to start the Cell
  starts,      \* how often the Engine started it
  running,     \* is it running?
  channel,     \* is its channel to the provider open?
  late,        \* did the Engine start it when nobody waited for that?
  contained,   \* is it retained that nothing of it runs or ever will?
  verdict,     \* what the execution concluded with
  custody,     \* who answers for what is left of it
  residue      \* is anything left of it at the Engine?

cell == <<starts, running, channel, late>>
account == <<contained, verdict, custody, residue>>
vars == <<authority, cell, account>>

Init ==
  /\ authority = "none" /\ starts = 0
  /\ running = FALSE /\ channel = FALSE /\ late = FALSE
  /\ contained = FALSE /\ verdict = "none"
  /\ custody = "execution" /\ residue = FALSE

\* A Cell is made until one is known to be made, then never again.
Make ==
  /\ authority = "none"
  /\ residue' = TRUE
  /\ UNCHANGED <<authority, cell, contained, verdict, custody>>

Know ==
  /\ authority = "none" /\ residue
  /\ authority' = "unused"
  /\ UNCHANGED <<cell, account>>

Consume ==
  /\ authority = "unused" /\ ~contained
  /\ authority' = "consumed"
  /\ UNCHANGED <<cell, account>>

\* What is refused is contained as it stands: it never began.
Refuse ==
  /\ authority = "unused"
  /\ authority' = "refused" /\ contained' = TRUE
  /\ UNCHANGED <<cell, verdict, custody, residue>>

Connect ==
  /\ authority = "consumed" /\ starts = 0 /\ ~contained
  /\ channel' = TRUE
  /\ UNCHANGED <<authority, starts, running, late, account>>

Disconnect ==
  /\ channel' = FALSE
  /\ UNCHANGED <<authority, starts, running, late, account>>

\* The Engine may start it after it was given up, but not what is removed.
Start ==
  /\ authority = "consumed" /\ starts = 0 /\ residue
  /\ starts' = 1 /\ running' = TRUE
  /\ late' \in BOOLEAN /\ (contained => late')
  /\ UNCHANGED <<authority, channel, account>>

End ==
  /\ running' = FALSE
  /\ UNCHANGED <<authority, starts, channel, late, account>>

\* Its channel may close in the same command that ends it.
Halt ==
  /\ running' = FALSE /\ channel' = FALSE
  /\ UNCHANGED <<authority, starts, late, account>>

Contain ==
  /\ authority # "none"
  /\ running => late
  /\ ~channel
  /\ contained' = TRUE
  /\ UNCHANGED <<authority, cell, verdict, custody, residue>>

HandOver ==
  /\ contained /\ custody = "execution"
  /\ custody' = "ledger"
  /\ UNCHANGED <<authority, cell, contained, verdict, residue>>

\* Said once, after the handover, and of what happened to the Cell.
Conclude ==
  /\ custody # "execution" /\ verdict = "none"
  /\ \/ verdict' = "refused" /\ authority = "refused"
     \/ verdict' = "not-started" /\ authority = "consumed" /\ (starts = 0 \/ late)
     \/ verdict' = "retrieved" /\ starts = 1
     \/ verdict' = "unavailable" /\ authority # "refused"
  /\ UNCHANGED <<authority, cell, contained, custody, residue>>

Remove ==
  /\ custody # "execution" /\ ~running /\ ~channel
  /\ residue' = FALSE
  /\ UNCHANGED <<authority, cell, contained, verdict, custody>>

\* Only what left nothing behind is reclaimed.
Reclaim ==
  /\ custody = "ledger"
  /\ custody' \in {"reclaimed", "integrity-refusal"}
  /\ custody' = "reclaimed" => ~residue
  /\ UNCHANGED <<authority, cell, contained, verdict, residue>>

Next ==
  \/ Make \/ Know \/ Consume \/ Refuse
  \/ Connect \/ Disconnect \/ Start \/ End \/ Halt
  \/ Contain \/ HandOver \/ Conclude \/ Remove \/ Reclaim

Spec == Init /\ [][Next]_vars
==============================================================================
