-------------------------- MODULE ExecutionRefinement --------------------------
(* An execution and its Reclamation implement ExecutionLife.                  *)
EXTENDS CellReclamation

Authority ==
  IF refused THEN "refused"
  ELSE IF checkpoint.consumed THEN "consumed"
  ELSE IF checkpoint.handle THEN "unused" ELSE "none"

\* A claim and its lease are how workers share one custody.
Custody ==
  IF ~handoff THEN "execution"
  ELSE IF standing.state \in {"pending", "claimed"} THEN "ledger"
  ELSE standing.state

\* Anything at the Engine under the name of this execution.
Residue ==
  \/ Discoverable \/ cell.proxy # "none"
  \/ cell.volumes \/ cell.dispatched \/ cell.cancelled

Life == INSTANCE ExecutionLife
  WITH authority <- Authority, starts <- runs,
       running <- cell.container = "running", channel <- ProxyUp(cell),
       contained <- checkpoint.contained, verdict <- receipt,
       custody <- Custody, residue <- Residue

\* Whatever call or worker dies, whichever lease expires under its holder and
\* however late the Engine answers, the execution lives one such life: its Cell
\* runs once, is contained for good, is answered for as it was, and what is
\* reclaimed is gone and does not come back.
ImplementsLife == Life!Spec
==============================================================================
