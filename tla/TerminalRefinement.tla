-------------------------- MODULE TerminalRefinement ---------------------------
(* The terminal transactions implement TerminalSettlement.                    *)
EXTENDS TerminalTransaction

\* What has become of the last attempt, whatever its call knows of it: the
\* branch decides an acceptance before any Store does.
Fate(d) ==
  LET stage == control[d].stage
  IN CASE stage = "ready" /\ control[d].attempt = 0 -> "none"
       [] stage = "not-applied" \/ (stage = "ready" /\ control[d].attempt # 0) -> "refused"
       [] stage \in {"opened", "intended"} ->
            IF K(d) \in moved THEN "published" ELSE "pending"
       [] stage \in {"applied", "closed"} ->
            IF IsAcceptance(d) THEN "accepted" ELSE "no-ship"

Terminal ==
  [d \in Delivery |->
     [attempt |-> control[d].attempt, operation |-> control[d].operation,
      parent |-> control[d].base, fate |-> Fate(d)]]

Settlement == INSTANCE TerminalSettlement
  WITH branch <- history, terminal <- Terminal,
       Foreign <- [by : {"person"}, n : 1..MaxMoves]

\* However calls die, contend and repeat each other, and people move the branch,
\* each attempt is settled once and as the branch was: published on its parent
\* or never, accepted only when published, refused only when not.
ImplementsSettlement == Settlement!Spec
==============================================================================
