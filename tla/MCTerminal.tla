------------------------------ MODULE MCTerminal -------------------------------
(* Small instances of the terminal transactions for TLC.                      *)
EXTENDS TerminalRefinement, TLC

CONSTANTS d1, d2

MCDelivery == {d1, d2}
Symmetric == Permutations(MCDelivery)
==============================================================================
