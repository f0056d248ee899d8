------------------------------- MODULE MCConsole -------------------------------
(***************************************************************************)
(* Instances of Console for TLC: two cases are enough for one to be shown  *)
(* while the other is selected, loaded or decided.                         *)
(***************************************************************************)
EXTENDS Console

CONSTANTS a, b

MCCases == {a, b}

\* Bound: three decisions in all, two of them on one case.
ThreeDecisions == (log[a] - 1) + (log[b] - 1) <= 3
================================================================================
