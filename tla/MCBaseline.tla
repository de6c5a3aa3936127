----------------------------- MODULE MCBaseline -----------------------------
(***************************************************************************)
(* Two worktrees and two fork points with one short name, so that both the *)
(* sharing of a baseline and the second candidate of a slot happen.        *)
(***************************************************************************)
EXTENDS Baseline, TLC

CONSTANT short

MCShort == [s \in Shas |-> short]

Symmetry ==
  Permutations(Commands) \cup Permutations(Checkouts) \cup Permutations(Shas)
=============================================================================
