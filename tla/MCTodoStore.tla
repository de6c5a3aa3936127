---------------------------- MODULE MCTodoStore -----------------------------
(***************************************************************************)
(* TodoStore with two processes, two sessions of which each may have one   *)
(* sub-agent, and a person.                                                *)
(***************************************************************************)
EXTENDS TodoStore, TLC

Symmetric == Permutations(Procs) \cup Permutations(Sessions)
=============================================================================
