--------------------------- MODULE MCLockRegistry ---------------------------
(* A small instance of LockRegistry: one root, a directory with a file in  *)
(* it and the root itself, a session with two sub-agents and a second      *)
(* session.                                                                *)
EXTENDS LockRegistry

CONSTANTS dir, file, S, T, a1, a2

MCNames == {dir, file, S, T, a1, a2}
MCPaths == {<<>>, <<dir>>, <<dir, file>>}
MCHolders == {<<S>>, <<S, a1>>, <<S, a2>>, <<T>>}
Agents == Permutations({a1, a2})
=============================================================================
