--------------------------- MODULE MCLockService ----------------------------
(* Two clients of different sessions on a directory and the file in it.    *)
EXTENDS LockService

CONSTANTS dir, file1, S, T, r1, p1

MCNames == {dir, file1, S, T}
MCPaths == {<<dir>>, <<dir, file1>>}
MCHolders == {<<S>>, <<T>>}

Request(kind, holder, paths, pid) ==
  [kind |-> kind, holder |-> holder, root |-> r1, paths |-> paths,
   pid |-> pid, ttl |-> 1, force |-> FALSE]

MCRequests ==
  {Request("acquire", <<S>>, {<<dir>>}, p1),
   Request("write", <<T>>, {<<dir, file1>>}, NoPid),
   Request("release", <<S>>, {<<dir>>, <<dir, file1>>}, NoPid),
   Request("release_all", <<T>>, {}, NoPid),
   Request("release_prefix", <<S>>, {}, NoPid),
   Request("check", <<T>>, {<<dir>>}, NoPid),
   Request("prune", <<T>>, {}, NoPid),
   Request("read", <<T>>, {<<dir>>}, NoPid)}

ClientSymmetry == Permutations(Clients)

(* Fewer requests, for the temporal runs.                                  *)
FewRequests == {r \in MCRequests : r.kind \in {"acquire", "write", "check"}}
=============================================================================
