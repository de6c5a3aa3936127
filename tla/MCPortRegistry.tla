--------------------------- MODULE MCPortRegistry ---------------------------
(***************************************************************************)
(* Small instances of PortRegistry: a worktree whose two apps share a base *)
(* port, so that every allocation competes.                                *)
(***************************************************************************)
EXTENDS PortRegistry, TLC

CONSTANTS w1, web, api, workspace

Req(h, a) == [key |-> [holder |-> h, app |-> a, role |-> workspace], base |-> 1]

Up(h) == [op |-> "up", reqs |-> << Req(h, web) >>]

AllocBoth(h) == [op |-> "alloc", reqs |-> << Req(h, web), Req(h, api) >>]
Prune == [op |-> "prune"]
DownPorts == [op |-> "downports", ports |-> {1}]
ReleaseHolder(h) == [op |-> "release", holder |-> h, roles |-> Roles]

MCJobs == {Up(w1), AllocBoth(w1), Prune, DownPorts, ReleaseHolder(w1)}

TrackJobs == {Up(w1), Prune}

ClientSymmetry == Permutations(Clients)
=============================================================================
