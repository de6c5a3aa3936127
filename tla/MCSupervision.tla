--------------------------- MODULE MCSupervision ----------------------------
(***************************************************************************)
(* Small instances of Supervision: one server key, so that every request,  *)
(* crash and respawn meets on it.                                          *)
(***************************************************************************)
EXTENDS Supervision

CONSTANTS w1, web, workspace

MCKey == [holder |-> w1, app |-> web, role |-> workspace]

Supervise == [op |-> "supervise", key |-> MCKey, base |-> 1]
Down == [op |-> "down", holder |-> w1, roles |-> Roles]
DownPorts == [op |-> "downports", ports |-> {1}]
Snapshot == [op |-> "snapshot"]

StartRequests == {Supervise}
DownRequests == {Supervise, Down, DownPorts}
AllRequests == {Supervise, Down, DownPorts, Snapshot}

=============================================================================
