--------------------------- MODULE MCReplicaSync ----------------------------
(***************************************************************************)
(* ReplicaSync on the process slots the configuration names.               *)
(***************************************************************************)
EXTENDS ReplicaSync
=============================================================================
