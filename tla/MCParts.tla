------------------------------- MODULE MCParts ------------------------------
(***************************************************************************)
(* The small parts: path keys, todo plans and the port registry.  They     *)
(* share nothing, and a behaviour is one of one of them.  Keys and plans   *)
(* are pure algorithms over inputs that grow; the registry is the instance *)
(* of MCPortRegistry.                                                      *)
(*                                                                         *)
(* Of the file names one is a character prefix of another and one starts   *)
(* with a dot.                                                             *)
(***************************************************************************)
EXTENDS MCPortRegistry, PathKeys, TodoPlan

MCFileNames == {<<"a">>, <<"a", "b">>, <<".", "a">>}
MCRoot == << <<"a">> >>

PartsInit == Init /\ PathInit /\ PlanInit

AtPaths == ~PathInit
AtPlans == list # <<>> \/ cap # 0
AtPorts == ~Init

PartsNext ==
  \/ ~AtPlans /\ ~AtPorts /\ PathNext /\ UNCHANGED <<vars, planVars>>
  \/ ~AtPaths /\ ~AtPorts /\ PlanNext /\ UNCHANGED <<vars, pathVars>>
  \/ ~AtPaths /\ ~AtPlans /\ Next /\ UNCHANGED <<pathVars, planVars>>
  \/ (AtPaths \/ AtPlans) /\ UNCHANGED <<vars, pathVars, planVars>>  \* input complete

PartsSpec == PartsInit /\ [][PartsNext]_<<vars, pathVars, planVars>>
=============================================================================
