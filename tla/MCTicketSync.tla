---------------------------- MODULE MCTicketSync ----------------------------
(***************************************************************************)
(* TicketSync on a board of three columns: a start moves a ticket from the *)
(* first, a finish from anywhere, and a cancel has no move of its own.     *)
(***************************************************************************)
EXTENDS TicketSync, TLC

MCFields == {"todo", "doing", "done"}
MCStatusMap ==
  [f \in MCFields |->
     CASE f = "todo" -> "pending" [] f = "doing" -> "in_progress" [] OTHER -> "completed"]
MCTicketEvents ==
  [l \in {"start", "stop", "done", "cancel"} |->
     CASE l = "start" -> [from |-> {"todo"}, to |-> "doing"]
       [] l = "done"  -> [from |-> {}, to |-> "done"]
       [] OTHER       -> [from |-> {}, to |-> "none"]]

Symmetric == Permutations(Procs)
=============================================================================
