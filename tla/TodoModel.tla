----------------------------- MODULE TodoModel ------------------------------
(***************************************************************************)
(* Who may change a todo and what follows from its links: the holders of   *)
(* crates/devkit-todo/src/holder.rs, the one rule of transition.rs every   *)
(* status change goes through, the graph questions of graph.rs and the     *)
(* pruning rule of prune.rs.                                               *)
(*                                                                         *)
(* A store is a function from ids to todos.  A todo keeps what the rules   *)
(* read: its status, its parent and its blockers; its text, order, node    *)
(* and times are left out.                                                 *)
(***************************************************************************)
EXTENDS Integers, FiniteSets

CONSTANTS
  Sessions,   \* agent sessions
  SubAgents   \* names of sub-agents inside a session

(***************************************************************************)
(* Holders                                                                 *)
(***************************************************************************)

Main == "main"
Human == [session |-> "human", agent |-> Main]
Tracker == [session |-> "tracker", agent |-> Main]
NoHolder == [session |-> "none", agent |-> Main]

AgentHolders == [session : Sessions, agent : SubAgents \cup {Main}]
Holders == AgentHolders \cup {Human, Tracker}

ASSUME HolderNames ==
  /\ Sessions \cap {"human", "tracker", "none"} = {}
  /\ Main \notin SubAgents

(* `S` covers `S/a`; a person and the tracker cover everyone.              *)
Covers(h, other) ==
  \/ h \in {Human, Tracker}
  \/ h = other
  \/ h.agent = Main /\ h.session = other.session

(***************************************************************************)
(* Statuses and the transition rule                                        *)
(***************************************************************************)

Kinds == {"pending", "in_progress", "completed", "cancelled"}
Pending == [kind |-> "pending", by |-> NoHolder]
InProgress(h) == [kind |-> "in_progress", by |-> h]
Statuses == [kind : Kinds, by : Holders \cup {NoHolder}]

IsOpen(kind) == kind \in {"pending", "in_progress"}

(* What a rule answers: the status to store, the old one for `Ok(None)`,   *)
(* and whether the claimant refuses.                                       *)
Allowed(status) == [refused |-> FALSE, status |-> status]
Claimed(status) == [refused |-> TRUE, status |-> status]

(* Whether a start hands a running todo to the actor: the tracker's claim  *)
(* passes to anyone else, an agent's to its own sub-agent.                 *)
HandsOver(by, actor) ==
  \/ by = Tracker /\ actor # Tracker
  \/ ~Covers(actor, by) /\ by # Human /\ Covers(by, actor)

(* Back to pending nobody holds it, started the actor does, and closed it  *)
(* keeps its claimant, or the actor where there was none.                  *)
Finished(status, to, actor) ==
  LET claimant == IF status.kind = "in_progress" THEN status.by ELSE actor
  IN  [kind |-> to,
       by   |-> IF to = "pending" THEN NoHolder
                ELSE IF to = "in_progress" THEN actor ELSE claimant]

(* transition: an unchanged status stands for `Ok(None)`.                  *)
Transition(status, to, actor) ==
  IF status.kind = "in_progress"
  THEN IF to = "in_progress" /\ HandsOver(status.by, actor)
       THEN Allowed(InProgress(actor))
       ELSE IF ~Covers(actor, status.by) THEN Claimed(status)
       ELSE IF to = "in_progress" THEN Allowed(status)
       ELSE Allowed(Finished(status, to, actor))
  ELSE IF status.kind = to THEN Allowed(status)
       ELSE Allowed(Finished(status, to, actor))

(* Mutant: the claim is taken from whoever holds it now.                   *)
TakeOverAnyone(status, from, actor) ==
  IF status.kind = "in_progress" /\ status.by # Human
  THEN Allowed(InProgress(actor))
  ELSE Transition(status, "in_progress", actor)

(* take_over: only from the holder that was judged gone.                   *)
TakeOver(status, from, actor) ==
  IF /\ status.kind = "in_progress"
     /\ status.by = from
     /\ from # Human
     /\ ~Covers(actor, from)
  THEN Allowed(InProgress(actor))
  ELSE Transition(status, "in_progress", actor)

(***************************************************************************)
(* Links.  `todos` is a store: a function from the ids it holds.           *)
(***************************************************************************)

NoTodo == 0

OpenTodos(todos) == {t \in DOMAIN todos : IsOpen(todos[t].status.kind)}

OpenBlockers(todos, t) == todos[t].blockers \cap OpenTodos(todos)

(* The ids that `from` reaches along the edges `next`, a function from ids *)
(* to sets of ids, in at least one step and at most as many as it has ids. *)
ReachedFrom(next, from) ==
  LET More(ids) == ids \cup UNION {next[t] : t \in ids \cap DOMAIN next}
      within[n \in 0 .. Cardinality(DOMAIN next)] ==
        IF n = 0 THEN UNION {next[t] : t \in from \cap DOMAIN next}
                 ELSE More(within[n - 1])
  IN  within[Cardinality(DOMAIN next)]

Blockers(todos, from) == ReachedFrom([t \in DOMAIN todos |-> todos[t].blockers], from)

Ancestors(todos, from) ==
  ReachedFrom([t \in DOMAIN todos |-> {todos[t].parent} \ {NoTodo}], from)

(* Mutant: only the new links themselves are looked at.                    *)
ClosesCycleDirect(todos, t, by) ==
  t \in by \/ \E b \in by \cap DOMAIN todos : t \in todos[b].blockers

(* cycle_through: stored edges count, closed todos' too.                   *)
ClosesCycle(todos, t, by) == t \in by \cup Blockers(todos, by)

(* needed_by_open: the direct blockers of the open todos, and every        *)
(* ancestor of one.                                                        *)
NeededByOpen(todos) ==
  (UNION {todos[t].blockers : t \in OpenTodos(todos)})
    \cup Ancestors(todos, OpenTodos(todos))

(* prunable: the selection, over any window of times.                      *)
Prunable(todos) == (DOMAIN todos \ OpenTodos(todos)) \ NeededByOpen(todos)

(* Mutant: what was selected is removed without looking again.             *)
RemovableUnchecked(todos, ids) == ids \cap DOMAIN todos

(* removable, with the whole store, inside the hold that removes.          *)
Removable(todos, ids) ==
  ((ids \cap DOMAIN todos) \ OpenTodos(todos)) \ NeededByOpen(todos)
=============================================================================
