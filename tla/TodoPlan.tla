------------------------------ MODULE TodoPlan ------------------------------
(***************************************************************************)
(* How `devkit todo plan` schedules open todos: Graph::plan, ranks_of,     *)
(* topo and critical_path of crates/devkit-todo/src/graph.rs, beside the   *)
(* readiness and cycle questions of the same file.                         *)
(*                                                                         *)
(* The variables are what a call is given: the listed todos, the ones the  *)
(* caller is offered, and the most that may run at once.  They grow one    *)
(* link, status or withheld todo at a time, so an invariant ranges over    *)
(* every input within MaxChanges of a plain list.  A todo's order and id,  *)
(* compared one after the other, are its number here.  A batch is a set:   *)
(* its order is layout.                                                    *)
(***************************************************************************)
EXTENDS TodoModel, SequencesExt

CONSTANTS
  MaxTodos,    \* bound on the todos of a list
  Caps,        \* values of --agents; 0 stands for no cap
  MaxChanges   \* bound on links, statuses and withheld todos

ASSUME TodoPlanAssumption ==
  /\ MaxTodos \in Nat
  /\ Caps \subseteq Nat
  /\ MaxChanges \in Nat

VARIABLES
  list,     \* the listed todos
  offered,  \* those the caller is offered
  cap       \* the most of a batch

planVars == <<list, offered, cap>>

Listed == DOMAIN list

Started(t) == list[t].status.kind = "in_progress"

(***************************************************************************)
(* Members and what they wait for                                          *)
(***************************************************************************)

Members == OpenTodos(list) \cap offered

(* A started todo is running already: its blockers no longer gate it.      *)
Waits(t) == IF Started(t) THEN {} ELSE OpenBlockers(list, t)

(* Members that wait, directly or through another, on a todo that the plan *)
(* never finishes.                                                         *)
WaitingOutside ==
  LET grown[n \in 0 .. Cardinality(Members)] ==
        IF n = 0 THEN {t \in Members : ~(Waits(t) \subseteq Members)}
        ELSE LET so_far == grown[n - 1]
             IN  so_far \cup {t \in Members : Waits(t) \cap so_far # {}}
  IN  grown[Cardinality(Members)]

DependentsOf(t) == {u \in Members : t \in Waits(u)}

(* on_member_cycle, over the stored edges: a start hides no cycle.         *)
OnMemberCycle(t) ==
  t \in ReachedFrom([u \in Listed |-> OpenBlockers(list, u) \cap Members], {t})

Cycled == {t \in Members : OnMemberCycle(t)}

(***************************************************************************)
(* Ranks                                                                   *)
(***************************************************************************)

(* topo: the todos of `left` that Kahn's algorithm frees.                  *)
Sorted(left) ==
  LET freed[n \in 0 .. Cardinality(left)] ==
        IF n = 0 THEN {}
        ELSE LET so_far == freed[n - 1]
             IN  {t \in left : Waits(t) \cap left \subseteq so_far}
  IN  freed[Cardinality(left)]

(* The longest chain of dependents that starts at each todo, and 1 for a   *)
(* todo behind a cycle.                                                    *)
Chains(left) ==
  LET sorted == Sorted(left)
      heads[n \in 1 .. Cardinality(left)] ==
        IF n = 1 THEN sorted
        ELSE LET longer == heads[n - 1]
             IN  {u \in sorted : DependentsOf(u) \cap longer # {}}
  IN  [t \in left |-> Max({1} \cup {n \in 1 .. Cardinality(left) : t \in heads[n]})]

(* ranks_of and Rank::cmp: chain, then dependents, then number.            *)
RanksOf(left) ==
  LET chains == Chains(left)
  IN  [t \in left |-> <<-chains[t], -Cardinality(DependentsOf(t)), t>>]

Less(a, b) ==
  \E i \in DOMAIN a \cap DOMAIN b :
    a[i] < b[i] /\ \A j \in 1 .. i - 1 : a[j] = b[j]

(***************************************************************************)
(* Batches                                                                 *)
(***************************************************************************)

(* What may run once `placed` has finished.                                *)
ReadyAfter(placed) ==
  {t \in Members \ (placed \cup WaitingOutside \cup Cycled) : Waits(t) \cap Members \subseteq placed}

(* Mutant: the cap is applied to the started todos as to any other.        *)
NextBatchCapsStarted(placed) ==
  LET ready == ReadyAfter(placed)
      rank == RanksOf(Members \ placed)
  IN  {t \in ready : cap = 0 \/ Cardinality({u \in ready : Less(rank[u], rank[t])}) < cap}

(* Started todos all run; the best ranked of the others fill the room.     *)
NextBatch(placed) ==
  LET ready == ReadyAfter(placed)
      started == {t \in ready : Started(t)}
      rest == ready \ started
      rank == RanksOf(Members \ placed)
      ahead(t) == {u \in rest : Less(rank[u], rank[t])}
  IN  started \cup {t \in rest : cap = 0 \/ Cardinality(ahead(t)) + Cardinality(started) < cap}

PlacedIn(batches) == UNION Range(batches)

Batches ==
  LET after[n \in 0 .. Cardinality(Members)] ==
        IF n = 0 THEN <<>>
        ELSE LET so_far == after[n - 1]
                 batch == NextBatch(PlacedIn(so_far))
             IN  IF batch = {} THEN so_far ELSE Append(so_far, batch)
  IN  after[Cardinality(Members)]

(* The cycle a plan reports.                                               *)
ReportedCycle == Cycled \ WaitingOutside

Frontier(batches) == IF batches = <<>> THEN {} ELSE {t \in batches[1] : ~Started(t)}

(***************************************************************************)
(* The critical path                                                       *)
(***************************************************************************)

(* `better`: the longer chain, then the one whose ranks come first.        *)
Better(ranks, a, b) ==
  \/ Len(a) > Len(b)
  \/ /\ Len(a) = Len(b)
     /\ \E i \in DOMAIN a : Less(ranks[a[i]], ranks[b[i]]) /\ \A j \in 1 .. i - 1 : a[j] = b[j]

BestOf(ranks, chains) == CHOOSE a \in chains : \A b \in chains \ {a} : Better(ranks, a, b)

(* Mutant: the first dependent is followed, not the best chain.            *)
CriticalPathByRank(placed) ==
  LET ranks == RanksOf(placed)
      first(ts) == CHOOSE t \in ts : \A u \in ts \ {t} : t < u
      from[n \in 1 .. Cardinality(placed) + 1] ==
        [t \in placed |->
           LET next == DependentsOf(t) \cap placed
           IN  IF n = 1 \/ next = {} THEN <<t>> ELSE <<t>> \o from[n - 1][first(next)]]
  IN  IF placed = {} THEN <<>>
      ELSE BestOf(ranks, Range(from[Cardinality(placed) + 1]))

(* best_from, filled from the last todos of a topological order back: each *)
(* todo continues with the best chain of its dependents.                   *)
CriticalPath(placed) ==
  LET ranks == RanksOf(placed)
      from[n \in 1 .. Cardinality(placed) + 1] ==
        [t \in placed |->
           LET next == DependentsOf(t) \cap placed
           IN  IF n = 1 \/ next = {} THEN <<t>>
               ELSE <<t>> \o BestOf(ranks, {from[n - 1][u] : u \in next})]
  IN  IF placed = {} THEN <<>>
      ELSE BestOf(ranks, Range(from[Cardinality(placed) + 1]))

(***************************************************************************)
(* Readiness                                                               *)
(***************************************************************************)

(* on_cycle, over the open todos of the whole list.                        *)
OnOpenCycle(t) ==
  t \in ReachedFrom([u \in Listed |-> OpenBlockers(list, u)], {t})

IsReady(t) ==
  /\ list[t].status.kind = "pending"
  /\ OpenBlockers(list, t) = {}
  /\ ~OnOpenCycle(t)

(***************************************************************************)
(* Every input within MaxChanges of a plain list                           *)
(***************************************************************************)

Changes ==
  Cardinality({e \in Listed \X Listed : e[2] \in list[e[1]].blockers})
    + Cardinality(Listed \ offered)
    + Cardinality({t \in Listed : list[t].status # Pending})

PlanInit ==
  /\ \E n \in 0 .. MaxTodos :
       list = [t \in 1 .. n |-> [status |-> Pending, parent |-> NoTodo, blockers |-> {}]]
  /\ offered = Listed
  /\ cap \in Caps

AddLink(t, b) ==
  /\ Changes < MaxChanges
  /\ t # b /\ b \notin list[t].blockers
  /\ list' = [list EXCEPT ![t].blockers = @ \cup {b}]
  /\ UNCHANGED <<offered, cap>>

SetKind(t, status) ==
  /\ Changes < MaxChanges
  /\ list[t].status = Pending
  /\ list' = [list EXCEPT ![t].status = status]
  /\ UNCHANGED <<offered, cap>>

Withhold(t) ==
  /\ Changes < MaxChanges
  /\ t \in offered
  /\ offered' = offered \ {t}
  /\ UNCHANGED <<list, cap>>

PlanNext ==
  \/ \E t \in Listed, b \in Listed : AddLink(t, b)
  \/ \E t \in Listed : \E kind \in {"in_progress", "completed"} :
       SetKind(t, [kind |-> kind, by |-> Human])
  \/ \E t \in Listed : Withhold(t)

PlanSpec == PlanInit /\ [][PlanNext]_planVars

(***************************************************************************)
(* Properties                                                              *)
(***************************************************************************)

(* Nothing runs twice or before what it waits for, what runs already is in *)
(* the first batch, no batch passes the cap except by todos that run       *)
(* already, and no todo could have run in an earlier batch that had room.  *)
BatchesInOrder(batches) ==
  LET before(n) == UNION {batches[m] : m \in 1 .. n - 1}
  IN  \A n \in DOMAIN batches :
        /\ batches[n] \cap before(n) = {}
        /\ \A t \in batches[n] : t \in Members /\ Waits(t) \subseteq before(n)
        /\ n > 1 => \A t \in batches[n] : ~Started(t)
        /\ cap = 0 \/ Cardinality(batches[n]) <= cap \/ \A t \in batches[n] : Started(t)
        /\ cap = 0 \/ Cardinality(batches[n]) < cap
           => \A m \in n + 1 .. Len(batches) : \A t \in batches[m] : ~(Waits(t) \subseteq before(n))

(* Left out are exactly the members that can never run: those that wait,   *)
(* through whatever chain, on a todo outside the plan or on a cycle.  A    *)
(* cycle is reported exactly when nothing outside holds it back.           *)
NothingForgotten(batches) ==
  LET next == [t \in Listed |-> Waits(t)]
      awaited(t) == ReachedFrom(next, {t})
      held == {t \in Members : ~(awaited(t) \subseteq Members)}
  IN  /\ Members \ PlacedIn(batches)
           = held \cup {t \in Members : ({t} \cup awaited(t)) \cap Cycled # {}}
      /\ ReportedCycle = Cycled \ held

(* The frontier, what a caller may start now, is what is_ready says of the *)
(* members, and under a cap a part of it.                                  *)
FrontierIsReady(batches) ==
  LET ready == {t \in Members : IsReady(t)}
      frontier == Frontier(batches)
  IN  frontier \subseteq ready /\ (cap = 0 => frontier = ready)

(* A plan is a schedule of every member that can run: its batches are in   *)
(* order, nothing is forgotten, and it starts with what is ready.          *)
PlanIsASchedule ==
  LET batches == Batches
  IN  BatchesInOrder(batches) /\ NothingForgotten(batches) /\ FrontierIsReady(batches)

(* The critical path is a chain of placed todos, each waiting on the one   *)
(* before, and no such chain is longer or, as long, ranks before it.       *)
CriticalIsLongest ==
  LET placed == PlacedIn(Batches)
      chains == {c \in SeqOf(placed, Cardinality(placed)) :
                   c # <<>> /\ \A i \in 1 .. Len(c) - 1 : c[i] \in Waits(c[i + 1])}
      ranks == RanksOf(placed)
      path == CriticalPath(placed)
  IN  IF placed = {} THEN path = <<>>
      ELSE path \in chains /\ \A c \in chains : ~Better(ranks, c, path)

(* cycle_through refuses a link exactly when it would close a cycle.       *)
CycleCheckIsExact ==
  LET with(t, b) == [list EXCEPT ![t].blockers = @ \cup {b}]
      cyclic(store) == \E u \in Listed : u \in Blockers(store, {u})
  IN  ~cyclic(list) =>
        \A t, b \in Listed : ClosesCycle(list, t, {b}) <=> cyclic(with(t, b))
=============================================================================
