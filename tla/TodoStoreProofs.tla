-------------------------- MODULE TodoStoreProofs ---------------------------
(***************************************************************************)
(* Theorems about the todo list of TodoStore, for every set of processes,  *)
(* sessions and sub-agents and every bound, and about the plans and the    *)
(* cycle check of TodoPlan, for lists of every length.                     *)
(***************************************************************************)
EXTENDS TodoStore, TodoPlan, FiniteSetTheorems, SequenceTheorems,
        WellFoundedInduction, TLAPS

(***************************************************************************)
(* Types                                                                   *)
(***************************************************************************)

Slots == [pc : Places, cmd : Commands, actor : Holders \cup {NoHolder},
          id : Ids \cup {NoTodo}, to : Kinds, ids : SUBSET Ids,
          from : Holders \cup {NoHolder}, edges : SUBSET (Ids \X Ids),
          events : SUBSET Events]

LEMMA HolderTypes ==
  /\ Human \in Holders
  /\ Tracker \in Holders
  /\ AgentHolders \subseteq Holders
BY DEF Holders

LEMMA IdleType == Idle \in Slots
BY DEF Idle, Slots, Places, Commands, Kinds, NoTodo

(* A transition and a take-over answer with a well-formed status.          *)
LEMMA TransitionType ==
  ASSUME NEW status \in Statuses, NEW to \in Kinds, NEW actor \in Holders \cup {NoHolder}
  PROVE  Transition(status, to, actor).status \in Statuses
BY DEF Transition, Allowed, Claimed, Finished, Pending, InProgress, Statuses, Kinds

LEMMA TakeOverType ==
  ASSUME NEW status \in Statuses, NEW actor \in Holders \cup {NoHolder},
         NEW from \in Holders \cup {NoHolder}
  PROVE  TakeOver(status, from, actor).status \in Statuses
<1>1. "in_progress" \in Kinds
  BY DEF Kinds
<1>2. Transition(status, "in_progress", actor).status \in Statuses
  BY <1>1, TransitionType
<1>3. Allowed(InProgress(actor)).status \in Statuses
  BY <1>1 DEF Allowed, InProgress, Statuses
<1> QED
  BY <1>2, <1>3 DEF TakeOver

LEMMA PendingType == Pending \in Statuses
BY DEF Pending, Statuses, Kinds

LEMMA ClaimantType ==
  ASSUME NEW store, NEW t, t \in DOMAIN store => store[t] \in Todos
  PROVE  Claimant(store, t) \in Holders \cup {NoHolder}
BY DEF Claimant, Todos, Statuses

LEMMA EdgesType ==
  ASSUME NEW store
  PROVE  Edges(store) \in SUBSET (Ids \X Ids)
BY DEF Edges

LEMMA EventsType ==
  ASSUME NEW new, NEW at \in Nat, \A t \in DOMAIN new : new[t] \in Todos
  PROVE  EventsOf(new, at) \in SUBSET Events
BY ClaimantType DEF EventsOf, Events

LEMMA NextKeyType ==
  ASSUME TypeOK
  PROVE  NextKey \in Nat \ {0} /\ nextId \in Nat
BY TodoStoreAssumption DEF TypeOK, NextKey

(* A process that moves on to a well-formed slot leaves the rest as it was. *)
LEMMA SlotType ==
  ASSUME TypeOK, NEW p \in Procs, NEW slot \in Slots, proc' = [proc EXCEPT ![p] = slot]
  PROVE  proc' \in [Procs -> Slots]
BY DEF TypeOK, Slots

LEMMA MineType ==
  ASSUME TypeOK, NEW p \in Procs
  PROVE  proc[p] \in Slots
BY DEF TypeOK, Slots

LEMMA FinishType ==
  ASSUME TypeOK, NEW p \in Procs, Finish(p)
  PROVE  proc' \in [Procs -> Slots]
BY SlotType, IdleType DEF Finish

LEMMA GoType ==
  ASSUME TypeOK, NEW p \in Procs, NEW pc \in Places, Go(p, pc)
  PROVE  proc' \in [Procs -> Slots]
BY SMTT(30) DEF TypeOK, Slots, Go

(* A step that only reads keeps the types if it keeps those of proc.       *)
LEMMA ReadsType ==
  ASSUME TypeOK, Reads, proc' \in [Procs -> Slots]
  PROVE  TypeOK'
BY DEF TypeOK, Reads, Slots

LEMMA SeenType ==
  ASSUME TypeOK, NEW h
  PROVE  Seen(h) \in [Sessions -> {"active", "silent", "ended"}]
BY DEF TypeOK, Seen

LEMMA BeginType ==
  ASSUME TypeOK, NEW p \in Procs, NEW request \in Slots, Begin(p, request)
  PROVE  TypeOK'
<1>1. proc' \in [Procs -> Slots]
  BY SlotType DEF Begin
<1>2. life' \in [Sessions -> {"active", "silent", "ended"}]
  BY SeenType DEF Begin
<1>3. commands' \in 0 .. MaxCommands
  BY TodoStoreAssumption DEF TypeOK, Begin
<1> QED
  BY <1>1, <1>2, <1>3 DEF TypeOK, Begin, Slots

LEMMA RequestType ==
  ASSUME NEW cmd \in Commands, NEW h \in Holders, NEW t \in Ids \cup {NoTodo}
  PROVE  Request(cmd, h, t) \in Slots
BY DEF Request, Idle, Slots, Places, Commands, Kinds, NoTodo

LEMMA StartsType ==
  ASSUME TypeOK, NEW p \in Procs, Starts(p)
  PROVE  TypeOK'
<1> DEFINE Names == {"none", "start", "status", "sync", "block", "unblock", "move",
                     "add", "purge", "prune", "release", "session_end"}
<1>0. /\ Commands = Names
      /\ DOMAIN todos \subseteq Ids
      /\ {"in_progress"} \subseteq Kinds
      /\ {"resolve", "blockers", "apply"} \subseteq Places
  BY DEF Commands, TypeOK, Kinds, Places
<1>1. ASSUME NEW h \in Holders \ {Tracker}, NEW t \in DOMAIN todos, NEW force \in BOOLEAN,
             BeginStart(p, h, t, force)
      PROVE  TypeOK'
  <2>1. Request("start", h, t) \in Slots
    BY <1>0, RequestType
  <2> QED
    BY <1>0, <1>1, <2>1, BeginType DEF BeginStart, Slots
<1>2. ASSUME NEW h \in Holders \ {Tracker}, NEW t \in DOMAIN todos,
             NEW to \in Kinds \ {"in_progress"}, BeginStatus(p, h, t, to)
      PROVE  TypeOK'
  <2>1. Request("status", h, t) \in Slots
    BY <1>0, RequestType
  <2> QED
    BY <1>2, <2>1, BeginType DEF BeginStatus, Slots
<1>3. ASSUME NEW t \in DOMAIN todos, NEW to \in Kinds, BeginSync(p, t, to)
      PROVE  TypeOK'
  <2>1. Request("sync", Tracker, t) \in Slots
    BY <1>0, RequestType, HolderTypes
  <2> QED
    BY <1>3, <2>1, BeginType DEF BeginSync, Slots
<1>4. ASSUME NEW cmd \in {"block", "unblock", "move"}, NEW t \in DOMAIN todos,
             NEW others \in SUBSET Ids, BeginLink(p, cmd, t, others)
      PROVE  TypeOK'
  <2>1. Request(cmd, Human, t) \in Slots
    BY <1>0, RequestType, HolderTypes
  <2> QED
    BY <1>4, <2>1, BeginType DEF BeginLink, Slots
<1>5. ASSUME NEW parent \in DOMAIN todos \cup {NoTodo}, NEW b \in DOMAIN todos \cup {NoTodo},
             BeginAdd(p, parent, {b} \ {NoTodo})
      PROVE  TypeOK'
  <2>1. Request("add", Human, parent) \in Slots
    BY <1>0, RequestType, HolderTypes
  <2>2. {b} \ {NoTodo} \in SUBSET Ids
    BY <1>0
  <2> QED
    BY <1>5, <2>1, <2>2, BeginType DEF BeginAdd, Slots
<1>6. ASSUME NEW t \in DOMAIN todos, BeginPurge(p, t)
      PROVE  TypeOK'
  BY <1>0, <1>6, RequestType, HolderTypes, BeginType DEF BeginPurge
<1>7. ASSUME BeginPrune(p)
      PROVE  TypeOK'
  BY <1>0, <1>7, RequestType, HolderTypes, BeginType DEF BeginPrune
<1>8. ASSUME NEW h \in AgentHolders, BeginRelease(p, h)
      PROVE  TypeOK'
  <2> DEFINE cmd == IF h.agent = Main THEN "session_end" ELSE "release"
  <2>1. Request(cmd, h, NoTodo) \in Slots
    BY <1>0, RequestType, HolderTypes
  <2> QED
    BY <1>0, <1>8, <2>1, BeginType DEF BeginRelease, Slots
<1>9. \A cmd \in {"block", "unblock"}, t \in DOMAIN todos, b \in DOMAIN todos :
        BeginLink(p, cmd, t, {b}) => TypeOK'
  BY <1>0, <1>4
<1>10. \A t \in DOMAIN todos, parent \in DOMAIN todos \cup {NoTodo} :
         BeginLink(p, "move", t, {parent} \ {NoTodo}) => TypeOK'
  BY <1>0, <1>4
<1> QED
  BY <1>1, <1>2, <1>3, <1>5, <1>6, <1>7, <1>8, <1>9, <1>10 DEF Starts

LEMMA ChecksType ==
  ASSUME TypeOK, NEW p \in Procs, Checks(p)
  PROVE  TypeOK'
<1> USE MineType
<1>0. /\ {"resolve", "judge", "apply", "add"} \subseteq Places
      /\ \A t \in DOMAIN todos : todos[t].status.by \in Holders \cup {NoHolder}
  BY DEF Places, TypeOK, Todos, Statuses
<1>1. CASE ReadBlockers(p)
  BY <1>0, <1>1, FinishType, GoType, ReadsType DEF ReadBlockers
<1>2. CASE Resolve(p)
  <2>1. Reads
    BY <1>2 DEF Resolve
  <2>2. CASE Finish(p) \/ Go(p, "apply")
    BY <1>0, <2>1, <2>2, FinishType, GoType, ReadsType
  <2>3. CASE /\ proc[p].id \in DOMAIN todos
             /\ proc' = [proc EXCEPT ![p] =
                   [proc[p] EXCEPT !.pc = "judge", !.from = todos[proc[p].id].status.by]]
    <3>1. proc' \in [Procs -> Slots]
      <4>1. [proc[p] EXCEPT !.pc = "judge", !.from = todos[proc[p].id].status.by] \in Slots
        BY <1>0, <2>3 DEF Slots
      <4> QED
        BY <2>3, <4>1, SlotType
    <3> QED
      BY <2>1, <3>1, ReadsType
  <2> QED
    BY <1>2, <2>2, <2>3 DEF Resolve
<1>3. CASE Judge(p)
  BY <1>0, <1>3, FinishType, GoType, ReadsType DEF Judge
<1>4. CASE ResolveLinks(p)
  <2>1. Reads
    BY <1>4 DEF ResolveLinks
  <2>2. CASE Finish(p)
    BY <2>1, <2>2, FinishType, ReadsType
  <2> DEFINE pc == IF proc[p].cmd = "add" THEN "add" ELSE "apply"
  <2>3. CASE proc' = [proc EXCEPT ![p] =
                        [proc[p] EXCEPT !.pc = pc, !.edges = Edges(todos)]]
    <3>1. proc' \in [Procs -> Slots]
      <4>1. [proc[p] EXCEPT !.pc = pc, !.edges = Edges(todos)] \in Slots
        BY <1>0, EdgesType DEF Slots
      <4> QED
        BY <2>3, <4>1, SlotType
    <3> QED
      BY <2>1, <3>1, ReadsType
  <2> QED
    BY <1>4, <2>2, <2>3 DEF ResolveLinks
<1>5. ASSUME NEW ids \in SUBSET Ids, SelectPrunable(p, ids)
      PROVE  TypeOK'
  <2>1. CASE Finish(p)
    BY <1>5, <2>1, FinishType, ReadsType DEF SelectPrunable
  <2>2. CASE proc' = [proc EXCEPT ![p] = [proc[p] EXCEPT !.pc = "apply", !.ids = ids]]
    <3>1. proc' \in [Procs -> Slots]
      <4>1. [proc[p] EXCEPT !.pc = "apply", !.ids = ids] \in Slots
        BY <1>0 DEF Slots
      <4> QED
        BY <2>2, <4>1, SlotType
    <3> QED
      BY <1>5, <3>1, ReadsType DEF SelectPrunable
  <2> QED
    BY <1>5, <2>1, <2>2 DEF SelectPrunable
<1> QED
  BY <1>1, <1>2, <1>3, <1>4, <1>5 DEF Checks

LEMMA ChangedType ==
  ASSUME TypeOK, NEW p \in Procs, NEW new, NEW after \in Places,
         DOMAIN new \subseteq Ids, \A t \in DOMAIN new : new[t] \in Todos,
         Changed(p, new, after)
  PROVE  TypeOK'
<1> DEFINE events == EventsOf(new, clock + 1)
<1>1. clock \in Nat /\ clock + 1 \in Nat
  BY DEF TypeOK
<1>2. events \in SUBSET Events
  BY <1>1, EventsType
<1>3. clock' \in Nat
  BY <1>1 DEF Changed
<1>4. proc' \in [Procs -> Slots]
  <2> DEFINE slot == IF events # {} THEN [proc[p] EXCEPT !.pc = "log", !.events = events]
                     ELSE IF after = "idle" THEN Idle ELSE [proc[p] EXCEPT !.pc = after]
  <2>1. slot \in Slots
    BY <1>2, MineType, IdleType, ZenonT(30) DEF Slots, Places
  <2>2. proc' = [proc EXCEPT ![p] = slot]
    BY DEF Changed
  <2> HIDE DEF slot
  <2> QED
    BY <2>1, <2>2, SlotType
<1>5. todos' = new
  BY DEF Changed
<1> QED
  BY <1>3, <1>4, <1>5 DEF TypeOK, Changed, Slots

LEMMA RefusedType ==
  ASSUME TypeOK, NEW p \in Procs, Refused(p)
  PROVE  TypeOK'
BY FinishType, ReadsType DEF Refused

LEMMA RelinkedType ==
  ASSUME NEW todo \in Todos, NEW cmd, NEW ids \in SUBSET Ids
  PROVE  Relinked(todo, cmd, ids) \in Todos
BY DEF Relinked, Todos

LEMMA EditsType ==
  ASSUME TypeOK, NEW p \in Procs, Edits(p)
  PROVE  TypeOK'
<1> DEFINE me == proc[p]
<1>0. /\ me \in Slots
      /\ {"idle", "apply", "end"} \subseteq Places
      /\ "block" \in Commands
      /\ DOMAIN todos \subseteq Ids
      /\ \A t \in DOMAIN todos : todos[t] \in Todos
  BY MineType DEF Places, Commands, TypeOK
<1>1. CASE ApplyStatus(p)
  <2> DEFINE status == todos[me.id].status
             answer == IF me.from = NoHolder THEN Transition(status, me.to, me.actor)
                       ELSE TakeOver(status, me.from, me.actor)
             new == [todos EXCEPT ![me.id].status = answer.status]
  <2>1. CASE Refused(p)
    BY <2>1, RefusedType
  <2>2. CASE me.id \in DOMAIN todos /\ Changed(p, new, "idle")
    <3>1. answer.status \in Statuses
      BY <1>0, <2>2, TransitionType, TakeOverType DEF Slots, Todos
    <3>2. DOMAIN new = DOMAIN todos
      OBVIOUS
    <3>3. \A t \in DOMAIN new : new[t] \in Todos
      <4> HIDE DEF answer
      <4> QED
        BY <1>0, <3>1 DEF Todos
    <3> HIDE DEF new
    <3> QED
      BY <1>0, <2>2, <3>2, <3>3, ChangedType
  <2> QED
    BY <1>1, <2>1, <2>2 DEF ApplyStatus
<1>2. CASE ApplyLinks(p)
  <2> DEFINE new == [todos EXCEPT ![me.id] = Relinked(@, me.cmd, me.ids)]
  <2>1. CASE Refused(p)
    BY <2>1, RefusedType
  <2>2. CASE me.id \in DOMAIN todos /\ Linked(p, new)
    <3>1. \A t \in DOMAIN new : new[t] \in Todos
      BY <1>0, <2>2, RelinkedType DEF Slots
    <3>2. DOMAIN new = DOMAIN todos
      OBVIOUS
    <3>3. todos' = new
      BY <2>2 DEF Linked
    <3>4. proc' \in [Procs -> Slots]
      BY <2>2, FinishType DEF Linked
    <3> HIDE DEF new
    <3> QED
      BY <1>0, <2>2, <3>1, <3>2, <3>3, <3>4 DEF TypeOK, Linked, Slots
  <2> QED
    BY <1>2, <2>1, <2>2 DEF ApplyLinks
<1>3. CASE ApplyAdd(p)
  <2>1. CASE Refused(p)
    BY <2>1, RefusedType
  <2>2. CASE ~Refused(p)
    <3> DEFINE new == [t \in DOMAIN todos \cup {NextKey} |->
                         IF t = NextKey THEN NewTodo(me.id) ELSE todos[t]]
               slot == IF me.ids = {} THEN Idle
                       ELSE [me EXCEPT !.pc = "apply", !.cmd = "block", !.id = NextKey]
    <3>1. /\ todos' = new
          /\ nextId' = NextKey + 1
          /\ proc' = [proc EXCEPT ![p] = slot]
          /\ UNCHANGED <<clock, log, life, endAt, commands, lostAt>>
          /\ NextKey <= MaxId
      BY <1>3, <2>2 DEF ApplyAdd
    <3>2. NextKey \in Ids /\ nextId' \in 0 .. MaxId + 1
      BY <3>1, NextKeyType, TodoStoreAssumption DEF Ids
    <3>3. NewTodo(me.id) \in Todos
      BY <1>0, PendingType DEF NewTodo, Slots, Todos
    <3>4. DOMAIN new \subseteq Ids /\ \A t \in DOMAIN new : new[t] \in Todos
      BY <1>0, <3>2, <3>3
    <3>5. proc' \in [Procs -> Slots]
      <4>1. slot \in Slots
        BY <1>0, <3>2, IdleType DEF Slots
      <4> HIDE DEF slot
      <4> QED
        BY <3>1, <4>1, SlotType
    <3> HIDE DEF new, slot
    <3> QED
      BY <3>1, <3>2, <3>4, <3>5 DEF TypeOK, Slots
  <2> QED
    BY <2>1, <2>2
<1>4. ASSUME NEW ids, Changed(p, Without(ids), "idle")
      PROVE  TypeOK'
  <2>1. /\ DOMAIN Without(ids) \subseteq Ids
        /\ \A t \in DOMAIN Without(ids) : Without(ids)[t] \in Todos
    BY <1>0 DEF Without
  <2> QED
    BY <1>0, <1>4, <2>1, ChangedType
<1>5. CASE ApplyPurge(p)
  BY <1>4, <1>5, RefusedType DEF ApplyPurge
<1>6. CASE ApplyPrune(p)
  BY <1>4, <1>6 DEF ApplyPrune
<1>7. CASE ApplyRelease(p)
  <2> DEFINE new == [t \in DOMAIN todos |->
                 IF Claimant(todos, t) # NoHolder /\ Covers(me.actor, Claimant(todos, t))
                 THEN [todos[t] EXCEPT !.status = Pending] ELSE todos[t]]
             after == IF me.cmd = "release" THEN "idle" ELSE "end"
  <2>1. Changed(p, new, after)
    BY <1>7 DEF ApplyRelease
  <2>2. DOMAIN new \subseteq Ids /\ after \in Places
    BY <1>0
  <2>3. \A t \in DOMAIN new : new[t] \in Todos
    BY <1>0, PendingType DEF Todos
  <2> HIDE DEF new, after
  <2> QED
    BY <2>1, <2>2, <2>3, ChangedType
<1> QED
  BY <1>1, <1>2, <1>3, <1>5, <1>6, <1>7 DEF Edits

LEMMA LogType ==
  ASSUME TypeOK, NEW p \in Procs, AppendEvents(p) \/ RecordEnd(p) \/ Die(p)
  PROVE  TypeOK'
<1> DEFINE me == proc[p]
<1>0. me \in Slots /\ "end" \in Places
  BY MineType DEF Places
<1>1. CASE AppendEvents(p)
  <2> DEFINE mine(t) == {e \in me.events : e.todo = t}
             slot == IF me.cmd = "session_end"
                     THEN [me EXCEPT !.pc = "end", !.events = {}] ELSE Idle
  <2>1. \A t \in Ids : mine(t) # {} =>
          ReadsLatest(log[t], CHOOSE e \in mine(t) : TRUE)
            \in [at : Nat, by : Holders \cup {NoHolder}]
    BY <1>0 DEF Slots, Events, ReadsLatest, TypeOK
  <2>2. log' \in [Ids -> [at : Nat, by : Holders \cup {NoHolder}]]
    BY <1>1, <2>1 DEF AppendEvents, TypeOK
  <2>3. life' \in [Sessions -> {"active", "silent", "ended"}]
    BY <1>1 DEF AppendEvents, TypeOK
  <2>4. proc' \in [Procs -> Slots]
    <3>1. slot \in Slots
      BY <1>0, IdleType DEF Slots
    <3>2. proc' = [proc EXCEPT ![p] = slot]
      BY <1>1 DEF AppendEvents
    <3> HIDE DEF slot
    <3> QED
      BY <3>1, <3>2, SlotType
  <2> QED
    BY <1>1, <2>2, <2>3, <2>4 DEF AppendEvents, TypeOK, Slots
<1>2. CASE RecordEnd(p)
  <2>1. proc' \in [Procs -> Slots]
    BY <1>2, FinishType DEF RecordEnd
  <2> QED
    BY <1>2, <2>1 DEF RecordEnd, TypeOK, Slots
<1>3. CASE Die(p)
  <2>1. proc' \in [Procs -> Slots]
    BY <1>3, FinishType DEF Die
  <2>2. lostAt' \in [Ids -> Nat]
    <3>1. \A t \in Ids : \A e \in {f \in me.events : f.todo = t} : e.at \in Nat
      BY <1>0 DEF Slots, Events
    <3> QED
      BY <1>3, <3>1 DEF Die, TypeOK
  <2> QED
    BY <1>3, <2>1, <2>2 DEF Die, TypeOK, Slots
<1> QED
  BY <1>1, <1>2, <1>3

LEMMA LifeType ==
  ASSUME TypeOK, NEW s \in Sessions, GoSilent(s) \/ ShowLife(s)
  PROVE  TypeOK'
BY DEF GoSilent, ShowLife, TypeOK

(* Type correctness of the built-in todo store and of every command that   *)
(* works on it: the file only ever holds well-formed todos under ids it    *)
(* has given, whatever the commands read before they edit.                 *)
THEOREM TypeCorrect == Spec => []TypeOK
<1>1. Init => TypeOK
  <2> SUFFICES ASSUME Init PROVE TypeOK
    OBVIOUS
  <2>1. PICK n \in {k \in 0 .. MaxSeed : k <= MaxId} :
          /\ todos = [t \in 1 .. n |-> NewTodo(NoTodo)]
          /\ nextId = IF n = 0 THEN 0 ELSE n + 1
    BY DEF Init
  <2>2. /\ DOMAIN todos \subseteq Ids
        /\ nextId \in 0 .. MaxId + 1
    BY <2>1, TodoStoreAssumption DEF Ids
  <2>3. NewTodo(NoTodo) \in Todos
    BY PendingType DEF NewTodo, Todos
  <2>4. proc \in [Procs -> Slots]
    BY IdleType DEF Init
  <2>5. log \in [Ids -> [at : Nat, by : Holders \cup {NoHolder}]]
    BY DEF Init, NoEvent
  <2> QED
    BY <2>1, <2>2, <2>3, <2>4, <2>5, TodoStoreAssumption DEF Init, TypeOK, Slots
<1>2. TypeOK /\ [Next]_vars => TypeOK'
  <2> SUFFICES ASSUME TypeOK, [Next]_vars PROVE TypeOK'
    OBVIOUS
  <2>1. CASE UNCHANGED vars
    BY <2>1 DEF vars, TypeOK
  <2> QED
    BY <2>1, StartsType, ChecksType, EditsType, LogType, LifeType DEF Next
<1> QED
  BY <1>1, <1>2, PTL DEF Spec

(***************************************************************************)
(* What is known of an id.  Everything that names a todo, a link, an event *)
(* or a command under way, names an id below the next one to be given.     *)
(***************************************************************************)

TodosKnown(store, k) ==
  \A t \in DOMAIN store :
    t < k /\ store[t].parent < k /\ \A b \in store[t].blockers : b < k

(* A slot also keeps two facts of its command: a purge or a prune is a     *)
(* person's, and only a command about to append has events to append.      *)
SlotKnown(slot, k) ==
  /\ slot.id < k
  /\ \A i \in slot.ids : i < k
  /\ \A e \in slot.events : e.todo < k
  /\ slot.cmd \in {"purge", "prune"} => slot.actor = Human
  /\ slot.pc # "log" => slot.events = {}

Known ==
  /\ TodosKnown(todos, NextKey)
  /\ \A t \in Ids : log[t] # NoEvent => t < NextKey
  /\ \A p \in Procs : SlotKnown(proc[p], NextKey)

LEMMA IdsAreNat == Ids \subseteq Nat /\ NoTodo \in Nat
BY TodoStoreAssumption DEF Ids, NoTodo

LEMMA IdleKnown ==
  ASSUME NEW k \in Nat \ {0}
  PROVE  SlotKnown(Idle, k)
BY DEF SlotKnown, Idle, NoTodo

LEMMA SlotKnownLater ==
  ASSUME NEW slot \in Slots, NEW k \in Nat, NEW l \in Nat, k <= l, SlotKnown(slot, k)
  PROVE  SlotKnown(slot, l)
<1>1. slot.id \in Nat /\ slot.ids \subseteq Nat /\ \A e \in slot.events : e.todo \in Nat
  BY IdsAreNat DEF Slots, Events
<1> QED
  BY <1>1 DEF SlotKnown

LEMMA TodosKnownLater ==
  ASSUME NEW store, \A t \in DOMAIN store : t \in Ids /\ store[t] \in Todos,
         NEW k \in Nat, NEW l \in Nat, k <= l, TodosKnown(store, k)
  PROVE  TodosKnown(store, l)
<1>1. \A t \in DOMAIN store :
        t \in Nat /\ store[t].parent \in Nat /\ store[t].blockers \subseteq Nat
  BY IdsAreNat DEF Todos
<1> QED
  BY <1>1 DEF TodosKnown

(* A step that gives no id and moves one process to a slot that knows no   *)
(* more.                                                                   *)
LEMMA KnownSlot ==
  ASSUME TypeOK, Known, NEW p \in Procs, NEW slot, SlotKnown(slot, NextKey),
         proc' = [proc EXCEPT ![p] = slot], UNCHANGED nextId,
         TodosKnown(todos', NextKey), UNCHANGED log
  PROVE  Known'
<1>1. NextKey' = NextKey
  BY DEF NextKey
<1>2. \A q \in Procs : proc'[q] = IF q = p THEN slot ELSE proc[q]
  BY DEF TypeOK
<1> QED
  BY <1>1, <1>2 DEF Known

LEMMA KnownReads ==
  ASSUME TypeOK, Known, Reads, NEW p \in Procs, NEW slot, SlotKnown(slot, NextKey),
         proc' = [proc EXCEPT ![p] = slot]
  PROVE  Known'
<1>1. TodosKnown(todos', NextKey)
  BY DEF Reads, Known
<1> QED
  BY <1>1, KnownSlot DEF Reads

LEMMA KnownFinish ==
  ASSUME TypeOK, Known, Reads, NEW p \in Procs, Finish(p)
  PROVE  Known'
BY NextKeyType, IdleKnown, KnownReads DEF Finish

LEMMA GoIsSlot ==
  ASSUME TypeOK, NEW p \in Procs, NEW pc, Go(p, pc)
  PROVE  proc' = [proc EXCEPT ![p] = [proc[p] EXCEPT !.pc = pc]]
BY DEF Go

LEMMA KnownGo ==
  ASSUME TypeOK, Known, Reads, NEW p \in Procs, NEW pc, Go(p, pc),
         pc # "log", proc[p].pc # "log"
  PROVE  Known'
<1> DEFINE slot == [proc[p] EXCEPT !.pc = pc]
<1>1. SlotKnown(slot, NextKey)
  BY MineType DEF Known, SlotKnown, Slots
<1>2. proc' = [proc EXCEPT ![p] = slot]
  BY GoIsSlot
<1> HIDE DEF slot
<1> QED
  BY <1>1, <1>2, KnownReads

LEMMA KnownBegin ==
  ASSUME TypeOK, Known, NEW p \in Procs, NEW request, SlotKnown(request, NextKey),
         Begin(p, request)
  PROVE  Known'
BY KnownSlot DEF Begin, Known

LEMMA RequestKnown ==
  ASSUME NEW cmd, NEW h, NEW t, NEW k \in Nat, t < k,
         cmd \in {"purge", "prune"} => h = Human
  PROVE  SlotKnown(Request(cmd, h, t), k)
BY DEF Request, Idle, SlotKnown

LEMMA StartsKnown ==
  ASSUME TypeOK, Known, NEW p \in Procs, Starts(p)
  PROVE  Known'
<1>0. /\ NextKey \in Nat
      /\ \A t \in DOMAIN todos \cup {NoTodo} : t < NextKey
  BY NextKeyType DEF Known, TodosKnown, NoTodo
<1>1. ASSUME NEW h \in Holders \ {Tracker}, NEW t \in DOMAIN todos, NEW force \in BOOLEAN,
             BeginStart(p, h, t, force)
      PROVE  Known'
  <2>1. SlotKnown([Request("start", h, t) EXCEPT
              !.to = "in_progress", !.pc = IF force THEN "resolve" ELSE "blockers"], NextKey)
    BY <1>0 DEF Request, Idle, SlotKnown
  <2> QED
    BY <1>1, <2>1, KnownBegin DEF BeginStart
<1>2. ASSUME NEW h \in Holders \ {Tracker}, NEW t \in DOMAIN todos,
             NEW to \in Kinds \ {"in_progress"}, BeginStatus(p, h, t, to)
      PROVE  Known'
  <2>1. SlotKnown([Request("status", h, t) EXCEPT !.to = to], NextKey)
    BY <1>0 DEF Request, Idle, SlotKnown
  <2> QED
    BY <1>2, <2>1, KnownBegin DEF BeginStatus
<1>3. ASSUME NEW t \in DOMAIN todos, NEW to \in Kinds, BeginSync(p, t, to)
      PROVE  Known'
  <2>1. SlotKnown([Request("sync", Tracker, t) EXCEPT !.to = to], NextKey)
    BY <1>0 DEF Request, Idle, SlotKnown
  <2> QED
    BY <1>3, <2>1, KnownBegin DEF BeginSync
<1>4. ASSUME NEW cmd \in {"block", "unblock", "move"}, NEW t \in DOMAIN todos,
             NEW others \in SUBSET DOMAIN todos, BeginLink(p, cmd, t, others)
      PROVE  Known'
  <2>1. SlotKnown([Request(cmd, Human, t) EXCEPT !.ids = others], NextKey)
    BY <1>0 DEF Request, Idle, SlotKnown
  <2> QED
    BY <1>4, <2>1, KnownBegin DEF BeginLink
<1>5. ASSUME NEW parent \in DOMAIN todos \cup {NoTodo}, NEW b \in DOMAIN todos \cup {NoTodo},
             BeginAdd(p, parent, {b} \ {NoTodo})
      PROVE  Known'
  <2>1. SlotKnown([Request("add", Human, parent) EXCEPT !.ids = {b} \ {NoTodo}], NextKey)
    BY <1>0 DEF Request, Idle, SlotKnown
  <2> QED
    BY <1>5, <2>1, KnownBegin DEF BeginAdd
<1>6. ASSUME NEW t \in DOMAIN todos, BeginPurge(p, t)
      PROVE  Known'
  BY <1>0, <1>6, RequestKnown, KnownBegin DEF BeginPurge
<1>7. ASSUME BeginPrune(p)
      PROVE  Known'
  BY <1>0, <1>7, RequestKnown, KnownBegin DEF BeginPrune
<1>8. ASSUME NEW h \in AgentHolders, BeginRelease(p, h)
      PROVE  Known'
  <2> DEFINE cmd == IF h.agent = Main THEN "session_end" ELSE "release"
  <2>1. SlotKnown([Request(cmd, h, NoTodo) EXCEPT !.pc = "apply"], NextKey)
    BY <1>0 DEF Request, Idle, SlotKnown
  <2> QED
    BY <1>8, <2>1, KnownBegin DEF BeginRelease
<1>9. \A cmd \in {"block", "unblock"}, t \in DOMAIN todos, b \in DOMAIN todos :
        BeginLink(p, cmd, t, {b}) => Known'
  BY <1>4
<1>10. \A t \in DOMAIN todos, parent \in DOMAIN todos \cup {NoTodo} :
         BeginLink(p, "move", t, {parent} \ {NoTodo}) => Known'
  BY <1>4
<1> QED
  BY <1>1, <1>2, <1>3, <1>5, <1>6, <1>7, <1>8, <1>9, <1>10 DEF Starts

LEMMA ChecksKnown ==
  ASSUME TypeOK, Known, NEW p \in Procs, Checks(p)
  PROVE  Known'
<1> DEFINE me == proc[p]
<1>0. me \in Slots /\ SlotKnown(me, NextKey)
  BY MineType DEF Known
<1>1. CASE ReadBlockers(p)
  BY <1>1, KnownFinish, KnownGo DEF ReadBlockers
<1>2. CASE Resolve(p)
  <2>1. Reads /\ me.pc = "resolve"
    BY <1>2 DEF Resolve
  <2>2. CASE Finish(p) \/ Go(p, "apply")
    BY <2>1, <2>2, KnownFinish, KnownGo
  <2> DEFINE slot == [me EXCEPT !.pc = "judge", !.from = todos[me.id].status.by]
  <2>3. CASE proc' = [proc EXCEPT ![p] = slot]
    <3>1. SlotKnown(slot, NextKey)
      BY <1>0, <2>1 DEF SlotKnown, Slots
    <3> QED
      BY <2>1, <2>3, <3>1, KnownReads
  <2> QED
    BY <1>2, <2>2, <2>3 DEF Resolve
<1>3. CASE Judge(p)
  BY <1>3, KnownFinish, KnownGo DEF Judge
<1>4. CASE ResolveLinks(p)
  <2>1. Reads /\ me.pc = "resolve"
    BY <1>4 DEF ResolveLinks
  <2>2. CASE Finish(p)
    BY <2>1, <2>2, KnownFinish
  <2> DEFINE slot == [me EXCEPT !.pc = IF me.cmd = "add" THEN "add" ELSE "apply",
                                !.edges = Edges(todos)]
  <2>3. CASE proc' = [proc EXCEPT ![p] = slot]
    <3>1. SlotKnown(slot, NextKey)
      BY <1>0, <2>1 DEF SlotKnown, Slots
    <3> QED
      BY <2>1, <2>3, <3>1, KnownReads
  <2> QED
    BY <1>4, <2>2, <2>3 DEF ResolveLinks
<1>5. ASSUME NEW ids \in SUBSET Ids, SelectPrunable(p, ids)
      PROVE  Known'
  <2>1. Reads /\ me.pc = "resolve" /\ ids \subseteq DOMAIN todos
    BY <1>5 DEF SelectPrunable, Prunable
  <2>2. CASE Finish(p)
    BY <2>1, <2>2, KnownFinish
  <2> DEFINE slot == [me EXCEPT !.pc = "apply", !.ids = ids]
  <2>3. CASE proc' = [proc EXCEPT ![p] = slot]
    <3>1. \A i \in ids : i < NextKey
      BY <2>1 DEF Known, TodosKnown
    <3>2. SlotKnown(slot, NextKey)
      BY <1>0, <2>1, <3>1 DEF SlotKnown, Slots
    <3> QED
      BY <2>1, <2>3, <3>2, KnownReads
  <2> QED
    BY <1>5, <2>2, <2>3 DEF SelectPrunable
<1> QED
  BY <1>1, <1>2, <1>3, <1>4, <1>5 DEF Checks

(* The edits of the store, by what they may do: refuse, relink without     *)
(* touching a status, add a todo, or change statuses and remove todos      *)
(* without touching a link.                                                *)
KeepsLinks(new) ==
  /\ DOMAIN new \subseteq DOMAIN todos
  /\ \A t \in DOMAIN new :
       new[t].parent = todos[t].parent /\ new[t].blockers = todos[t].blockers

StatusEdit(p, new, after) ==
  /\ proc[p].pc = "apply"
  /\ after \in {"idle", "end"}
  /\ KeepsLinks(new)
  /\ Changed(p, new, after)

LEMMA StatusEdits ==
  ASSUME TypeOK, NEW p \in Procs,
         ApplyStatus(p) \/ ApplyPurge(p) \/ ApplyPrune(p) \/ ApplyRelease(p)
  PROVE  Refused(p) \/ \E new, after : StatusEdit(p, new, after)
<1> DEFINE me == proc[p]
<1>0. \A t \in DOMAIN todos : todos[t] \in Todos
  BY DEF TypeOK
<1>1. CASE ApplyStatus(p)
  <2> DEFINE status == todos[me.id].status
             answer == IF me.from = NoHolder THEN Transition(status, me.to, me.actor)
                       ELSE TakeOver(status, me.from, me.actor)
             new == [todos EXCEPT ![me.id].status = answer.status]
  <2>1. Refused(p) \/ (me.pc = "apply" /\ Changed(p, new, "idle"))
    BY <1>1 DEF ApplyStatus
  <2>2. KeepsLinks(new)
    <3> HIDE DEF answer
    <3> QED
      BY <1>0 DEF KeepsLinks, Todos
  <2> HIDE DEF new
  <2> QED
    BY <2>1, <2>2 DEF StatusEdit
<1>2. ASSUME NEW ids
      PROVE  KeepsLinks(Without(ids))
  BY DEF KeepsLinks, Without
<1>3. CASE ApplyPurge(p)
  BY <1>2, <1>3 DEF ApplyPurge, StatusEdit
<1>4. CASE ApplyPrune(p)
  BY <1>2, <1>4 DEF ApplyPrune, StatusEdit
<1>5. CASE ApplyRelease(p)
  <2> DEFINE new == [t \in DOMAIN todos |->
                 IF Claimant(todos, t) # NoHolder /\ Covers(me.actor, Claimant(todos, t))
                 THEN [todos[t] EXCEPT !.status = Pending] ELSE todos[t]]
             after == IF me.cmd = "release" THEN "idle" ELSE "end"
  <2>1. me.pc = "apply" /\ Changed(p, new, after)
    BY <1>5 DEF ApplyRelease
  <2>2. KeepsLinks(new)
    BY <1>0 DEF KeepsLinks, Todos
  <2>3. after \in {"idle", "end"}
    OBVIOUS
  <2> HIDE DEF new, after
  <2> QED
    BY <2>1, <2>2, <2>3 DEF StatusEdit
<1> QED
  BY <1>1, <1>3, <1>4, <1>5

LEMMA StatusEditKnown ==
  ASSUME TypeOK, Known, NEW p \in Procs, NEW new, NEW after, StatusEdit(p, new, after)
  PROVE  Known'
<1> DEFINE me == proc[p]
           events == EventsOf(new, clock + 1)
           slot == IF events # {} THEN [me EXCEPT !.pc = "log", !.events = events]
                   ELSE IF after = "idle" THEN Idle ELSE [me EXCEPT !.pc = after]
<1>1. \A e \in events : e.todo < NextKey
  <2>1. \A t \in Ids : Claimant(new, t) # Claimant(todos, t) => t \in DOMAIN todos
    BY DEF StatusEdit, KeepsLinks, Claimant
  <2> QED
    BY <2>1 DEF EventsOf, Known, TodosKnown
<1>2. SlotKnown(slot, NextKey)
  <2>1. me \in Slots /\ SlotKnown(me, NextKey)
    BY MineType DEF Known
  <2>2. SlotKnown([me EXCEPT !.pc = "log", !.events = events], NextKey)
    BY <1>1, <2>1 DEF SlotKnown, Slots
  <2>3. after # "idle" => SlotKnown([me EXCEPT !.pc = after], NextKey)
    BY <2>1 DEF SlotKnown, Slots, StatusEdit
  <2> HIDE DEF events
  <2> QED
    BY <2>2, <2>3, NextKeyType, IdleKnown
<1>3. /\ todos' = new
      /\ proc' = [proc EXCEPT ![p] = slot]
      /\ UNCHANGED <<nextId, log>>
  BY DEF StatusEdit, Changed
<1>4. TodosKnown(todos', NextKey)
  BY <1>3 DEF Known, TodosKnown, StatusEdit, KeepsLinks
<1> HIDE DEF slot
<1> QED
  BY <1>2, <1>3, <1>4, KnownSlot

LEMMA LinksKnown ==
  ASSUME TypeOK, Known, NEW p \in Procs, ApplyLinks(p)
  PROVE  Known'
<1> DEFINE me == proc[p]
           new == [todos EXCEPT ![me.id] = Relinked(@, me.cmd, me.ids)]
<1>1. CASE Refused(p)
  BY <1>1, KnownFinish DEF Refused
<1>2. CASE me.id \in DOMAIN todos /\ Linked(p, new)
  <2>1. /\ me.id \in DOMAIN todos
        /\ todos' = new
        /\ Finish(p)
        /\ UNCHANGED <<nextId, log>>
    BY <1>2 DEF Linked
  <2>2. /\ me \in Slots
        /\ SlotKnown(me, NextKey)
        /\ NextKey \in Nat \ {0}
        /\ \A t \in DOMAIN todos : todos[t] \in Todos
    BY MineType, NextKeyType DEF Known, TypeOK
  <2>3. LET moved == Relinked(todos[me.id], me.cmd, me.ids)
        IN  moved.parent < NextKey /\ \A b \in moved.blockers : b < NextKey
    BY <2>1, <2>2 DEF Relinked, Todos, Known, TodosKnown, SlotKnown, NoTodo
  <2>4. TodosKnown(todos', NextKey)
    BY <2>1, <2>3 DEF Known, TodosKnown
  <2> QED
    BY <2>1, <2>2, <2>4, IdleKnown, KnownSlot DEF Finish
<1> QED
  BY <1>1, <1>2 DEF ApplyLinks

(* What an add that is not refused does.                                   *)
Added(p) ==
  /\ todos' = [t \in DOMAIN todos \cup {NextKey} |->
                 IF t = NextKey THEN NewTodo(proc[p].id) ELSE todos[t]]
  /\ nextId' = NextKey + 1
  /\ proc' = [proc EXCEPT ![p] =
       IF proc[p].ids = {} THEN Idle
       ELSE [proc[p] EXCEPT !.pc = "apply", !.cmd = "block", !.id = NextKey]]
  /\ proc[p].pc = "add"
  /\ UNCHANGED <<clock, log, lostAt>>

LEMMA AddCases ==
  ASSUME NEW p \in Procs, ApplyAdd(p)
  PROVE  Refused(p) \/ Added(p)
BY DEF ApplyAdd, Added

LEMMA AddKnown ==
  ASSUME TypeOK, TypeOK', Known, NEW p \in Procs, Added(p)
  PROVE  Known'
<1> DEFINE me == proc[p]
           slot == IF me.ids = {} THEN Idle
                   ELSE [me EXCEPT !.pc = "apply", !.cmd = "block", !.id = NextKey]
<1>1. /\ NextKey \in Nat \ {0}
      /\ NextKey' = NextKey + 1
      /\ me \in Slots
      /\ SlotKnown(me, NextKey)
  <2>1. NextKey \in Nat \ {0}
    BY NextKeyType
  <2>2. NextKey' = NextKey + 1
    BY <2>1 DEF Added, NextKey
  <2> QED
    BY <2>1, <2>2, MineType DEF Known
<1>2. TodosKnown(todos, NextKey + 1)
  <2>1. TodosKnown(todos, NextKey) /\ \A t \in DOMAIN todos : t \in Ids /\ todos[t] \in Todos
    BY DEF Known, TypeOK
  <2>2. NextKey \in Nat /\ NextKey + 1 \in Nat /\ NextKey <= NextKey + 1
    BY <1>1
  <2> QED
    BY <2>1, <2>2, TodosKnownLater
<1>3. TodosKnown(todos', NextKey + 1)
  <2>0. me.id \in Nat /\ me.id < NextKey
    BY <1>1, IdsAreNat DEF SlotKnown, Slots
  <2>1. NewTodo(me.id).parent < NextKey + 1 /\ NewTodo(me.id).blockers = {}
    BY <1>1, <2>0 DEF NewTodo
  <2> QED
    BY <1>1, <1>2, <2>1 DEF TodosKnown, Added
<1>4. \A t \in Ids : log[t] # NoEvent => t < NextKey + 1
  BY <1>1, IdsAreNat DEF Known
<1>5. SlotKnown(slot, NextKey + 1)
  <2>1. SlotKnown(me, NextKey + 1)
    BY <1>1, SlotKnownLater
  <2>2. SlotKnown([me EXCEPT !.pc = "apply", !.cmd = "block", !.id = NextKey], NextKey + 1)
    BY <1>1, <2>1 DEF SlotKnown, Slots, Added
  <2> QED
    BY <1>1, <2>2, IdleKnown
<1>6. \A q \in Procs : SlotKnown(proc[q], NextKey + 1)
  BY <1>1, MineType, SlotKnownLater DEF Known
<1>7. \A q \in Procs : proc'[q] = IF q = p THEN slot ELSE proc[q]
  BY DEF Added, TypeOK
<1>8. UNCHANGED log
  BY DEF Added
<1> HIDE DEF slot
<1> QED
  BY <1>1, <1>3, <1>4, <1>5, <1>6, <1>7, <1>8 DEF Known

LEMMA EditsKnown ==
  ASSUME TypeOK, TypeOK', Known, NEW p \in Procs, Edits(p)
  PROVE  Known'
<1>1. CASE Refused(p)
  BY <1>1, KnownFinish DEF Refused
<1> QED
  BY <1>1, StatusEdits, StatusEditKnown, LinksKnown, AddCases, AddKnown DEF Edits

LEMMA LogKnown ==
  ASSUME TypeOK, Known, NEW p \in Procs, AppendEvents(p) \/ RecordEnd(p) \/ Die(p)
  PROVE  Known'
<1> DEFINE me == proc[p]
<1>0. /\ me \in Slots
      /\ SlotKnown(me, NextKey)
      /\ SlotKnown(Idle, NextKey)
  BY MineType, NextKeyType, IdleKnown DEF Known
<1>1. CASE AppendEvents(p)
  <2> DEFINE slot == IF me.cmd = "session_end"
                     THEN [me EXCEPT !.pc = "end", !.events = {}] ELSE Idle
  <2>1. SlotKnown(slot, NextKey)
    BY <1>0 DEF SlotKnown, Slots
  <2>2. proc' = [proc EXCEPT ![p] = slot] /\ UNCHANGED <<todos, nextId>>
    BY <1>1 DEF AppendEvents
  <2>3. NextKey' = NextKey
    BY <2>2 DEF NextKey
  <2>4. \A t \in Ids : log'[t] # NoEvent => t < NextKey
    <3>1. \A t \in Ids : {e \in me.events : e.todo = t} # {} => t < NextKey
      BY <1>0 DEF SlotKnown
    <3> QED
      BY <1>1, <3>1 DEF AppendEvents, Known
  <2>5. \A q \in Procs : proc'[q] = IF q = p THEN slot ELSE proc[q]
    BY <2>2 DEF TypeOK
  <2> HIDE DEF slot
  <2> QED
    BY <2>1, <2>2, <2>3, <2>4, <2>5 DEF Known
<1>2. CASE RecordEnd(p) \/ Die(p)
  <2>1. /\ proc' = [proc EXCEPT ![p] = Idle]
        /\ UNCHANGED <<todos, nextId, log>>
    BY <1>2 DEF RecordEnd, Die, Finish
  <2> QED
    BY <1>0, <2>1, KnownSlot DEF Known
<1> QED
  BY <1>1, <1>2

LEMMA LifeKnown ==
  ASSUME Known, NEW s \in Sessions, GoSilent(s) \/ ShowLife(s)
  PROVE  Known'
BY DEF GoSilent, ShowLife, Known, NextKey

LEMMA InitKnown == Init => Known
<1> SUFFICES ASSUME Init PROVE Known
  OBVIOUS
<1>1. PICK n \in {k \in 0 .. MaxSeed : k <= MaxId} :
        /\ todos = [t \in 1 .. n |-> NewTodo(NoTodo)]
        /\ nextId = IF n = 0 THEN 0 ELSE n + 1
  BY DEF Init
<1>2. n \in Nat /\ NextKey = n + 1
  BY <1>1, TodoStoreAssumption DEF NextKey
<1>3. TodosKnown(todos, NextKey)
  BY <1>1, <1>2 DEF TodosKnown, NewTodo, NoTodo
<1>4. \A p \in Procs : SlotKnown(proc[p], NextKey)
  BY <1>2, IdleKnown DEF Init
<1> QED
  BY <1>3, <1>4 DEF Known, Init

LEMMA StepKnown ==
  ASSUME TypeOK, TypeOK', Known, [Next]_vars
  PROVE  Known'
<1>1. CASE UNCHANGED vars
  BY <1>1 DEF vars, Known, NextKey
<1> QED
  BY <1>1, StartsKnown, ChecksKnown, EditsKnown, LogKnown, LifeKnown DEF Next

LEMMA AlwaysKnown == Spec => [](TypeOK /\ Known)
<1>1. TypeOK /\ TypeOK' /\ Known /\ [Next]_vars => Known'
  BY StepKnown
<1> QED
  BY <1>1, InitKnown, TypeCorrect, PTL DEF Spec

(***************************************************************************)
(* The kinds of steps                                                      *)
(***************************************************************************)

(* A step that makes, moves or ends no claim and leaves the log alone.     *)
Quiet ==
  /\ \A t \in Ids : Claimant(todos', t) = Claimant(todos, t)
  /\ \A q \in Procs : proc'[q].events = proc[q].events
  /\ UNCHANGED <<clock, log, lostAt>>

StatusStep(p) == ApplyStatus(p) \/ ApplyPurge(p) \/ ApplyPrune(p) \/ ApplyRelease(p)

(* A process may move on without a change as long as it keeps its events.  *)
LEMMA QuietSlot ==
  ASSUME TypeOK, NEW p \in Procs, NEW slot, proc' = [proc EXCEPT ![p] = slot],
         slot.events = proc[p].events, UNCHANGED <<todos, clock, log, lostAt>>
  PROVE  Quiet
BY DEF Quiet, TypeOK

LEMMA QuietFinish ==
  ASSUME TypeOK, Known, NEW p \in Procs, proc[p].pc # "log", Finish(p),
         UNCHANGED <<todos, clock, log, lostAt>>
  PROVE  Quiet
<1>1. proc[p].events = {} /\ Idle.events = {}
  BY DEF Known, SlotKnown, Idle
<1> QED
  BY <1>1, QuietSlot DEF Finish

LEMMA QuietGo ==
  ASSUME TypeOK, NEW p \in Procs, NEW pc, Go(p, pc), Reads
  PROVE  Quiet
<1> DEFINE slot == [proc[p] EXCEPT !.pc = pc]
<1>1. slot.events = proc[p].events
  BY MineType DEF Slots
<1>2. proc' = [proc EXCEPT ![p] = slot]
  BY GoIsSlot
<1> HIDE DEF slot
<1> QED
  BY <1>1, <1>2, QuietSlot DEF Reads

LEMMA QuietBegin ==
  ASSUME TypeOK, Known, NEW p \in Procs, NEW request, request.events = {},
         Begin(p, request)
  PROVE  Quiet
<1>1. proc[p].events = {}
  BY DEF Known, SlotKnown, Begin
<1> QED
  BY <1>1, QuietSlot DEF Begin

LEMMA QuietStarts ==
  ASSUME TypeOK, Known, NEW p \in Procs, Starts(p)
  PROVE  Quiet
BY QuietBegin
   DEF Starts, BeginStart, BeginStatus, BeginSync, BeginLink, BeginAdd, BeginPurge,
       BeginPrune, BeginRelease, Request, Idle

LEMMA QuietChecks ==
  ASSUME TypeOK, Known, NEW p \in Procs, Checks(p)
  PROVE  Quiet
<1> DEFINE me == proc[p]
<1>0. me \in Slots
  BY MineType
<1>1. CASE ReadBlockers(p)
  BY <1>1, QuietFinish, QuietGo DEF ReadBlockers, Reads
<1>2. CASE Resolve(p)
  <2>1. Reads /\ me.pc = "resolve"
    BY <1>2 DEF Resolve
  <2>2. CASE Finish(p) \/ Go(p, "apply")
    BY <2>1, <2>2, QuietFinish, QuietGo DEF Reads
  <2> DEFINE slot == [me EXCEPT !.pc = "judge", !.from = todos[me.id].status.by]
  <2>3. CASE proc' = [proc EXCEPT ![p] = slot]
    <3>1. slot.events = me.events
      BY <1>0 DEF Slots
    <3> HIDE DEF slot
    <3> QED
      BY <2>1, <2>3, <3>1, QuietSlot DEF Reads
  <2> QED
    BY <1>2, <2>2, <2>3 DEF Resolve
<1>3. CASE Judge(p)
  BY <1>3, QuietFinish, QuietGo DEF Judge, Reads
<1>4. CASE ResolveLinks(p)
  <2>1. Reads /\ me.pc = "resolve"
    BY <1>4 DEF ResolveLinks
  <2>2. CASE Finish(p)
    BY <2>1, <2>2, QuietFinish DEF Reads
  <2> DEFINE slot == [me EXCEPT !.pc = IF me.cmd = "add" THEN "add" ELSE "apply",
                                !.edges = Edges(todos)]
  <2>3. CASE proc' = [proc EXCEPT ![p] = slot]
    <3>1. slot.events = me.events
      BY <1>0 DEF Slots
    <3> HIDE DEF slot
    <3> QED
      BY <2>1, <2>3, <3>1, QuietSlot DEF Reads
  <2> QED
    BY <1>4, <2>2, <2>3 DEF ResolveLinks
<1>5. ASSUME NEW ids \in SUBSET Ids, SelectPrunable(p, ids)
      PROVE  Quiet
  <2>1. Reads /\ me.pc = "resolve"
    BY <1>5 DEF SelectPrunable
  <2>2. CASE Finish(p)
    BY <2>1, <2>2, QuietFinish DEF Reads
  <2> DEFINE slot == [me EXCEPT !.pc = "apply", !.ids = ids]
  <2>3. CASE proc' = [proc EXCEPT ![p] = slot]
    <3>1. slot.events = me.events
      BY <1>0 DEF Slots
    <3> HIDE DEF slot
    <3> QED
      BY <2>1, <2>3, <3>1, QuietSlot DEF Reads
  <2> QED
    BY <1>5, <2>2, <2>3 DEF SelectPrunable
<1> QED
  BY <1>1, <1>2, <1>3, <1>4, <1>5 DEF Checks

LEMMA QuietLinks ==
  ASSUME TypeOK, Known, NEW p \in Procs, ApplyLinks(p)
  PROVE  Quiet
<1> DEFINE me == proc[p]
           new == [todos EXCEPT ![me.id] = Relinked(@, me.cmd, me.ids)]
<1>1. CASE Refused(p)
  BY <1>1, QuietFinish DEF Refused, Reads, ApplyLinks
<1>2. CASE me.id \in DOMAIN todos /\ Linked(p, new)
  <2>1. todos' = new /\ Finish(p) /\ UNCHANGED <<clock, log, lostAt>>
    BY <1>2 DEF Linked
  <2>2. Relinked(todos[me.id], me.cmd, me.ids).status = todos[me.id].status
    BY <1>2 DEF Relinked, TypeOK, Todos
  <2>3. \A t \in Ids : Claimant(todos', t) = Claimant(todos, t)
    BY <2>1, <2>2 DEF Claimant
  <2>4. me.events = {} /\ Idle.events = {}
    BY DEF ApplyLinks, Known, SlotKnown, Idle
  <2>5. \A q \in Procs : proc'[q].events = proc[q].events
    BY <2>1, <2>4 DEF Finish, TypeOK
  <2> QED
    BY <2>1, <2>3, <2>5 DEF Quiet
<1> QED
  BY <1>1, <1>2 DEF ApplyLinks

LEMMA QuietAdd ==
  ASSUME TypeOK, Known, NEW p \in Procs, Added(p)
  PROVE  Quiet
<1> DEFINE me == proc[p]
<1>1. NextKey \notin DOMAIN todos
  BY NextKeyType DEF Known, TodosKnown
<1>2. \A t \in Ids : Claimant(todos', t) = Claimant(todos, t)
  BY <1>1 DEF Added, Claimant, NewTodo, Pending
<1>3. me.events = {} /\ Idle.events = {}
  BY DEF Added, Known, SlotKnown, Idle
<1>4. [me EXCEPT !.pc = "apply", !.cmd = "block", !.id = NextKey].events = me.events
  BY MineType DEF Slots
<1>5. \A q \in Procs : proc'[q].events = proc[q].events
  BY <1>3, <1>4 DEF Added, TypeOK
<1> QED
  BY <1>2, <1>5 DEF Quiet, Added

LEMMA StepKinds ==
  ASSUME TypeOK, Known, [Next]_vars
  PROVE  Quiet \/ \E p \in Procs : StatusStep(p) \/ AppendEvents(p) \/ Die(p)
<1>1. CASE UNCHANGED vars
  BY <1>1 DEF vars, Quiet
<1>2. ASSUME NEW p \in Procs, Edits(p), ~StatusStep(p)
      PROVE  Quiet
  <2>1. CASE ApplyLinks(p)
    BY <2>1, QuietLinks
  <2>2. CASE ApplyAdd(p)
    <3>1. CASE Refused(p)
      BY <2>2, <3>1, QuietFinish DEF Refused, Reads, ApplyAdd
    <3> QED
      BY <2>2, <3>1, AddCases, QuietAdd
  <2> QED
    BY <1>2, <2>1, <2>2 DEF Edits, StatusStep
<1>3. ASSUME NEW p \in Procs, RecordEnd(p)
      PROVE  Quiet
  BY <1>3, QuietFinish DEF RecordEnd
<1>4. ASSUME NEW s \in Sessions, GoSilent(s) \/ ShowLife(s)
      PROVE  Quiet
  BY <1>4 DEF GoSilent, ShowLife, Quiet
<1> QED
  BY <1>1, <1>2, <1>3, <1>4, QuietStarts, QuietChecks DEF Next

(***************************************************************************)
(* New todos                                                               *)
(***************************************************************************)

LEMMA OnlyAddsAdd ==
  ASSUME TypeOK, [Next]_vars
  PROVE  DOMAIN todos' \subseteq DOMAIN todos \/ \E p \in Procs : Added(p)
<1>1. CASE UNCHANGED todos
  BY <1>1
<1>2. ASSUME NEW p \in Procs, NEW new, NEW after, StatusEdit(p, new, after)
      PROVE  DOMAIN todos' \subseteq DOMAIN todos
  BY <1>2 DEF StatusEdit, KeepsLinks, Changed
<1>3. ASSUME NEW p \in Procs, ApplyLinks(p)
      PROVE  DOMAIN todos' \subseteq DOMAIN todos
  BY <1>3 DEF ApplyLinks, Refused, Reads, Linked
<1>4. ASSUME NEW p \in Procs, Refused(p)
      PROVE  UNCHANGED todos
  BY <1>4 DEF Refused, Reads
<1>5. ASSUME NEW p \in Procs, Starts(p)
      PROVE  UNCHANGED todos
  BY <1>5
     DEF Starts, BeginStart, BeginStatus, BeginSync, BeginLink, BeginAdd, BeginPurge,
         BeginPrune, BeginRelease, Begin
<1>6. ASSUME NEW p \in Procs, Checks(p)
      PROVE  UNCHANGED todos
  BY <1>6 DEF Checks, ReadBlockers, Resolve, Judge, ResolveLinks, SelectPrunable, Reads
<1>7. ASSUME NEW p \in Procs, AppendEvents(p) \/ RecordEnd(p) \/ Die(p)
      PROVE  UNCHANGED todos
  BY <1>7 DEF AppendEvents, RecordEnd, Die
<1>8. ASSUME NEW s \in Sessions, GoSilent(s) \/ ShowLife(s)
      PROVE  UNCHANGED todos
  BY <1>8 DEF GoSilent, ShowLife
<1>9. ASSUME NEW p \in Procs, Edits(p)
      PROVE  DOMAIN todos' \subseteq DOMAIN todos \/ Added(p)
  BY <1>1, <1>2, <1>3, <1>4, <1>9, StatusEdits, AddCases DEF Edits
<1>10. CASE UNCHANGED vars
  BY <1>1, <1>10 DEF vars
<1> QED
  BY <1>1, <1>5, <1>6, <1>7, <1>8, <1>9, <1>10 DEF Next

(* The id of a new todo is one that nothing in the store, in the log or in *)
(* a command under way has ever named: next_id of the built-in store only  *)
(* grows, and everything that names an id names one given before.          *)
THEOREM NewTodosAreUnknownHolds == Spec => NewTodosAreUnknown
<1> DEFINE Unknown(t) ==
      /\ \A u \in DOMAIN todos : t # todos[u].parent /\ t \notin todos[u].blockers
      /\ log[t] = NoEvent
      /\ \A p \in Procs : proc[p].pc \in {"apply", "add"} =>
           t # proc[p].id /\ t \notin proc[p].ids
<1>1. ASSUME TypeOK, TypeOK', Known, [Next]_vars
      PROVE  \A t \in DOMAIN todos' \ DOMAIN todos : Unknown(t)
  <2> SUFFICES ASSUME NEW p \in Procs, Added(p), NEW t \in DOMAIN todos' \ DOMAIN todos
               PROVE  Unknown(t)
    BY <1>1, OnlyAddsAdd
  <2>1. t = NextKey /\ NextKey \in Nat /\ t \in Ids
    BY <1>1, NextKeyType DEF Added, TypeOK
  <2>2. \A u \in DOMAIN todos : t # todos[u].parent /\ t \notin todos[u].blockers
    BY <1>1, <2>1 DEF Known, TodosKnown
  <2>3. log[t] = NoEvent
    BY <1>1, <2>1 DEF Known
  <2>4. \A q \in Procs : t # proc[q].id /\ t \notin proc[q].ids
    BY <1>1, <2>1 DEF Known, SlotKnown
  <2> QED
    BY <2>2, <2>3, <2>4
<1>2. TypeOK /\ TypeOK' /\ Known /\ [Next]_vars
        => [\A t \in DOMAIN todos' \ DOMAIN todos : Unknown(t)]_vars
  BY <1>1
<1> QED
  BY <1>2, AlwaysKnown, PTL DEF Spec, NewTodosAreUnknown

(***************************************************************************)
(* Claims                                                                  *)
(***************************************************************************)

(* A change of a running todo by someone who does not cover its claimant   *)
(* is a start that the claimant hands over to.                             *)
LEMMA TransitionRespects ==
  ASSUME NEW status, NEW to, NEW actor, status.kind = "in_progress",
         ~Covers(actor, status.by), ~Transition(status, to, actor).refused
  PROVE  /\ Transition(status, to, actor).status = InProgress(actor)
         /\ HandsOver(status.by, actor)
         /\ status.by # Human
<1>1. to = "in_progress" /\ HandsOver(status.by, actor)
  BY DEF Transition, Claimed
<1>2. status.by # Human
  BY <1>1 DEF HandsOver, Human, Tracker
<1> QED
  BY <1>1, <1>2 DEF Transition, Allowed

LEMMA TakeOverRespects ==
  ASSUME NEW status, NEW from, NEW actor, status.kind = "in_progress",
         ~Covers(actor, status.by), ~TakeOver(status, from, actor).refused
  PROVE  /\ TakeOver(status, from, actor).status = InProgress(actor)
         /\ HandsOver(status.by, actor) \/ from = status.by
         /\ status.by # Human
<1>1. CASE status.by = from /\ from # Human
  BY <1>1 DEF TakeOver, Allowed
<1>2. CASE ~(status.by = from /\ from # Human)
  <2>1. TakeOver(status, from, actor) = Transition(status, "in_progress", actor)
    BY <1>2 DEF TakeOver
  <2> QED
    BY <2>1, TransitionRespects
<1> QED
  BY <1>1, <1>2

(* Whatever was read before, an edit passes a claim on only as the rule of *)
(* transition.rs allows for the claimant it finds under the lock.          *)
LEMMA StatusStepRespects ==
  ASSUME TypeOK, Known, NEW p \in Procs, StatusStep(p), NEW t \in Ids,
         Claimant(todos, t) # NoHolder, Claimant(todos', t) # Claimant(todos, t),
         ~Covers(proc[p].actor, Claimant(todos, t))
  PROVE  /\ proc[p].pc = "apply"
         /\ Claimant(todos, t) # Human
         /\ \/ HandsOver(Claimant(todos, t), Claimant(todos', t))
            \/ /\ proc[p].actor = Claimant(todos', t)
               /\ proc[p].from = Claimant(todos, t)
<1> DEFINE me == proc[p]
           old == Claimant(todos, t)
<1>0. ~Refused(p)
  BY DEF Refused, Reads
<1>1. /\ t \in DOMAIN todos
      /\ todos[t].status.kind = "in_progress"
      /\ old = todos[t].status.by
  BY DEF Claimant
<1>2. CASE ApplyStatus(p)
  <2> DEFINE status == todos[me.id].status
             answer == IF me.from = NoHolder THEN Transition(status, me.to, me.actor)
                       ELSE TakeOver(status, me.from, me.actor)
  <2>1. /\ me.pc = "apply"
        /\ me.id \in DOMAIN todos
        /\ ~answer.refused
        /\ todos' = [todos EXCEPT ![me.id].status = answer.status]
    BY <1>0, <1>2 DEF ApplyStatus, Changed
  <2>2. me.id = t
    <3> HIDE DEF answer
    <3> QED
      BY <2>1 DEF Claimant
  <2>3. /\ answer.status = InProgress(me.actor)
        /\ HandsOver(old, me.actor) \/ me.from = old
        /\ old # Human
    BY <1>1, <2>1, <2>2, TransitionRespects, TakeOverRespects
  <2>4. Claimant(todos', t) = me.actor
    <3>1. todos'[t].status = answer.status /\ t \in DOMAIN todos'
      <4> HIDE DEF answer
      <4> QED
        BY <2>1, <2>2 DEF TypeOK, Todos
    <3> QED
      BY <2>3, <3>1 DEF Claimant, InProgress
  <2> QED
    BY <2>1, <2>3, <2>4, SMTT(30)
<1>3. CASE ApplyPurge(p) \/ ApplyPrune(p)
  <2>1. me.actor = Human
    BY <1>3 DEF ApplyPurge, ApplyPrune, Known, SlotKnown
  <2> QED
    BY <2>1 DEF Covers
<1>4. CASE ApplyRelease(p)
  <2>1. t \in DOMAIN todos' /\ todos'[t] = todos[t]
    BY <1>1, <1>4 DEF ApplyRelease, Changed
  <2> QED
    BY <2>1 DEF Claimant
<1> QED
  BY <1>2, <1>3, <1>4 DEF StatusStep

(* A claim is never lost to a holder it does not hand over to, except to   *)
(* a start that found this very claimant gone; a person's claim passes to  *)
(* nobody but a person or the tracker.  The check and the edit are two     *)
(* calls of the store: this holds whatever comes between them.             *)
THEOREM ClaimsAreRespectedHolds == Spec => ClaimsAreRespected
<1> DEFINE Respected ==
      \A t \in Ids :
        LET old == Claimant(todos, t)
            new == Claimant(todos', t)
        IN  (/\ old # NoHolder
             /\ new # old
             /\ \A p \in Procs : proc[p].pc = "apply" => ~Covers(proc[p].actor, old))
            => /\ old # Human
               /\ \/ HandsOver(old, new)
                  \/ \E p \in Procs : /\ proc[p].pc = "apply"
                                      /\ proc[p].actor = new
                                      /\ proc[p].from = old
<1>1. ASSUME TypeOK, Known, [Next]_vars
      PROVE  Respected
  <2> SUFFICES ASSUME NEW t \in Ids,
                      Claimant(todos, t) # NoHolder,
                      Claimant(todos', t) # Claimant(todos, t),
                      \A p \in Procs : proc[p].pc = "apply" =>
                                         ~Covers(proc[p].actor, Claimant(todos, t))
               PROVE  /\ Claimant(todos, t) # Human
                      /\ \/ HandsOver(Claimant(todos, t), Claimant(todos', t))
                         \/ \E p \in Procs : /\ proc[p].pc = "apply"
                                             /\ proc[p].actor = Claimant(todos', t)
                                             /\ proc[p].from = Claimant(todos, t)
    OBVIOUS
  <2>1. PICK p \in Procs : StatusStep(p)
    BY <1>1, StepKinds DEF Quiet, AppendEvents, Die
  <2>2. proc[p].pc = "apply"
    BY <2>1 DEF StatusStep, ApplyStatus, ApplyPurge, ApplyPrune, ApplyRelease
  <2> QED
    BY <1>1, <2>1, <2>2, StatusStepRespects
<1>2. TypeOK /\ Known /\ [Next]_vars => [Respected]_vars
  BY <1>1
<1> QED
  BY <1>2, AlwaysKnown, PTL DEF Spec, ClaimsAreRespected

(***************************************************************************)
(* The claim log                                                           *)
(***************************************************************************)

(* The newest event of a todo tells its claimant.  Where that event is:    *)
(* in the log, with every other one older; in flight, newer than the log   *)
(* and than anything lost; or lost with the command that never appended.   *)
InLog(t) ==
  /\ log[t].by = Claimant(todos, t)
  /\ \A q \in Procs : \A f \in proc[q].events : f.todo = t => f.at < log[t].at

Newest(q, e, t) ==
  /\ e.todo = t
  /\ e.by = Claimant(todos, t)
  /\ e.at > log[t].at
  /\ e.at > lostAt[t]
  /\ \A r \in Procs : \A f \in proc[r].events :
       f.todo = t => f.at < e.at \/ (r = q /\ f = e)

InFlight(t) == \E q \in Procs : \E e \in proc[q].events : Newest(q, e, t)

Lost(t) ==
  /\ lostAt[t] > log[t].at
  /\ \A q \in Procs : \A f \in proc[q].events : f.todo = t => f.at < lostAt[t]

(* Times are those of the store's lock, so nothing is newer than its clock; *)
(* one edit tells the log of a todo once.                                  *)
NewestTells ==
  /\ \A t \in Ids : log[t].at <= clock /\ lostAt[t] <= clock
  /\ \A q \in Procs : \A e \in proc[q].events :
       /\ e.at <= clock
       /\ \A f \in proc[q].events : f.todo = e.todo => f = e
  /\ \A t \in Ids : InLog(t) \/ InFlight(t) \/ Lost(t)

LEMMA TimesAreNat ==
  ASSUME TypeOK
  PROVE  /\ clock \in Nat
         /\ \A t \in Ids : log[t].at \in Nat /\ lostAt[t] \in Nat
         /\ \A q \in Procs : \A e \in proc[q].events : e.at \in Nat /\ e.todo \in Ids
<1>1. \A q \in Procs : proc[q].events \in SUBSET Events
  BY MineType DEF Slots
<1> QED
  BY <1>1 DEF TypeOK, Events

LEMMA NewestIsLog ==
  ASSUME TypeOK, NewestTells
  PROVE  LogTellsClaims
<1> SUFFICES ASSUME NEW t \in Ids,
                    \A p \in Procs : \A e \in proc[p].events : e.todo # t,
                    lostAt[t] <= log[t].at
             PROVE  log[t].by = Claimant(todos, t)
  BY DEF LogTellsClaims
<1>1. ~InFlight(t)
  BY DEF InFlight, Newest
<1>2. ~Lost(t)
  BY TimesAreNat DEF Lost
<1> QED
  BY <1>1, <1>2 DEF NewestTells, InLog

LEMMA NewestQuiet ==
  ASSUME NewestTells, Quiet
  PROVE  NewestTells'
<1>1. /\ clock' = clock
      /\ log' = log
      /\ lostAt' = lostAt
      /\ \A q \in Procs : proc'[q].events = proc[q].events
      /\ \A t \in Ids : Claimant(todos', t) = Claimant(todos, t)
  BY DEF Quiet
<1>2. \A t \in Ids : InLog(t) => InLog(t)'
  BY <1>1 DEF InLog
<1>3. \A t \in Ids : InFlight(t) => InFlight(t)'
  BY <1>1 DEF InFlight, Newest
<1>4. \A t \in Ids : Lost(t) => Lost(t)'
  BY <1>1 DEF Lost
<1> QED
  BY <1>1, <1>2, <1>3, <1>4 DEF NewestTells

(* An edit that changes a claim stamps its event later than any other, and *)
(* leaves the todos alone whose claim it does not change.                  *)
LEMMA NewestEdit ==
  ASSUME TypeOK, Known, NewestTells, NEW p \in Procs, NEW new, NEW after,
         StatusEdit(p, new, after)
  PROVE  NewestTells'
<1> DEFINE me == proc[p]
           events == EventsOf(new, clock + 1)
           slot == IF events # {} THEN [me EXCEPT !.pc = "log", !.events = events]
                   ELSE IF after = "idle" THEN Idle ELSE [me EXCEPT !.pc = after]
<1>0. /\ me.events = {}
      /\ me \in Slots
      /\ todos' = new
      /\ clock' = IF events = {} THEN clock ELSE clock + 1
      /\ proc' = [proc EXCEPT ![p] = slot]
      /\ UNCHANGED <<log, lostAt>>
  BY MineType DEF StatusEdit, Changed, Known, SlotKnown
<1>1. slot.events = events
  <2> HIDE DEF events
  <2>1. [me EXCEPT !.pc = "log", !.events = events].events = events
    BY <1>0 DEF Slots
  <2>2. Idle.events = {} /\ [me EXCEPT !.pc = after].events = {}
    BY <1>0 DEF Slots, Idle
  <2> QED
    BY <2>1, <2>2
<1>2. \A q \in Procs : proc'[q].events = IF q = p THEN events ELSE proc[q].events
  <2> HIDE DEF slot, events
  <2> QED
    BY <1>0, <1>1 DEF TypeOK
<1>3. \A e \in events : e.at = clock + 1 /\ \A f \in events : f.todo = e.todo => f = e
  BY DEF EventsOf
<1>4. \A t \in Ids : Claimant(new, t) # Claimant(todos, t) =>
        [at |-> clock + 1, todo |-> t, by |-> Claimant(new, t)] \in events
  BY DEF EventsOf
<1>5. \A t \in Ids : Claimant(new, t) = Claimant(todos, t) => \A e \in events : e.todo # t
  BY DEF EventsOf
<1> HIDE DEF slot, events
<1>6. CASE events = {}
  <2>1. Quiet
    BY <1>0, <1>2, <1>4, <1>6 DEF Quiet
  <2> QED
    BY <2>1, NewestQuiet
<1>7. CASE events # {}
  <2>0. clock' = clock + 1
    BY <1>0, <1>7
  <2>1. \A t \in Ids : log'[t].at <= clock' /\ lostAt'[t] <= clock'
    BY <1>0, <2>0, TimesAreNat DEF NewestTells
  <2>2. \A q \in Procs : \A e \in proc'[q].events :
          /\ e.at <= clock'
          /\ \A f \in proc'[q].events : f.todo = e.todo => f = e
    BY <1>2, <1>3, <2>0, TimesAreNat DEF NewestTells
  <2>3. ASSUME NEW t \in Ids, Claimant(new, t) # Claimant(todos, t)
        PROVE  InFlight(t)'
    <3> DEFINE e == [at |-> clock + 1, todo |-> t, by |-> Claimant(new, t)]
    <3>1. e \in proc'[p].events /\ e \in events
      BY <1>2, <1>4, <2>3
    <3>2. e.todo = t /\ e.by = Claimant(todos', t) /\ e.at = clock + 1
      BY <1>0
    <3> HIDE DEF e
    <3>3. e.at > log'[t].at /\ e.at > lostAt'[t]
      BY <1>0, <3>2, TimesAreNat DEF NewestTells
    <3>4. \A r \in Procs : \A f \in proc'[r].events :
            f.todo = t => f.at < e.at \/ (r = p /\ f = e)
      <4> SUFFICES ASSUME NEW r \in Procs, NEW f \in proc'[r].events, f.todo = t
                   PROVE  f.at < e.at \/ (r = p /\ f = e)
        OBVIOUS
      <4>1. CASE r = p
        BY <1>2, <1>3, <3>1, <3>2, <4>1
      <4>2. CASE r # p
        BY <1>2, <3>2, <4>2, TimesAreNat DEF NewestTells
      <4> QED
        BY <4>1, <4>2
    <3> QED
      BY <3>1, <3>2, <3>3, <3>4 DEF InFlight, Newest
  <2>4. ASSUME NEW t \in Ids, Claimant(new, t) = Claimant(todos, t)
        PROVE  (InLog(t) \/ InFlight(t) \/ Lost(t))'
    <3>1. /\ Claimant(todos', t) = Claimant(todos, t)
          /\ \A f \in proc'[p].events : f.todo # t
          /\ \A q \in Procs : q # p => proc'[q].events = proc[q].events
      BY <1>0, <1>2, <1>5, <2>4
    <3>2. CASE InLog(t)
      BY <1>0, <3>1, <3>2 DEF InLog
    <3>3. CASE Lost(t)
      BY <1>0, <3>1, <3>3 DEF Lost
    <3>4. CASE InFlight(t)
      <4>1. PICK q \in Procs : \E e \in proc[q].events : Newest(q, e, t)
        BY <3>4 DEF InFlight
      <4>2. PICK e \in proc[q].events : Newest(q, e, t)
        BY <4>1
      <4>3. q # p /\ e \in proc'[q].events
        BY <1>0, <3>1, <4>2
      <4>4. Newest(q, e, t)'
        BY <1>0, <3>1, <4>2 DEF Newest
      <4> QED
        BY <4>3, <4>4 DEF InFlight
    <3> QED
      BY <3>2, <3>3, <3>4 DEF NewestTells
  <2> QED
    BY <2>1, <2>2, <2>3, <2>4 DEF NewestTells
<1> QED
  BY <1>6, <1>7

(* A process that gives up its events for a todo, to the log or with its   *)
(* life, has exactly one of them or none.                                  *)
LEMMA OneOfMine ==
  ASSUME TypeOK, NewestTells, NEW p \in Procs, NEW t \in Ids,
         {e \in proc[p].events : e.todo = t} # {}
  PROVE  LET e0 == CHOOSE e \in {f \in proc[p].events : f.todo = t} : TRUE
         IN  /\ e0 \in proc[p].events
             /\ e0.todo = t
             /\ \A f \in proc[p].events : f.todo = t => f = e0
<1> DEFINE e0 == CHOOSE e \in {f \in proc[p].events : f.todo = t} : TRUE
<1>1. e0 \in {f \in proc[p].events : f.todo = t}
  OBVIOUS
<1> HIDE DEF e0
<1>2. e0 \in proc[p].events /\ e0.todo = t
  BY <1>1
<1>3. \A f \in proc[p].events : f.todo = t => f = e0
  BY <1>2 DEF NewestTells
<1> QED
  BY <1>2, <1>3 DEF e0

(* An append moves the log forward only, so an older event changes nothing *)
(* and the newest one settles what the log says.                           *)
LEMMA NewestAppend ==
  ASSUME TypeOK, NewestTells, NEW p \in Procs, AppendEvents(p)
  PROVE  NewestTells'
<1> DEFINE me == proc[p]
           mine(t) == {e \in me.events : e.todo = t}
           first(t) == CHOOSE e \in mine(t) : TRUE
<1>0. UNCHANGED <<todos, clock, lostAt>>
  BY DEF AppendEvents
<1>1. \A q \in Procs : proc'[q].events = IF q = p THEN {} ELSE proc[q].events
  <2>1. [me EXCEPT !.pc = "end", !.events = {}].events = {} /\ Idle.events = {}
    BY MineType DEF Slots, Idle
  <2> QED
    BY <2>1 DEF AppendEvents, TypeOK
<1>2. \A t \in Ids : log'[t] = IF mine(t) = {} THEN log[t] ELSE ReadsLatest(log[t], first(t))
  BY DEF AppendEvents
<1>3. \A t \in Ids : mine(t) # {} =>
        /\ first(t) \in me.events
        /\ first(t).todo = t
        /\ \A f \in me.events : f.todo = t => f = first(t)
  BY OneOfMine
<1> HIDE DEF first
<1>4. ASSUME NEW t \in Ids
      PROVE  /\ log'[t].at <= clock
             /\ (InLog(t) \/ InFlight(t) \/ Lost(t))'
  <2>0. /\ Claimant(todos', t) = Claimant(todos, t)
        /\ lostAt'[t] = lostAt[t]
        /\ InLog(t) \/ InFlight(t) \/ Lost(t)
    BY <1>0 DEF NewestTells
  <2>1. CASE mine(t) = {}
    <3>0. log'[t] = log[t] /\ \A f \in me.events : f.todo # t
      BY <1>2, <2>1
    <3>1. CASE InLog(t)
      BY <1>1, <2>0, <3>0, <3>1 DEF InLog, NewestTells
    <3>2. CASE Lost(t)
      BY <1>1, <2>0, <3>0, <3>2 DEF Lost, NewestTells
    <3>3. CASE InFlight(t)
      <4>1. PICK q \in Procs : \E e \in proc[q].events : Newest(q, e, t)
        BY <3>3 DEF InFlight
      <4>2. PICK e \in proc[q].events : Newest(q, e, t)
        BY <4>1
      <4>3. q # p /\ e \in proc'[q].events
        BY <1>1, <3>0, <4>2 DEF Newest
      <4>4. Newest(q, e, t)'
        BY <1>1, <2>0, <3>0, <4>2 DEF Newest
      <4>5. InFlight(t)'
        BY <4>3, <4>4 DEF InFlight
      <4> QED
        BY <3>0, <4>5 DEF NewestTells
    <3> QED
      BY <2>0, <3>1, <3>2, <3>3
  <2>2. CASE mine(t) # {}
    <3> DEFINE e0 == first(t)
    <3>0. /\ e0 \in me.events
          /\ e0.todo = t
          /\ \A f \in me.events : f.todo = t => f = e0
          /\ e0.at \in Nat /\ log[t].at \in Nat /\ lostAt[t] \in Nat /\ clock \in Nat
          /\ e0.at <= clock /\ log[t].at <= clock
      BY <1>3, <2>2, TimesAreNat DEF NewestTells
    <3>1. log'[t] = IF e0.at >= log[t].at THEN [at |-> e0.at, by |-> e0.by] ELSE log[t]
      BY <1>2, <2>2 DEF ReadsLatest
    <3> HIDE DEF e0
    <3>2. log'[t].at <= clock
      BY <3>0, <3>1
    <3>3. CASE InLog(t)
      <4>1. e0.at < log[t].at
        BY <3>0, <3>3 DEF InLog
      <4>2. log'[t] = log[t]
        BY <3>0, <3>1, <4>1
      <4> QED
        BY <1>1, <2>0, <3>2, <3>3, <4>2 DEF InLog
    <3>4. CASE Lost(t)
      <4>1. e0.at < lostAt[t] /\ log[t].at < lostAt[t]
        BY <3>0, <3>4 DEF Lost
      <4>2. log'[t].at < lostAt[t]
        BY <3>1, <4>1
      <4> QED
        BY <1>1, <2>0, <3>0, <3>2, <3>4, <4>2, TimesAreNat DEF Lost
    <3>5. CASE InFlight(t)
      <4>1. PICK q \in Procs : \E e \in proc[q].events : Newest(q, e, t)
        BY <3>5 DEF InFlight
      <4>2. PICK e \in proc[q].events : Newest(q, e, t)
        BY <4>1
      <4>3. CASE q = p
        <5>1. e = e0
          BY <3>0, <4>2, <4>3 DEF Newest
        <5>2. log'[t] = [at |-> e.at, by |-> e.by]
          BY <3>0, <3>1, <4>2, <5>1 DEF Newest
        <5>3. InLog(t)'
          BY <1>1, <2>0, <4>2, <4>3, <5>2 DEF InLog, Newest
        <5> QED
          BY <3>2, <5>3
      <4>4. CASE q # p
        <5>1. e \in proc'[q].events
          BY <1>1, <4>4
        <5>2. e0.at < e.at
          BY <3>0, <4>2, <4>4 DEF Newest
        <5>3. log'[t].at < e.at
          BY <3>1, <4>2, <5>2, TimesAreNat DEF Newest
        <5>4. Newest(q, e, t)'
          BY <1>1, <2>0, <3>0, <4>2, <5>3, TimesAreNat DEF Newest
        <5> QED
          BY <3>2, <5>1, <5>4 DEF InFlight
      <4> QED
        BY <4>3, <4>4
    <3> QED
      BY <2>0, <3>3, <3>4, <3>5
  <2> QED
    BY <2>1, <2>2
<1>5. \A q \in Procs : \A e \in proc'[q].events :
        /\ e.at <= clock
        /\ \A f \in proc'[q].events : f.todo = e.todo => f = e
  BY <1>1 DEF NewestTells
<1> QED
  BY <1>0, <1>4, <1>5 DEF NewestTells

(* An event that is lost leaves the log behind only if it was the newest.  *)
LEMMA NewestDie ==
  ASSUME TypeOK, NewestTells, NEW p \in Procs, Die(p)
  PROVE  NewestTells'
<1> DEFINE me == proc[p]
           mine(t) == {e \in me.events : e.todo = t}
           first(t) == CHOOSE e \in mine(t) : TRUE
<1>0. UNCHANGED <<todos, clock, log>>
  BY DEF Die
<1>1. \A q \in Procs : proc'[q].events = IF q = p THEN {} ELSE proc[q].events
  <2>1. Idle.events = {}
    BY DEF Idle
  <2> QED
    BY <2>1 DEF Die, Finish, TypeOK
<1>2. \A t \in Ids : lostAt'[t] =
        IF \E e \in mine(t) : e.at > lostAt[t] THEN first(t).at ELSE lostAt[t]
  BY DEF Die
<1>3. \A t \in Ids : mine(t) # {} =>
        /\ first(t) \in me.events
        /\ first(t).todo = t
        /\ \A f \in me.events : f.todo = t => f = first(t)
  BY OneOfMine
<1> HIDE DEF first
<1>4. ASSUME NEW t \in Ids
      PROVE  /\ lostAt'[t] <= clock
             /\ (InLog(t) \/ InFlight(t) \/ Lost(t))'
  <2>0. /\ Claimant(todos', t) = Claimant(todos, t)
        /\ log'[t] = log[t]
        /\ InLog(t) \/ InFlight(t) \/ Lost(t)
    BY <1>0 DEF NewestTells
  <2>1. CASE InLog(t)
    <3>1. InLog(t)'
      BY <1>1, <2>0, <2>1 DEF InLog
    <3>2. lostAt'[t] <= clock
      BY <1>2, <1>3 DEF NewestTells
    <3> QED
      BY <3>1, <3>2
  <2>2. CASE mine(t) = {}
    <3>0. lostAt'[t] = lostAt[t] /\ \A f \in me.events : f.todo # t
      BY <1>2, <2>2
    <3>1. CASE Lost(t)
      BY <1>1, <2>0, <3>0, <3>1 DEF Lost, NewestTells
    <3>2. CASE InFlight(t)
      <4>1. PICK q \in Procs : \E e \in proc[q].events : Newest(q, e, t)
        BY <3>2 DEF InFlight
      <4>2. PICK e \in proc[q].events : Newest(q, e, t)
        BY <4>1
      <4>3. q # p /\ e \in proc'[q].events
        BY <1>1, <3>0, <4>2 DEF Newest
      <4>4. Newest(q, e, t)'
        BY <1>1, <2>0, <3>0, <4>2 DEF Newest
      <4>5. InFlight(t)'
        BY <4>3, <4>4 DEF InFlight
      <4> QED
        BY <3>0, <4>5 DEF NewestTells
    <3> QED
      BY <2>0, <2>1, <3>1, <3>2
  <2>3. CASE mine(t) # {}
    <3> DEFINE e0 == first(t)
    <3>0. /\ e0 \in me.events
          /\ e0.todo = t
          /\ \A f \in me.events : f.todo = t => f = e0
          /\ e0.at \in Nat /\ log[t].at \in Nat /\ lostAt[t] \in Nat /\ clock \in Nat
          /\ e0.at <= clock /\ lostAt[t] <= clock
      BY <1>3, <2>3, TimesAreNat DEF NewestTells
    <3>1. lostAt'[t] = IF e0.at > lostAt[t] THEN e0.at ELSE lostAt[t]
      BY <1>2, <3>0
    <3> HIDE DEF e0
    <3>2. lostAt'[t] <= clock
      BY <3>0, <3>1
    <3>3. CASE Lost(t)
      <4>1. e0.at < lostAt[t]
        BY <3>0, <3>3 DEF Lost
      <4>2. lostAt'[t] = lostAt[t]
        BY <3>0, <3>1, <4>1
      <4> QED
        BY <1>1, <2>0, <3>2, <3>3, <4>2 DEF Lost
    <3>4. CASE InFlight(t)
      <4>1. PICK q \in Procs : \E e \in proc[q].events : Newest(q, e, t)
        BY <3>4 DEF InFlight
      <4>2. PICK e \in proc[q].events : Newest(q, e, t)
        BY <4>1
      <4>3. CASE q = p
        <5>1. e = e0
          BY <3>0, <4>2, <4>3 DEF Newest
        <5>2. lostAt'[t] = e.at
          BY <3>1, <4>2, <5>1 DEF Newest
        <5>3. Lost(t)'
          BY <1>1, <2>0, <4>2, <4>3, <5>2 DEF Lost, Newest
        <5> QED
          BY <3>2, <5>3
      <4>4. CASE q # p
        <5>1. e \in proc'[q].events
          BY <1>1, <4>4
        <5>2. e0.at < e.at
          BY <3>0, <4>2, <4>4 DEF Newest
        <5>3. lostAt'[t] < e.at
          BY <3>0, <3>1, <4>2, <5>2, TimesAreNat DEF Newest
        <5>4. Newest(q, e, t)'
          BY <1>1, <2>0, <3>0, <3>1, <4>2, <5>3, TimesAreNat DEF Newest
        <5> QED
          BY <3>2, <5>1, <5>4 DEF InFlight
      <4> QED
        BY <4>3, <4>4
    <3> QED
      BY <2>0, <2>1, <3>3, <3>4
  <2> QED
    BY <2>2, <2>3
<1>5. \A q \in Procs : \A e \in proc'[q].events :
        /\ e.at <= clock
        /\ \A f \in proc'[q].events : f.todo = e.todo => f = e
  BY <1>1 DEF NewestTells
<1> QED
  BY <1>0, <1>4, <1>5 DEF NewestTells

(* With no event of a todo in flight, and none newer than the log lost     *)
(* with its command, the log tells who works on it: events are stamped     *)
(* with the time of the edit and appended after the lock is gone, in any   *)
(* order (Recorded::apply, claim_events).                                  *)
THEOREM LogTellsClaimsHolds == Spec => []LogTellsClaims
<1>1. Init => NewestTells
  <2> SUFFICES ASSUME Init PROVE NewestTells
    OBVIOUS
  <2>1. /\ \A q \in Procs : proc[q].events = {}
        /\ \A t \in Ids : log[t] = NoEvent /\ lostAt[t] = 0
        /\ clock = 0
        /\ NoEvent.at = 0 /\ NoEvent.by = NoHolder
    BY DEF Init, Idle, NoEvent
  <2>2. \A t \in Ids : Claimant(todos, t) = NoHolder
    BY DEF Init, Claimant, NewTodo, Pending
  <2> QED
    BY <2>1, <2>2 DEF NewestTells, InLog
<1>2. ASSUME TypeOK, Known, NewestTells, [Next]_vars
      PROVE  NewestTells'
  <2>1. ASSUME NEW p \in Procs, StatusStep(p)
        PROVE  NewestTells'
    <3>1. CASE Refused(p)
      <4>1. proc[p].pc = "apply"
        BY <2>1 DEF StatusStep, ApplyStatus, ApplyPurge, ApplyPrune, ApplyRelease
      <4> QED
        BY <1>2, <3>1, <4>1, QuietFinish, NewestQuiet DEF Refused, Reads
    <3> QED
      BY <1>2, <2>1, <3>1, StatusEdits, NewestEdit DEF StatusStep
  <2> QED
    BY <1>2, <2>1, StepKinds, NewestQuiet, NewestAppend, NewestDie
<1>3. TypeOK /\ Known /\ NewestTells /\ [Next]_vars => NewestTells'
  BY <1>2
<1>4. TypeOK /\ NewestTells => LogTellsClaims
  BY NewestIsLog
<1> QED
  BY <1>1, <1>3, <1>4, AlwaysKnown, PTL DEF Spec

(***************************************************************************)
(* Induction, by the least counterexample                                  *)
(***************************************************************************)

LEMMA LeastExists ==
  ASSUME NEW S \in SUBSET Nat, S # {}
  PROVE  \E n \in S : \A m \in S : n <= m
<1>1. PICK n \in S : \A m \in S : ~(<<m, n>> \in OpToRel(<, Nat))
  BY NatLessThanWellFounded, WFMin
<1>2. \A m \in S : ~(m < n)
  <2> SUFFICES ASSUME NEW m \in S
               PROVE  ~(m < n)
    OBVIOUS
  <2>1. <<m, n>> \in Nat \X Nat /\ <<m, n>>[1] = m /\ <<m, n>>[2] = n
    OBVIOUS
  <2>2. <<m, n>> \notin {ss \in Nat \X Nat : ss[1] < ss[2]}
    BY <1>1 DEF OpToRel
  <2>. QED
    BY <2>1, <2>2
<1>. QED
  BY <1>2

(* A set that holds 0 and with each number below N the next one.           *)
LEMMA UpTo ==
  ASSUME NEW N \in Nat, NEW S, 0 \in S,
         \A n \in 0 .. N : n \in S /\ n # N => n + 1 \in S
  PROVE  \A n \in 0 .. N : n \in S
<1> SUFFICES ASSUME {n \in 0 .. N : n \notin S} # {}
             PROVE  FALSE
  OBVIOUS
<1>1. PICK m \in {n \in 0 .. N : n \notin S} : \A k \in {n \in 0 .. N : n \notin S} : m <= k
  <2>1. {n \in 0 .. N : n \notin S} \in SUBSET Nat
    OBVIOUS
  <2>. QED
    BY <2>1, LeastExists
<1>2. m # 0 /\ m - 1 \in 0 .. N /\ m - 1 # N
  BY <1>1
<1>3. m - 1 \in S
  BY <1>1, <1>2
<1>. QED
  BY <1>1, <1>2, <1>3

(***************************************************************************)
(* What is reached                                                         *)
(***************************************************************************)

(* `ids` holds what follows `from` and what follows its own.               *)
ClosedFrom(next, from, ids) ==
  \A t \in (from \cup ids) \cap DOMAIN next : next[t] \subseteq ids

Onward(next, ids) == UNION {next[t] : t \in ids \cap DOMAIN next}

(* The steps of ReachedFrom.                                               *)
IsWalk(next, from, w, N) ==
  w = [n \in 0 .. N |-> IF n = 0 THEN Onward(next, from)
                        ELSE w[n - 1] \cup Onward(next, w[n - 1])]

LEMMA WalkExists ==
  ASSUME NEW next, NEW from, NEW N \in Nat
  PROVE  \E w : IsWalk(next, from, w, N)
<1> DEFINE S == {n \in 0 .. N : \E w : IsWalk(next, from, w, n)}
<1>1. 0 \in S
  <2>1. IsWalk(next, from, [n \in 0 .. 0 |-> Onward(next, from)], 0)
    BY DEF IsWalk
  <2>. QED
    BY <2>1
<1>2. ASSUME NEW n \in 0 .. N, n \in S, n # N
      PROVE  n + 1 \in S
  <2>1. PICK w : IsWalk(next, from, w, n)
    BY <1>2
  <2>2. \A k \in 0 .. n : w[k] = IF k = 0 THEN Onward(next, from)
                        ELSE w[k - 1] \cup Onward(next, w[k - 1])
    BY <2>1 DEF IsWalk
  <2> DEFINE v == [k \in 0 .. n + 1 |-> IF k = n + 1 THEN w[n] \cup Onward(next, w[n]) ELSE w[k]]
  <2>3. \A k \in 0 .. n + 1 : v[k] = IF k = 0 THEN Onward(next, from)
                        ELSE v[k - 1] \cup Onward(next, v[k - 1])
    <3> SUFFICES ASSUME NEW k \in 0 .. n + 1
                 PROVE  v[k] = IF k = 0 THEN Onward(next, from)
                        ELSE v[k - 1] \cup Onward(next, v[k - 1])
      OBVIOUS
    <3>1. CASE k = n + 1
      <4>1. k # 0 /\ k - 1 = n /\ n \in 0 .. n + 1 /\ n # n + 1
        BY <3>1
      <4>2. v[n] = w[n]
        BY <4>1
      <4>. QED
        BY <3>1, <4>1, <4>2
    <3>2. CASE k \in 0 .. n
      <4>1. k # n + 1
        BY <3>2
      <4>2. v[k] = w[k]
        BY <4>1
      <4>3. k # 0 => k - 1 \in 0 .. n + 1 /\ k - 1 # n + 1
        BY <3>2
      <4>4. k # 0 => v[k - 1] = w[k - 1]
        BY <4>3
      <4>. HIDE DEF v
      <4>. QED
        BY <2>2, <3>2, <4>2, <4>4
    <3>. QED
      BY <3>1, <3>2
  <2>4. IsWalk(next, from, v, n + 1)
    <3>1. v = [k \in 0 .. n + 1 |-> IF k = 0 THEN Onward(next, from)
                        ELSE v[k - 1] \cup Onward(next, v[k - 1])]
      BY <2>3
    <3>. QED
      BY <3>1 DEF IsWalk
  <2>5. n + 1 \in 0 .. N
    BY <1>2
  <2>. QED
    BY <2>4, <2>5
<1>3. \A n \in 0 .. N : n \in S
  <2> HIDE DEF S
  <2>. QED
    BY <1>1, <1>2, UpTo
<1>. QED
  BY <1>3

LEMMA ReachedIsWalk ==
  ASSUME NEW next, NEW from, Cardinality(DOMAIN next) \in Nat
  PROVE  \E w : /\ IsWalk(next, from, w, Cardinality(DOMAIN next))
                /\ ReachedFrom(next, from) = w[Cardinality(DOMAIN next)]
<1> DEFINE N == Cardinality(DOMAIN next)
<1> DEFINE w == CHOOSE w : w = [n \in 0 .. N |->
                  IF n = 0 THEN UNION {next[t] : t \in from \cap DOMAIN next}
                  ELSE w[n - 1] \cup UNION {next[t] : t \in w[n - 1] \cap DOMAIN next}]
<1>1. ReachedFrom(next, from) = w[N]
  BY DEF ReachedFrom
<1>2. \E v : v = [n \in 0 .. N |->
                  IF n = 0 THEN UNION {next[t] : t \in from \cap DOMAIN next}
                  ELSE v[n - 1] \cup UNION {next[t] : t \in v[n - 1] \cap DOMAIN next}]
  <2>1. PICK v : IsWalk(next, from, v, N)
    BY WalkExists
  <2>2. v = [n \in 0 .. N |->
                  IF n = 0 THEN UNION {next[t] : t \in from \cap DOMAIN next}
                  ELSE v[n - 1] \cup UNION {next[t] : t \in v[n - 1] \cap DOMAIN next}]
    BY <2>1 DEF IsWalk, Onward
  <2>. QED
    BY <2>2
<1>3. w = [n \in 0 .. N |->
                  IF n = 0 THEN UNION {next[t] : t \in from \cap DOMAIN next}
                  ELSE w[n - 1] \cup UNION {next[t] : t \in w[n - 1] \cap DOMAIN next}]
  BY <1>2
<1>4. IsWalk(next, from, w, N)
  BY <1>3 DEF IsWalk, Onward
<1>. QED
  BY <1>1, <1>4

(* The steps one by one.                                                   *)
LEMMA WalkSteps ==
  ASSUME NEW next, NEW from, NEW N \in Nat, NEW w, IsWalk(next, from, w, N)
  PROVE  /\ w[0] = Onward(next, from)
         /\ \A n \in 0 .. N : n # N => w[n + 1] = w[n] \cup Onward(next, w[n])
<1>1. \A n \in 0 .. N : w[n] = IF n = 0 THEN Onward(next, from)
                        ELSE w[n - 1] \cup Onward(next, w[n - 1])
  BY DEF IsWalk
<1>2. ASSUME NEW n \in 0 .. N, n # N
      PROVE  w[n + 1] = w[n] \cup Onward(next, w[n])
  <2>1. n + 1 \in 0 .. N /\ n + 1 # 0 /\ (n + 1) - 1 = n
    BY <1>2
  <2>. QED
    BY <1>1, <2>1
<1>3. w[0] = Onward(next, from)
  <2>1. 0 \in 0 .. N
    OBVIOUS
  <2>. QED
    BY <1>1, <2>1
<1>. QED
  BY <1>2, <1>3

(* What follows a part of a closed set stays inside.                       *)
LEMMA OnwardInside ==
  ASSUME NEW next, NEW from, NEW ids, ClosedFrom(next, from, ids)
  PROVE  /\ Onward(next, from) \subseteq ids
         /\ \A some \in SUBSET ids : Onward(next, some) \subseteq ids
BY DEF ClosedFrom, Onward

LEMMA WalkIsLeast ==
  ASSUME NEW next, NEW from, NEW N \in Nat, NEW w, IsWalk(next, from, w, N),
         NEW ids, ClosedFrom(next, from, ids)
  PROVE  w[N] \subseteq ids
<1>0. \A n \in 0 .. N : n # N => w[n + 1] = w[n] \cup Onward(next, w[n])
  <2>1. /\ w[0] = Onward(next, from)
        /\ \A n \in 0 .. N : n # N => w[n + 1] = w[n] \cup Onward(next, w[n])
    BY WalkSteps
  <2>. QED
    BY <2>1
<1> DEFINE S == {n \in 0 .. N : w[n] \subseteq ids}
<1>1. 0 \in S
  <2>1. w[0] \subseteq ids
    BY WalkSteps, OnwardInside
  <2>. QED
    BY <2>1
<1>2. ASSUME NEW n \in 0 .. N, n \in S, n # N
      PROVE  n + 1 \in S
  <2>1. w[n + 1] = w[n] \cup Onward(next, w[n])
    BY <1>0, <1>2
  <2>2. w[n + 1] \subseteq ids
    BY <1>2, <2>1, OnwardInside
  <2>3. n + 1 \in 0 .. N
    BY <1>2
  <2>. QED
    BY <2>2, <2>3
<1>3. \A n \in 0 .. N : n \in S
  <2> HIDE DEF S
  <2>. QED
    BY <1>1, <1>2, UpTo
<1>. QED
  BY <1>3

(* A step that adds no id with edges of its own was the last one needed:   *)
(* N steps suffice for N ids.                                              *)
LEMMA WalkCloses ==
  ASSUME NEW next, IsFiniteSet(DOMAIN next), NEW from, NEW w,
         IsWalk(next, from, w, Cardinality(DOMAIN next))
  PROVE  ClosedFrom(next, from, w[Cardinality(DOMAIN next)])
<1> DEFINE N == Cardinality(DOMAIN next)
           D == DOMAIN next
           Done(n) == ClosedFrom(next, from, w[n])
<1>1. N \in Nat
  BY FS_CardinalityType
<1>2. /\ w[0] = Onward(next, from)
      /\ \A n \in 0 .. N : n # N => w[n + 1] = w[n] \cup Onward(next, w[n])
  BY <1>1, WalkSteps
<1> SUFFICES ASSUME ~Done(N)
             PROVE  FALSE
  OBVIOUS
<1>3. \A n \in 0 .. N : Onward(next, from) \subseteq w[n]
  <2> DEFINE S == {n \in 0 .. N : Onward(next, from) \subseteq w[n]}
  <2>1. 0 \in S
    BY <1>1, <1>2
  <2>2. \A n \in 0 .. N : n \in S /\ n # N => n + 1 \in S
    BY <1>1, <1>2
  <2>3. \A n \in 0 .. N : n \in S
    <3> HIDE DEF S
    <3>. QED
      BY <1>1, <2>1, <2>2, UpTo
  <2>. QED
    BY <2>3
<1>4. \A n \in 0 .. N : n # N /\ Done(n) => Done(n + 1)
  <2> SUFFICES ASSUME NEW n \in 0 .. N, n # N, Done(n)
               PROVE  w[n + 1] = w[n]
    OBVIOUS
  <2>1. Onward(next, w[n]) \subseteq w[n]
    BY OnwardInside
  <2>. QED
    BY <1>2, <2>1
<1>5. \A n \in 0 .. N : ~Done(n)
  <2> SUFFICES ASSUME NEW m \in 0 .. N, Done(m)
               PROVE  FALSE
    OBVIOUS
  <2> DEFINE S == {n \in 0 .. N : m <= n => Done(n)}
  <2>1. 0 \in S
    BY <1>1
  <2>2. \A n \in 0 .. N : n \in S /\ n # N => n + 1 \in S
    <3> SUFFICES ASSUME NEW n \in 0 .. N, n \in S, n # N, m <= n + 1
                 PROVE  Done(n + 1)
      BY <1>1
    <3>1. n + 1 = m \/ m <= n
      BY <1>1
    <3>2. m <= n => Done(n)
      OBVIOUS
    <3> HIDE DEF Done
    <3>. QED
      BY <1>4, <3>1, <3>2
  <2>3. \A n \in 0 .. N : n \in S
    <3> HIDE DEF S
    <3>. QED
      BY <1>1, <2>1, <2>2, UpTo
  <2>4. N \in S /\ m <= N
    BY <1>1, <2>3
  <2>. QED
    BY <2>4
<1>6. \A n \in 0 .. N : IsFiniteSet(w[n] \cap D) /\ Cardinality(w[n] \cap D) \in Nat
  BY FS_Intersection, FS_CardinalityType
<1> DEFINE S == {n \in 0 .. N : Cardinality(w[n] \cap D) > n}
<1>7. 0 \in S
  <2>1. w[0] \cap D # {}
    BY <1>1, <1>2, <1>5 DEF ClosedFrom, Onward
  <2>2. 0 \in 0 .. N
    BY <1>1
  <2>. QED
    BY <1>6, <2>1, <2>2, FS_EmptySet
<1>8. \A n \in 0 .. N : n \in S /\ n # N => n + 1 \in S
  <2> SUFFICES ASSUME NEW n \in 0 .. N, n \in S, n # N
               PROVE  n + 1 \in S
    OBVIOUS
  <2>1. n + 1 \in 0 .. N
    BY <1>1
  <2>2. w[n + 1] = w[n] \cup Onward(next, w[n])
    BY <1>2
  <2>3. w[n] \cap D # w[n + 1] \cap D
    <3> SUFFICES ASSUME w[n] \cap D = w[n + 1] \cap D
                 PROVE  Done(n + 1)
      BY <1>5, <2>1
    <3>. QED
      BY <1>3, <2>1, <2>2 DEF ClosedFrom, Onward
  <2>4. PICK t : t \in (w[n + 1] \cap D) \ (w[n] \cap D)
    BY <2>2, <2>3
  <2>5. Cardinality((w[n] \cap D) \cup {t}) = Cardinality(w[n] \cap D) + 1
    BY <1>6, <2>4, FS_AddElement
  <2>6. Cardinality((w[n] \cap D) \cup {t}) <= Cardinality(w[n + 1] \cap D)
    <3>1. (w[n] \cap D) \cup {t} \in SUBSET (w[n + 1] \cap D)
      BY <2>2, <2>4
    <3>. QED
      BY <1>6, <2>1, <3>1, FS_Subset
  <2>7. Cardinality(w[n] \cap D) > n
    OBVIOUS
  <2>8. Cardinality(w[n + 1] \cap D) > n + 1
    BY <1>1, <1>6, <2>1, <2>5, <2>6, <2>7
  <2>. QED
    BY <2>1, <2>8
<1>9. N \in S
  <2>1. \A n \in 0 .. N : n \in S
    <3> HIDE DEF S
    <3>. QED
      BY <1>1, <1>7, <1>8, UpTo
  <2>. QED
    BY <1>1, <2>1
<1>10. Cardinality(w[N] \cap D) <= N
  <2>1. w[N] \cap D \in SUBSET D
    OBVIOUS
  <2>. QED
    BY <2>1, FS_Subset
<1>. QED
  BY <1>1, <1>6, <1>9, <1>10

(* ReachedFrom is the least set of ids that holds what follows `from` and  *)
(* what follows its own.                                                   *)
LEMMA ReachedIsClosed ==
  ASSUME NEW next, IsFiniteSet(DOMAIN next), NEW from
  PROVE  ClosedFrom(next, from, ReachedFrom(next, from))
BY ReachedIsWalk, WalkCloses, FS_CardinalityType

LEMMA ReachedIsLeast ==
  ASSUME NEW next, IsFiniteSet(DOMAIN next), NEW from, NEW ids,
         ClosedFrom(next, from, ids)
  PROVE  ReachedFrom(next, from) \subseteq ids
BY ReachedIsWalk, WalkIsLeast, FS_CardinalityType

LEMMA ReachedGrows ==
  ASSUME NEW next, IsFiniteSet(DOMAIN next), NEW from, NEW more \in SUBSET from
  PROVE  ReachedFrom(next, more) \subseteq ReachedFrom(next, from)
<1>1. ClosedFrom(next, from, ReachedFrom(next, from))
  BY ReachedIsClosed
<1>2. ClosedFrom(next, more, ReachedFrom(next, from))
  BY <1>1 DEF ClosedFrom
<1>. QED
  BY <1>2, ReachedIsLeast

(* What is reached depends on nothing but the edges.                       *)
LEMMA ReachedBySameEdges ==
  ASSUME NEW next, IsFiniteSet(DOMAIN next), NEW other, IsFiniteSet(DOMAIN other), NEW from,
         \A t \in DOMAIN next : next[t] # {} => t \in DOMAIN other /\ next[t] \subseteq other[t]
  PROVE  ReachedFrom(next, from) \subseteq ReachedFrom(other, from)
<1>1. ClosedFrom(other, from, ReachedFrom(other, from))
  BY ReachedIsClosed
<1>2. ClosedFrom(next, from, ReachedFrom(other, from))
  <2> DEFINE R == ReachedFrom(other, from)
  <2> SUFFICES ASSUME NEW t \in (from \cup R) \cap DOMAIN next, next[t] # {}
               PROVE  next[t] \subseteq R
    BY DEF ClosedFrom
  <2>. QED
    BY <1>1 DEF ClosedFrom
<1>. QED
  BY <1>2, ReachedIsLeast

LEMMA ReachedThrough ==
  ASSUME NEW next, IsFiniteSet(DOMAIN next), NEW from, NEW u \in ReachedFrom(next, from)
  PROVE  ReachedFrom(next, {u}) \subseteq ReachedFrom(next, from)
<1>1. ClosedFrom(next, from, ReachedFrom(next, from))
  BY ReachedIsClosed
<1>2. ClosedFrom(next, {u}, ReachedFrom(next, from))
  BY <1>1 DEF ClosedFrom
<1>. QED
  BY <1>2, ReachedIsLeast

(***************************************************************************)
(* Cycles                                                                  *)
(***************************************************************************)

LoopFree(next) == \A t \in DOMAIN next : t \notin ReachedFrom(next, {t})

(* Edges from t close a cycle exactly when t is among their ends or        *)
(* reached from them.                                                      *)
LEMMA NewEdgesAreSafe ==
  ASSUME NEW next, IsFiniteSet(DOMAIN next), NEW other, DOMAIN other = DOMAIN next,
         NEW t \in DOMAIN next, NEW by,
         other[t] \subseteq next[t] \cup by,
         \A u \in DOMAIN next \ {t} : other[u] = next[u],
         LoopFree(next),
         t \notin by \cup ReachedFrom(next, by)
  PROVE  LoopFree(other)
<1> DEFINE R(from) == ReachedFrom(next, from)
<1> SUFFICES ASSUME NEW u \in DOMAIN next, u \in ReachedFrom(other, {u})
             PROVE  FALSE
  BY DEF LoopFree
<1>1. \A from : ClosedFrom(next, from, R(from))
  BY ReachedIsClosed
<1>2. ~(u = t \/ t \in R({u})) => FALSE
  <2> SUFFICES ASSUME u # t, t \notin R({u})
               PROVE  FALSE
    OBVIOUS
  <2>1. ClosedFrom(next, {u}, R({u}))
    BY <1>1
  <2>2. ClosedFrom(other, {u}, R({u}))
    BY <2>1 DEF ClosedFrom
  <2>3. u \in R({u})
    BY <2>2, ReachedIsLeast
  <2>. QED
    BY <2>3 DEF LoopFree
<1>3. ASSUME u = t \/ t \in R({u})
      PROVE  FALSE
  <2> DEFINE C == R({u}) \cup by \cup R(by)
  <2>1. ClosedFrom(next, {u}, R({u})) /\ ClosedFrom(next, by, R(by))
    BY <1>1
  <2>2. ClosedFrom(other, {u}, C)
    <3> SUFFICES ASSUME NEW v \in ({u} \cup C) \cap DOMAIN next
                 PROVE  other[v] \subseteq C
      BY DEF ClosedFrom
    <3>1. CASE v # t
      BY <2>1, <3>1 DEF ClosedFrom
    <3>2. CASE v = t
      <4>1. t \in {u} \cup R({u})
        BY <1>3
      <4>2. next[t] \subseteq R({u})
        BY <2>1, <4>1 DEF ClosedFrom
      <4>. QED
        BY <3>2, <4>2
    <3>. QED
      BY <3>1, <3>2
  <2>3. u \in C
    BY <2>2, ReachedIsLeast
  <2>4. u \notin R({u})
    BY DEF LoopFree
  <2>5. u \in by \cup R(by) /\ u # t
    BY <2>3, <2>4
  <2>6. t \in R({u})
    BY <1>3, <2>5
  <2>7. R({u}) \subseteq R(by)
    <3>1. CASE u \in by
      BY <3>1, ReachedGrows
    <3>2. CASE u \in R(by)
      BY <3>2, ReachedThrough
    <3>. QED
      BY <2>5, <3>1, <3>2
  <2>. QED
    BY <2>6, <2>7
<1>. QED
  BY <1>2, <1>3

LEMMA NewEdgesLoop ==
  ASSUME NEW next, IsFiniteSet(DOMAIN next), NEW other, DOMAIN other = DOMAIN next,
         NEW t \in DOMAIN next, NEW by,
         by \subseteq other[t],
         \A u \in DOMAIN next : next[u] \subseteq other[u],
         t \in by \cup ReachedFrom(next, by)
  PROVE  ~LoopFree(other)
<1>1. ClosedFrom(other, {t}, ReachedFrom(other, {t}))
  BY ReachedIsClosed
<1>2. by \subseteq ReachedFrom(other, {t})
  BY <1>1 DEF ClosedFrom
<1>3. ClosedFrom(next, by, ReachedFrom(other, {t}))
  BY <1>1, <1>2 DEF ClosedFrom
<1>4. ReachedFrom(next, by) \subseteq ReachedFrom(other, {t})
  BY <1>3, ReachedIsLeast
<1>. QED
  BY <1>2, <1>4 DEF LoopFree

(***************************************************************************)
(* The links of a store                                                    *)
(***************************************************************************)

(* An edge to fewer todos closes no cycle.                                 *)
LEMMA FewerEdges ==
  ASSUME NEW next, IsFiniteSet(DOMAIN next), NEW other, IsFiniteSet(DOMAIN other),
         LoopFree(other),
         \A t \in DOMAIN next : next[t] # {} => t \in DOMAIN other /\ next[t] \subseteq other[t]
  PROVE  LoopFree(next)
<1> SUFFICES ASSUME NEW t \in DOMAIN next, t \in ReachedFrom(next, {t})
             PROVE  FALSE
  BY DEF LoopFree
<1>1. ReachedFrom(next, {t}) \subseteq ReachedFrom(other, {t})
  BY ReachedBySameEdges
<1>2. t \notin DOMAIN other
  BY <1>1 DEF LoopFree
<1>3. next[t] = {}
  BY <1>2
<1>4. ClosedFrom(next, {t}, {})
  BY <1>3 DEF ClosedFrom
<1>. QED
  BY <1>4, ReachedIsLeast

Stored(store) == [t \in DOMAIN store |-> store[t].blockers]

EdgeMap(edges) == [t \in Ids |-> {b \in Ids : <<t, b>> \in edges}]

LEMMA IdsFinite ==
  IsFiniteSet(Ids) /\ \A S \in SUBSET Ids : IsFiniteSet(S)
<1>1. IsFiniteSet(Ids)
  BY TodoStoreAssumption, FS_Interval DEF Ids
<1>. QED
  BY <1>1, FS_Subset

IsStore(store) == DOMAIN store \subseteq Ids /\ \A t \in DOMAIN store : store[t] \in Todos

LEMMA StoreFacts ==
  ASSUME NEW store, IsStore(store)
  PROVE  /\ IsFiniteSet(DOMAIN Stored(store))
         /\ DOMAIN Stored(store) = DOMAIN store
         /\ \A t \in DOMAIN store : Stored(store)[t] = store[t].blockers
         /\ \A t \in DOMAIN store : store[t].blockers \in SUBSET Ids
         /\ \A from : Blockers(store, from) = ReachedFrom(Stored(store), from)
         /\ Acyclic(store) <=> LoopFree(Stored(store))
BY IdsFinite DEF IsStore, Stored, Blockers, Acyclic, LoopFree, Todos

(* The edges of a store are all that its blockers depend on.               *)
LEMMA BlockersByEdges ==
  ASSUME NEW store, IsStore(store), NEW from
  PROVE  Blockers(store, from) = ReachedFrom(EdgeMap(Edges(store)), from)
<1> DEFINE e == EdgeMap(Edges(store))
           s == Stored(store)
<1>1. /\ DOMAIN e = Ids /\ DOMAIN s = DOMAIN store /\ DOMAIN store \subseteq Ids
      /\ IsFiniteSet(DOMAIN e) /\ IsFiniteSet(DOMAIN s)
  BY IdsFinite, StoreFacts DEF EdgeMap, IsStore
<1>2. \A t \in DOMAIN store : e[t] = s[t]
  <2> SUFFICES ASSUME NEW t \in DOMAIN store
               PROVE  {b \in Ids : <<t, b>> \in Edges(store)} = store[t].blockers
    BY <1>1, StoreFacts DEF EdgeMap
  <2>1. \A b \in Ids : <<t, b>> \in Edges(store) <=> b \in store[t].blockers
    BY <1>1 DEF Edges
  <2>. QED
    BY <2>1, StoreFacts
<1>3. \A t \in Ids \ DOMAIN store : e[t] = {}
  BY <1>1 DEF EdgeMap, Edges
<1>4. \A t \in DOMAIN s : s[t] # {} => t \in DOMAIN e /\ s[t] \subseteq e[t]
  BY <1>1, <1>2
<1>5. \A t \in DOMAIN e : e[t] # {} => t \in DOMAIN s /\ e[t] \subseteq s[t]
  BY <1>1, <1>2, <1>3
<1>6. ReachedFrom(s, from) = ReachedFrom(e, from)
  <2> HIDE DEF e, s
  <2>. QED
    BY <1>1, <1>4, <1>5, ReachedBySameEdges
<1>. QED
  BY <1>6, StoreFacts

(* A block that was checked against these very edges closes no cycle.      *)
LEMMA CheckedBlockIsSafe ==
  ASSUME NEW store, IsStore(store), Acyclic(store), NEW t \in DOMAIN store, NEW by \in SUBSET Ids,
         NEW edges, edges = Edges(store),
         t \notin by \cup ReachedFrom(EdgeMap(edges), by),
         NEW new, IsStore(new), DOMAIN new = DOMAIN store,
         new[t].blockers \subseteq store[t].blockers \cup by,
         \A u \in DOMAIN store \ {t} : new[u].blockers = store[u].blockers
  PROVE  Acyclic(new)
<1>1. t \notin by \cup ReachedFrom(Stored(store), by)
  BY BlockersByEdges, StoreFacts
<1>2. Stored(new)[t] \subseteq Stored(store)[t] \cup by
  BY StoreFacts
<1>3. \A u \in DOMAIN Stored(store) \ {t} : Stored(new)[u] = Stored(store)[u]
  BY StoreFacts
<1>4. LoopFree(Stored(store)) /\ IsFiniteSet(DOMAIN Stored(store))
      /\ DOMAIN Stored(new) = DOMAIN Stored(store) /\ t \in DOMAIN Stored(store)
  BY StoreFacts
<1>5. LoopFree(Stored(new))
  BY <1>1, <1>2, <1>3, <1>4, NewEdgesAreSafe
<1>. QED
  BY <1>5, StoreFacts

(* Nor does an edit after which every blocker was one before.              *)
LEMMA FewerBlockers ==
  ASSUME NEW store, IsStore(store), Acyclic(store), NEW new, IsStore(new),
         \A t \in DOMAIN new : new[t].blockers # {} =>
           t \in DOMAIN store /\ new[t].blockers \subseteq store[t].blockers
  PROVE  Acyclic(new)
<1>1. \A t \in DOMAIN Stored(new) : Stored(new)[t] # {} =>
        t \in DOMAIN Stored(store) /\ Stored(new)[t] \subseteq Stored(store)[t]
  BY StoreFacts
<1>2. LoopFree(Stored(new))
  BY <1>1, StoreFacts, FewerEdges
<1>. QED
  BY <1>2, StoreFacts

(***************************************************************************)
(* What a prune removes                                                    *)
(***************************************************************************)

LEMMA AncestorsGrow ==
  ASSUME NEW store, IsStore(store), NEW from, NEW u \in from
  PROVE  Ancestors(store, {u}) \subseteq Ancestors(store, from)
<1> DEFINE up == [t \in DOMAIN store |-> {store[t].parent} \ {NoTodo}]
<1>1. IsFiniteSet(DOMAIN up)
  BY IdsFinite DEF IsStore
<1>2. {u} \in SUBSET from
  OBVIOUS
<1>3. ReachedFrom(up, {u}) \subseteq ReachedFrom(up, from)
  <2> HIDE DEF up
  <2>. QED
    BY <1>1, <1>2, ReachedGrows
<1>. QED
  BY <1>3 DEF Ancestors

LEMMA RemovableIsUnneeded ==
  ASSUME NEW store, IsStore(store), NEW ids, NEW t \in Removable(store, ids)
  PROVE  /\ ~IsOpen(store[t].status.kind)
         /\ \A u \in OpenTodos(store) : t \notin store[u].blockers \cup Ancestors(store, {u})
<1>1. t \in DOMAIN store /\ t \notin OpenTodos(store) /\ t \notin NeededByOpen(store)
  BY DEF Removable
<1>2. ASSUME NEW u \in OpenTodos(store)
      PROVE  t \notin store[u].blockers \cup Ancestors(store, {u})
  <2>1. Ancestors(store, {u}) \subseteq Ancestors(store, OpenTodos(store))
    BY AncestorsGrow
  <2>. QED
    BY <1>1, <2>1 DEF NeededByOpen
<1>. QED
  BY <1>1, <1>2 DEF OpenTodos

LEMMA OnlyPruneRemoves ==
  ASSUME TypeOK, Known, [Next]_vars, NEW t \in DOMAIN todos \ DOMAIN todos',
         NEW p \in Procs, proc[p].cmd = "prune", proc'[p] = Idle, proc[p].pc = "apply"
  PROVE  t \in Removable(todos, proc[p].ids)
<1>0. proc[p].pc # Idle.pc
  BY DEF Idle
<1>1. todos' # todos
  OBVIOUS
<1>2. PICK q \in Procs : Edits(q)
  <2>1. CASE UNCHANGED vars
    BY <1>1, <2>1 DEF vars
  <2>2. ASSUME NEW q \in Procs, Starts(q)
        PROVE  UNCHANGED todos
    BY <2>2
     DEF Starts, BeginStart, BeginStatus, BeginSync, BeginLink, BeginAdd, BeginPurge,
         BeginPrune, BeginRelease, Begin
  <2>3. ASSUME NEW q \in Procs, Checks(q)
        PROVE  UNCHANGED todos
    BY <2>3 DEF Checks, ReadBlockers, Resolve, Judge, ResolveLinks, SelectPrunable, Reads
  <2>4. ASSUME NEW q \in Procs, AppendEvents(q) \/ RecordEnd(q) \/ Die(q)
        PROVE  UNCHANGED todos
    BY <2>4 DEF AppendEvents, RecordEnd, Die
  <2>5. ASSUME NEW s \in Sessions, GoSilent(s) \/ ShowLife(s)
        PROVE  UNCHANGED todos
    BY <2>5 DEF GoSilent, ShowLife
  <2>. QED
    BY <1>1, <2>1, <2>2, <2>3, <2>4, <2>5 DEF Next
<1>3. ~Refused(q)
  BY <1>1 DEF Refused, Reads
<1>4. CASE ApplyStatus(q) \/ ApplyRelease(q) \/ ApplyLinks(q) \/ ApplyAdd(q)
  <2>1. DOMAIN todos \subseteq DOMAIN todos'
    BY <1>3, <1>4 DEF ApplyStatus, ApplyRelease, ApplyLinks, ApplyAdd, Changed, Linked
  <2>. QED
    BY <2>1
<1>5. CASE ApplyPurge(q) \/ ApplyPrune(q)
  <2>1. \E slot : proc' = [proc EXCEPT ![q] = slot]
    BY <1>5 DEF ApplyPurge, ApplyPrune, Changed, Refused, Finish
  <2>2. q = p
    BY <1>0, <2>1 DEF TypeOK
  <2>3. ApplyPrune(p)
    BY <1>5, <2>2 DEF ApplyPurge
  <2>4. todos' = Without(Removable(todos, proc[p].ids))
    BY <2>3 DEF ApplyPrune, Changed
  <2>. QED
    BY <2>4 DEF Without
<1>. QED
  BY <1>2, <1>4, <1>5 DEF Edits

(* A person confirms a list that may be out of date; what removes it asks  *)
(* again, with the whole store, and so never takes a todo that an open one *)
(* waits on or nests under (prune.rs, removable).                          *)
THEOREM PruneKeepsNeededHolds == Spec => PruneKeepsNeeded
<1> DEFINE Kept ==
      \A t \in DOMAIN todos \ DOMAIN todos' :
       (\E p \in Procs : proc[p].cmd = "prune" /\ proc'[p] = Idle /\ proc[p].pc = "apply")
       => /\ ~IsOpen(todos[t].status.kind)
          /\ \A u \in OpenTodos(todos) :
               t \notin todos[u].blockers \cup Ancestors(todos, {u})
<1>1. ASSUME TypeOK, Known, [Next]_vars
      PROVE  Kept
  <2> SUFFICES ASSUME NEW t \in DOMAIN todos \ DOMAIN todos', NEW p \in Procs,
                      proc[p].cmd = "prune", proc'[p] = Idle, proc[p].pc = "apply"
               PROVE  /\ ~IsOpen(todos[t].status.kind)
                      /\ \A u \in OpenTodos(todos) :
                           t \notin todos[u].blockers \cup Ancestors(todos, {u})
    OBVIOUS
  <2>1. t \in Removable(todos, proc[p].ids)
    BY <1>1, OnlyPruneRemoves
  <2>2. IsStore(todos)
    BY <1>1 DEF TypeOK, IsStore
  <2>. QED
    BY <2>1, <2>2, RemovableIsUnneeded
<1>2. TypeOK /\ Known /\ [Next]_vars => [Kept]_vars
  BY <1>1
<1>. QED
  BY <1>2, AlwaysKnown, PTL DEF Spec, PruneKeepsNeeded

(***************************************************************************)
(* What a block has checked.  Its edges may be out of date when it is      *)
(* applied, but of those it read it would close no cycle, even where its   *)
(* todo was only added after the check.                                    *)
(***************************************************************************)

SlotChecked(slot, k) ==
  /\ \A e \in slot.edges : e[2] < k
  /\ slot.pc = "judge" => slot.cmd = "start"
  /\ slot.pc = "apply" /\ slot.cmd = "block" =>
       slot.id \notin slot.ids \cup ReachedFrom(EdgeMap(slot.edges), slot.ids)

Checked == \A p \in Procs : SlotChecked(proc[p], NextKey)

LEMMA IdleChecked ==
  ASSUME NEW k
  PROVE  SlotChecked(Idle, k)
BY DEF SlotChecked, Idle

LEMMA SlotCheckedLater ==
  ASSUME NEW slot \in Slots, NEW k \in Nat, NEW l \in Nat, k <= l, SlotChecked(slot, k)
  PROVE  SlotChecked(slot, l)
<1>1. \A e \in slot.edges : e[2] \in Nat
  BY IdsAreNat DEF Slots
<1>. QED
  BY <1>1 DEF SlotChecked

LEMMA CheckedSlot ==
  ASSUME TypeOK, Checked, NEW p \in Procs, NEW slot, SlotChecked(slot, NextKey),
         proc' = [proc EXCEPT ![p] = slot], UNCHANGED nextId
  PROVE  Checked'
<1>1. NextKey' = NextKey
  BY DEF NextKey
<1>2. \A q \in Procs : proc'[q] = IF q = p THEN slot ELSE proc[q]
  BY DEF TypeOK
<1>. QED
  BY <1>1, <1>2 DEF Checked

LEMMA CheckedFinish ==
  ASSUME TypeOK, Checked, NEW p \in Procs, Finish(p), UNCHANGED nextId
  PROVE  Checked'
BY IdleChecked, CheckedSlot DEF Finish

(* A command that is no block moves on unchecked.                          *)
LEMMA CheckedGo ==
  ASSUME TypeOK, Checked, NEW p \in Procs, NEW pc, Go(p, pc), UNCHANGED nextId,
         pc # "judge", pc = "apply" => proc[p].cmd # "block"
  PROVE  Checked'
<1> DEFINE slot == [proc[p] EXCEPT !.pc = pc]
<1>1. SlotChecked(slot, NextKey)
  BY MineType DEF Checked, SlotChecked, Slots
<1>2. proc' = [proc EXCEPT ![p] = slot]
  BY GoIsSlot
<1> HIDE DEF slot
<1>. QED
  BY <1>1, <1>2, CheckedSlot

LEMMA CheckedBegin ==
  ASSUME TypeOK, Checked, NEW p \in Procs, NEW request, Begin(p, request),
         request.edges = {}, request.pc # "judge",
         request.pc = "apply" => request.cmd # "block"
  PROVE  Checked'
<1>1. SlotChecked(request, NextKey)
  BY DEF SlotChecked
<1>. QED
  BY <1>1, CheckedSlot DEF Begin

LEMMA StartsChecked ==
  ASSUME TypeOK, Checked, NEW p \in Procs, Starts(p)
  PROVE  Checked'
BY CheckedBegin
   DEF Starts, BeginStart, BeginStatus, BeginSync, BeginLink, BeginAdd, BeginPurge,
       BeginPrune, BeginRelease, Request, Idle

(* The check itself: an edge to be stored closes no cycle of those read.   *)
LEMMA ResolvedIsChecked ==
  ASSUME TypeOK, Known, NEW p \in Procs, proc[p].pc = "resolve",
         ~(proc[p].cmd = "block" /\ ClosesCycle(todos, proc[p].id, proc[p].ids)),
         NEW pc \in {"add", "apply"}
  PROVE  SlotChecked([proc[p] EXCEPT !.pc = pc, !.edges = Edges(todos)], NextKey)
<1> DEFINE me == proc[p]
           slot == [me EXCEPT !.pc = pc, !.edges = Edges(todos)]
<1>1. slot.pc = pc /\ slot.edges = Edges(todos) /\ slot.cmd = me.cmd /\ slot.id = me.id
      /\ slot.ids = me.ids
  BY MineType DEF Slots
<1>2. \A e \in Edges(todos) : e[2] < NextKey
  BY DEF Edges, Known, TodosKnown
<1>3. IsStore(todos)
  BY DEF TypeOK, IsStore
<1>4. Blockers(todos, me.ids) = ReachedFrom(EdgeMap(Edges(todos)), me.ids)
  BY <1>3, BlockersByEdges
<1>5. me.cmd = "block" => me.id \notin me.ids \cup ReachedFrom(EdgeMap(Edges(todos)), me.ids)
  BY <1>4 DEF ClosesCycle
<1> HIDE DEF slot
<1>. QED
  BY <1>1, <1>2, <1>5 DEF SlotChecked

LEMMA ChecksChecked ==
  ASSUME TypeOK, Known, Checked, NEW p \in Procs, Checks(p)
  PROVE  Checked'
<1> DEFINE me == proc[p]
<1>0. me \in Slots
  BY MineType
<1>1. CASE ReadBlockers(p)
  BY <1>1, CheckedFinish, CheckedGo DEF ReadBlockers, Reads
<1>2. CASE Resolve(p)
  <2>1. UNCHANGED nextId /\ me.pc = "resolve" /\ me.cmd # "block"
    BY <1>2 DEF Resolve, Reads
  <2>2. CASE Finish(p) \/ Go(p, "apply")
    BY <2>1, <2>2, CheckedFinish, CheckedGo
  <2> DEFINE slot == [me EXCEPT !.pc = "judge", !.from = todos[me.id].status.by]
  <2>3. CASE me.cmd = "start" /\ proc' = [proc EXCEPT ![p] = slot]
    <3>1. SlotChecked(slot, NextKey)
      BY <1>0, <2>3 DEF Checked, SlotChecked, Slots
    <3> HIDE DEF slot
    <3>. QED
      BY <2>1, <2>3, <3>1, CheckedSlot
  <2>. QED
    BY <1>2, <2>2, <2>3 DEF Resolve
<1>3. CASE Judge(p)
  <2>1. me.cmd # "block"
    BY <1>3 DEF Judge, Checked, SlotChecked
  <2>. QED
    BY <1>3, <2>1, CheckedFinish, CheckedGo DEF Judge, Reads
<1>4. CASE ResolveLinks(p)
  <2>1. UNCHANGED nextId /\ me.pc = "resolve"
    BY <1>4 DEF ResolveLinks, Reads
  <2>2. CASE Finish(p)
    BY <2>1, <2>2, CheckedFinish
  <2> DEFINE pc == IF me.cmd = "add" THEN "add" ELSE "apply"
             slot == [me EXCEPT !.pc = pc, !.edges = Edges(todos)]
  <2>3. CASE /\ ~(me.cmd = "block" /\ ClosesCycle(todos, me.id, me.ids))
             /\ proc' = [proc EXCEPT ![p] = slot]
    <3>1. pc \in {"add", "apply"}
      OBVIOUS
    <3> HIDE DEF pc
    <3>2. SlotChecked(slot, NextKey)
      BY <2>1, <2>3, <3>1, ResolvedIsChecked
    <3> HIDE DEF slot
    <3>. QED
      BY <2>1, <2>3, <3>2, CheckedSlot
  <2>. QED
    BY <1>4, <2>2, <2>3 DEF ResolveLinks
<1>5. ASSUME NEW ids \in SUBSET Ids, SelectPrunable(p, ids)
      PROVE  Checked'
  <2>1. UNCHANGED nextId /\ me.cmd # "block"
    BY <1>5 DEF SelectPrunable, Reads
  <2>2. CASE Finish(p)
    BY <2>1, <2>2, CheckedFinish
  <2> DEFINE slot == [me EXCEPT !.pc = "apply", !.ids = ids]
  <2>3. CASE proc' = [proc EXCEPT ![p] = slot]
    <3>1. SlotChecked(slot, NextKey)
      BY <1>0, <2>1 DEF Checked, SlotChecked, Slots
    <3> HIDE DEF slot
    <3>. QED
      BY <2>1, <2>3, <3>1, CheckedSlot
  <2>. QED
    BY <1>5, <2>2, <2>3 DEF SelectPrunable
<1>. QED
  BY <1>1, <1>2, <1>3, <1>4, <1>5 DEF Checks

(* The todo that an add has just made is in no edge read before.           *)
LEMMA AddedIsChecked ==
  ASSUME TypeOK, Known, Checked, NEW p \in Procs, Added(p)
  PROVE  Checked'
<1> DEFINE me == proc[p]
           new == [me EXCEPT !.pc = "apply", !.cmd = "block", !.id = NextKey]
           slot == IF me.ids = {} THEN Idle ELSE new
           below == {b \in Ids : b < NextKey}
<1>1. /\ me \in Slots /\ SlotKnown(me, NextKey) /\ SlotChecked(me, NextKey)
      /\ NextKey \in Nat \ {0}
  BY MineType, NextKeyType DEF Known, Checked
<1>2. NextKey' = NextKey + 1
  BY <1>1 DEF Added, NextKey
<1>3. ReachedFrom(EdgeMap(me.edges), me.ids) \subseteq below
  <2>1. IsFiniteSet(DOMAIN EdgeMap(me.edges))
    BY IdsFinite DEF EdgeMap
  <2>2. \A t \in Ids : EdgeMap(me.edges)[t] \subseteq below
    <3> SUFFICES ASSUME NEW t \in Ids, NEW b \in Ids, <<t, b>> \in me.edges
                 PROVE  b < NextKey
      BY DEF EdgeMap
    <3>1. <<t, b>>[2] < NextKey
      BY <1>1 DEF SlotChecked
    <3>. QED
      BY <3>1
  <2>3. ClosedFrom(EdgeMap(me.edges), me.ids, below)
    BY <2>2 DEF ClosedFrom, EdgeMap
  <2>. QED
    BY <2>1, <2>3, ReachedIsLeast
<1>4. NextKey \notin me.ids \cup ReachedFrom(EdgeMap(me.edges), me.ids)
  BY <1>1, <1>3 DEF SlotKnown
<1>5. SlotChecked(new, NextKey + 1)
  <2>1. SlotChecked(me, NextKey + 1)
    BY <1>1, SlotCheckedLater
  <2>2. new.edges = me.edges /\ new.ids = me.ids /\ new.id = NextKey /\ new.pc = "apply"
    BY <1>1 DEF Slots
  <2> HIDE DEF new
  <2>. QED
    BY <1>4, <2>1, <2>2 DEF SlotChecked
<1>6. SlotChecked(slot, NextKey + 1)
  BY <1>5, IdleChecked
<1>7. \A q \in Procs : SlotChecked(proc[q], NextKey + 1)
  BY <1>1, MineType, SlotCheckedLater DEF Checked
<1>8. \A q \in Procs : proc'[q] = IF q = p THEN slot ELSE proc[q]
  BY DEF Added, TypeOK
<1> HIDE DEF slot
<1>. QED
  BY <1>2, <1>6, <1>7, <1>8 DEF Checked

LEMMA EditsChecked ==
  ASSUME TypeOK, Known, Checked, NEW p \in Procs, Edits(p)
  PROVE  Checked'
<1> DEFINE me == proc[p]
<1>1. CASE Refused(p)
  BY <1>1, CheckedFinish DEF Refused, Reads
<1>2. ASSUME NEW new, NEW after, StatusEdit(p, new, after)
      PROVE  Checked'
  <2> DEFINE events == EventsOf(new, clock + 1)
             slot == IF events # {} THEN [me EXCEPT !.pc = "log", !.events = events]
                     ELSE IF after = "idle" THEN Idle ELSE [me EXCEPT !.pc = after]
  <2>1. me \in Slots /\ SlotChecked(me, NextKey)
    BY MineType DEF Checked
  <2>2. after \in {"idle", "end"} /\ proc' = [proc EXCEPT ![p] = slot] /\ UNCHANGED nextId
    BY <1>2 DEF StatusEdit, Changed
  <2>3. SlotChecked([me EXCEPT !.pc = "log", !.events = events], NextKey)
    BY <2>1 DEF SlotChecked, Slots
  <2>4. after # "idle" => SlotChecked([me EXCEPT !.pc = after], NextKey)
    BY <2>1, <2>2 DEF SlotChecked, Slots
  <2> HIDE DEF events
  <2>5. SlotChecked(slot, NextKey)
    BY <2>3, <2>4, IdleChecked
  <2> HIDE DEF slot
  <2>. QED
    BY <2>2, <2>5, CheckedSlot
<1>3. CASE ApplyLinks(p)
  BY <1>1, <1>3, CheckedFinish DEF ApplyLinks, Linked
<1>. QED
  BY <1>1, <1>2, <1>3, StatusEdits, AddCases, AddedIsChecked DEF Edits

LEMMA LogChecked ==
  ASSUME TypeOK, Checked, NEW p \in Procs, AppendEvents(p) \/ RecordEnd(p) \/ Die(p)
  PROVE  Checked'
<1> DEFINE me == proc[p]
           slot == [me EXCEPT !.pc = "end", !.events = {}]
<1>1. CASE proc' = [proc EXCEPT ![p] = slot] /\ UNCHANGED nextId
  <2>1. SlotChecked(slot, NextKey)
    BY MineType DEF Checked, SlotChecked, Slots
  <2> HIDE DEF slot
  <2>. QED
    BY <1>1, <2>1, CheckedSlot
<1>2. CASE Finish(p) /\ UNCHANGED nextId
  BY <1>2, CheckedFinish
<1>. QED
  BY <1>1, <1>2 DEF AppendEvents, RecordEnd, Die, Finish

LEMMA StepChecked ==
  ASSUME TypeOK, Known, Checked, [Next]_vars
  PROVE  Checked'
<1>1. CASE UNCHANGED vars
  BY <1>1 DEF vars, Checked, NextKey
<1>2. ASSUME NEW s \in Sessions, GoSilent(s) \/ ShowLife(s)
      PROVE  Checked'
  BY <1>2 DEF GoSilent, ShowLife, Checked, NextKey
<1>. QED
  BY <1>1, <1>2, StartsChecked, ChecksChecked, EditsChecked, LogChecked DEF Next

LEMMA AlwaysChecked == Spec => [](TypeOK /\ Known /\ Checked)
<1>1. Init => Checked
  BY IdleChecked DEF Init, Checked
<1>2. TypeOK /\ Known /\ Checked /\ [Next]_vars => Checked'
  BY StepChecked
<1>. QED
  BY <1>1, <1>2, AlwaysKnown, PTL DEF Spec

(***************************************************************************)
(* Cycles                                                                  *)
(***************************************************************************)

(* Every step but a block leaves the blockers acyclic.                     *)
LEMMA OnlyBlocksClose ==
  ASSUME TypeOK, TypeOK', Known, [Next]_vars, Acyclic(todos), ~Acyclic(todos')
  PROVE  \E p \in Procs : ApplyLinks(p) /\ proc[p].cmd = "block" /\ ~Refused(p)
<1>1. IsStore(todos) /\ IsStore(todos')
  BY DEF TypeOK, IsStore
<1>2. ~ \A t \in DOMAIN todos' : todos'[t].blockers # {} =>
          t \in DOMAIN todos /\ todos'[t].blockers \subseteq todos[t].blockers
  BY <1>1, FewerBlockers
<1>3. todos' # todos
  BY <1>2
<1>4. PICK p \in Procs : Edits(p)
  <2>1. CASE UNCHANGED vars
    BY <1>3, <2>1 DEF vars
  <2>2. ASSUME NEW q \in Procs, Starts(q)
        PROVE  UNCHANGED todos
    BY <2>2
     DEF Starts, BeginStart, BeginStatus, BeginSync, BeginLink, BeginAdd, BeginPurge,
         BeginPrune, BeginRelease, Begin
  <2>3. ASSUME NEW q \in Procs, Checks(q)
        PROVE  UNCHANGED todos
    BY <2>3 DEF Checks, ReadBlockers, Resolve, Judge, ResolveLinks, SelectPrunable, Reads
  <2>4. ASSUME NEW q \in Procs, AppendEvents(q) \/ RecordEnd(q) \/ Die(q)
        PROVE  UNCHANGED todos
    BY <2>4 DEF AppendEvents, RecordEnd, Die
  <2>5. ASSUME NEW s \in Sessions, GoSilent(s) \/ ShowLife(s)
        PROVE  UNCHANGED todos
    BY <2>5 DEF GoSilent, ShowLife
  <2>. QED
    BY <1>3, <2>1, <2>2, <2>3, <2>4, <2>5 DEF Next
<1>5. ~Refused(p)
  BY <1>3 DEF Refused, Reads
<1>6. ASSUME NEW new, NEW after, StatusEdit(p, new, after)
      PROVE  FALSE
  BY <1>2, <1>6 DEF StatusEdit, KeepsLinks, Changed
<1>7. ASSUME Added(p)
      PROVE  FALSE
  BY <1>2, <1>7 DEF Added, NewTodo
<1>8. ApplyLinks(p)
  BY <1>4, <1>5, <1>6, <1>7, StatusEdits, AddCases DEF Edits
<1>9. proc[p].cmd = "block"
  <2> DEFINE me == proc[p]
             new == Relinked(todos[me.id], me.cmd, me.ids)
  <2> SUFFICES ASSUME me.cmd # "block"
               PROVE  FALSE
    OBVIOUS
  <2>1. me.id \in DOMAIN todos /\ todos' = [todos EXCEPT ![me.id] = new]
    BY <1>5, <1>8 DEF ApplyLinks, Linked
  <2>2. new.blockers \subseteq todos[me.id].blockers
    BY <1>1, <2>1 DEF Relinked, IsStore, Todos
  <2> HIDE DEF new
  <2>. QED
    BY <1>2, <2>1, <2>2
<1>. QED
  BY <1>5, <1>8, <1>9

LEMMA BlockOfItsEdges ==
  ASSUME TypeOK, TypeOK', Checked, NEW p \in Procs, ApplyLinks(p), ~Refused(p),
         proc[p].cmd = "block", Acyclic(todos), proc[p].edges = Edges(todos)
  PROVE  Acyclic(todos')
<1> DEFINE me == proc[p]
           new == Relinked(todos[me.id], me.cmd, me.ids)
<1>1. IsStore(todos) /\ IsStore(todos')
  BY DEF TypeOK, IsStore
<1>2. me.pc = "apply" /\ me.id \in DOMAIN todos /\ todos' = [todos EXCEPT ![me.id] = new]
  BY DEF ApplyLinks, Linked
<1>3. new.blockers = todos[me.id].blockers \cup me.ids
  BY <1>1, <1>2 DEF Relinked, IsStore, Todos
<1>4. me.id \notin me.ids \cup ReachedFrom(EdgeMap(me.edges), me.ids)
  BY <1>2 DEF Checked, SlotChecked
<1>5. me.ids \in SUBSET Ids
  BY MineType DEF Slots
<1> HIDE DEF new
<1>6. /\ DOMAIN todos' = DOMAIN todos
      /\ todos'[me.id].blockers \subseteq todos[me.id].blockers \cup me.ids
      /\ \A u \in DOMAIN todos \ {me.id} : todos'[u].blockers = todos[u].blockers
  BY <1>2, <1>3
<1>. QED
  BY <1>1, <1>2, <1>4, <1>5, <1>6, CheckedBlockIsSafe

(* Two blocks that cross may close a cycle, since the store asks nothing   *)
(* of an edge (refuse_cycle runs before, on a list of its own).  Nothing   *)
(* else does: a block applied to the edges it was checked against, an      *)
(* unblock, a move, an add, a removal or a change of status.               *)
THEOREM CyclesNeedARaceHolds == Spec => CyclesNeedARace
<1> DEFINE Raced ==
      (Acyclic(todos) /\ ~Acyclic(todos'))
      => \E p \in Procs : proc[p].pc = "apply" /\ proc[p].cmd = "block"
                          /\ proc[p].edges # Edges(todos)
<1>1. ASSUME TypeOK, TypeOK', Known, Checked, [Next]_vars
      PROVE  Raced
  <2> SUFFICES ASSUME Acyclic(todos), ~Acyclic(todos')
               PROVE  \E p \in Procs : proc[p].pc = "apply" /\ proc[p].cmd = "block"
                          /\ proc[p].edges # Edges(todos)
    OBVIOUS
  <2>1. PICK p \in Procs : ApplyLinks(p) /\ proc[p].cmd = "block" /\ ~Refused(p)
    BY <1>1, OnlyBlocksClose
  <2>2. proc[p].edges # Edges(todos)
    BY <1>1, <2>1, BlockOfItsEdges
  <2>. QED
    BY <2>1, <2>2 DEF ApplyLinks
<1>2. TypeOK /\ TypeOK' /\ Known /\ Checked /\ [Next]_vars => [Raced]_vars
  BY <1>1
<1>. QED
  BY <1>2, AlwaysChecked, PTL DEF Spec, CyclesNeedARace

PlanTodos ==
  [status : {Pending} \cup {[kind |-> kind, by |-> Human] : kind \in {"in_progress", "completed"}},
   parent : {NoTodo}, blockers : SUBSET (1 .. MaxTodos)]

(* What every step keeps of the inputs.                                    *)
PlanInputs ==
  /\ Listed \subseteq 1 .. MaxTodos
  /\ list \in [Listed -> PlanTodos]
  /\ \A t \in Listed : list[t].blockers \subseteq Listed
  /\ offered \subseteq Listed
  /\ cap \in Nat

LEMMA PlanInputsInit == PlanInit => PlanInputs
<1> SUFFICES ASSUME PlanInit
             PROVE  PlanInputs
  OBVIOUS
<1>1. PICK n \in 0 .. MaxTodos :
        list = [t \in 1 .. n |-> [status |-> Pending, parent |-> NoTodo, blockers |-> {}]]
  BY DEF PlanInit
<1>2. Listed = 1 .. n /\ n <= MaxTodos /\ n \in Nat /\ MaxTodos \in Nat
  BY <1>1, TodoPlanAssumption DEF Listed
<1>3. Listed \subseteq 1 .. MaxTodos
  BY <1>2
<1>4. \A t \in Listed : list[t] \in PlanTodos /\ list[t].blockers = {}
  <2>. SUFFICES ASSUME NEW t \in Listed
                PROVE  list[t] \in PlanTodos /\ list[t].blockers = {}
    OBVIOUS
  <2>1. list[t] = [status |-> Pending, parent |-> NoTodo, blockers |-> {}]
    BY <1>1, <1>2
  <2>2. Pending \in {Pending} \cup {[kind |-> kind, by |-> Human] : kind \in {"in_progress", "completed"}}
    OBVIOUS
  <2>3. {} \in SUBSET (1 .. MaxTodos) /\ NoTodo \in {NoTodo}
    OBVIOUS
  <2>. HIDE DEF Pending
  <2>. QED
    BY <2>1, <2>2, <2>3 DEF PlanTodos
<1>5. list = [t \in Listed |-> list[t]]
  BY <1>1, <1>2
<1>. QED
  BY <1>3, <1>4, <1>5, TodoPlanAssumption DEF PlanInputs, PlanInit

LEMMA PlanInputsStep == PlanInputs /\ [PlanNext]_planVars => PlanInputs'
<1> SUFFICES ASSUME PlanInputs, [PlanNext]_planVars
             PROVE  PlanInputs'
  OBVIOUS
<1> DEFINE Stat == {Pending} \cup {[kind |-> kind, by |-> Human] : kind \in {"in_progress", "completed"}}
<1>0. PlanTodos = [status : Stat, parent : {NoTodo}, blockers : SUBSET (1 .. MaxTodos)]
  BY DEF PlanTodos
<1> HIDE DEF Stat
<1> USE DEF Listed
<1>1. ASSUME NEW t \in Listed, NEW b \in Listed, AddLink(t, b)
      PROVE  PlanInputs'
  <2>1. /\ list' = [list EXCEPT ![t].blockers = @ \cup {b}]
        /\ offered' = offered /\ cap' = cap
    BY <1>1 DEF AddLink
  <2>2. DOMAIN list' = DOMAIN list /\ list[t] \in PlanTodos /\ b \in 1 .. MaxTodos
    BY <2>1 DEF PlanInputs
  <2>3. \A u \in Listed : list'[u] \in PlanTodos /\ list'[u].blockers \subseteq Listed
    <3> SUFFICES ASSUME NEW u \in Listed
                 PROVE  list'[u] \in PlanTodos /\ list'[u].blockers \subseteq Listed
      OBVIOUS
    <3>1. CASE u # t
      BY <2>1, <3>1 DEF PlanInputs
    <3>2. CASE u = t
      <4>1. list'[t] = [list[t] EXCEPT !.blockers = @ \cup {b}]
        BY <2>1
      <4>2. list[t].blockers \subseteq Listed /\ list[t].blockers \cup {b} \in SUBSET (1 .. MaxTodos)
        BY <2>2, <1>0 DEF PlanInputs
      <4>. QED
        BY <1>0, <2>2, <3>2, <4>1, <4>2
    <3>. QED
      BY <3>1, <3>2
  <2>4. list' = [u \in DOMAIN list' |-> list'[u]]
    BY <2>1 DEF PlanInputs
  <2>. QED
    BY <2>1, <2>2, <2>3, <2>4 DEF PlanInputs
<1>2. ASSUME NEW t \in Listed, NEW kind \in {"in_progress", "completed"},
             SetKind(t, [kind |-> kind, by |-> Human])
      PROVE  PlanInputs'
  <2> DEFINE st == [kind |-> kind, by |-> Human]
  <2>0. st \in Stat
    BY DEF Stat
  <2>1. /\ list' = [list EXCEPT ![t].status = st]
        /\ offered' = offered /\ cap' = cap
    BY <1>2 DEF SetKind
  <2> HIDE DEF st
  <2>2. DOMAIN list' = DOMAIN list /\ list[t] \in PlanTodos
    BY <2>1 DEF PlanInputs
  <2>3. \A u \in Listed : list'[u] \in PlanTodos /\ list'[u].blockers \subseteq Listed
    <3> SUFFICES ASSUME NEW u \in Listed
                 PROVE  list'[u] \in PlanTodos /\ list'[u].blockers \subseteq Listed
      OBVIOUS
    <3>1. CASE u # t
      BY <2>1, <3>1 DEF PlanInputs
    <3>2. CASE u = t
      <4>1. list'[t] = [list[t] EXCEPT !.status = st]
        BY <2>1
      <4>2. list[t].blockers \subseteq Listed
        BY <2>2 DEF PlanInputs
      <4>. QED
        BY <1>0, <2>0, <2>2, <3>2, <4>1, <4>2
    <3>. QED
      BY <3>1, <3>2
  <2>4. list' = [u \in DOMAIN list' |-> list'[u]]
    BY <2>1 DEF PlanInputs
  <2>. QED
    BY <2>1, <2>2, <2>3, <2>4 DEF PlanInputs
<1>3. ASSUME NEW t \in Listed, Withhold(t)
      PROVE  PlanInputs'
  BY <1>3 DEF Withhold, PlanInputs
<1>4. CASE UNCHANGED planVars
  BY <1>4 DEF planVars, PlanInputs
<1>. QED
  BY <1>1, <1>2, <1>3, <1>4 DEF PlanNext

(*************************************************************************)
(* What a plan is drawn from: finitely many todos, each link from one of *)
(* the listed todos to one of the listed todos, and only the statuses    *)
(* Graph::new and Graph::plan tell apart (graph.rs).                     *)
(*************************************************************************)
THEOREM PlanInputsHold == PlanSpec => []PlanInputs
BY PlanInputsInit, PlanInputsStep, PTL DEF PlanSpec

LinksOf(store) == [t \in DOMAIN store |-> store[t].blockers]

LEMMA CycleCheckFromInputs == PlanInputs => CycleCheckIsExact
<1> DEFINE with(t, b) == [list EXCEPT ![t].blockers = @ \cup {b}]
           cyclic(store) == \E u \in Listed : u \in Blockers(store, {u})
<1> SUFFICES ASSUME PlanInputs, ~cyclic(list), NEW t \in Listed, NEW b \in Listed
             PROVE  ClosesCycle(list, t, {b}) <=> cyclic(with(t, b))
  BY DEF CycleCheckIsExact
<1>1. IsFiniteSet(Listed)
  <2>1. IsFiniteSet(1 .. MaxTodos)
    BY TodoPlanAssumption, FS_Interval
  <2>2. Listed \in SUBSET (1 .. MaxTodos)
    BY DEF PlanInputs
  <2>. QED
    BY <2>1, <2>2, FS_Subset
<1>2. \A store : \A from : Blockers(store, from) = ReachedFrom(LinksOf(store), from)
  BY DEF Blockers, LinksOf
<1>3. DOMAIN with(t, b) = Listed /\ DOMAIN list = Listed
  BY DEF Listed
<1>4. \A store : DOMAIN store = Listed => (cyclic(store) <=> ~LoopFree(LinksOf(store)))
  BY <1>2 DEF LoopFree, LinksOf
<1> DEFINE L == LinksOf(list)
           W == LinksOf(with(t, b))
<1>5. /\ DOMAIN L = Listed /\ DOMAIN W = Listed
      /\ W[t] = L[t] \cup {b}
      /\ \A u \in Listed \ {t} : W[u] = L[u]
  <2>1. /\ with(t, b)[t].blockers = list[t].blockers \cup {b}
        /\ \A u \in Listed \ {t} : with(t, b)[u] = list[u]
    BY DEF Listed, PlanInputs, PlanTodos
  <2>. HIDE DEF with
  <2>. QED
    BY <1>3, <2>1 DEF LinksOf
<1>6. ClosesCycle(list, t, {b}) <=> t \in {b} \cup ReachedFrom(L, {b})
  BY <1>2 DEF ClosesCycle
<1>7. LoopFree(L)
  BY <1>3, <1>4
<1>8. cyclic(with(t, b)) <=> ~LoopFree(W)
  BY <1>3, <1>4
<1> HIDE DEF L, W, with, cyclic
<1>9. t \in {b} \cup ReachedFrom(L, {b}) => ~LoopFree(W)
  <2>1. {b} \subseteq W[t] /\ \A u \in DOMAIN L : L[u] \subseteq W[u]
    BY <1>5
  <2>. QED
    BY <1>1, <1>5, <2>1, NewEdgesLoop
<1>10. t \notin {b} \cup ReachedFrom(L, {b}) => LoopFree(W)
  <2>1. W[t] \subseteq L[t] \cup {b}
    BY <1>5
  <2>. QED
    BY <1>1, <1>5, <1>7, <2>1, NewEdgesAreSafe
<1>. QED
  BY <1>6, <1>8, <1>9, <1>10

(*************************************************************************)
(* The walk that looks for a todo among what its new blocker waits for   *)
(* finds a cycle exactly where one would close: on a list of any length  *)
(* without a cycle, whatever its links and statuses, for every link      *)
(* about to be added (Graph::cycle_through).                             *)
(*************************************************************************)
THEOREM CycleCheckIsExactHolds == PlanSpec => []CycleCheckIsExact
BY PlanInputsHold, CycleCheckFromInputs, PTL

(***************************************************************************)
(* The first few of a finite order                                         *)
(***************************************************************************)

(* `before` is a strict total order on `ids`, as a set of pairs.           *)
IsOrder(ids, before) ==
  /\ \A t \in ids : <<t, t>> \notin before
  /\ \A t, u \in ids : t = u \/ <<t, u>> \in before \/ <<u, t>> \in before
  /\ \A t, u, v \in ids : <<t, u>> \in before /\ <<u, v>> \in before => <<t, v>> \in before

Ahead(ids, before, t) == {u \in ids : <<u, t>> \in before}

First(ids, before, k) == {t \in ids : Cardinality(Ahead(ids, before, t)) < k}

LEMMA AheadGrows ==
  ASSUME NEW ids, IsFiniteSet(ids), NEW before, IsOrder(ids, before)
  PROVE  /\ \A t \in ids : /\ Cardinality(Ahead(ids, before, t)) \in Nat
                           /\ IsFiniteSet(Ahead(ids, before, t))
         /\ \A t, u \in ids : <<u, t>> \in before =>
              Cardinality(Ahead(ids, before, u)) < Cardinality(Ahead(ids, before, t))
<1>1. \A t \in ids : IsFiniteSet(Ahead(ids, before, t)) /\ Cardinality(Ahead(ids, before, t)) \in Nat
  <2> SUFFICES ASSUME NEW t \in ids
               PROVE  IsFiniteSet(Ahead(ids, before, t)) /\ Cardinality(Ahead(ids, before, t)) \in Nat
    OBVIOUS
  <2>1. Ahead(ids, before, t) \in SUBSET ids
    BY DEF Ahead
  <2>. QED
    BY <2>1, FS_Subset, FS_CardinalityType
<1>2. ASSUME NEW t \in ids, NEW u \in ids, <<u, t>> \in before
      PROVE  Cardinality(Ahead(ids, before, u)) < Cardinality(Ahead(ids, before, t))
  <2>1. u \notin Ahead(ids, before, u)
    BY DEF Ahead, IsOrder
  <2>2. Ahead(ids, before, u) \cup {u} \in SUBSET Ahead(ids, before, t)
    BY <1>2 DEF Ahead, IsOrder
  <2>3. Cardinality(Ahead(ids, before, u) \cup {u}) = Cardinality(Ahead(ids, before, u)) + 1
    BY <1>1, <2>1, FS_AddElement
  <2>4. Cardinality(Ahead(ids, before, u) \cup {u}) <= Cardinality(Ahead(ids, before, t))
    BY <1>1, <2>2, FS_Subset
  <2>. QED
    BY <1>1, <2>3, <2>4
<1>. QED
  BY <1>1, <1>2

(* Some t of a set has the fewest elements ahead, some the most.           *)
LEMMA FewestAhead ==
  ASSUME NEW ids, IsFiniteSet(ids), NEW before, IsOrder(ids, before),
         NEW some \in SUBSET ids, some # {}
  PROVE  \E t \in some : \A u \in some :
           Cardinality(Ahead(ids, before, t)) <= Cardinality(Ahead(ids, before, u))
<1> DEFINE c(t) == Cardinality(Ahead(ids, before, t))
<1>1. \A t \in some : c(t) \in Nat
  BY AheadGrows
<1> HIDE DEF c
<1>2. {c(t) : t \in some} \in SUBSET Nat /\ {c(t) : t \in some} # {}
  BY <1>1
<1>3. PICK n \in {c(t) : t \in some} : \A m \in {c(t) : t \in some} : n <= m
  BY <1>2, LeastExists
<1>4. \E t \in some : \A u \in some : c(t) <= c(u)
  BY <1>3
<1>. QED
  BY <1>4 DEF c

LEMMA MostAhead ==
  ASSUME NEW ids, IsFiniteSet(ids), NEW before, IsOrder(ids, before), NEW k \in Nat,
         First(ids, before, k) # {}
  PROVE  \E t \in First(ids, before, k) : \A u \in First(ids, before, k) :
           Cardinality(Ahead(ids, before, u)) <= Cardinality(Ahead(ids, before, t))
<1> DEFINE c(t) == Cardinality(Ahead(ids, before, t))
           some == First(ids, before, k)
<1>1. \A t \in some : c(t) \in Nat /\ c(t) < k
  BY AheadGrows DEF First
<1> HIDE DEF c, some
<1>2. {k - c(t) : t \in some} \in SUBSET Nat /\ {k - c(t) : t \in some} # {}
  BY <1>1 DEF some
<1>3. PICK n \in {k - c(t) : t \in some} : \A m \in {k - c(t) : t \in some} : n <= m
  BY <1>2, LeastExists
<1>4. PICK t \in some : n = k - c(t)
  BY <1>3
<1>5. \A u \in some : c(u) <= c(t)
  <2> SUFFICES ASSUME NEW u \in some
               PROVE  c(u) <= c(t)
    OBVIOUS
  <2>1. k - c(t) <= k - c(u)
    BY <1>3, <1>4
  <2>. QED
    BY <1>1, <2>1
<1>. QED
  BY <1>5 DEF c, some

(* Those with fewer than k ahead are k, or all there are.                  *)
LEMMA FirstAreAsMany ==
  ASSUME NEW ids, IsFiniteSet(ids), NEW before, IsOrder(ids, before), NEW k \in Nat
  PROVE  /\ IsFiniteSet(First(ids, before, k))
         /\ Cardinality(First(ids, before, k)) \in Nat
         /\ Cardinality(First(ids, before, k)) <= k
         /\ First(ids, before, k) # ids => Cardinality(First(ids, before, k)) = k
<1> DEFINE F == First(ids, before, k)
           A(t) == Ahead(ids, before, t)
<1>1. IsFiniteSet(F) /\ Cardinality(F) \in Nat /\ F \in SUBSET ids
  <2>1. F \in SUBSET ids
    BY DEF First
  <2>. QED
    BY <2>1, FS_Subset, FS_CardinalityType
<1>2. /\ \A t \in ids : Cardinality(A(t)) \in Nat /\ IsFiniteSet(A(t))
      /\ \A t, u \in ids : <<u, t>> \in before => Cardinality(A(u)) < Cardinality(A(t))
  BY AheadGrows
<1>3. Cardinality(F) <= k
  <2>1. CASE F = {}
    BY <2>1, FS_EmptySet
  <2>2. CASE F # {}
    <3>1. PICK t \in F : \A u \in F : Cardinality(A(u)) <= Cardinality(A(t))
      BY <2>2, MostAhead
    <3>2. t \in ids /\ Cardinality(A(t)) < k
      BY <3>1 DEF First
    <3>3. F \ {t} \in SUBSET A(t)
      <4> SUFFICES ASSUME NEW u \in F, u # t
                   PROVE  <<u, t>> \in before
        BY <1>1 DEF Ahead
      <4>1. ~(Cardinality(A(t)) < Cardinality(A(u)))
        BY <1>1, <1>2, <3>1, <3>2
      <4>2. <<t, u>> \notin before
        BY <1>1, <1>2, <3>2, <4>1
      <4>. QED
        BY <1>1, <3>2, <4>2 DEF IsOrder
    <3>4. Cardinality(F \ {t}) <= Cardinality(A(t))
      BY <1>2, <3>2, <3>3, FS_Subset
    <3>5. Cardinality(F \ {t}) = Cardinality(F) - 1
      BY <1>1, <3>1, FS_RemoveElement
    <3>. QED
      BY <1>1, <1>2, <3>2, <3>4, <3>5
  <2>. QED
    BY <2>1, <2>2
<1>4. ASSUME F # ids
      PROVE  Cardinality(F) >= k
  <2>1. ids \ F \in SUBSET ids /\ ids \ F # {}
    BY <1>1, <1>4
  <2>2. PICK t \in ids \ F : \A u \in ids \ F : Cardinality(A(t)) <= Cardinality(A(u))
    BY <2>1, FewestAhead
  <2>3. ~(Cardinality(A(t)) < k)
    BY <2>2 DEF First
  <2>4. A(t) \in SUBSET F
    <3> SUFFICES ASSUME NEW u \in A(t), u \notin F
                 PROVE  FALSE
      OBVIOUS
    <3>1. u \in ids /\ <<u, t>> \in before
      BY DEF Ahead
    <3>2. Cardinality(A(u)) < Cardinality(A(t))
      BY <1>2, <2>2, <3>1
    <3>3. Cardinality(A(t)) <= Cardinality(A(u))
      BY <2>2, <3>1
    <3>. QED
      BY <1>2, <2>2, <3>1, <3>2, <3>3
  <2>5. Cardinality(A(t)) <= Cardinality(F)
    BY <1>1, <2>4, FS_Subset
  <2>. QED
    BY <1>1, <1>2, <2>2, <2>3, <2>5
<1>. QED
  BY <1>1, <1>3, <1>4

(***************************************************************************)
(* Recursive functions over numbers                                        *)
(***************************************************************************)

(* `step` is what is repeated, as a function of what came before.          *)
IsRepeat(step, base, low, N, w) ==
  w = [n \in low .. N |-> IF n = low THEN base ELSE step[w[n - 1]]]

LEMMA RepeatExists ==
  ASSUME NEW V, NEW base \in V, NEW step \in [V -> V], NEW low \in Nat, NEW N \in Nat, low <= N
  PROVE  \E w : /\ IsRepeat(step, base, low, N, w)
                /\ \A n \in low .. N : w[n] \in V
<1> DEFINE Good(k, w) == IsRepeat(step, base, low, k, w) /\ \A n \in low .. k : w[n] \in V
           S == {n \in 0 .. N - low : \E w : Good(low + n, w)}
<1>1. 0 \in S
  <2>1. low .. low + 0 = {low} /\ 0 \in 0 .. N - low
    OBVIOUS
  <2>2. Good(low + 0, [n \in low .. low + 0 |-> base])
    BY <2>1 DEF IsRepeat
  <2>. HIDE DEF Good
  <2>. QED
    BY <2>1, <2>2
<1>2. \A n \in 0 .. N - low : n \in S /\ n # N - low => n + 1 \in S
  <2> SUFFICES ASSUME NEW n \in 0 .. N - low, n \in S, n # N - low
               PROVE  n + 1 \in S
    OBVIOUS
  <2> DEFINE k == low + n
  <2>1. n + 1 \in 0 .. N - low /\ k \in Nat /\ low + (n + 1) = k + 1 /\ low <= k
    OBVIOUS
  <2>2. PICK w : Good(k, w)
    OBVIOUS
  <2> DEFINE x == [i \in low .. k + 1 |-> IF i = k + 1 THEN step[w[k]] ELSE w[i]]
  <2> HIDE DEF k, S
  <2>3. /\ \A i \in low .. k : w[i] = (IF i = low THEN base ELSE step[w[i - 1]])
        /\ \A i \in low .. k : w[i] \in V
    BY <2>2 DEF IsRepeat
  <2>4. \A i \in low .. k + 1 : x[i] \in V
    BY <2>1, <2>3
  <2>5. \A i \in low .. k + 1 : x[i] = IF i = low THEN base ELSE step[x[i - 1]]
    <3> SUFFICES ASSUME NEW i \in low .. k + 1
                 PROVE  x[i] = IF i = low THEN base ELSE step[x[i - 1]]
      OBVIOUS
    <3>1. CASE i = k + 1
      <4>1. i # low /\ i - 1 = k /\ k \in low .. k + 1 /\ k # k + 1
        BY <2>1, <3>1
      <4>. QED
        BY <3>1, <4>1
    <3>2. CASE i # k + 1
      <4>1. i \in low .. k /\ (i # low => i - 1 \in low .. k /\ i - 1 \in low .. k + 1 /\ i - 1 # k + 1)
        BY <2>1, <3>2
      <4>. QED
        BY <2>3, <3>2, <4>1
    <3>. QED
      BY <3>1, <3>2
  <2>6. IsRepeat(step, base, low, k + 1, x)
    <3>1. x = [i \in low .. k + 1 |-> x[i]]
      OBVIOUS
    <3> HIDE DEF x
    <3>. QED
      BY <2>5, <3>1 DEF IsRepeat
  <2>7. Good(low + (n + 1), x)
    BY <2>1, <2>4, <2>6
  <2>. HIDE DEF Good
  <2>. QED
    BY <2>1, <2>7 DEF S
<1>3. N - low \in S
  <2>1. N - low \in Nat /\ N - low \in 0 .. N - low
    OBVIOUS
  <2> HIDE DEF S
  <2>2. \A n \in 0 .. N - low : n \in S
    BY <1>1, <1>2, <2>1, UpTo
  <2>. QED
    BY <2>1, <2>2
<1>4. low + (N - low) = N
  OBVIOUS
<1>. QED
  BY <1>3, <1>4

(* What grows inside a finite set as long as it changes at all has, after  *)
(* as many steps as the set has elements, filled it or stopped.            *)
LEMMA Settles ==
  ASSUME NEW D, IsFiniteSet(D), NEW w,
         \A n \in 0 .. Cardinality(D) : w[n] \subseteq D,
         \A n \in 0 .. Cardinality(D) : n # Cardinality(D) => w[n] \subseteq w[n + 1],
         \A n \in 0 .. Cardinality(D) : n # Cardinality(D) /\ n + 1 # Cardinality(D) =>
            (w[n] = w[n + 1] => w[n + 1] = w[n + 2])
  PROVE  \/ w[Cardinality(D)] = D
         \/ \E n \in 0 .. Cardinality(D) :
              n # Cardinality(D) /\ w[n] = w[n + 1] /\ w[n] = w[Cardinality(D)]
<1> DEFINE N == Cardinality(D)
<1>1. N \in Nat
  BY FS_CardinalityType
<1>2. \A n \in 0 .. N : IsFiniteSet(w[n]) /\ Cardinality(w[n]) \in Nat /\ Cardinality(w[n]) <= N
  BY <1>1, FS_Subset, FS_CardinalityType
<1>3. CASE \E m \in 0 .. N : m # N /\ w[m] = w[m + 1]
  <2>1. PICK m \in 0 .. N : m # N /\ w[m] = w[m + 1]
    BY <1>3
  <2> DEFINE S == {n \in 0 .. N : m <= n /\ n # N => w[n] = w[n + 1] /\ w[n] = w[m]}
  <2>2. 0 \in S
    BY <1>1, <2>1
  <2>3. \A n \in 0 .. N : n \in S /\ n # N => n + 1 \in S
    <3> SUFFICES ASSUME NEW n \in 0 .. N, n \in S, n # N, m <= n + 1, n + 1 # N
                 PROVE  w[n + 1] = w[n + 2] /\ w[n + 1] = w[m]
      BY <1>1
    <3>1. n + 1 = m \/ m <= n
      BY <1>1
    <3>2. CASE n + 1 = m
      BY <2>1, <3>2
    <3>3. CASE m <= n
      BY <1>1, <3>3
    <3>. QED
      BY <3>1, <3>2, <3>3
  <2>4. \A n \in 0 .. N : n \in S
    <3> HIDE DEF S
    <3>. QED
      BY <1>1, <2>2, <2>3, UpTo
  <2>5. N - 1 \in 0 .. N /\ m <= N - 1 /\ N - 1 # N /\ (N - 1) + 1 = N
    BY <1>1, <2>1
  <2>6. N - 1 \in S
    BY <2>4, <2>5
  <2>7. w[N - 1] = w[N] /\ w[N - 1] = w[m]
    BY <2>5, <2>6
  <2>. QED
    BY <2>1, <2>7
<1>4. CASE \A m \in 0 .. N : m # N => w[m] # w[m + 1]
  <2> DEFINE S == {n \in 0 .. N : Cardinality(w[n]) >= n}
  <2>1. 0 \in S
    BY <1>1, <1>2
  <2>2. \A n \in 0 .. N : n \in S /\ n # N => n + 1 \in S
    <3> SUFFICES ASSUME NEW n \in 0 .. N, n \in S, n # N
                 PROVE  n + 1 \in S
      OBVIOUS
    <3>1. n + 1 \in 0 .. N /\ w[n] \in SUBSET w[n + 1] /\ w[n] # w[n + 1]
      BY <1>1, <1>4
    <3>2. /\ Cardinality(w[n]) <= Cardinality(w[n + 1])
          /\ Cardinality(w[n]) # Cardinality(w[n + 1])
      BY <1>2, <3>1, FS_Subset
    <3>3. n + 1 \in 0 .. N /\ n \in Nat /\ Cardinality(w[n]) >= n
      BY <1>1, <3>1
    <3>4. Cardinality(w[n]) \in Nat /\ Cardinality(w[n + 1]) \in Nat
      BY <1>2, <3>3
    <3> HIDE DEF N
    <3>5. Cardinality(w[n + 1]) >= n + 1
      BY <3>2, <3>3, <3>4
    <3>. QED
      BY <3>3, <3>5
  <2>3. N \in S
    <3> HIDE DEF S
    <3>1. \A n \in 0 .. N : n \in S
      BY <1>1, <2>1, <2>2, UpTo
    <3>. QED
      BY <1>1, <3>1
  <2>4. Cardinality(w[N]) = Cardinality(D) /\ w[N] \in SUBSET D
    BY <1>1, <1>2, <2>3
  <2>. QED
    BY <2>4, FS_Subset
<1>. QED
  BY <1>3, <1>4

(***************************************************************************)
(* A finite set in which every element leads to another holds a loop.      *)
(***************************************************************************)

LEMMA NoWayOutLoops ==
  ASSUME NEW next, IsFiniteSet(DOMAIN next), NEW ids \in SUBSET DOMAIN next, ids # {},
         \A t \in ids : next[t] \cap ids # {}
  PROVE  \E t \in ids : t \in ReachedFrom(next, {t})
<1> DEFINE inner == [t \in ids |-> next[t] \cap ids]
           R(t) == ReachedFrom(inner, {t})
           c(t) == Cardinality(R(t))
<1>1. IsFiniteSet(ids) /\ DOMAIN inner = ids
  BY FS_Subset
<1>2. \A t \in ids : R(t) \subseteq ids
  <2>1. \A t \in ids : ClosedFrom(inner, {t}, ids)
    BY DEF ClosedFrom
  <2>. HIDE DEF inner
  <2>. QED
    BY <1>1, <2>1, ReachedIsLeast
<1>3. \A t \in ids : IsFiniteSet(R(t)) /\ c(t) \in Nat
  <2> SUFFICES ASSUME NEW t \in ids
               PROVE  IsFiniteSet(R(t)) /\ c(t) \in Nat
    OBVIOUS
  <2> HIDE DEF R
  <2>1. R(t) \in SUBSET ids
    BY <1>2
  <2>. QED
    BY <1>1, <2>1, FS_Subset, FS_CardinalityType
<1>4. PICK t \in ids : \A u \in ids : c(t) <= c(u)
  <2> HIDE DEF c
  <2>1. {c(t) : t \in ids} \in SUBSET Nat /\ {c(t) : t \in ids} # {}
    BY <1>3
  <2>2. PICK n \in {c(t) : t \in ids} : \A m \in {c(t) : t \in ids} : n <= m
    BY <2>1, LeastExists
  <2>. QED
    BY <2>2
<1>5. PICK u : u \in next[t] \cap ids
  OBVIOUS
<1>6. u \in R(t)
  <2>1. ClosedFrom(inner, {t}, R(t))
    <3> HIDE DEF inner
    <3>. QED
      BY <1>1, ReachedIsClosed
  <2>2. inner[t] \subseteq R(t)
    <3>1. t \in ({t} \cup R(t)) \cap DOMAIN inner
      BY <1>1
    <3> HIDE DEF inner, R
    <3>. QED
      BY <2>1, <3>1 DEF ClosedFrom
  <2> HIDE DEF R
  <2>. QED
    BY <1>5, <2>2
<1>7. R(u) \in SUBSET R(t)
  <2> HIDE DEF inner
  <2>. QED
    BY <1>1, <1>6, ReachedThrough
<1>8. R(u) = R(t)
  <2> HIDE DEF R
  <2>1. Cardinality(R(u)) <= Cardinality(R(t)) /\ (Cardinality(R(t)) = Cardinality(R(u)) => R(t) = R(u))
    BY <1>3, <1>7, FS_Subset
  <2>2. Cardinality(R(t)) <= Cardinality(R(u))
    BY <1>4, <1>5
  <2>. QED
    BY <1>3, <1>5, <2>1, <2>2
<1>9. u \in R(u)
  <2> HIDE DEF R
  <2>. QED
    BY <1>6, <1>8
<1>10. R(u) \subseteq ReachedFrom(next, {u})
  <2>1. \A v \in DOMAIN inner : inner[v] # {} => v \in DOMAIN next /\ inner[v] \subseteq next[v]
    BY <1>1
  <2> HIDE DEF inner
  <2>. QED
    BY <1>1, <2>1, ReachedBySameEdges
<1>. QED
  <2> HIDE DEF R
  <2>. QED
    BY <1>5, <1>9, <1>10

(***************************************************************************)
(* Members and the order of ranks                                          *)
(***************************************************************************)

LEMMA PlanFacts ==
  ASSUME PlanInputs
  PROVE  /\ IsFiniteSet(Listed) /\ Listed \subseteq Nat
         /\ Members \subseteq Listed /\ IsFiniteSet(Members) /\ Cardinality(Members) \in Nat
         /\ \A t \in Listed : Waits(t) \subseteq OpenBlockers(list, t) /\ OpenBlockers(list, t) \subseteq Listed
         /\ \A t \in Members : list[t].status.kind \in {"pending", "in_progress"}
<1>1. IsFiniteSet(1 .. MaxTodos) /\ 1 .. MaxTodos \subseteq Nat
  BY FS_Interval, TodoPlanAssumption
<1>2. IsFiniteSet(Listed) /\ Listed \subseteq Nat
  <2>1. Listed \in SUBSET (1 .. MaxTodos)
    BY DEF PlanInputs
  <2>. QED
    BY <1>1, <2>1, FS_Subset
<1>3. Members \in SUBSET Listed
  BY DEF Members, OpenTodos, Listed
<1>4. IsFiniteSet(Members) /\ Cardinality(Members) \in Nat
  BY <1>2, <1>3, FS_Subset, FS_CardinalityType
<1>5. \A t \in Listed : Waits(t) \subseteq OpenBlockers(list, t) /\ OpenBlockers(list, t) \subseteq Listed
  BY DEF Waits, OpenBlockers, OpenTodos, Listed
<1>6. \A t \in Members : list[t].status.kind \in {"pending", "in_progress"}
  BY DEF Members, OpenTodos, IsOpen
<1>. QED
  BY <1>2, <1>3, <1>4, <1>5, <1>6

LEMMA ChainIsNumber ==
  ASSUME NEW N \in Nat, NEW some \in SUBSET (1 .. N)
  PROVE  Max({1} \cup some) \in Int
<1>1. {N + 1 - x : x \in {1} \cup some} \in SUBSET Nat /\ {N + 1 - x : x \in {1} \cup some} # {}
  <2>1. \A x \in {1} \cup some : x \in Int /\ N + 1 - x \in Nat
    OBVIOUS
  <2>2. N + 1 - 1 \in {N + 1 - x : x \in {1} \cup some}
    OBVIOUS
  <2>. QED
    BY <2>1, <2>2
<1>2. PICK n \in {N + 1 - x : x \in {1} \cup some} : \A m \in {N + 1 - x : x \in {1} \cup some} : n <= m
  BY <1>1, LeastExists
<1>3. PICK x \in {1} \cup some : n = N + 1 - x
  BY <1>2
<1>4. \A y \in {1} \cup some : x >= y
  <2> SUFFICES ASSUME NEW y \in {1} \cup some
               PROVE  x >= y
    OBVIOUS
  <2>1. n <= N + 1 - y /\ x \in Int /\ y \in Int
    BY <1>2
  <2>. QED
    BY <1>3, <2>1
<1>5. Max({1} \cup some) \in {1} \cup some
  BY <1>4 DEF Max
<1>6. \A y \in {1} \cup some : y \in Int
  OBVIOUS
<1>. QED
  BY <1>5, <1>6, Zenon

(* A rank is three numbers of which the last is the todo's own.            *)
LEMMA RanksAreTriples ==
  ASSUME PlanInputs, NEW left \in SUBSET Members
  PROVE  \A t \in left : \E a \in Int : \E b \in Int : RanksOf(left)[t] = <<a, b, t>>
<1>1. IsFiniteSet(left) /\ Cardinality(left) \in Nat
  BY PlanFacts, FS_Subset, FS_CardinalityType
<1>2. \A t \in left : Chains(left)[t] \in Int
  <2> SUFFICES ASSUME NEW t \in left
               PROVE  Chains(left)[t] \in Int
    OBVIOUS
  <2> DEFINE sorted == Sorted(left)
             heads == CHOOSE heads : heads = [n \in 1 .. Cardinality(left) |->
                        IF n = 1 THEN sorted
                        ELSE LET longer == heads[n - 1]
                             IN  {u \in sorted : DependentsOf(u) \cap longer # {}}]
             some == {n \in 1 .. Cardinality(left) : t \in heads[n]}
  <2>1. Chains(left)[t] = Max({1} \cup some)
    BY DEF Chains
  <2>2. some \in SUBSET (1 .. Cardinality(left))
    OBVIOUS
  <2> HIDE DEF some
  <2>. QED
    BY <1>1, <2>1, <2>2, ChainIsNumber
<1>3. \A t \in left : Cardinality(DependentsOf(t)) \in Nat
  <2> SUFFICES ASSUME NEW t \in left
               PROVE  Cardinality(DependentsOf(t)) \in Nat
    OBVIOUS
  <2>1. DependentsOf(t) \in SUBSET Members
    BY DEF DependentsOf
  <2>. QED
    BY <2>1, PlanFacts, FS_Subset, FS_CardinalityType
<1>4. \A t \in left : RanksOf(left)[t] = <<-Chains(left)[t], -Cardinality(DependentsOf(t)), t>>
  BY DEF RanksOf
<1>. QED
  BY <1>2, <1>3, <1>4

LEMMA LessOfTriples ==
  ASSUME NEW a \in Int, NEW b \in Int, NEW c \in Int, NEW x \in Int, NEW y \in Int, NEW z \in Int
  PROVE  Less(<<a, b, c>>, <<x, y, z>>) <=>
           a < x \/ (a = x /\ b < y) \/ (a = x /\ b = y /\ c < z)
<1> DEFINE l == <<a, b, c>>
           r == <<x, y, z>>
<1>1. /\ DOMAIN l \cap DOMAIN r = {1, 2, 3}
      /\ l[1] = a /\ l[2] = b /\ l[3] = c /\ r[1] = x /\ r[2] = y /\ r[3] = z
  OBVIOUS
<1>2. 1 .. 1 - 1 = {} /\ 1 .. 2 - 1 = {1} /\ 1 .. 3 - 1 = {1, 2}
  OBVIOUS
<1> HIDE DEF l, r
<1>3. Less(l, r) <=> \/ l[1] < r[1]
                     \/ l[2] < r[2] /\ l[1] = r[1]
                     \/ l[3] < r[3] /\ l[1] = r[1] /\ l[2] = r[2]
  BY <1>1, <1>2 DEF Less
<1>. QED
  BY <1>1, <1>3 DEF l, r

(* The todos of `left` in the order of their ranks.                        *)
ByRank(left) == {p \in left \X left : Less(RanksOf(left)[p[1]], RanksOf(left)[p[2]])}

LEMMA RanksAreOrdered ==
  ASSUME PlanInputs, NEW left \in SUBSET Members
  PROVE  /\ \A t, u \in left : <<t, u>> \in ByRank(left) <=> Less(RanksOf(left)[t], RanksOf(left)[u])
         /\ IsOrder(left, ByRank(left))
<1> DEFINE rank == RanksOf(left)
<1>1. \A t \in left : \E a \in Int : \E b \in Int : rank[t] = <<a, b, t>>
  BY RanksAreTriples
<1>2. left \subseteq Int
  BY PlanFacts
<1>3. \A t, u \in left : <<t, u>> \in ByRank(left) <=> Less(rank[t], rank[u])
  BY DEF ByRank
<1> HIDE DEF rank
<1>4. \A t \in left : ~Less(rank[t], rank[t])
  <2> SUFFICES ASSUME NEW t \in left
               PROVE  ~Less(rank[t], rank[t])
    OBVIOUS
  <2>1. PICK a \in Int, b \in Int : rank[t] = <<a, b, t>>
    BY <1>1
  <2>. QED
    BY <1>2, <2>1, LessOfTriples
<1>5. \A t, u \in left : t = u \/ Less(rank[t], rank[u]) \/ Less(rank[u], rank[t])
  <2> SUFFICES ASSUME NEW t \in left, NEW u \in left, t # u
               PROVE  Less(rank[t], rank[u]) \/ Less(rank[u], rank[t])
    OBVIOUS
  <2>1. PICK a \in Int, b \in Int : rank[t] = <<a, b, t>>
    BY <1>1
  <2>2. PICK x \in Int, y \in Int : rank[u] = <<x, y, u>>
    BY <1>1
  <2>3. t \in Int /\ u \in Int
    BY <1>2
  <2>4. Less(rank[t], rank[u]) <=> a < x \/ (a = x /\ b < y) \/ (a = x /\ b = y /\ t < u)
    BY <2>1, <2>2, <2>3, LessOfTriples
  <2>5. Less(rank[u], rank[t]) <=> x < a \/ (x = a /\ y < b) \/ (x = a /\ y = b /\ u < t)
    BY <2>1, <2>2, <2>3, LessOfTriples
  <2>. QED
    BY <2>3, <2>4, <2>5
<1>6. \A t, u, v \in left : Less(rank[t], rank[u]) /\ Less(rank[u], rank[v]) => Less(rank[t], rank[v])
  <2> SUFFICES ASSUME NEW t \in left, NEW u \in left, NEW v \in left,
                      Less(rank[t], rank[u]), Less(rank[u], rank[v])
               PROVE  Less(rank[t], rank[v])
    OBVIOUS
  <2>1. PICK a \in Int, b \in Int : rank[t] = <<a, b, t>>
    BY <1>1
  <2>2. PICK x \in Int, y \in Int : rank[u] = <<x, y, u>>
    BY <1>1
  <2>3. PICK i \in Int, j \in Int : rank[v] = <<i, j, v>>
    BY <1>1
  <2>4. t \in Int /\ u \in Int /\ v \in Int
    BY <1>2
  <2>5. a < x \/ (a = x /\ b < y) \/ (a = x /\ b = y /\ t < u)
    BY <2>1, <2>2, <2>4, LessOfTriples
  <2>6. x < i \/ (x = i /\ y < j) \/ (x = i /\ y = j /\ u < v)
    BY <2>2, <2>3, <2>4, LessOfTriples
  <2>7. a < i \/ (a = i /\ b < j) \/ (a = i /\ b = j /\ t < v)
    BY <2>4, <2>5, <2>6
  <2>. QED
    BY <2>1, <2>3, <2>4, <2>7, LessOfTriples
<1>7. IsOrder(left, ByRank(left))
  BY <1>3, <1>4, <1>5, <1>6 DEF IsOrder
<1>. QED
  BY <1>3, <1>7 DEF rank

LEMMA OrderOfPart ==
  ASSUME NEW ids, NEW before, IsOrder(ids, before), NEW some \in SUBSET ids
  PROVE  IsOrder(some, before)
BY DEF IsOrder

(***************************************************************************)
(* One batch                                                               *)
(***************************************************************************)

(* A batch is part of what is ready and holds what runs already; it passes *)
(* the cap only where all of it runs already, and leaves nothing ready out *)
(* as long as there is room.                                               *)
LEMMA BatchOfReady ==
  ASSUME PlanInputs, NEW placed
  PROVE  /\ NextBatch(placed) \subseteq ReadyAfter(placed)
         /\ \A t \in ReadyAfter(placed) : Started(t) => t \in NextBatch(placed)
         /\ cap = 0 => NextBatch(placed) = ReadyAfter(placed)
         /\ \/ cap = 0
            \/ Cardinality(NextBatch(placed)) <= cap
            \/ \A t \in NextBatch(placed) : Started(t)
         /\ cap # 0 /\ Cardinality(NextBatch(placed)) < cap => NextBatch(placed) = ReadyAfter(placed)
         /\ NextBatch(placed) = {} => ReadyAfter(placed) = {}
<1> DEFINE left == Members \ placed
           ready == ReadyAfter(placed)
           started == {t \in ready : Started(t)}
           rest == ready \ started
           rank == RanksOf(left)
           ahead(t) == {u \in rest : Less(rank[u], rank[t])}
           chosen == {t \in rest : cap = 0 \/ Cardinality(ahead(t)) + Cardinality(started) < cap}
<1>1. NextBatch(placed) = started \cup chosen
  BY DEF NextBatch
<1>2. ready \in SUBSET left
  BY DEF ReadyAfter
<1>3. IsFiniteSet(ready) /\ IsFiniteSet(started) /\ IsFiniteSet(rest)
      /\ Cardinality(started) \in Nat /\ cap \in Nat
  <2>1. IsFiniteSet(left)
    BY PlanFacts, FS_Subset
  <2>2. IsFiniteSet(ready)
    <3> HIDE DEF ready, left
    <3>. QED
      BY <1>2, <2>1, FS_Subset
  <2>3. started \in SUBSET ready /\ rest \in SUBSET ready
    OBVIOUS
  <2>4. cap \in Nat
    BY DEF PlanInputs
  <2> HIDE DEF started, rest, ready
  <2>. QED
    BY <2>2, <2>3, <2>4, FS_Subset, FS_CardinalityType
<1>4. IsOrder(rest, ByRank(left)) /\ \A t \in rest : ahead(t) = Ahead(rest, ByRank(left), t)
  <2>1. left \in SUBSET Members
    OBVIOUS
  <2>2. /\ \A t, u \in left : <<t, u>> \in ByRank(left) <=> Less(rank[t], rank[u])
        /\ IsOrder(left, ByRank(left))
    <3> HIDE DEF left
    <3>. QED
      BY <2>1, RanksAreOrdered
  <2>3. rest \in SUBSET left
    BY <1>2
  <2> HIDE DEF left, rest, rank
  <2>. QED
    BY <2>2, <2>3, OrderOfPart DEF Ahead
<1>5. CASE cap = 0
  <2>1. chosen = rest
    BY <1>5
  <2>2. NextBatch(placed) = ready
    <3> HIDE DEF chosen
    <3>. QED
      BY <1>1, <2>1
  <2>. QED
    BY <1>5, <2>2
<1>6. CASE cap # 0 /\ Cardinality(started) >= cap
  <2>1. \A t \in rest : Cardinality(ahead(t)) \in Nat
    <3> HIDE DEF rest, ahead
    <3>. QED
      BY <1>3, <1>4, AheadGrows
  <2>2. chosen = {}
    <3> HIDE DEF rest, ahead
    <3>. QED
      BY <1>3, <1>6, <2>1
  <2>3. NextBatch(placed) = started
    <3> HIDE DEF chosen
    <3>. QED
      BY <1>1, <2>2
  <2>4. started # {}
    <3> HIDE DEF started
    <3>. QED
      BY <1>3, <1>6, FS_EmptySet
  <2>5. \A t \in started : Started(t)
    OBVIOUS
  <2> HIDE DEF started
  <2>6. ~(Cardinality(NextBatch(placed)) < cap)
    BY <1>3, <1>6, <2>3
  <2>. QED
    BY <1>6, <2>3, <2>4, <2>5, <2>6 DEF started
<1>7. CASE cap # 0 /\ Cardinality(started) < cap
  <2> DEFINE k == cap - Cardinality(started)
             F == First(rest, ByRank(left), k)
  <2>1. k \in Nat /\ k # 0
    <3> HIDE DEF started
    <3>. QED
      BY <1>3, <1>7
  <2>2. \A t \in rest : Cardinality(ahead(t)) \in Nat
    <3> HIDE DEF rest, ahead
    <3>. QED
      BY <1>3, <1>4, AheadGrows
  <2>3. chosen = F
    <3>1. \A t \in rest : (cap = 0 \/ Cardinality(ahead(t)) + Cardinality(started) < cap)
                           <=> Cardinality(ahead(t)) < k
      <4> HIDE DEF started, rest, ahead
      <4>. QED
        BY <1>3, <1>7, <2>2
    <3> HIDE DEF started, rest, ahead, k, left
    <3>. QED
      BY <1>4, <3>1 DEF First
  <2>4. /\ IsFiniteSet(F) /\ Cardinality(F) \in Nat /\ Cardinality(F) <= k
        /\ F # rest => Cardinality(F) = k
    <3> HIDE DEF rest, k, left
    <3>. QED
      BY <1>3, <1>4, <2>1, FirstAreAsMany
  <2>5. F \subseteq rest
    BY DEF First
  <2>6. Cardinality(NextBatch(placed)) = Cardinality(started) + Cardinality(F)
    <3>1. started \cap F = {}
      BY <2>5
    <3> HIDE DEF started, F, chosen
    <3>2. NextBatch(placed) = started \cup F
      BY <1>1, <2>3
    <3>3. Cardinality(started \cup F) = Cardinality(started) + Cardinality(F) - Cardinality(started \cap F)
      BY <1>3, <2>4, FS_Union
    <3>4. Cardinality(started \cap F) = 0
      BY <3>1, FS_EmptySet
    <3>. QED
      BY <1>3, <2>4, <3>2, <3>3, <3>4
  <2>7. F = rest => NextBatch(placed) = ready
    <3> HIDE DEF F, chosen
    <3>. QED
      BY <1>1, <2>3
  <2>8. Cardinality(NextBatch(placed)) <= cap
    <3> HIDE DEF started, F
    <3>. QED
      BY <1>3, <2>4, <2>6
  <2>9. Cardinality(NextBatch(placed)) < cap => NextBatch(placed) = ready
    <3> HIDE DEF started, F, rest, ready
    <3>. QED
      BY <1>3, <2>4, <2>6, <2>7
  <2>10. NextBatch(placed) = {} => ready = {}
    <3> HIDE DEF started, F, rest, ready
    <3>. QED
      BY <1>3, <1>7, <2>9, FS_EmptySet
  <2>11. NextBatch(placed) \subseteq ready /\ \A t \in ready : Started(t) => t \in NextBatch(placed)
    BY <1>1
  <2>. QED
    BY <1>7, <2>8, <2>9, <2>10, <2>11
<1>8. cap = 0 \/ Cardinality(started) >= cap \/ Cardinality(started) < cap
  <2> HIDE DEF started
  <2>. QED
    BY <1>3
<1>. QED
  BY <1>5, <1>6, <1>7, <1>8

(***************************************************************************)
(* Members that wait on something outside the plan                         *)
(***************************************************************************)

(* `ids` holds who waits outside, and who waits on one of `ids`.           *)
HeldBack(ids) ==
  \A t \in Members : ~(Waits(t) \subseteq Members) \/ Waits(t) \cap ids # {} => t \in ids

LEMMA WaitingOutsideIsLeast ==
  ASSUME PlanInputs
  PROVE  /\ WaitingOutside \subseteq Members
         /\ HeldBack(WaitingOutside)
         /\ \A ids : HeldBack(ids) => WaitingOutside \subseteq ids
<1> DEFINE N == Cardinality(Members)
           More(v) == v \cup {t \in Members : Waits(t) \cap v # {}}
           base == {t \in Members : ~(Waits(t) \subseteq Members)}
           Iter(g) == g = [n \in 0 .. N |-> IF n = 0 THEN base ELSE More(g[n - 1])]
           V == SUBSET Members
           step == [v \in V |-> More(v)]
           g == CHOOSE g : Iter(g)
<1>1. N \in Nat /\ IsFiniteSet(Members)
  BY PlanFacts
<1>2. base \in V /\ step \in [V -> V] /\ \A v \in V : step[v] = More(v)
  OBVIOUS
<1>3. WaitingOutside = g[N]
  BY DEF WaitingOutside
<1> HIDE DEF base, More, N, V, step
<1>4. PICK w : IsRepeat(step, base, 0, N, w) /\ \A n \in 0 .. N : w[n] \in V
  BY <1>1, <1>2, RepeatExists
<1>5. Iter(w)
  <2>1. \A n \in 0 .. N : n # 0 => n - 1 \in 0 .. N
    BY <1>1
  <2>2. \A n \in 0 .. N : n # 0 => step[w[n - 1]] = More(w[n - 1])
    BY <1>2, <1>4, <2>1
  <2>. QED
    BY <1>4, <2>2 DEF IsRepeat
<1>6. Iter(g)
  <2> HIDE DEF Iter
  <2>. QED
    BY <1>5
<1> HIDE DEF g
<1>7. /\ g[0] = base
      /\ \A n \in 0 .. N : n # N => g[n + 1] = More(g[n])
  <2>1. \A n \in 0 .. N : g[n] = IF n = 0 THEN base ELSE More(g[n - 1])
    BY <1>6
  <2>2. 0 \in 0 .. N
    BY <1>1
  <2>3. \A n \in 0 .. N : n # N => n + 1 \in 0 .. N /\ n + 1 # 0 /\ (n + 1) - 1 = n
    BY <1>1
  <2>. QED
    BY <2>1, <2>2, <2>3
<1>8. \A n \in 0 .. N : base \subseteq g[n] /\ g[n] \subseteq Members
  <2> DEFINE S == {n \in 0 .. N : base \subseteq g[n] /\ g[n] \subseteq Members}
  <2>1. 0 \in S
    BY <1>1, <1>7 DEF base
  <2>2. \A n \in 0 .. N : n \in S /\ n # N => n + 1 \in S
    BY <1>1, <1>7 DEF More
  <2>3. \A n \in 0 .. N : n \in S
    <3> HIDE DEF S
    <3>. QED
      BY <1>1, <2>1, <2>2, UpTo
  <2>. QED
    BY <2>3
<1>9. \A n \in 0 .. N : n # N => g[n] \subseteq g[n + 1]
  BY <1>7 DEF More
<1>10. \A n \in 0 .. N : n # N /\ n + 1 # N => (g[n] = g[n + 1] => g[n + 1] = g[n + 2])
  <2> SUFFICES ASSUME NEW n \in 0 .. N, n # N, n + 1 # N, g[n] = g[n + 1]
               PROVE  g[n + 1] = g[n + 2]
    OBVIOUS
  <2>1. n + 1 \in 0 .. N /\ (n + 1) + 1 = n + 2
    BY <1>1
  <2>. QED
    BY <1>7, <2>1
<1>11. g[N] = Members \/ \E n \in 0 .. N : n # N /\ g[n] = g[n + 1] /\ g[n] = g[N]
  BY <1>1, <1>8, <1>9, <1>10, Settles DEF N
<1>12. \A t \in Members : Waits(t) \cap g[N] # {} => t \in g[N]
  <2>1. CASE g[N] = Members
    BY <2>1
  <2>2. CASE \E n \in 0 .. N : n # N /\ g[n] = g[n + 1] /\ g[n] = g[N]
    <3>1. More(g[N]) = g[N]
      BY <1>7, <2>2
    <3>. QED
      BY <3>1 DEF More
  <2>. QED
    BY <1>11, <2>1, <2>2
<1>13. N \in 0 .. N
  BY <1>1
<1>14. HeldBack(g[N])
  BY <1>8, <1>12, <1>13 DEF HeldBack, base
<1>15. ASSUME NEW ids, HeldBack(ids)
       PROVE  g[N] \subseteq ids
  <2> DEFINE S == {n \in 0 .. N : g[n] \subseteq ids}
  <2>1. 0 \in S
    BY <1>1, <1>7, <1>15 DEF base, HeldBack
  <2>2. \A n \in 0 .. N : n \in S /\ n # N => n + 1 \in S
    <3> SUFFICES ASSUME NEW n \in 0 .. N, n \in S, n # N
                 PROVE  n + 1 \in S
      OBVIOUS
    <3>1. n + 1 \in 0 .. N /\ g[n + 1] = More(g[n])
      BY <1>1, <1>7
    <3>2. \A t \in Members : Waits(t) \cap g[n] # {} => t \in ids
      BY <1>15 DEF HeldBack
    <3>. QED
      BY <3>1, <3>2 DEF More
  <2>3. \A n \in 0 .. N : n \in S
    <3> HIDE DEF S
    <3>. QED
      BY <1>1, <2>1, <2>2, UpTo
  <2>. QED
    BY <1>13, <2>3
<1>. QED
  BY <1>3, <1>8, <1>13, <1>14, <1>15

(***************************************************************************)
(* All batches                                                             *)
(***************************************************************************)

Before(batches, n) == UNION {batches[m] : m \in 1 .. n - 1}

(* Each batch is the next one after those before it, and none is empty.    *)
InTurn(batches) ==
  /\ batches \in Seq(SUBSET Members)
  /\ \A n \in 1 .. Len(batches) :
       batches[n] = NextBatch(Before(batches, n)) /\ batches[n] # {}
  /\ Len(batches) <= Cardinality(PlacedIn(batches))

LEMMA PlacedIsBefore ==
  ASSUME NEW V, NEW batches \in Seq(V)
  PROVE  PlacedIn(batches) = Before(batches, Len(batches) + 1)
BY DEF PlacedIn, Range, Before

LEMMA PlacedAreMembers ==
  ASSUME PlanInputs, NEW batches \in Seq(SUBSET Members)
  PROVE  PlacedIn(batches) \in SUBSET Members /\ IsFiniteSet(PlacedIn(batches))
<1>1. PlacedIn(batches) \in SUBSET Members
  BY DEF PlacedIn, Range
<1>. QED
  BY <1>1, PlanFacts, FS_Subset

LEMMA NoneInTurn == PlanInputs => InTurn(<<>>)
<1>1. Range(<<>>) = {} /\ PlacedIn(<<>>) = {}
  BY DEF PlacedIn, Range
<1>. QED
  BY <1>1, FS_EmptySet DEF InTurn

LEMMA OneMoreInTurn ==
  ASSUME PlanInputs, NEW batches, InTurn(batches), NEW batch,
         batch = NextBatch(PlacedIn(batches)), batch # {}
  PROVE  /\ InTurn(Append(batches, batch))
         /\ PlacedIn(Append(batches, batch)) = PlacedIn(batches) \cup batch
<1> DEFINE more == Append(batches, batch)
           L == Len(batches)
<1>1. batches \in Seq(SUBSET Members) /\ L \in Nat
  BY DEF InTurn
<1>2. batch \subseteq Members /\ batch \cap PlacedIn(batches) = {}
  <2>1. batch \subseteq ReadyAfter(PlacedIn(batches))
    BY BatchOfReady
  <2>. QED
    BY <2>1 DEF ReadyAfter
<1>3. /\ more \in Seq(SUBSET Members) /\ Len(more) = L + 1
      /\ more[L + 1] = batch /\ \A n \in 1 .. L : more[n] = batches[n]
  BY <1>1, <1>2
<1> HIDE DEF more
<1>4. ASSUME NEW n \in 1 .. L + 1
      PROVE  Before(more, n) = Before(batches, n)
  <2>1. \A m \in 1 .. n - 1 : more[m] = batches[m]
    BY <1>1, <1>3
  <2>. QED
    BY <2>1 DEF Before
<1>5. PlacedIn(batches) = Before(batches, L + 1)
  BY <1>1, PlacedIsBefore
<1>6. \A n \in 1 .. L + 1 : more[n] = NextBatch(Before(more, n)) /\ more[n] # {}
  <2> SUFFICES ASSUME NEW n \in 1 .. L + 1
               PROVE  more[n] = NextBatch(Before(more, n)) /\ more[n] # {}
    OBVIOUS
  <2>1. CASE n = L + 1
    BY <1>3, <1>4, <1>5, <2>1
  <2>2. CASE n # L + 1
    <3>1. n \in 1 .. L
      BY <1>1, <2>2
    <3>. QED
      BY <1>3, <1>4, <3>1 DEF InTurn
  <2>. QED
    BY <2>1, <2>2
<1>7. PlacedIn(more) = PlacedIn(batches) \cup batch
  <2>1. DOMAIN more = 1 .. L + 1 /\ DOMAIN batches = 1 .. L /\ 1 .. L + 1 = (1 .. L) \cup {L + 1}
    BY <1>1, <1>3
  <2>. QED
    BY <1>3, <2>1 DEF PlacedIn, Range
<1>8. L + 1 <= Cardinality(PlacedIn(more))
  <2>1. PICK t : t \in batch
    OBVIOUS
  <2>2. IsFiniteSet(PlacedIn(batches)) /\ IsFiniteSet(PlacedIn(more))
    BY <1>1, <1>3, PlacedAreMembers
  <2>3. Cardinality(PlacedIn(batches) \cup {t}) = Cardinality(PlacedIn(batches)) + 1
    BY <1>2, <2>1, <2>2, FS_AddElement
  <2>4. PlacedIn(batches) \cup {t} \in SUBSET PlacedIn(more)
    BY <1>7, <2>1
  <2>5. Cardinality(PlacedIn(batches) \cup {t}) <= Cardinality(PlacedIn(more))
    BY <2>2, <2>4, FS_Subset
  <2>6. Cardinality(PlacedIn(batches)) \in Nat /\ Cardinality(PlacedIn(more)) \in Nat
    BY <2>2, FS_CardinalityType
  <2>7. L <= Cardinality(PlacedIn(batches))
    BY DEF InTurn
  <2>. QED
    BY <1>1, <2>3, <2>5, <2>6, <2>7
<1>9. InTurn(more)
  BY <1>3, <1>6, <1>8 DEF InTurn
<1>. QED
  BY <1>7, <1>9 DEF more

(* The batches of a plan come in turn, and after them nothing is ready.    *)
LEMMA BatchesInTurn ==
  ASSUME PlanInputs
  PROVE  InTurn(Batches) /\ NextBatch(PlacedIn(Batches)) = {}
<1> DEFINE N == Cardinality(Members)
           More(v) == IF NextBatch(PlacedIn(v)) = {} THEN v ELSE Append(v, NextBatch(PlacedIn(v)))
           Iter(g) == g = [n \in 0 .. N |-> IF n = 0 THEN <<>> ELSE More(g[n - 1])]
           V == Seq(SUBSET Members)
           step == [v \in V |-> More(v)]
           g == CHOOSE g : Iter(g)
<1>1. N \in Nat /\ IsFiniteSet(Members)
  BY PlanFacts
<1>2. <<>> \in V /\ step \in [V -> V] /\ \A v \in V : step[v] = More(v)
  <2>1. \A v \in V : NextBatch(PlacedIn(v)) \subseteq Members
    BY BatchOfReady DEF ReadyAfter
  <2>2. \A v \in V : More(v) \in V
    BY <2>1
  <2>3. <<>> \in V
    OBVIOUS
  <2> HIDE DEF More, V
  <2>. QED
    BY <2>2, <2>3
<1>3. Batches = g[N]
  BY DEF Batches
<1> HIDE DEF More, N, V, step
<1>4. PICK w : IsRepeat(step, <<>>, 0, N, w) /\ \A n \in 0 .. N : w[n] \in V
  BY <1>1, <1>2, RepeatExists
<1>5. Iter(w)
  <2>1. \A n \in 0 .. N : n # 0 => n - 1 \in 0 .. N
    BY <1>1
  <2>2. \A n \in 0 .. N : n # 0 => step[w[n - 1]] = More(w[n - 1])
    BY <1>2, <1>4, <2>1
  <2>. QED
    BY <1>4, <2>2 DEF IsRepeat
<1>6. Iter(g)
  <2> HIDE DEF Iter
  <2>. QED
    BY <1>5
<1> HIDE DEF g
<1>7. /\ g[0] = <<>>
      /\ \A n \in 0 .. N : n # N => g[n + 1] = More(g[n])
  <2>1. \A n \in 0 .. N : g[n] = IF n = 0 THEN <<>> ELSE More(g[n - 1])
    BY <1>6
  <2>2. 0 \in 0 .. N
    BY <1>1
  <2>3. \A n \in 0 .. N : n # N => n + 1 \in 0 .. N /\ n + 1 # 0 /\ (n + 1) - 1 = n
    BY <1>1
  <2>. QED
    BY <2>1, <2>2, <2>3
<1>8. \A n \in 0 .. N : InTurn(g[n])
  <2> DEFINE S == {n \in 0 .. N : InTurn(g[n])}
  <2>1. 0 \in S
    BY <1>1, <1>7, NoneInTurn
  <2>2. \A n \in 0 .. N : n \in S /\ n # N => n + 1 \in S
    BY <1>1, <1>7, OneMoreInTurn DEF More
  <2>3. \A n \in 0 .. N : n \in S
    <3> HIDE DEF S
    <3>. QED
      BY <1>1, <2>1, <2>2, UpTo
  <2>. QED
    BY <2>3
<1> DEFINE p == [n \in 0 .. N |-> PlacedIn(g[n])]
<1>9. ASSUME NEW n \in 0 .. N, n # N
      PROVE  /\ p[n] \subseteq p[n + 1]
             /\ p[n] = p[n + 1] => NextBatch(p[n]) = {} /\ g[n + 1] = g[n]
  <2>1. n + 1 \in 0 .. N
    BY <1>1, <1>9
  <2>2. p[n] = PlacedIn(g[n]) /\ p[n + 1] = PlacedIn(g[n + 1]) /\ g[n + 1] = More(g[n]) /\ InTurn(g[n])
    BY <1>7, <1>8, <1>9, <2>1
  <2> HIDE DEF p
  <2>3. CASE NextBatch(p[n]) = {}
    BY <2>2, <2>3 DEF More
  <2>4. CASE NextBatch(p[n]) # {}
    <3>1. p[n + 1] = p[n] \cup NextBatch(p[n])
      BY <2>2, <2>4, OneMoreInTurn DEF More
    <3>2. NextBatch(p[n]) \cap p[n] = {}
      BY BatchOfReady DEF ReadyAfter
    <3>. QED
      BY <2>4, <3>1, <3>2
  <2>. QED
    BY <2>3, <2>4
<1>10. \A n \in 0 .. N : p[n] \subseteq Members
  BY <1>8, PlacedAreMembers DEF InTurn
<1>11. \A n \in 0 .. N : n # N /\ n + 1 # N => (p[n] = p[n + 1] => p[n + 1] = p[n + 2])
  <2> SUFFICES ASSUME NEW n \in 0 .. N, n # N, n + 1 # N, p[n] = p[n + 1]
               PROVE  p[n + 1] = p[n + 2]
    OBVIOUS
  <2>1. n + 1 \in 0 .. N /\ n + 2 \in 0 .. N /\ (n + 1) + 1 = n + 2
    BY <1>1
  <2>2. g[n + 1] = g[n]
    BY <1>9
  <2>3. g[n + 2] = More(g[n + 1]) /\ g[n + 1] = More(g[n])
    BY <1>7, <2>1
  <2>. QED
    BY <2>1, <2>2, <2>3
<1>12. p[N] = Members \/ \E n \in 0 .. N : n # N /\ p[n] = p[n + 1] /\ p[n] = p[N]
  <2>1. \A n \in 0 .. N : n # N => p[n] \subseteq p[n + 1]
    BY <1>9
  <2> HIDE DEF p
  <2>. QED
    BY <1>1, <1>10, <1>11, <2>1, Settles DEF N
<1>13. N \in 0 .. N /\ p[N] = PlacedIn(g[N])
  BY <1>1
<1>14. NextBatch(p[N]) = {}
  <2>1. CASE p[N] = Members
    <3>1. ReadyAfter(p[N]) = {}
      BY <2>1 DEF ReadyAfter
    <3>. QED
      BY <3>1, BatchOfReady
  <2>2. CASE \E n \in 0 .. N : n # N /\ p[n] = p[n + 1] /\ p[n] = p[N]
    BY <1>9, <2>2
  <2> HIDE DEF p
  <2>. QED
    BY <1>12, <2>1, <2>2
<1>. QED
  BY <1>3, <1>8, <1>13, <1>14

(***************************************************************************)
(* A plan is a schedule                                                    *)
(***************************************************************************)

LEMMA BeforeGrows ==
  ASSUME NEW V, NEW batches \in Seq(V), NEW n \in 1 .. Len(batches),
         NEW m \in 1 .. Len(batches), n < m
  PROVE  Before(batches, n) \cup batches[n] \subseteq Before(batches, m)
<1>1. 1 .. n - 1 \subseteq 1 .. m - 1 /\ n \in 1 .. m - 1
  OBVIOUS
<1>. QED
  BY <1>1 DEF Before

LEMMA PlacedInBatch ==
  ASSUME NEW V, NEW batches \in Seq(V)
  PROVE  /\ \A t \in PlacedIn(batches) : \E n \in 1 .. Len(batches) : t \in batches[n]
         /\ \A n \in 1 .. Len(batches) :
              batches[n] \subseteq PlacedIn(batches) /\ Before(batches, n) \subseteq PlacedIn(batches)
<1>1. DOMAIN batches = 1 .. Len(batches)
  OBVIOUS
<1>2. \A n \in 1 .. Len(batches) : 1 .. n - 1 \subseteq 1 .. Len(batches)
  OBVIOUS
<1>. QED
  BY <1>1, <1>2 DEF PlacedIn, Range, Before

(* What is ready waits on nothing that is not placed, and is neither held  *)
(* back from outside nor on a cycle.                                       *)
LEMMA ReadyFacts ==
  ASSUME PlanInputs, NEW placed, NEW t \in ReadyAfter(placed)
  PROVE  /\ t \in Members /\ t \notin placed /\ t \notin WaitingOutside /\ t \notin Cycled
         /\ Waits(t) \subseteq Members /\ Waits(t) \subseteq placed
<1>1. t \in Members /\ t \notin placed /\ t \notin WaitingOutside /\ t \notin Cycled
      /\ Waits(t) \cap Members \subseteq placed
  BY DEF ReadyAfter
<1>2. Waits(t) \subseteq Members
  BY <1>1, WaitingOutsideIsLeast DEF HeldBack
<1>. QED
  BY <1>1, <1>2

LEMMA InTurnIsInOrder ==
  ASSUME PlanInputs, NEW batches, InTurn(batches)
  PROVE  BatchesInOrder(batches)
<1> DEFINE L == Len(batches)
           B(n) == Before(batches, n)
<1>1. batches \in Seq(SUBSET Members) /\ L \in Nat /\ DOMAIN batches = 1 .. L
  BY DEF InTurn
<1>2. \A n \in 1 .. L : batches[n] = NextBatch(B(n)) /\ batches[n] \subseteq ReadyAfter(B(n))
  BY BatchOfReady DEF InTurn
<1> HIDE DEF L
<1>3. ASSUME NEW n \in 1 .. L
      PROVE  /\ batches[n] \cap B(n) = {}
             /\ \A t \in batches[n] : t \in Members /\ Waits(t) \subseteq B(n)
  BY <1>2, ReadyFacts
<1>4. ASSUME NEW n \in 1 .. L, n > 1, NEW t \in batches[n], Started(t)
      PROVE  FALSE
  <2>1. 1 \in 1 .. L /\ 1 < n
    BY <1>1, <1>4
  <2>2. B(1) = {}
    BY DEF Before
  <2>3. t \in ReadyAfter(B(n)) /\ t \notin B(n)
    BY <1>2, <1>3
  <2>4. Waits(t) = {}
    BY <1>4 DEF Waits
  <2>5. t \in ReadyAfter({})
    BY <2>3, <2>4 DEF ReadyAfter
  <2>6. t \in batches[1]
    BY <1>2, <1>4, <2>1, <2>2, <2>5, BatchOfReady
  <2>7. batches[1] \subseteq B(n)
    BY <1>1, <2>1, BeforeGrows DEF L
  <2>. QED
    BY <2>3, <2>6, <2>7
<1>5. \A n \in 1 .. L : cap = 0 \/ Cardinality(batches[n]) <= cap \/ \A t \in batches[n] : Started(t)
  BY <1>2, BatchOfReady
<1>6. ASSUME NEW n \in 1 .. L, cap = 0 \/ Cardinality(batches[n]) < cap,
             NEW m \in n + 1 .. L, NEW t \in batches[m], Waits(t) \subseteq B(n)
      PROVE  FALSE
  <2>1. m \in 1 .. L /\ n < m
    BY <1>1, <1>6
  <2>2. B(n) \cup batches[n] \subseteq B(m)
    BY <1>1, <2>1, BeforeGrows DEF L
  <2>3. t \in ReadyAfter(B(m)) /\ t \notin B(m)
    BY <1>2, <1>3, <2>1
  <2>4. t \in ReadyAfter(B(n))
    BY <1>6, <2>2, <2>3 DEF ReadyAfter
  <2>5. batches[n] = ReadyAfter(B(n))
    BY <1>2, <1>6, BatchOfReady
  <2>. QED
    BY <2>2, <2>3, <2>4, <2>5
<1>7. \A n \in DOMAIN batches : batches[n] \cap B(n) = {}
  BY <1>1, <1>3
<1>8. \A n \in DOMAIN batches : \A t \in batches[n] : t \in Members /\ Waits(t) \subseteq B(n)
  BY <1>1, <1>3
<1>9. \A n \in DOMAIN batches : n > 1 => \A t \in batches[n] : ~Started(t)
  BY <1>1, <1>4
<1>10. \A n \in DOMAIN batches : cap = 0 \/ Cardinality(batches[n]) < cap
           => \A m \in n + 1 .. Len(batches) : \A t \in batches[m] : ~(Waits(t) \subseteq B(n))
  BY <1>1, <1>6 DEF L
<1>. QED
  BY <1>1, <1>5, <1>7, <1>8, <1>9, <1>10 DEF BatchesInOrder, Before

(* The links that make a todo wait.                                        *)
Awaited(t) == ReachedFrom([u \in Listed |-> Waits(u)], {t})

LEMMA AwaitedFacts ==
  ASSUME PlanInputs, NEW t \in Listed
  PROVE  /\ Waits(t) \subseteq Awaited(t)
         /\ \A u \in Waits(t) : Awaited(u) \subseteq Awaited(t)
         /\ \A ids : (\A u \in {t} \cup ids : u \in Listed => Waits(u) \subseteq ids) => Awaited(t) \subseteq ids
<1> DEFINE next == [u \in Listed |-> Waits(u)]
<1>1. IsFiniteSet(DOMAIN next) /\ DOMAIN next = Listed /\ \A u \in Listed : next[u] = Waits(u)
  BY PlanFacts
<1> HIDE DEF next
<1>2. ClosedFrom(next, {t}, ReachedFrom(next, {t}))
  BY <1>1, ReachedIsClosed
<1>3. Waits(t) \subseteq ReachedFrom(next, {t})
  BY <1>1, <1>2 DEF ClosedFrom
<1>4. \A u \in Waits(t) : ReachedFrom(next, {u}) \subseteq ReachedFrom(next, {t})
  BY <1>1, <1>3, ReachedThrough
<1>5. ASSUME NEW ids, \A u \in {t} \cup ids : u \in Listed => Waits(u) \subseteq ids
      PROVE  ReachedFrom(next, {t}) \subseteq ids
  <2>1. ClosedFrom(next, {t}, ids)
    BY <1>1, <1>5 DEF ClosedFrom
  <2>. QED
    BY <1>1, <2>1, ReachedIsLeast
<1>. QED
  BY <1>3, <1>4, <1>5 DEF Awaited, next

HeldByPlan == {t \in Members : ~(Awaited(t) \subseteq Members)}

LEMMA HeldIsOutside ==
  ASSUME PlanInputs
  PROVE  HeldByPlan = WaitingOutside
<1>0. Members \subseteq Listed /\ WaitingOutside \subseteq Members /\ HeldBack(WaitingOutside)
  BY PlanFacts, WaitingOutsideIsLeast
<1>1. HeldBack(HeldByPlan)
  <2> SUFFICES ASSUME NEW t \in Members,
                      ~(Waits(t) \subseteq Members) \/ Waits(t) \cap HeldByPlan # {}
               PROVE  t \in HeldByPlan
    BY DEF HeldBack
  <2>1. Waits(t) \subseteq Awaited(t) /\ \A u \in Waits(t) : Awaited(u) \subseteq Awaited(t)
    BY <1>0, AwaitedFacts
  <2>. QED
    BY <2>1 DEF HeldByPlan
<1>2. WaitingOutside \subseteq HeldByPlan
  BY <1>1, WaitingOutsideIsLeast
<1>3. ASSUME NEW t \in Members, t \notin WaitingOutside
      PROVE  Awaited(t) \subseteq Members
  <2> DEFINE ids == Members \ WaitingOutside
  <2>1. \A u \in {t} \cup ids : Waits(u) \subseteq ids
    BY <1>0, <1>3 DEF HeldBack
  <2>2. Awaited(t) \subseteq ids
    <3>1. t \in Listed
      BY <1>0
    <3> HIDE DEF ids
    <3>. QED
      BY <2>1, <3>1, AwaitedFacts
  <2>. QED
    BY <2>2
<1>. QED
  BY <1>2, <1>3 DEF HeldByPlan

(* A loop of members over what they wait for is a cycle of members.        *)
LEMMA WaitLoopIsCycle ==
  ASSUME PlanInputs, NEW ids \in SUBSET Members, ids # {},
         \A t \in ids : Waits(t) \cap ids # {}
  PROVE  ids \cap Cycled # {}
<1> DEFINE next == [u \in Listed |-> OpenBlockers(list, u) \cap Members]
<1>1. IsFiniteSet(Listed) /\ Members \subseteq Listed /\ \A t \in Listed : Waits(t) \subseteq OpenBlockers(list, t)
  BY PlanFacts
<1>2. /\ DOMAIN next = Listed /\ ids \in SUBSET DOMAIN next
      /\ \A t \in ids : next[t] \cap ids # {}
  BY <1>1
<1>3. \E t \in ids : t \in ReachedFrom(next, {t})
  <2> HIDE DEF next
  <2>. QED
    BY <1>1, <1>2, NoWayOutLoops
<1>. QED
  BY <1>3 DEF Cycled, OnMemberCycle

LEMMA InTurnForgetsNothing ==
  ASSUME PlanInputs, NEW batches, InTurn(batches), NextBatch(PlacedIn(batches)) = {}
  PROVE  NothingForgotten(batches)
<1> DEFINE P == PlacedIn(batches)
           behind == {t \in Members : ({t} \cup Awaited(t)) \cap Cycled # {}}
<1>0. /\ batches \in Seq(SUBSET Members) /\ P \subseteq Members /\ Members \subseteq Listed
      /\ HeldByPlan = WaitingOutside
  BY PlacedAreMembers, PlanFacts, HeldIsOutside DEF InTurn
<1>1. ASSUME NEW t \in P
      PROVE  t \notin WaitingOutside /\ t \notin Cycled /\ Waits(t) \subseteq P
  <2>1. PICK n \in 1 .. Len(batches) : t \in batches[n]
    BY <1>0, PlacedInBatch
  <2>2. t \in ReadyAfter(Before(batches, n)) /\ Before(batches, n) \subseteq P
    BY <1>0, <2>1, PlacedInBatch, BatchOfReady DEF InTurn
  <2>. QED
    BY <2>2, ReadyFacts
<1>2. ASSUME NEW t \in P
      PROVE  t \notin WaitingOutside /\ t \notin behind
  <2>1. Awaited(t) \subseteq P
    <3>1. t \in Listed
      BY <1>0
    <3>2. \A u \in {t} \cup P : Waits(u) \subseteq P
      BY <1>1
    <3> HIDE DEF P
    <3>. QED
      BY <3>1, <3>2, AwaitedFacts
  <2>. QED
    BY <1>1, <2>1
<1>3. ReadyAfter(P) = {}
  BY BatchOfReady
<1> DEFINE left == ((Members \ P) \ WaitingOutside) \ behind
<1>4. \A t \in left : Waits(t) \cap left # {}
  <2> SUFFICES ASSUME NEW t \in left
               PROVE  Waits(t) \cap left # {}
    OBVIOUS
  <2>1. t \in Members /\ t \notin P /\ t \notin WaitingOutside /\ t \notin Cycled /\ t \in Listed
    BY <1>0
  <2>2. PICK u \in Waits(t) \cap Members : u \notin P
    BY <1>3, <2>1 DEF ReadyAfter
  <2>3. u \notin WaitingOutside
    BY <2>1, <2>2, WaitingOutsideIsLeast DEF HeldBack
  <2>4. {u} \cup Awaited(u) \subseteq Awaited(t)
    BY <2>1, <2>2, AwaitedFacts
  <2>5. u \notin behind
    BY <2>4
  <2>. QED
    BY <2>2, <2>3, <2>5
<1>5. left = {}
  <2>1. left \in SUBSET Members /\ left \cap Cycled = {}
    OBVIOUS
  <2> HIDE DEF left
  <2>. QED
    BY <1>4, <2>1, WaitLoopIsCycle
<1>6. Members \ P = WaitingOutside \cup behind
  <2>1. WaitingOutside \subseteq Members
    BY WaitingOutsideIsLeast
  <2>. QED
    BY <1>2, <1>5, <2>1
<1>7. Members \ PlacedIn(batches) = HeldByPlan \cup behind
  BY <1>0, <1>6
<1>8. ReportedCycle = Cycled \ HeldByPlan
  BY <1>0 DEF ReportedCycle
<1>. QED
  BY <1>7, <1>8 DEF NothingForgotten, HeldByPlan, Awaited

LEMMA NothingReached ==
  ASSUME NEW next, IsFiniteSet(DOMAIN next), NEW t \in DOMAIN next, next[t] = {}
  PROVE  ReachedFrom(next, {t}) = {}
<1>1. ClosedFrom(next, {t}, {})
  BY DEF ClosedFrom
<1>. QED
  BY <1>1, ReachedIsLeast

LEMMA InTurnStartsReady ==
  ASSUME PlanInputs, NEW batches, InTurn(batches), NextBatch(PlacedIn(batches)) = {}
  PROVE  FrontierIsReady(batches)
<1> DEFINE ready == {t \in Members : IsReady(t)}
           open == [u \in Listed |-> OpenBlockers(list, u)]
           members == [u \in Listed |-> OpenBlockers(list, u) \cap Members]
<1>1. /\ batches \in Seq(SUBSET Members) /\ IsFiniteSet(Listed) /\ Members \subseteq Listed
      /\ \A t \in Listed : Waits(t) \subseteq OpenBlockers(list, t) /\ OpenBlockers(list, t) \subseteq Listed
      /\ \A t \in Members : list[t].status.kind \in {"pending", "in_progress"}
  BY PlanFacts DEF InTurn
<1>2. ASSUME NEW t \in Listed, OpenBlockers(list, t) = {}
      PROVE  ~OnOpenCycle(t) /\ ~OnMemberCycle(t)
  <2>1. DOMAIN open = Listed /\ DOMAIN members = Listed /\ open[t] = {} /\ members[t] = {}
    BY <1>2
  <2>2. ReachedFrom(open, {t}) = {} /\ ReachedFrom(members, {t}) = {}
    <3> HIDE DEF open, members
    <3>. QED
      BY <1>1, <2>1, NothingReached
  <2>. QED
    BY <2>2 DEF OnOpenCycle, OnMemberCycle
<1>3. batches # <<>> => batches[1] = NextBatch({})
  <2>1. Before(batches, 1) = {}
    BY DEF Before
  <2>2. batches # <<>> => 1 \in 1 .. Len(batches)
    BY <1>1
  <2>. QED
    BY <2>1, <2>2 DEF InTurn
<1>4. batches = <<>> => NextBatch({}) = {}
  <2>1. PlacedIn(<<>>) = {}
    BY DEF PlacedIn, Range
  <2>. QED
    BY <2>1
<1>5. ASSUME NEW t \in NextBatch({}), ~Started(t)
      PROVE  t \in ready
  <2>1. t \in Members /\ Waits(t) = {}
    BY BatchOfReady, ReadyFacts
  <2>2. OpenBlockers(list, t) = {} /\ list[t].status.kind = "pending"
    BY <1>1, <1>5, <2>1 DEF Waits, Started
  <2>. QED
    BY <1>1, <1>2, <2>1, <2>2 DEF IsReady
<1>6. ASSUME cap = 0, NEW t \in ready
      PROVE  t \in NextBatch({}) /\ ~Started(t)
  <2>1. t \in Members /\ list[t].status.kind = "pending" /\ OpenBlockers(list, t) = {} /\ t \in Listed
    BY <1>1 DEF IsReady
  <2>2. ~Started(t) /\ Waits(t) = {}
    BY <1>1, <2>1 DEF Started
  <2>3. t \notin Cycled
    BY <1>2, <2>1 DEF Cycled
  <2>4. t \notin WaitingOutside
    <3>1. HeldBack(WaitingOutside \ {t})
      BY <2>2, WaitingOutsideIsLeast DEF HeldBack
    <3>. QED
      BY <3>1, WaitingOutsideIsLeast
  <2>5. t \in ReadyAfter({})
    BY <2>1, <2>2, <2>3, <2>4 DEF ReadyAfter
  <2>. QED
    BY <1>6, <2>2, <2>5, BatchOfReady
<1>7. Frontier(batches) = {t \in NextBatch({}) : ~Started(t)}
  BY <1>3, <1>4 DEF Frontier
<1>8. Frontier(batches) \subseteq ready /\ (cap = 0 => Frontier(batches) = ready)
  <2> HIDE DEF ready
  <2>. QED
    BY <1>5, <1>6, <1>7
<1>. QED
  BY <1>8 DEF FrontierIsReady

(***************************************************************************)
(* A plan, for lists of any length with any links, statuses, withheld      *)
(* todos and cap: its batches run nothing twice, early or above the cap,   *)
(* leave no room unused, leave out exactly the members that can never run, *)
(* and begin with what is ready (Graph::plan).                             *)
(***************************************************************************)
THEOREM PlanIsAScheduleHolds == PlanSpec => []PlanIsASchedule
<1>1. PlanInputs => PlanIsASchedule
  BY BatchesInTurn, InTurnIsInOrder, InTurnForgetsNothing, InTurnStartsReady DEF PlanIsASchedule
<1>. QED
  BY <1>1, PlanInputsHold, PTL

(***************************************************************************)
(* The order of chains                                                     *)
(***************************************************************************)

LEMMA BetterIsOrder ==
  ASSUME PlanInputs, NEW left \in SUBSET Members
  PROVE  /\ \A a \in Seq(left) : ~Better(RanksOf(left), a, a)
         /\ \A a, b \in Seq(left) : a = b \/ Better(RanksOf(left), a, b) \/ Better(RanksOf(left), b, a)
         /\ \A a, b, c \in Seq(left) :
              Better(RanksOf(left), a, b) /\ Better(RanksOf(left), b, c) => Better(RanksOf(left), a, c)
<1> DEFINE ranks == RanksOf(left)
           lt(t, u) == Less(ranks[t], ranks[u])
<1>1. /\ \A t \in left : ~lt(t, t)
      /\ \A t, u \in left : t = u \/ lt(t, u) \/ lt(u, t)
      /\ \A t, u, v \in left : lt(t, u) /\ lt(u, v) => lt(t, v)
  BY RanksAreOrdered DEF IsOrder
<1>2. \A a, b : Better(ranks, a, b) <=>
        \/ Len(a) > Len(b)
        \/ Len(a) = Len(b) /\ \E i \in DOMAIN a : lt(a[i], b[i]) /\ \A j \in 1 .. i - 1 : a[j] = b[j]
  BY DEF Better
<1> HIDE DEF lt, ranks
<1>3. \A a \in Seq(left) : ~Better(ranks, a, a)
  <2> SUFFICES ASSUME NEW a \in Seq(left)
               PROVE  ~Better(ranks, a, a)
    OBVIOUS
  <2>1. \A i \in DOMAIN a : a[i] \in left
    OBVIOUS
  <2>2. ~(Len(a) > Len(a))
    OBVIOUS
  <2>. QED
    BY <1>1, <1>2, <2>1, <2>2
<1>4. \A a, b \in Seq(left) : a = b \/ Better(ranks, a, b) \/ Better(ranks, b, a)
  <2> SUFFICES ASSUME NEW a \in Seq(left), NEW b \in Seq(left), a # b, Len(a) = Len(b)
               PROVE  Better(ranks, a, b) \/ Better(ranks, b, a)
    BY <1>2
  <2>1. /\ DOMAIN a = 1 .. Len(a) /\ DOMAIN b = 1 .. Len(a) /\ Len(a) \in Nat
        /\ \A i \in 1 .. Len(a) : a[i] \in left /\ b[i] \in left
    OBVIOUS
  <2> DEFINE S == {i \in 1 .. Len(a) : a[i] # b[i]}
  <2>2. S \in SUBSET Nat /\ S # {}
    BY <2>1
  <2>3. PICK i \in S : \A j \in S : i <= j
    BY <2>2, LeastExists
  <2>4. i \in 1 .. Len(a) /\ a[i] # b[i] /\ \A j \in 1 .. i - 1 : a[j] = b[j]
    BY <2>1, <2>3
  <2>5. lt(a[i], b[i]) \/ lt(b[i], a[i])
    BY <1>1, <2>1, <2>4
  <2>. QED
    BY <1>2, <2>1, <2>4, <2>5
<1>5. \A a, b, c \in Seq(left) : Better(ranks, a, b) /\ Better(ranks, b, c) => Better(ranks, a, c)
  <2> SUFFICES ASSUME NEW a \in Seq(left), NEW b \in Seq(left), NEW c \in Seq(left),
                      Better(ranks, a, b), Better(ranks, b, c)
               PROVE  Better(ranks, a, c)
    OBVIOUS
  <2>1. Len(a) \in Nat /\ Len(b) \in Nat /\ Len(c) \in Nat
    OBVIOUS
  <2>2. Len(a) >= Len(b) /\ Len(b) >= Len(c)
    BY <1>2, <2>1
  <2>3. CASE Len(a) > Len(b) \/ Len(b) > Len(c)
    BY <1>2, <2>1, <2>2, <2>3
  <2>4. CASE Len(a) = Len(b) /\ Len(b) = Len(c)
    <3>1. PICK i \in 1 .. Len(a) : lt(a[i], b[i]) /\ \A j \in 1 .. i - 1 : a[j] = b[j]
      BY <1>2, <2>1, <2>4
    <3>2. PICK k \in 1 .. Len(a) : lt(b[k], c[k]) /\ \A j \in 1 .. k - 1 : b[j] = c[j]
      BY <1>2, <2>1, <2>4, SMTT(30)
    <3>3. \A n \in 1 .. Len(a) : a[n] \in left /\ b[n] \in left /\ c[n] \in left
      BY <2>4
    <3>4. DOMAIN a = 1 .. Len(a)
      OBVIOUS
    <3>5. CASE i < k
      <4>1. b[i] = c[i] /\ \A j \in 1 .. i - 1 : b[j] = c[j]
        BY <3>2, <3>5
      <4>. QED
        BY <1>2, <2>4, <3>1, <3>4, <4>1
    <3>6. CASE k < i
      <4>1. b[k] = a[k] /\ \A j \in 1 .. k - 1 : a[j] = b[j]
        BY <3>1, <3>6
      <4>. QED
        BY <1>2, <2>4, <3>2, <3>4, <4>1
    <3>7. CASE i = k
      <4>1. lt(a[i], c[i])
        BY <1>1, <3>1, <3>2, <3>3, <3>7
      <4>. QED
        BY <1>2, <2>4, <3>1, <3>2, <3>4, <3>7, <4>1
    <3>. QED
      BY <3>5, <3>6, <3>7
  <2>. QED
    BY <2>1, <2>2, <2>3, <2>4
<1>. QED
  BY <1>3, <1>4, <1>5 DEF ranks

(* A todo before both changes nothing.                                     *)
LEMMA BetterBehind ==
  ASSUME NEW ranks, NEW left, NEW t \in left, NEW a \in Seq(left), NEW b \in Seq(left),
         Better(ranks, <<t>> \o a, <<t>> \o b), ~Less(ranks[t], ranks[t])
  PROVE  Better(ranks, a, b)
<1> DEFINE x == <<t>> \o a
           y == <<t>> \o b
<1>1. /\ Len(x) = Len(a) + 1 /\ Len(y) = Len(b) + 1 /\ Len(a) \in Nat /\ Len(b) \in Nat
      /\ x[1] = t /\ y[1] = t
      /\ \A j \in 1 .. Len(a) : x[j + 1] = a[j]
      /\ \A j \in 1 .. Len(b) : y[j + 1] = b[j]
      /\ DOMAIN x = 1 .. Len(a) + 1 /\ DOMAIN a = 1 .. Len(a)
  OBVIOUS
<1> HIDE DEF x, y
<1>2. CASE Len(x) > Len(y)
  BY <1>1, <1>2 DEF Better
<1>3. CASE ~(Len(x) > Len(y))
  <2>1. Len(x) = Len(y) /\ \E i \in DOMAIN x : Less(ranks[x[i]], ranks[y[i]]) /\ \A j \in 1 .. i - 1 : x[j] = y[j]
    BY <1>3 DEF Better, x, y
  <2>2. PICK i \in 1 .. Len(a) + 1 : Less(ranks[x[i]], ranks[y[i]]) /\ \A j \in 1 .. i - 1 : x[j] = y[j]
    BY <1>1, <2>1
  <2>3. i # 1
    BY <1>1, <2>2
  <2>4. i - 1 \in 1 .. Len(a) /\ (i - 1) + 1 = i /\ Len(a) = Len(b)
    BY <1>1, <2>1, <2>2, <2>3
  <2>5. Less(ranks[a[i - 1]], ranks[b[i - 1]])
    BY <1>1, <2>2, <2>4
  <2>6. \A j \in 1 .. (i - 1) - 1 : a[j] = b[j]
    <3> SUFFICES ASSUME NEW j \in 1 .. (i - 1) - 1
                 PROVE  a[j] = b[j]
      OBVIOUS
    <3>1. j + 1 \in 1 .. i - 1 /\ j \in 1 .. Len(a) /\ j \in 1 .. Len(b)
      BY <2>4
    <3>. QED
      BY <1>1, <2>2, <3>1
  <2>. QED
    BY <1>1, <2>4, <2>5, <2>6 DEF Better
<1>. QED
  BY <1>2, <1>3

LEMMA ImageIsFinite ==
  ASSUME NEW f, IsFiniteSet(DOMAIN f), NEW some \in SUBSET DOMAIN f
  PROVE  IsFiniteSet({f[x] : x \in some})
<1> DEFINE g == [x \in some |-> f[x]]
           T == {f[x] : x \in some}
<1>1. g \in Surjection(some, T)
  BY DEF Surjection
<1>2. IsFiniteSet(some)
  BY FS_Subset
<1>. QED
  BY <1>1, <1>2, FS_Surjection

(* Among finitely many chains there is a best, and BestOf is it.           *)
LEMMA BestIsBest ==
  ASSUME PlanInputs, NEW left \in SUBSET Members,
         NEW chains \in SUBSET Seq(left), IsFiniteSet(chains), chains # {}
  PROVE  /\ BestOf(RanksOf(left), chains) \in chains
         /\ \A b \in chains \ {BestOf(RanksOf(left), chains)} :
              Better(RanksOf(left), BestOf(RanksOf(left), chains), b)
<1> DEFINE ranks == RanksOf(left)
           before == {p \in chains \X chains : Better(ranks, p[1], p[2])}
<1>1. /\ \A a \in chains : ~Better(ranks, a, a)
      /\ \A a, b \in chains : a = b \/ Better(ranks, a, b) \/ Better(ranks, b, a)
      /\ \A a, b, c \in chains : Better(ranks, a, b) /\ Better(ranks, b, c) => Better(ranks, a, c)
  BY BetterIsOrder
<1> HIDE DEF ranks
<1>2. \A a, b \in chains : <<a, b>> \in before <=> Better(ranks, a, b)
  OBVIOUS
<1> HIDE DEF before
<1>3. IsOrder(chains, before)
  BY <1>1, <1>2 DEF IsOrder
<1>4. PICK a \in chains : \A b \in chains :
        Cardinality(Ahead(chains, before, a)) <= Cardinality(Ahead(chains, before, b))
  <2>1. chains \in SUBSET chains
    OBVIOUS
  <2>. QED
    BY <1>3, <2>1, FewestAhead
<1>5. \A b \in chains \ {a} : Better(ranks, a, b)
  <2> SUFFICES ASSUME NEW b \in chains, b # a, Better(ranks, b, a)
               PROVE  FALSE
    BY <1>1
  <2>1. Cardinality(Ahead(chains, before, b)) < Cardinality(Ahead(chains, before, a))
    BY <1>2, <1>3, AheadGrows
  <2>2. Cardinality(Ahead(chains, before, b)) \in Nat /\ Cardinality(Ahead(chains, before, a)) \in Nat
    BY <1>3, AheadGrows
  <2>. QED
    BY <1>4, <2>1, <2>2
<1>. QED
  BY <1>4, <1>5 DEF BestOf, ranks

(***************************************************************************)
(* Chains of placed todos                                                  *)
(***************************************************************************)

(* Each todo waits on the one before.                                      *)
IsChain(placed, c) ==
  c \in Seq(placed) /\ c # <<>> /\ \A i \in 1 .. Len(c) - 1 : c[i] \in Waits(c[i + 1])

(* The batches of a chain only go up, so it has no more todos than the     *)
(* plan has batches.                                                       *)
LEMMA ChainsAreShort ==
  ASSUME PlanInputs, NEW batches, InTurn(batches), NEW c, IsChain(PlacedIn(batches), c)
  PROVE  Len(c) <= Cardinality(PlacedIn(batches))
<1> DEFINE L == Len(batches)
           N == Len(c)
           S == {k \in 0 .. N : \A n \in 1 .. L : k > 0 /\ c[k] \in batches[n] => k <= n}
<1>1. /\ batches \in Seq(SUBSET Members) /\ L \in Nat
      /\ c \in Seq(PlacedIn(batches)) /\ N \in Nat /\ N # 0
  BY DEF InTurn, IsChain
<1>2. 0 \in S
  BY <1>1
<1>3. \A k \in 0 .. N : k \in S /\ k # N => k + 1 \in S
  <2> SUFFICES ASSUME NEW k \in 0 .. N, k \in S, k # N
               PROVE  k + 1 \in S
    OBVIOUS
  <2>0. k + 1 \in 0 .. N /\ k \in Nat
    BY <1>1
  <2>1. ASSUME NEW n \in 1 .. L, c[k + 1] \in batches[n]
        PROVE  k + 1 <= n
    <3>1. CASE k = 0
      BY <3>1
    <3>2. CASE k # 0
      <4>1. k \in 1 .. Len(c) - 1
        BY <1>1, <3>2
      <4>2. c[k] \in Waits(c[k + 1])
        BY <4>1 DEF IsChain
      <4>3. batches[n] = NextBatch(Before(batches, n))
        BY DEF InTurn
      <4>4. c[k] \in Before(batches, n)
        BY <2>1, <4>2, <4>3, BatchOfReady, ReadyFacts
      <4>5. PICK m \in 1 .. n - 1 : c[k] \in batches[m]
        BY <4>4 DEF Before
      <4>6. m \in 1 .. L
        BY <1>1, <4>5
      <4>7. k <= m
        BY <2>0, <3>2, <4>5, <4>6
      <4>. QED
        BY <1>1, <2>0, <4>5, <4>7
    <3>. QED
      BY <3>1, <3>2
  <2>. QED
    BY <2>0, <2>1
<1>4. N \in S
  <2>1. \A k \in 0 .. N : k \in S
    <3> HIDE DEF S
    <3>. QED
      BY <1>1, <1>2, <1>3, UpTo
  <2>. QED
    BY <1>1, <2>1
<1>5. c[N] \in PlacedIn(batches)
  BY <1>1
<1>6. PICK n \in 1 .. L : c[N] \in batches[n]
  BY <1>1, <1>5, PlacedInBatch
<1>7. N <= L
  BY <1>1, <1>4, <1>6
<1>8. L <= Cardinality(PlacedIn(batches)) /\ Cardinality(PlacedIn(batches)) \in Nat
  BY <1>1, PlacedAreMembers, FS_CardinalityType DEF InTurn
<1>. QED
  BY <1>1, <1>7, <1>8

(***************************************************************************)
(* The critical path                                                       *)
(***************************************************************************)

(* `s` is the best of the chains from t with at most n todos.              *)
BestFrom(placed, t, n, s) ==
  /\ IsChain(placed, s) /\ s[1] = t /\ Len(s) <= n
  /\ \A c : IsChain(placed, c) /\ c[1] = t /\ Len(c) <= n => ~Better(RanksOf(placed), c, s)

Next2(placed, t) == DependentsOf(t) \cap placed

LEMMA FollowersAre ==
  ASSUME PlanInputs, NEW placed \in SUBSET Members, NEW c, IsChain(placed, c), Len(c) > 1
  PROVE  /\ c[2] \in Next2(placed, c[1])
         /\ IsChain(placed, Tail(c)) /\ Tail(c)[1] = c[2] /\ Len(Tail(c)) = Len(c) - 1
         /\ c = <<c[1]>> \o Tail(c)
<1>1. c \in Seq(placed) /\ Len(c) \in Nat /\ 1 \in 1 .. Len(c) - 1 /\ 2 \in 1 .. Len(c)
  BY DEF IsChain
<1>2. c[1] \in Waits(c[2]) /\ c[2] \in placed
  <2>1. c[1] \in Waits(c[1 + 1])
    BY <1>1 DEF IsChain
  <2>. QED
    BY <1>1, <2>1
<1>3. c[2] \in Next2(placed, c[1])
  BY <1>2 DEF Next2, DependentsOf
<1> DEFINE d == Tail(c)
<1>4. /\ d \in Seq(placed) /\ Len(d) = Len(c) - 1 /\ d # <<>>
      /\ \A i \in 1 .. Len(c) - 1 : d[i] = c[i + 1]
      /\ c = <<c[1]>> \o d
  <2>1. d \in Seq(placed) /\ Len(d) = Len(c) - 1
    BY <1>1
  <2>2. \A i \in 1 .. Len(c) - 1 : d[i] = c[i + 1]
    BY <1>1
  <2>3. d # <<>>
    <3>1. Len(d) # 0
      BY <1>1, <2>1
    <3>2. Len(<<>>) = 0
      OBVIOUS
    <3> HIDE DEF d
    <3>. QED
      BY <3>1, <3>2
  <2> DEFINE e == <<c[1]>> \o d
  <2> HIDE DEF d
  <2>4. e \in Seq(placed) /\ Len(e) = Len(c) /\ e[1] = c[1] /\ \A i \in 1 .. Len(d) : e[i + 1] = d[i]
    <3>1. c[1] \in placed
      BY <1>1
    <3>. QED
      BY <1>1, <2>1, <3>1
  <2> HIDE DEF e
  <2>5. \A i \in 1 .. Len(c) : e[i] = c[i]
    <3> SUFFICES ASSUME NEW i \in 1 .. Len(c), i # 1
                 PROVE  e[i] = c[i]
      BY <2>4
    <3>1. i - 1 \in 1 .. Len(d) /\ (i - 1) + 1 = i
      BY <1>1, <2>1
    <3>. QED
      BY <2>1, <2>2, <2>4, <3>1
  <2>6. e = c
    BY <1>1, <2>4, <2>5
  <2>. QED
    BY <2>1, <2>2, <2>3, <2>6 DEF e
<1> HIDE DEF d
<1>5. \A i \in 1 .. Len(d) - 1 : d[i] \in Waits(d[i + 1])
  <2> SUFFICES ASSUME NEW i \in 1 .. Len(d) - 1
               PROVE  d[i] \in Waits(d[i + 1])
    OBVIOUS
  <2>1. i \in 1 .. Len(c) - 1 /\ i + 1 \in 1 .. Len(c) - 1
    BY <1>1, <1>4
  <2>2. c[i + 1] \in Waits(c[(i + 1) + 1])
    BY <2>1 DEF IsChain
  <2>. QED
    BY <1>4, <2>1, <2>2
<1>6. IsChain(placed, d) /\ d[1] = c[2]
  BY <1>1, <1>4, <1>5 DEF IsChain
<1>. QED
  BY <1>3, <1>4, <1>6 DEF d

LEMMA OneIsChain ==
  ASSUME NEW placed, NEW t \in placed
  PROVE  IsChain(placed, <<t>>) /\ <<t>>[1] = t /\ Len(<<t>>) = 1
BY DEF IsChain

LEMMA ShortIsOne ==
  ASSUME NEW placed, NEW c, IsChain(placed, c), Len(c) <= 1
  PROVE  c = <<c[1]>>
<1>0. c \in Seq(placed) /\ c # <<>>
  BY DEF IsChain
<1>1. c \in Seq(placed) /\ Len(c) = 1
  <2>1. Len(c) # 0
    BY <1>0, EmptySeq
  <2>2. Len(c) \in Nat
    BY <1>0
  <2>3. \A k \in Nat : k # 0 /\ k <= 1 => k = 1
    OBVIOUS
  <2>4. Len(c) = 1
    BY <2>1, <2>2, <2>3, Zenon
  <2>. QED
    BY <1>0, <2>4
<1>2. c = [i \in 1 .. 1 |-> c[i]]
  BY <1>1
<1>. QED
  BY <1>2

(* Nothing is better than the only chain.                                  *)
LEMMA AloneIsBest ==
  ASSUME PlanInputs, NEW placed \in SUBSET Members, NEW t \in placed, NEW n \in Nat, n > 0,
         n = 1 \/ Next2(placed, t) = {}
  PROVE  BestFrom(placed, t, n, <<t>>)
<1>1. \A c : IsChain(placed, c) /\ c[1] = t /\ Len(c) <= n => c = <<t>>
  <2> SUFFICES ASSUME NEW c, IsChain(placed, c), c[1] = t, Len(c) <= n
               PROVE  c = <<t>>
    OBVIOUS
  <2>1. Len(c) \in Nat
    BY DEF IsChain
  <2>2. Len(c) > 1 => c[2] \in Next2(placed, t)
    BY FollowersAre
  <2>3. Len(c) <= 1
    BY <2>1, <2>2
  <2>. QED
    BY <2>3, ShortIsOne
<1>2. ~Better(RanksOf(placed), <<t>>, <<t>>)
  <2>1. <<t>> \in Seq(placed)
    OBVIOUS
  <2>. QED
    BY <2>1, BetterIsOrder
<1>. QED
  BY <1>1, <1>2, OneIsChain DEF BestFrom

LEMMA OneMoreIsChain ==
  ASSUME NEW placed \in SUBSET Members, NEW t \in placed, NEW c, IsChain(placed, c),
         c[1] \in Next2(placed, t)
  PROVE  /\ IsChain(placed, <<t>> \o c) /\ (<<t>> \o c)[1] = t
         /\ Len(<<t>> \o c) = Len(c) + 1 /\ Len(c) > 0
<1> DEFINE s == <<t>> \o c
<1>1. c \in Seq(placed) /\ Len(c) \in Nat /\ Len(c) > 0 /\ t \in Waits(c[1])
  BY DEF IsChain, Next2, DependentsOf
<1>2. /\ s \in Seq(placed) /\ Len(s) = Len(c) + 1 /\ s[1] = t /\ s # <<>>
      /\ \A i \in 1 .. Len(c) : s[i + 1] = c[i]
  BY <1>1
<1> HIDE DEF s
<1>3. \A i \in 1 .. Len(s) - 1 : s[i] \in Waits(s[i + 1])
  <2> SUFFICES ASSUME NEW i \in 1 .. Len(s) - 1
               PROVE  s[i] \in Waits(s[i + 1])
    OBVIOUS
  <2>1. i \in 1 .. Len(c) /\ s[i + 1] = c[i]
    BY <1>1, <1>2
  <2>2. CASE i = 1
    BY <1>1, <1>2, <2>1, <2>2
  <2>3. CASE i # 1
    <3>1. i - 1 \in 1 .. Len(c) - 1 /\ i - 1 \in 1 .. Len(c) /\ (i - 1) + 1 = i
      BY <1>1, <2>1, <2>3
    <3>2. c[i - 1] \in Waits(c[(i - 1) + 1])
      BY <3>1 DEF IsChain
    <3>3. s[i] = c[i - 1]
      BY <1>2, <3>1
    <3>. QED
      BY <2>1, <3>1, <3>2, <3>3
  <2>. QED
    BY <2>2, <2>3
<1>4. IsChain(placed, s)
  BY <1>2, <1>3 DEF IsChain
<1>. QED
  BY <1>1, <1>2, <1>4 DEF s

(* One step of best_from: the best chain of the dependents, after t.       *)
LEMMA BestGoesOn ==
  ASSUME PlanInputs, NEW placed \in SUBSET Members, NEW t \in placed, NEW n \in Nat, n > 0,
         NEW v, DOMAIN v = placed, \A u \in placed : BestFrom(placed, u, n, v[u]),
         Next2(placed, t) # {}
  PROVE  BestFrom(placed, t, n + 1, <<t>> \o BestOf(RanksOf(placed), {v[u] : u \in Next2(placed, t)}))
<1> DEFINE ranks == RanksOf(placed)
           next == Next2(placed, t)
           chains == {v[u] : u \in next}
           b == BestOf(ranks, chains)
<1>1. next \in SUBSET placed /\ next # {} /\ placed \in SUBSET Members
  BY DEF Next2
<1>2. \A u \in placed : v[u] \in Seq(placed)
  BY DEF BestFrom, IsChain
<1>3. IsFiniteSet(placed)
  BY PlanFacts, FS_Subset
<1>4. chains \in SUBSET Seq(placed) /\ IsFiniteSet(chains) /\ chains # {}
  <2>1. IsFiniteSet(chains)
    <3> HIDE DEF next
    <3>. QED
      BY <1>1, <1>3, ImageIsFinite
  <2> HIDE DEF next
  <2>. QED
    BY <1>1, <1>2, <2>1
<1>5. b \in chains /\ \A c \in chains \ {b} : Better(ranks, b, c)
  <2> HIDE DEF chains
  <2>. QED
    BY <1>1, <1>4, BestIsBest
<1> HIDE DEF b, ranks
<1>6. PICK u \in next : b = v[u]
  BY <1>5
<1>7. BestFrom(placed, u, n, b) /\ b \in Seq(placed)
  BY <1>1, <1>2, <1>6
<1>8. /\ IsChain(placed, <<t>> \o b) /\ (<<t>> \o b)[1] = t
      /\ Len(<<t>> \o b) = Len(b) + 1 /\ Len(b) > 0 /\ Len(b) <= n
  <2>1. IsChain(placed, b) /\ b[1] = u /\ Len(b) <= n
    BY <1>7 DEF BestFrom
  <2>. QED
    BY <1>1, <1>6, <2>1, OneMoreIsChain
<1>9. Len(b) \in Nat /\ Len(<<t>> \o b) <= n + 1
  BY <1>7, <1>8
<1>10. ASSUME NEW c, IsChain(placed, c), c[1] = t, Len(c) <= n + 1, Better(ranks, c, <<t>> \o b)
       PROVE  FALSE
  <2>1. c \in Seq(placed) /\ Len(c) \in Nat
    BY <1>10 DEF IsChain
  <2>2. Len(c) >= Len(<<t>> \o b)
    BY <1>8, <1>9, <1>10, <2>1 DEF Better
  <2>3. Len(c) > 1
    BY <1>8, <1>9, <2>1, <2>2
  <2>4. /\ c[2] \in next /\ IsChain(placed, Tail(c)) /\ Tail(c)[1] = c[2]
        /\ Len(Tail(c)) = Len(c) - 1 /\ c = <<t>> \o Tail(c)
    BY <1>1, <1>10, <2>3, FollowersAre
  <2>5. Tail(c) \in Seq(placed) /\ Len(Tail(c)) <= n
    BY <1>10, <2>1, <2>4 DEF IsChain
  <2>6. ~Less(ranks[t], ranks[t])
    BY <1>1, RanksAreOrdered DEF ranks, IsOrder
  <2>7. Better(ranks, Tail(c), b)
    <3> DEFINE d == Tail(c)
    <3>1. Better(ranks, <<t>> \o d, <<t>> \o b)
      BY <1>10, <2>4
    <3>2. d \in Seq(placed)
      BY <2>5
    <3> HIDE DEF d
    <3>3. Better(ranks, d, b)
      BY <1>7, <2>6, <3>1, <3>2, BetterBehind
    <3>. QED
      BY <3>3 DEF d
  <2>8. c[2] \in placed /\ v[c[2]] \in chains /\ v[c[2]] \in Seq(placed)
    BY <1>1, <1>2, <2>4
  <2>9. ~Better(ranks, Tail(c), v[c[2]])
    BY <2>4, <2>5, <2>8 DEF BestFrom, ranks
  <2>10. b # v[c[2]] /\ Better(ranks, b, v[c[2]])
    BY <1>5, <2>7, <2>8, <2>9
  <2>. QED
    BY <1>1, <1>7, <2>5, <2>7, <2>8, <2>9, <2>10, BetterIsOrder DEF ranks
<1>. QED
  BY <1>8, <1>9, <1>10 DEF BestFrom, ranks, b, next, chains

(* The table that best_from fills holds the best chain from each todo.     *)
LEMMA TableIsBest ==
  ASSUME PlanInputs, NEW placed \in SUBSET Members, placed # {}
  PROVE  \E v : /\ DOMAIN v = placed
                /\ \A t \in placed : BestFrom(placed, t, Cardinality(placed) + 1, v[t])
                /\ CriticalPath(placed) = BestOf(RanksOf(placed), Range(v))
<1> DEFINE N == Cardinality(placed) + 1
           ranks == RanksOf(placed)
           next(t) == DependentsOf(t) \cap placed
           More(v) == [t \in placed |->
                         IF next(t) = {} THEN <<t>>
                         ELSE <<t>> \o BestOf(ranks, {v[u] : u \in next(t)})]
           Iter(g) == g = [n \in 1 .. N |->
                         [t \in placed |->
                            IF n = 1 \/ next(t) = {} THEN <<t>>
                            ELSE <<t>> \o BestOf(ranks, {g[n - 1][u] : u \in next(t)})]]
           base == [t \in placed |-> <<t>>]
           V == [placed -> Seq(placed)]
           step == [v \in V |-> More(v)]
           from == CHOOSE from : Iter(from)
<1>1. IsFiniteSet(placed) /\ N \in Nat /\ 1 <= N
  <2>1. IsFiniteSet(placed)
    BY PlanFacts, FS_Subset
  <2>. QED
    BY <2>1, FS_CardinalityType
<1>2. CriticalPath(placed) = BestOf(ranks, Range(from[N]))
  BY DEF CriticalPath
<1> HIDE DEF N
<1>3. \A v \in V : \A t \in placed : next(t) # {} =>
        BestOf(ranks, {v[u] : u \in next(t)}) \in Seq(placed)
  <2> SUFFICES ASSUME NEW v \in V, NEW t \in placed, next(t) # {}
               PROVE  BestOf(ranks, {v[u] : u \in next(t)}) \in Seq(placed)
    OBVIOUS
  <2> DEFINE chains == {v[u] : u \in next(t)}
  <2>1. next(t) \in SUBSET placed /\ DOMAIN v = placed /\ \A u \in placed : v[u] \in Seq(placed)
    OBVIOUS
  <2>2. chains \in SUBSET Seq(placed) /\ chains # {} /\ IsFiniteSet(chains)
    <3>1. IsFiniteSet(chains)
      <4> HIDE DEF next, V
      <4>. QED
        BY <1>1, <2>1, ImageIsFinite
    <3> HIDE DEF next
    <3>. QED
      BY <2>1, <3>1
  <2>3. BestOf(ranks, chains) \in chains
    <3> HIDE DEF chains
    <3>. QED
      BY <2>2, BestIsBest
  <2>. QED
    BY <2>2, <2>3
<1>4. base \in V /\ step \in [V -> V] /\ \A v \in V : step[v] = More(v)
  <2>1. base \in V
    OBVIOUS
  <2>2. \A v \in V : More(v) \in V
    <3> SUFFICES ASSUME NEW v \in V
                 PROVE  More(v) \in V
      OBVIOUS
    <3>1. \A t \in placed : More(v)[t] \in Seq(placed)
      <4> SUFFICES ASSUME NEW t \in placed
                   PROVE  More(v)[t] \in Seq(placed)
        OBVIOUS
      <4> DEFINE rest == BestOf(ranks, {v[u] : u \in next(t)})
      <4>1. More(v)[t] = IF next(t) = {} THEN <<t>> ELSE <<t>> \o rest
        OBVIOUS
      <4>2. next(t) # {} => rest \in Seq(placed)
        BY <1>3
      <4> HIDE DEF rest, More, next
      <4>. QED
        BY <4>1, <4>2
    <3>2. More(v) = [t \in placed |-> More(v)[t]]
      OBVIOUS
    <3> HIDE DEF More
    <3>. QED
      BY <3>1, <3>2
  <2> HIDE DEF More, V
  <2>. QED
    BY <2>1, <2>2
<1> HIDE DEF V, step, base
<1>5. PICK w : IsRepeat(step, base, 1, N, w) /\ \A n \in 1 .. N : w[n] \in V
  BY <1>1, <1>4, RepeatExists
<1>6. Iter(w)
  <2>1. \A n \in 1 .. N : n # 1 => n - 1 \in 1 .. N
    BY <1>1
  <2>2. \A n \in 1 .. N : n # 1 => step[w[n - 1]] = More(w[n - 1])
    BY <1>4, <1>5, <2>1
  <2>3. w = [n \in 1 .. N |-> IF n = 1 THEN base ELSE More(w[n - 1])]
    BY <1>5, <2>2 DEF IsRepeat
  <2>4. \A n \in 1 .. N : (IF n = 1 THEN base ELSE More(w[n - 1])) =
          [t \in placed |->
             IF n = 1 \/ next(t) = {} THEN <<t>>
             ELSE <<t>> \o BestOf(ranks, {w[n - 1][u] : u \in next(t)})]
    BY DEF base
  <2> HIDE DEF More, next, ranks
  <2>. QED
    BY <2>3, <2>4
<1>7. Iter(from)
  <2> HIDE DEF Iter
  <2>. QED
    BY <1>6
<1> HIDE DEF from
<1>8. \A n \in 1 .. N : /\ DOMAIN from[n] = placed
                        /\ \A t \in placed : from[n][t] =
                             IF n = 1 \/ next(t) = {} THEN <<t>>
                             ELSE <<t>> \o BestOf(ranks, {from[n - 1][u] : u \in next(t)})
  <2> HIDE DEF next, ranks
  <2>1. \A n \in 1 .. N : from[n] =
          [t \in placed |->
             IF n = 1 \/ next(t) = {} THEN <<t>>
             ELSE <<t>> \o BestOf(ranks, {from[n - 1][u] : u \in next(t)})]
    BY <1>7
  <2> SUFFICES ASSUME NEW n \in 1 .. N
               PROVE  /\ DOMAIN from[n] = placed
                      /\ \A t \in placed : from[n][t] =
                           IF n = 1 \/ next(t) = {} THEN <<t>>
                           ELSE <<t>> \o BestOf(ranks, {from[n - 1][u] : u \in next(t)})
    OBVIOUS
  <2> DEFINE row == [t \in placed |->
                       IF n = 1 \/ next(t) = {} THEN <<t>>
                       ELSE <<t>> \o BestOf(ranks, {from[n - 1][u] : u \in next(t)})]
  <2>2. from[n] = row
    BY <2>1
  <2>3. /\ DOMAIN row = placed
        /\ \A t \in placed : row[t] =
             IF n = 1 \/ next(t) = {} THEN <<t>>
             ELSE <<t>> \o BestOf(ranks, {from[n - 1][u] : u \in next(t)})
    OBVIOUS
  <2>. QED
    BY <2>2, <2>3
<1>9. \A t \in placed : next(t) = Next2(placed, t)
  BY DEF Next2
<1> DEFINE S == {k \in 0 .. N : k > 0 => \A t \in placed : BestFrom(placed, t, k, from[k][t])}
<1>10. 0 \in S
  BY <1>1
<1>11. \A k \in 0 .. N : k \in S /\ k # N => k + 1 \in S
  <2> SUFFICES ASSUME NEW k \in 0 .. N, k \in S, k # N, NEW t \in placed
               PROVE  BestFrom(placed, t, k + 1, from[k + 1][t])
    BY <1>1
  <2>1. k \in Nat /\ k + 1 \in Nat /\ k + 1 \in 1 .. N /\ k + 1 > 0 /\ (k + 1) - 1 = k
    BY <1>1
  <2>2. CASE k + 1 = 1 \/ next(t) = {}
    <3>1. from[k + 1][t] = <<t>>
      BY <1>8, <2>1, <2>2
    <3>. QED
      BY <1>9, <2>1, <2>2, <3>1, AloneIsBest
  <2>3. CASE k + 1 # 1 /\ next(t) # {}
    <3>1. k > 0 /\ k \in 1 .. N
      BY <2>1, <2>3
    <3>2. \A u \in placed : BestFrom(placed, u, k, from[k][u])
      BY <3>1
    <3>3. from[k + 1][t] = <<t>> \o BestOf(ranks, {from[k][u] : u \in next(t)})
      <4> HIDE DEF next, ranks, Iter
      <4>1. from[k + 1][t] = <<t>> \o BestOf(ranks, {from[(k + 1) - 1][u] : u \in next(t)})
        BY <1>8, <2>1, <2>3
      <4>2. \A m : m = k => {from[m][u] : u \in next(t)} = {from[k][u] : u \in next(t)}
        OBVIOUS
      <4>3. {from[(k + 1) - 1][u] : u \in next(t)} = {from[k][u] : u \in next(t)}
        BY <2>1, <4>2
      <4>. QED
        BY <4>1, <4>3
    <3>4. DOMAIN from[k] = placed
      BY <1>8, <3>1
    <3>5. next(t) = Next2(placed, t)
      BY <1>9
    <3> HIDE DEF next, S, ranks, Iter
    <3>6. BestFrom(placed, t, k + 1, <<t>> \o BestOf(RanksOf(placed), {from[k][u] : u \in Next2(placed, t)}))
      BY <2>1, <2>3, <3>1, <3>2, <3>4, <3>5, BestGoesOn
    <3>. QED
      BY <3>3, <3>5, <3>6 DEF ranks
  <2>. QED
    BY <2>2, <2>3
<1>12. N \in S
  <2> HIDE DEF S
  <2>1. \A k \in 0 .. N : k \in S
    BY <1>1, <1>10, <1>11, UpTo
  <2>. QED
    BY <1>1, <2>1
<1>13. \A t \in placed : BestFrom(placed, t, N, from[N][t])
  BY <1>1, <1>12
<1>14. DOMAIN from[N] = placed
  BY <1>1, <1>8
<1>. QED
  BY <1>2, <1>13, <1>14 DEF N

LEMMA CriticalFromInputs == PlanInputs => CriticalIsLongest
<1> SUFFICES ASSUME PlanInputs
             PROVE  CriticalIsLongest
  OBVIOUS
<1> DEFINE P == PlacedIn(Batches)
           ranks == RanksOf(P)
           K == Cardinality(P)
           path == CriticalPath(P)
           chains == {c \in SeqOf(P, K) :
                        c # <<>> /\ \A i \in 1 .. Len(c) - 1 : c[i] \in Waits(c[i + 1])}
<1>1. InTurn(Batches) /\ P \in SUBSET Members /\ IsFiniteSet(P) /\ K \in Nat
  BY BatchesInTurn, PlacedAreMembers, FS_CardinalityType DEF InTurn
<1>2. P = {} => path = <<>>
  BY DEF CriticalPath
<1>3. \A c : c \in chains <=> IsChain(P, c)
  <2>1. \A c : c \in SeqOf(P, K) => c \in Seq(P)
    BY <1>1 DEF SeqOf
  <2>2. \A c : IsChain(P, c) => Len(c) <= K
    BY <1>1, ChainsAreShort
  <2>3. ASSUME NEW c \in Seq(P), Len(c) <= K
        PROVE  c \in SeqOf(P, K)
    <3>1. Len(c) \in 0 .. K /\ c \in [1 .. Len(c) -> P]
      BY <1>1, <2>3
    <3>. QED
      BY <3>1 DEF SeqOf
  <2> HIDE DEF P, K
  <2>. QED
    BY <2>1, <2>2, <2>3 DEF IsChain
<1>4. ASSUME P # {}
      PROVE  path \in chains /\ \A c \in chains : ~Better(ranks, c, path)
  <2>1. PICK v : /\ DOMAIN v = P
                 /\ \A t \in P : BestFrom(P, t, K + 1, v[t])
                 /\ path = BestOf(ranks, Range(v))
    BY <1>1, <1>4, TableIsBest
  <2> HIDE DEF P, K, ranks, path
  <2>2. \A t \in P : IsChain(P, v[t]) /\ v[t] \in Seq(P)
    BY <2>1 DEF BestFrom, IsChain
  <2>3. Range(v) \in SUBSET Seq(P) /\ Range(v) # {} /\ IsFiniteSet(Range(v))
    <3>1. Range(v) = {v[t] : t \in P}
      BY <2>1 DEF Range
    <3>2. IsFiniteSet({v[t] : t \in P})
      BY <1>1, <2>1, ImageIsFinite
    <3>. QED
      BY <1>4, <2>2, <3>1, <3>2
  <2>4. path \in Range(v) /\ \A c \in Range(v) \ {path} : Better(ranks, path, c)
    BY <1>1, <2>1, <2>3, BestIsBest DEF ranks
  <2>5. path \in chains /\ path \in Seq(P)
    BY <1>3, <2>1, <2>2, <2>4 DEF Range
  <2>6. ASSUME NEW c \in chains, Better(ranks, c, path)
        PROVE  FALSE
    <3>1. IsChain(P, c)
      BY <1>3
    <3>2. c \in Seq(P) /\ c[1] \in P /\ Len(c) \in Nat
      BY <3>1 DEF IsChain
    <3>3. Len(c) <= K + 1
      <4>1. Len(c) <= K
        BY <1>1, <3>1, ChainsAreShort DEF P, K
      <4>. QED
        BY <1>1, <3>2, <4>1
    <3>4. ~Better(ranks, c, v[c[1]])
      BY <2>1, <3>1, <3>2, <3>3 DEF BestFrom, ranks
    <3>5. v[c[1]] \in Range(v) /\ v[c[1]] \in Seq(P)
      BY <2>1, <2>2, <3>2 DEF Range
    <3>6. path # v[c[1]] /\ Better(ranks, path, v[c[1]])
      BY <2>4, <2>6, <3>4, <3>5
    <3>. QED
      BY <1>1, <2>5, <2>6, <3>2, <3>4, <3>5, <3>6, BetterIsOrder DEF ranks
  <2>. QED
    BY <2>5, <2>6
<1>. QED
  BY <1>2, <1>4 DEF CriticalIsLongest

(***************************************************************************)
(* The critical path of a plan is a chain of placed todos, and no chain is *)
(* longer or, as long, ranks before it: for lists of any length, although  *)
(* best_from keeps one chain per todo and never looks at the others.       *)
(***************************************************************************)
THEOREM CriticalIsLongestHolds == PlanSpec => []CriticalIsLongest
BY CriticalFromInputs, PlanInputsHold, PTL
=============================================================================
