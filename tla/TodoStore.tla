----------------------------- MODULE TodoStore ------------------------------
(***************************************************************************)
(* The shared todo list: the file of crates/devkit-todo-builtin under its  *)
(* lock, the claim log of crates/devkit-todo/src/activity.rs beside it,    *)
(* and the `devkit todo` commands and session hooks of                     *)
(* src/bin/devkit/todo/mod.rs and src/bin/devkit/hook/todo.rs.             *)
(*                                                                         *)
(* Each call of the store is one step, because it holds the file lock      *)
(* throughout.  A command makes several such calls and is preempted        *)
(* between any two: it reads the list to check its request, applies an     *)
(* edit that the store judges again, and appends what the edit changed to  *)
(* the log, stamped with the time taken under the lock.  A command may     *)
(* die at any of those points.                                             *)
(***************************************************************************)
EXTENDS TodoModel

CONSTANTS
  Procs,        \* processes that run commands and hooks, one at a time each
  MaxSeed,      \* bound on the todos that stand in the list at first
  MaxId,        \* bound on the ids ever given
  MaxCommands   \* bound on the commands of a behaviour

ASSUME TodoStoreAssumption ==
  MaxSeed \in Nat /\ MaxId \in Nat /\ MaxCommands \in Nat

VARIABLES
  todos,     \* the file: a function from ids to todos
  nextId,    \* the file's next_id
  clock,     \* time of the last change made under the lock
  log,       \* per id, the event the log's reader ends on: [at, by]
  life,      \* what the log says of a session
  endAt,     \* time of a session's last end
  proc,      \* what a process does
  commands,  \* commands started
  lostAt     \* history: per id, the time of the last event that was not appended

vars == <<todos, nextId, clock, log, life, endAt, proc, commands, lostAt>>

Ids == 1 .. MaxId
Todos == [status : Statuses, parent : Ids \cup {NoTodo}, blockers : SUBSET Ids]

Events == [at : Nat, todo : Ids, by : Holders \cup {NoHolder}]
NoEvent == [at |-> 0, by |-> NoHolder]

(* A process: where its command stands, the command, who runs it, the todo *)
(* and the kind or ids it names, the claimant it judged gone, the edges it *)
(* checked and the events it has yet to append.                            *)
Idle == [pc |-> "idle", cmd |-> "none", actor |-> NoHolder, id |-> NoTodo,
         to |-> "pending", ids |-> {}, from |-> NoHolder, edges |-> {},
         events |-> {}]

Places == {"idle", "blockers", "resolve", "judge", "apply", "add", "log", "end"}
Commands == {"none", "start", "status", "sync", "block", "unblock", "move", "add",
             "purge", "prune", "release", "session_end"}

Claimant(store, t) ==
  IF t \in DOMAIN store /\ store[t].status.kind = "in_progress"
  THEN store[t].status.by ELSE NoHolder

Edges(store) ==
  {e \in Ids \X Ids : e[1] \in DOMAIN store /\ e[2] \in store[e[1]].blockers}

TypeOK ==
  /\ DOMAIN todos \subseteq Ids
  /\ \A t \in DOMAIN todos : todos[t] \in Todos
  /\ nextId \in 0 .. MaxId + 1
  /\ clock \in Nat
  /\ log \in [Ids -> [at : Nat, by : Holders \cup {NoHolder}]]
  /\ life \in [Sessions -> {"active", "silent", "ended"}]
  /\ endAt \in [Sessions -> Nat]
  /\ proc \in [Procs -> [pc : Places, cmd : Commands, actor : Holders \cup {NoHolder},
                         id : Ids \cup {NoTodo}, to : Kinds, ids : SUBSET Ids,
                         from : Holders \cup {NoHolder}, edges : SUBSET (Ids \X Ids),
                         events : SUBSET Events]]
  /\ commands \in 0 .. MaxCommands
  /\ lostAt \in [Ids -> Nat]

(* A list of a few todos that nobody works on, as earlier adds left it.    *)
NewTodo(parent) == [status |-> Pending, parent |-> parent, blockers |-> {}]

Init ==
  /\ \E n \in {k \in 0 .. MaxSeed : k <= MaxId} :
       /\ todos = [t \in 1 .. n |-> NewTodo(NoTodo)]
       /\ nextId = IF n = 0 THEN 0 ELSE n + 1
  /\ clock = 0
  /\ log = [t \in Ids |-> NoEvent]
  /\ life = [s \in Sessions |-> "active"]
  /\ endAt = [s \in Sessions |-> 0]
  /\ proc = [p \in Procs |-> Idle]
  /\ commands = 0
  /\ lostAt = [t \in Ids |-> 0]

(***************************************************************************)
(* Starting a command                                                      *)
(***************************************************************************)

(* A hook runs before an agent's command, and marks its session seen.      *)
Seen(h) == [s \in Sessions |-> IF h.session = s THEN "active" ELSE life[s]]

Begin(p, request) ==
  /\ proc[p].pc = "idle"
  /\ commands < MaxCommands
  /\ commands' = commands + 1
  /\ proc' = [proc EXCEPT ![p] = request]
  /\ life' = Seen(request.actor)
  /\ UNCHANGED <<todos, nextId, clock, log, endAt, lostAt>>

(* Mutant: the id given is the first one free, as in a store that forgot   *)
(* its counter.                                                            *)
NextKeyReused == CHOOSE k \in 1 .. MaxId + 1 :
                   k \notin DOMAIN todos /\ \A j \in 1 .. k - 1 : j \in DOMAIN todos

(* Mutant: a store that counts from zero.                                  *)
NextKeyFromZero == nextId

(* The counter only grows, so an id is never given twice.                  *)
NextKey == IF nextId = 0 THEN 1 ELSE nextId

Request(cmd, h, t) == [Idle EXCEPT !.cmd = cmd, !.actor = h, !.id = t, !.pc = "resolve"]

BeginStart(p, h, t, force) ==
  Begin(p, [Request("start", h, t) EXCEPT
              !.to = "in_progress", !.pc = IF force THEN "resolve" ELSE "blockers"])

(* stop, undone, done and cancel                                           *)
BeginStatus(p, h, t, to) == Begin(p, [Request("status", h, t) EXCEPT !.to = to])

(* A tracker sync that found the ticket moved.                             *)
BeginSync(p, t, to) == Begin(p, [Request("sync", Tracker, t) EXCEPT !.to = to])

BeginLink(p, cmd, t, others) == Begin(p, [Request(cmd, Human, t) EXCEPT !.ids = others])

BeginAdd(p, parent, blockers) ==
  /\ NextKey <= MaxId
  /\ Begin(p, [Request("add", Human, parent) EXCEPT !.ids = blockers])

(* purge and prune need a person at a terminal.                            *)
BeginPurge(p, t) == Begin(p, Request("purge", Human, t))

BeginPrune(p) == Begin(p, Request("prune", Human, NoTodo))

(* The end of a sub-agent releases its claims, the end of a session all of *)
(* its sub-agents' too, before the session's end is recorded.              *)
BeginRelease(p, h) ==
  /\ h \in AgentHolders
  /\ Begin(p, [Request(IF h.agent = Main THEN "session_end" ELSE "release", h, NoTodo)
                 EXCEPT !.pc = "apply"])

(***************************************************************************)
(* Reading and checking                                                    *)
(***************************************************************************)

Go(p, pc) == proc' = [proc EXCEPT ![p].pc = pc]
Finish(p) == proc' = [proc EXCEPT ![p] = Idle]

Reads == UNCHANGED <<todos, nextId, clock, log, life, endAt, commands, lostAt>>

(* start without --force refuses a todo whose blockers are open.  A todo   *)
(* that is not there is left to the next check.                            *)
ReadBlockers(p) ==
  /\ proc[p].pc = "blockers"
  /\ IF proc[p].id \in DOMAIN todos /\ OpenBlockers(todos, proc[p].id) # {}
     THEN Finish(p)
     ELSE Go(p, "resolve")
  /\ Reads

(* apply_checked: the todo must be there and the rule must allow the       *)
(* change; a start that an agent's claim refuses looks whether that agent  *)
(* is gone.  A sync checks only that the todo stands as it read it.        *)
Resolve(p) ==
  LET me == proc[p] IN
  /\ me.pc = "resolve"
  /\ me.cmd \in {"start", "status", "sync"}
  /\ IF me.id \notin DOMAIN todos
     THEN Finish(p)
     ELSE LET status == todos[me.id].status
              answer == Transition(status, me.to, me.actor)
          IN  IF ~answer.refused THEN Go(p, "apply")
              ELSE IF me.cmd = "start" /\ status.by # Human
              THEN proc' = [proc EXCEPT ![p] = [me EXCEPT !.pc = "judge", !.from = status.by]]
              ELSE Finish(p)
  /\ Reads

(* The log is read after the todo: the session must have ended or be       *)
(* silent.  The claimant is an agent: the tracker's claim is never refused.*)
Judge(p) ==
  /\ proc[p].pc = "judge"
  /\ IF proc[p].from.session \in Sessions /\ life[proc[p].from.session] # "active"
     THEN Go(p, "apply")
     ELSE Finish(p)
  /\ Reads

(* Mutant: the cycle check looks only at the blocker itself.               *)
ResolveLinksShallow(p) ==
  LET me == proc[p] IN
  /\ me.pc = "resolve"
  /\ me.cmd \in {"block", "unblock", "move", "add", "purge"}
  /\ IF \/ me.id # NoTodo /\ me.id \notin DOMAIN todos
        \/ ~(me.ids \subseteq DOMAIN todos)
        \/ me.cmd = "block" /\ me.id \in me.ids
     THEN Finish(p)
     ELSE proc' = [proc EXCEPT ![p] = [me EXCEPT !.pc = IF me.cmd = "add" THEN "add" ELSE "apply",
                                                 !.edges = Edges(todos)]]
  /\ Reads

(* Every id a link command names must be there; a block refuses an edge    *)
(* that would close a cycle in the list it reads.                          *)
ResolveLinks(p) ==
  LET me == proc[p] IN
  /\ me.pc = "resolve"
  /\ me.cmd \in {"block", "unblock", "move", "add", "purge"}
  /\ IF \/ me.id # NoTodo /\ me.id \notin DOMAIN todos
        \/ ~(me.ids \subseteq DOMAIN todos)
        \/ me.cmd = "block" /\ ClosesCycle(todos, me.id, me.ids)
     THEN Finish(p)
     ELSE proc' = [proc EXCEPT ![p] = [me EXCEPT !.pc = IF me.cmd = "add" THEN "add" ELSE "apply",
                                                 !.edges = Edges(todos)]]
  /\ Reads

(* prune lists what it would remove and asks; the removal comes later.     *)
(* The window of times it is given may leave out any of them.              *)
SelectPrunable(p, ids) ==
  /\ proc[p].pc = "resolve"
  /\ proc[p].cmd = "prune"
  /\ ids \subseteq Prunable(todos)
  /\ IF ids = {} THEN Finish(p)
     ELSE proc' = [proc EXCEPT ![p] = [proc[p] EXCEPT !.pc = "apply", !.ids = ids]]
  /\ Reads

(***************************************************************************)
(* Edits, each one call of the store under its lock                        *)
(***************************************************************************)

(* claim_events: a change tells the log when it makes, moves or ends a     *)
(* claim.                                                                  *)
EventsOf(new, at) ==
  {[at |-> at, todo |-> t, by |-> Claimant(new, t)] :
     t \in {u \in Ids : Claimant(new, u) # Claimant(todos, u)}}

(* What every status change ends with: the store written, the time taken   *)
(* under the lock, the events left to append.                              *)
Changed(p, new, after) ==
  LET events == EventsOf(new, clock + 1) IN
  /\ todos' = new
  /\ clock' = IF events = {} THEN clock ELSE clock + 1
  /\ proc' = [proc EXCEPT ![p] =
       IF events # {} THEN [proc[p] EXCEPT !.pc = "log", !.events = events]
       ELSE IF after = "idle" THEN Idle ELSE [proc[p] EXCEPT !.pc = after]]
  /\ UNCHANGED <<nextId, log, life, endAt, commands, lostAt>>

Linked(p, new) ==
  /\ todos' = new
  /\ Finish(p)
  /\ UNCHANGED <<nextId, clock, log, life, endAt, commands, lostAt>>

Refused(p) == Finish(p) /\ Reads

(* SetStatus and TakeOver.                                                 *)
ApplyStatus(p) ==
  LET me == proc[p] IN
  /\ me.pc = "apply"
  /\ me.cmd \in {"start", "status", "sync"}
  /\ IF me.id \notin DOMAIN todos THEN Refused(p)
     ELSE LET status == todos[me.id].status
              answer == IF me.from = NoHolder
                        THEN Transition(status, me.to, me.actor)
                        ELSE TakeOver(status, me.from, me.actor)
          IN  IF answer.refused \/ answer.status = status THEN Refused(p)
              ELSE Changed(p, [todos EXCEPT ![me.id].status = answer.status], "idle")

(* Block, Unblock and Move: set_blockers asks nothing of the blockers, a   *)
(* move asks for the parent and nothing of its ancestors.                  *)
Relinked(todo, cmd, ids) ==
  [todo EXCEPT
     !.blockers = IF cmd = "block" THEN @ \cup ids
                  ELSE IF cmd = "unblock" THEN @ \ ids ELSE @,
     !.parent = IF cmd # "move" THEN @
                ELSE IF ids = {} THEN NoTodo ELSE CHOOSE t \in ids : TRUE]

ApplyLinks(p) ==
  LET me == proc[p] IN
  /\ me.pc = "apply"
  /\ me.cmd \in {"block", "unblock", "move"}
  /\ IF \/ me.id \notin DOMAIN todos
        \/ me.cmd = "move" /\ ~(me.ids \subseteq DOMAIN todos)
     THEN Refused(p)
     ELSE Linked(p, [todos EXCEPT ![me.id] = Relinked(@, me.cmd, me.ids)])

(* add: the parent is looked up again under the lock.  With blockers the   *)
(* edit that attaches them is another call.                                *)
ApplyAdd(p) ==
  LET me == proc[p] IN
  /\ me.pc = "add"
  /\ NextKey <= MaxId
  /\ IF me.id # NoTodo /\ me.id \notin DOMAIN todos THEN Refused(p)
     ELSE /\ todos' = [t \in DOMAIN todos \cup {NextKey} |->
                         IF t = NextKey THEN NewTodo(me.id) ELSE todos[t]]
          /\ nextId' = NextKey + 1
          /\ proc' = [proc EXCEPT ![p] =
               IF me.ids = {} THEN Idle
               ELSE [me EXCEPT !.pc = "apply", !.cmd = "block", !.id = NextKey]]
          /\ UNCHANGED <<clock, log, life, endAt, commands, lostAt>>

Without(ids) == [t \in DOMAIN todos \ ids |-> todos[t]]

(* Purge and Prune.                                                        *)
ApplyPurge(p) ==
  /\ proc[p].pc = "apply"
  /\ proc[p].cmd = "purge"
  /\ IF proc[p].id \notin DOMAIN todos THEN Refused(p)
     ELSE Changed(p, Without({proc[p].id}), "idle")

ApplyPrune(p) ==
  /\ proc[p].pc = "apply"
  /\ proc[p].cmd = "prune"
  /\ Changed(p, Without(Removable(todos, proc[p].ids)), "idle")

(* ReleaseAll: every claim the holder covers goes back to pending.         *)
ApplyRelease(p) ==
  LET me == proc[p] IN
  /\ me.pc = "apply"
  /\ me.cmd \in {"release", "session_end"}
  /\ Changed(p, [t \in DOMAIN todos |->
                   IF Claimant(todos, t) # NoHolder /\ Covers(me.actor, Claimant(todos, t))
                   THEN [todos[t] EXCEPT !.status = Pending] ELSE todos[t]],
             IF me.cmd = "release" THEN "idle" ELSE "end")

(***************************************************************************)
(* The claim log                                                           *)
(***************************************************************************)

(* Mutant: the reader ends on the event appended last.                     *)
ReadsLastAppended(old, e) == [at |-> e.at, by |-> e.by]

(* The reader sorts the events by their time, so it ends on the newest,    *)
(* in whatever order they were appended.                                   *)
ReadsLatest(old, e) ==
  IF e.at >= old.at THEN [at |-> e.at, by |-> e.by] ELSE old

(* A claim newer than its session's end is a sign of life.                 *)
AppendEvents(p) ==
  LET me == proc[p]
      revived == {s \in Sessions : \E e \in me.events : e.by.session = s /\ e.at > endAt[s]}
  IN
  /\ me.pc = "log"
  /\ log' = [t \in Ids |->
       LET mine == {e \in me.events : e.todo = t}
       IN  IF mine = {} THEN log[t] ELSE ReadsLatest(log[t], CHOOSE e \in mine : TRUE)]
  /\ life' = [s \in Sessions |-> IF s \in revived THEN "active" ELSE life[s]]
  /\ proc' = [proc EXCEPT ![p] =
       IF me.cmd = "session_end" THEN [me EXCEPT !.pc = "end", !.events = {}] ELSE Idle]
  /\ UNCHANGED <<todos, nextId, clock, endAt, commands, lostAt>>

RecordEnd(p) ==
  /\ proc[p].pc = "end"
  /\ LET s == proc[p].actor.session IN
       /\ life' = [life EXCEPT ![s] = "ended"]
       /\ endAt' = [endAt EXCEPT ![s] = clock]
  /\ Finish(p)
  /\ UNCHANGED <<todos, nextId, clock, log, commands, lostAt>>

(***************************************************************************)
(* What the environment does                                               *)
(***************************************************************************)

(* Longer than the backstop with no sign of life.  Only a claimant's       *)
(* silence is ever asked about.                                            *)
GoSilent(s) ==
  /\ life[s] = "active"
  /\ \/ \E t \in DOMAIN todos : Claimant(todos, t).session = s
     \/ \E p \in Procs : proc[p].from.session = s
  /\ life' = [life EXCEPT ![s] = "silent"]
  /\ UNCHANGED <<todos, nextId, clock, log, endAt, proc, commands, lostAt>>

(* Any hook of a session, one that resumes after its end included.         *)
ShowLife(s) ==
  /\ life[s] # "active"
  /\ life' = [life EXCEPT ![s] = "active"]
  /\ UNCHANGED <<todos, nextId, clock, log, endAt, proc, commands, lostAt>>

(* A command dies, or its append fails, which fails nothing else.  One     *)
(* that dies before its edit has changed nothing and is left out.          *)
Die(p) ==
  /\ proc[p].pc \in {"log", "end"}
  /\ lostAt' = [t \in Ids |->
       LET mine == {e \in proc[p].events : e.todo = t}
       IN  IF \E e \in mine : e.at > lostAt[t] THEN (CHOOSE e \in mine : TRUE).at ELSE lostAt[t]]
  /\ Finish(p)
  /\ UNCHANGED <<todos, nextId, clock, log, life, endAt, commands>>

(***************************************************************************)
(* The specification                                                       *)
(***************************************************************************)

(* A command that names a todo the list lacks is refused at once and is    *)
(* left out.  Who runs a command that changes no status matters only as a  *)
(* sign of life, which ShowLife gives: a person runs those.                *)
Starts(p) ==
  \/ \E h \in Holders \ {Tracker}, t \in DOMAIN todos :
       \/ \E force \in BOOLEAN : BeginStart(p, h, t, force)
       \/ \E to \in Kinds \ {"in_progress"} : BeginStatus(p, h, t, to)
  \/ \E t \in DOMAIN todos :
       \/ \E to \in Kinds : BeginSync(p, t, to)
       \/ \E cmd \in {"block", "unblock"}, b \in DOMAIN todos : BeginLink(p, cmd, t, {b})
       \/ \E parent \in DOMAIN todos \cup {NoTodo} : BeginLink(p, "move", t, {parent} \ {NoTodo})
       \/ BeginPurge(p, t)
  \/ \E parent, b \in DOMAIN todos \cup {NoTodo} : BeginAdd(p, parent, {b} \ {NoTodo})
  \/ BeginPrune(p)
  \/ \E h \in AgentHolders : BeginRelease(p, h)

Checks(p) ==
  \/ ReadBlockers(p)
  \/ Resolve(p)
  \/ Judge(p)
  \/ ResolveLinks(p)
  \/ \E ids \in SUBSET Ids : SelectPrunable(p, ids)

Edits(p) ==
  \/ ApplyStatus(p)
  \/ ApplyLinks(p)
  \/ ApplyAdd(p)
  \/ ApplyPurge(p)
  \/ ApplyPrune(p)
  \/ ApplyRelease(p)

Next ==
  \/ \E p \in Procs : Starts(p) \/ Checks(p) \/ Edits(p) \/ AppendEvents(p) \/ RecordEnd(p) \/ Die(p)
  \/ \E s \in Sessions : GoSilent(s) \/ ShowLife(s)

Spec == Init /\ [][Next]_vars

(***************************************************************************)
(* Properties                                                              *)
(***************************************************************************)

(* An agent's claim passes to a holder it does not hand over to only by a  *)
(* command that found that very claimant gone, and a person's claim only   *)
(* to a person or the tracker, whatever happened between the check and     *)
(* the edit (start, take_over).                                            *)
ClaimsAreRespected ==
  [][\A t \in Ids :
       LET old == Claimant(todos, t)
           new == Claimant(todos', t)
       IN  (/\ old # NoHolder
            /\ new # old
            /\ \A p \in Procs : proc[p].pc = "apply" => ~Covers(proc[p].actor, old))
           => /\ old # Human
              /\ \/ HandsOver(old, new)
                 \/ \E p \in Procs : /\ proc[p].pc = "apply"
                                     /\ proc[p].actor = new
                                     /\ proc[p].from = old]_vars

(* A prune removes nothing that an open todo waits on, nests under or      *)
(* that is open itself, although the person confirmed an older list        *)
(* (removable is asked again inside the hold that removes).                *)
PruneKeepsNeeded ==
  [][\A t \in DOMAIN todos \ DOMAIN todos' :
       (\E p \in Procs : proc[p].cmd = "prune" /\ proc'[p] = Idle /\ proc[p].pc = "apply")
       => /\ ~IsOpen(todos[t].status.kind)
          /\ \A u \in OpenTodos(todos) :
               t \notin todos[u].blockers \cup Ancestors(todos, {u})]_vars

(* The blockers form a cycle only where two commands raced: the one that   *)
(* closed it had checked a list whose edges have changed since             *)
(* (refuse_cycle reads, the edit comes later).                             *)
Acyclic(store) == \A t \in DOMAIN store : t \notin Blockers(store, {t})

CyclesNeedARace ==
  [][(Acyclic(todos) /\ ~Acyclic(todos'))
     => \E p \in Procs : proc[p].pc = "apply" /\ proc[p].cmd = "block"
                         /\ proc[p].edges # Edges(todos)]_vars

(* With no event in flight, the log's reader sees exactly the claims the   *)
(* store holds, however the appends of several commands were ordered,      *)
(* except where a command died before it appended the newest one           *)
(* (Recorded::apply stamps the time taken under the lock).                 *)
LogTellsClaims ==
  \A t \in Ids :
    (/\ \A p \in Procs : \A e \in proc[p].events : e.todo # t
     /\ lostAt[t] <= log[t].at)
    => log[t].by = Claimant(todos, t)

(* A new todo gets an id that no stored link, no log event and no command  *)
(* past its checks knows, so it inherits nothing from a todo removed       *)
(* before (next_id only grows).                                            *)
NewTodosAreUnknown ==
  [][\A t \in DOMAIN todos' \ DOMAIN todos :
       /\ \A u \in DOMAIN todos : t # todos[u].parent /\ t \notin todos[u].blockers
       /\ log[t] = NoEvent
       /\ \A p \in Procs : proc[p].pc \in {"apply", "add"} =>
            t # proc[p].id /\ t \notin proc[p].ids]_vars
=============================================================================
