----------------------------- MODULE TicketSync -----------------------------
(***************************************************************************)
(* A ticket on a tracker and its todo, kept in step from both sides: the   *)
(* ticket sync of src/bin/devkit/todo/tickets.rs with the plan of          *)
(* crates/devkit-todo/src/ticket.rs, the status push of                    *)
(* src/bin/devkit/todo/push.rs with the verdicts of                        *)
(* crates/devkit-todo/src/push.rs, and the detached ticket events of       *)
(* src/bin/devkit/todo/ticket_event.rs.                                    *)
(*                                                                         *)
(* Nothing locks the tracker: every call to it and every call of the store *)
(* is a step of its own, and people move the ticket at any time.  Only the *)
(* events of one todo take turns, under a lock of that todo.  A process    *)
(* slot runs one command, and then the detached event it fires.            *)
(***************************************************************************)
EXTENDS Integers, Sequences, FiniteSets

CONSTANTS
  Procs,         \* process slots
  Fields,        \* the status names of the tracker
  StatusMap,     \* [ticket.sync.statuses]: a todo kind for every name
  TicketEvents,  \* [ticket.events]: a move for each local change, or NoEvent
  MaxCommands,   \* bound on local changes
  MaxSyncs,      \* bound on syncs
  MaxMoves,      \* bound on the tracker's own changes
  MaxFaults      \* bound on failed tracker calls and killed processes

VARIABLES
  config,   \* whether the tracker is GitHub and whether statuses are pushed
  ticket,   \* the tracker: the status field and whether the issue is closed
  todos,    \* the todos made for this ticket, by id: kind and synced_status
  proc,     \* what a process does
  turn,     \* who holds the todo's event lock
  count,    \* commands, syncs, moves and faults so far
  half,     \* history: the last push to write the status, until it ends
  raced     \* history: syncs past their last look when the status moved

vars == <<config, ticket, todos, proc, turn, count, half, raced>>

Locals == {"start", "stop", "done", "cancel"}
Kinds == {"pending", "in_progress", "completed", "cancelled"}
Reasons == {"completed", "not_planned"}
Open == "open"
None == "none"
NoProc == "nobody"
NoEvent == [from |-> {}, to |-> None]

Closed(reason) == IF reason = "completed" THEN "closed:completed" ELSE "closed:not_planned"
Names == Fields \cup {Closed(r) : r \in Reasons}

ASSUME TicketSyncAssumption ==
  /\ Fields # {} /\ Fields \cap {None, Open, "closed:completed", "closed:not_planned"} = {}
  /\ StatusMap \in [Fields -> Kinds]
  /\ \A l \in Locals \ {"stop"} :
       TicketEvents[l] = NoEvent
         \/ (TicketEvents[l].from \subseteq Fields /\ TicketEvents[l].to \in Fields)
  /\ TicketEvents["stop"] = NoEvent
  /\ {MaxCommands, MaxSyncs, MaxMoves, MaxFaults} \subseteq Nat
  /\ NoProc \notin Procs

(***************************************************************************)
(* Rules                                                                   *)
(***************************************************************************)

(* A closed issue is named by its reason, an open one by its field.        *)
StatusName(t) == IF t.closed = Open THEN t.field ELSE Closed(t.closed)

(* target                                                                  *)
Target(name) ==
  CASE name = Closed("completed")   -> "completed"
    [] name = Closed("not_planned") -> "cancelled"
    [] OTHER                        -> StatusMap[name]

KindOf(local) ==
  CASE local = "start" -> "in_progress" [] local = "stop" -> "pending"
    [] local = "done"  -> "completed"   [] OTHER -> "cancelled"

(* LocalStatus::closes: only GitHub has issues to close.                   *)
Closes(local) ==
  IF ~config.github THEN None
  ELSE CASE local = "done" -> "completed" [] local = "cancel" -> "not_planned" [] OTHER -> None

(* Mutant: what the tracker already holds is compared like any change.     *)
VerdictSkipsAlready(local, baseline, name) ==
  LET event == TicketEvents[local] IN
  IF event = NoEvent THEN (IF Closes(local) # None THEN "write" ELSE "no_move")
  ELSE IF name \in event.from THEN "write"
  ELSE IF baseline # name THEN "conflict"
  ELSE IF event.from = {} THEN "write" ELSE "no_move"

(* Mutant: the last synced status is not looked at.                        *)
VerdictForgetsBaseline(local, baseline, name) ==
  LET event == TicketEvents[local] IN
  IF name = event.to THEN "already" ELSE "write"

(* verdict_of: `from` with no name (`*`) waives no tracker change.         *)
VerdictOf(local, baseline, name) ==
  LET event  == TicketEvents[local]
      closes == Closes(local)
  IN  IF closes # None /\ name \notin Fields
      THEN (IF name = Closed(closes) THEN "already" ELSE "conflict")
      ELSE IF closes = None /\ event # NoEvent /\ name = event.to THEN "already"
      ELSE IF event = NoEvent THEN (IF closes # None THEN "write" ELSE "no_move")
      ELSE IF name \in event.from THEN "write"
      ELSE IF baseline # name THEN "conflict"
      ELSE IF event.from = {} THEN "write" ELSE "no_move"

(* status_verdict: whether the issue is closed, how the field is written   *)
(* and what is recorded as seen.                                           *)
WritesOf(local, verdict, name) ==
  LET event  == TicketEvents[local]
      closes == Closes(local)
      closed == IF closes = None THEN None ELSE Closed(closes)
  IN  CASE verdict \in {"write", "conflict"} ->
             [close  |-> closes,
              field  |-> IF event = NoEvent THEN None ELSE "set",
              record |-> IF closed # None THEN closed ELSE event.to]
        [] verdict = "already" ->
             [close  |-> None,
              field  |-> IF closes # None /\ event # NoEvent THEN "move" ELSE None,
              record |-> name]
        [] OTHER -> [close |-> closes, field |-> None, record |-> closed]

(* move_status: the field moves only from where the event allows.          *)
Moves(event, field) == field # event.to /\ (event.from = {} \/ field \in event.from)

(***************************************************************************)
(* State                                                                   *)
(***************************************************************************)

NoWrites == [close |-> None, field |-> None, record |-> None]
Absent == [kind |-> None, synced |-> None]

(* A process: its place, the local change or sync it makes, the todo, what *)
(* it read of the todo and of the tracker, what it will write, whether it  *)
(* may write over the tracker and whether its sync fetches before it lists.*)
Idle == [pc |-> "idle", local |-> "stop", id |-> 0, seen |-> Absent, name |-> None,
         writes |-> NoWrites, consent |-> FALSE, one |-> FALSE]

Places == {"idle", "read", "close", "field", "write", "apply", "record", "event", "move", "moving",
           "list", "fetch", "add", "check", "set"}

(* Every variable has its type, and however many syncs find the ticket     *)
(* without a todo at once it gets one (add looks for the ticket under the  *)
(* store's lock).                                                          *)
TypeOK ==
  /\ config \in [github : BOOLEAN, pushes : BOOLEAN]
  /\ ticket \in [field : Fields, closed : Reasons \cup {Open}]
  /\ todos \in Seq([kind : Kinds, synced : Names]) /\ Len(todos) <= 1
  /\ turn \in Procs \cup {NoProc}
  /\ count \in [commands : 0 .. MaxCommands, syncs : 0 .. MaxSyncs,
                moves : 0 .. MaxMoves, faults : 0 .. MaxFaults]
  /\ half \in Locals \cup {None}
  /\ raced \subseteq Procs
  /\ \A p \in Procs :
       /\ proc[p].pc \in Places
       /\ proc[p].local \in Locals
       /\ proc[p].id \in 0 .. Len(todos)
       /\ proc[p].seen \in [kind : Kinds, synced : Names] \cup {Absent}
       /\ proc[p].name \in Names \cup {None}

Init ==
  /\ config \in [github : BOOLEAN, pushes : BOOLEAN]
  /\ \E f \in Fields : ticket = [field |-> f, closed |-> Open]
  /\ todos = <<>>
  /\ proc = [p \in Procs |-> Idle]
  /\ turn = NoProc
  /\ count = [commands |-> 0, syncs |-> 0, moves |-> 0, faults |-> 0]
  /\ half = None
  /\ raced = {}

Me(p, pc) == proc[p].pc = pc
Set(p, next) == proc' = [proc EXCEPT ![p] = next]
Finish(p) == Set(p, Idle)
Go(p, pc) == Set(p, [proc[p] EXCEPT !.pc = pc])

(* A status that moves passes the syncs that have looked at it already.    *)
Raced == IF todos' = todos THEN raced ELSE raced \cup {q \in Procs : Me(q, "set")}

Shared == <<config, ticket, todos, turn, count, half, raced>>

(***************************************************************************)
(* Local changes                                                           *)
(***************************************************************************)

(* Whether a change is pushed: statuses are, and it has something to write.*)
Pushed(local) == config.pushes /\ (TicketEvents[local] # NoEvent \/ Closes(local) # None)

(* The command reads the todo; its synced status is the push's baseline.   *)
(* A change with nothing to write on the tracker is applied at once.       *)
BeginLocal(p, local, consent) ==
  /\ Me(p, "idle")
  /\ todos # <<>>
  /\ count.commands < MaxCommands
  /\ consent => Pushed(local)
  /\ count' = [count EXCEPT !.commands = @ + 1]
  /\ Set(p, [Idle EXCEPT !.pc = IF Pushed(local) THEN "read" ELSE "apply",
               !.local = local, !.id = 1, !.seen = todos[1], !.consent = consent])
  /\ UNCHANGED <<config, ticket, todos, turn, half, raced>>

(* Where a push goes on once it may write.                                 *)
Proceed(p, name, writes) ==
  Set(p, [proc[p] EXCEPT !.name = name, !.writes = writes,
            !.pc = IF writes.close # None THEN "close"
                   ELSE IF writes.field # None THEN "field" ELSE "apply"])

(* push_status reads the tracker.  A conflict goes on with consent, given  *)
(* with the command or on being asked; an agent gets an error, and a       *)
(* person who declines takes the tracker's value with a sync of the ticket.*)
ReadTracker(p) ==
  LET me      == proc[p]
      name    == StatusName(ticket)
      verdict == VerdictOf(me.local, me.seen.synced, name)
  IN
  /\ Me(p, "read")
  /\ IF verdict # "conflict" \/ me.consent
     THEN Proceed(p, name, WritesOf(me.local, verdict, name))
     ELSE \/ Finish(p)
          \/ Set(p, [Idle EXCEPT !.pc = "fetch", !.one = TRUE])
  /\ UNCHANGED Shared

(* A push that closed the issue is half done until it ends.                *)
CloseIssue(p) ==
  /\ Me(p, "close")
  /\ ticket' = [ticket EXCEPT !.closed = proc[p].writes.close]
  /\ half' = proc[p].local
  /\ Go(p, IF proc[p].writes.field # None THEN "field" ELSE "apply")
  /\ UNCHANGED <<config, todos, turn, count, raced>>

(* move_status reads the field; set_status is a move from anywhere.        *)
ReadField(p) ==
  LET event == TicketEvents[proc[p].local]
      from  == IF proc[p].writes.field = "set" THEN {} ELSE event.from
  IN
  /\ Me(p, "field")
  /\ Go(p, IF Moves([event EXCEPT !.from = from], ticket.field) THEN "write" ELSE "apply")
  /\ UNCHANGED Shared

(* So is one with nothing to close that wrote the field of an open ticket. *)
WriteField(p) ==
  /\ Me(p, "write")
  /\ ticket' = [ticket EXCEPT !.field = TicketEvents[proc[p].local].to]
  /\ half' = IF ticket.closed # Open THEN half
             ELSE IF Closes(proc[p].local) = None THEN proc[p].local ELSE None
  /\ Go(p, "apply")
  /\ UNCHANGED <<config, todos, turn, count, raced>>

(* The local edit.  Without a push it fires the ticket event of a change   *)
(* that has one; a cancel fires only where statuses are pushed.            *)
ApplyLocal(p) ==
  LET me    == proc[p]
      kind  == KindOf(me.local)
      fires == /\ ~config.pushes
               /\ me.local # "cancel"
               /\ TicketEvents[me.local] # NoEvent
               /\ todos[me.id].kind # kind
  IN
  /\ Me(p, "apply")
  /\ todos' = [todos EXCEPT ![me.id].kind = kind]
  /\ raced' = Raced
  /\ IF me.writes.record # None THEN Go(p, "record") /\ UNCHANGED half
     ELSE /\ Set(p, IF fires THEN [Idle EXCEPT !.pc = "event", !.local = me.local, !.id = me.id]
                    ELSE Idle)
          /\ half' = IF me.name # None THEN None ELSE half
  /\ UNCHANGED <<config, ticket, turn, count>>

(* RecordSync, of a push or of a sync.                                     *)
RecordSync(p) ==
  LET me   == proc[p]
      push == me.writes.record # None
  IN
  /\ Me(p, "record")
  /\ todos' = [todos EXCEPT ![me.id].synced = IF push THEN me.writes.record ELSE me.name]
  /\ half' = IF push THEN None ELSE half
  /\ Finish(p)
  /\ UNCHANGED <<config, ticket, turn, count, raced>>

(***************************************************************************)
(* The detached event                                                      *)
(***************************************************************************)

(* Mutant: the events of one todo do not take turns.                       *)
EventTurnUnlocked(p) ==
  /\ Me(p, "event")
  /\ IF todos[proc[p].id].kind = KindOf(proc[p].local) THEN Go(p, "move") ELSE Finish(p)
  /\ UNCHANGED <<config, ticket, todos, turn, count, half, raced>>

(* fire_current: under the todo's lock, and only while the todo is still   *)
(* in the status that fires the event.                                     *)
EventTurn(p) ==
  /\ Me(p, "event")
  /\ turn = NoProc
  /\ IF todos[proc[p].id].kind = KindOf(proc[p].local)
     THEN Go(p, "move") /\ turn' = p
     ELSE Finish(p) /\ UNCHANGED turn
  /\ UNCHANGED <<config, ticket, todos, count, half, raced>>

(* fire: one read, then the write the move needs.                          *)
EventReads(p) ==
  /\ Me(p, "move")
  /\ IF Moves(TicketEvents[proc[p].local], ticket.field)
     THEN Go(p, "moving") /\ UNCHANGED turn
     ELSE Finish(p) /\ turn' = NoProc
  /\ UNCHANGED <<config, ticket, todos, count, half, raced>>

EventWrites(p) ==
  /\ Me(p, "moving")
  /\ ticket' = [ticket EXCEPT !.field = TicketEvents[proc[p].local].to]
  /\ half' = None
  /\ turn' = NoProc
  /\ Finish(p)
  /\ UNCHANGED <<config, todos, count, raced>>

(***************************************************************************)
(* Sync                                                                    *)
(***************************************************************************)

(* What the node lists for this ticket.                                    *)
Listed == IF todos = <<>> THEN Absent ELSE todos[1]

(* sync_tickets lists and then fetches, sync_one the other way round.      *)
BeginSync(p, one) ==
  /\ Me(p, "idle")
  /\ count.syncs < MaxSyncs
  /\ count' = [count EXCEPT !.syncs = @ + 1]
  /\ Set(p, [Idle EXCEPT !.pc = "fetch", !.one = one, !.seen = IF one THEN Absent ELSE Listed])
  /\ UNCHANGED <<config, ticket, todos, turn, half, raced>>

(* plan: a ticket without a todo gets one; one whose status the last sync  *)
(* recorded is left alone, so an agent's start survives it.                *)
Plan(p, name, seen) ==
  Set(p, IF seen = Absent THEN [Idle EXCEPT !.pc = "add", !.name = name]
         ELSE IF seen.synced # name
         THEN [Idle EXCEPT !.pc = "check", !.name = name, !.seen = seen, !.id = 1]
         ELSE Idle)

Fetch(p) ==
  /\ Me(p, "fetch")
  /\ IF proc[p].one
     THEN Set(p, [proc[p] EXCEPT !.pc = "list", !.name = StatusName(ticket)])
     ELSE Plan(p, StatusName(ticket), proc[p].seen)
  /\ UNCHANGED Shared

List(p) ==
  /\ Me(p, "list")
  /\ Plan(p, proc[p].name, Listed)
  /\ UNCHANGED Shared

(* Mutant: a ticket's todo is added without looking for one.               *)
AddTwice(p) ==
  /\ Me(p, "add")
  /\ todos' = Append(todos, [kind |-> "pending", synced |-> proc[p].name])
  /\ Set(p, IF Target(proc[p].name) = "pending" THEN Idle
            ELSE [proc[p] EXCEPT !.id = Len(todos'), !.pc = "set"])
  /\ UNCHANGED <<config, ticket, turn, count, half, raced>>

(* add returns the todo that stands for the ticket already.                *)
Add(p) ==
  /\ Me(p, "add")
  /\ todos' = IF todos # <<>> THEN todos
              ELSE <<[kind |-> "pending", synced |-> proc[p].name]>>
  /\ Set(p, IF Target(proc[p].name) = "pending" THEN Idle
            ELSE [proc[p] EXCEPT !.id = 1, !.pc = "set"])
  /\ UNCHANGED <<config, ticket, turn, count, half, raced>>

(* Mutant: the plan is applied to whatever the todo is now.                *)
CheckNothing(p) ==
  /\ Me(p, "check")
  /\ Go(p, "set")
  /\ raced' = raced \ {p}
  /\ UNCHANGED <<config, ticket, todos, turn, count, half>>

(* moved_since: a status changed since the plan was made is left, and what *)
(* the tracker said is recorded all the same.  The whole status counts:    *)
(* but for a pending one, it may be of the kind seen by another holder's   *)
(* doing.                                                                  *)
CheckMoved(p) ==
  LET now == todos[proc[p].id].kind IN
  /\ Me(p, "check")
  /\ \/ /\ now = proc[p].seen.kind
        /\ Go(p, "set")
     \/ /\ now # proc[p].seen.kind \/ now # "pending"
        /\ Go(p, "record")
  /\ raced' = raced \ {p}
  /\ UNCHANGED <<config, ticket, todos, turn, count, half>>

(* SetStatus by the tracker, which may move any todo and fires nothing.    *)
ApplySync(p) ==
  /\ Me(p, "set")
  /\ todos' = [todos EXCEPT ![proc[p].id].kind = Target(proc[p].name)]
  /\ raced' = Raced
  /\ IF proc[p].seen = Absent THEN Finish(p) ELSE Go(p, "record")
  /\ UNCHANGED <<config, ticket, turn, count, half>>

(***************************************************************************)
(* The tracker and faults                                                  *)
(***************************************************************************)

(* People and the tracker's own workflows move, close and reopen it.       *)
TrackerMoves(field, closed) ==
  /\ count.moves < MaxMoves
  /\ config.github \/ closed = Open
  /\ ticket' = [field |-> field, closed |-> closed]
  /\ ticket' # ticket
  /\ count' = [count EXCEPT !.moves = @ + 1]
  /\ half' = None
  /\ UNCHANGED <<config, todos, proc, turn, raced>>

(* A call fails or the process is killed; its lock is freed.               *)
Fail(p) ==
  /\ ~Me(p, "idle")
  /\ count.faults < MaxFaults
  /\ count' = [count EXCEPT !.faults = @ + 1]
  /\ turn' = IF turn = p THEN NoProc ELSE turn
  /\ Finish(p)
  /\ UNCHANGED <<config, ticket, todos, half, raced>>

Next ==
  \/ \E p \in Procs :
       \/ \E local \in Locals, consent \in BOOLEAN : BeginLocal(p, local, consent)
       \/ ReadTracker(p) \/ CloseIssue(p) \/ ReadField(p) \/ WriteField(p) \/ ApplyLocal(p) \/ RecordSync(p)
       \/ EventTurn(p) \/ EventReads(p) \/ EventWrites(p)
       \/ \E one \in BOOLEAN : BeginSync(p, one)
       \/ Fetch(p) \/ List(p) \/ Add(p) \/ CheckMoved(p) \/ ApplySync(p)
       \/ Fail(p)
  \/ \E field \in Fields, closed \in Reasons \cup {Open} : TrackerMoves(field, closed)

Spec == Init /\ [][Next]_vars

(***************************************************************************)
(* Properties                                                              *)
(***************************************************************************)

(* A push that closed the issue, or moved an open ticket, and then stopped *)
(* can be run again: until someone else moves the ticket, nothing it finds *)
(* there needs consent (push_status: "it needs no --overwrite-tracker").   *)
RerunNeedsNoConsent ==
  (half # None /\ todos # <<>>)
  => VerdictOf(half, todos[1].synced, StatusName(ticket)) # "conflict"

(* A push writes the field of an open ticket over another value only where *)
(* that value is the one last synced, one the event names, one a person    *)
(* agreed to lose, or one that came after the push had read the tracker.   *)
OverwritesAreAgreed ==
  [][\A p \in Procs :
       (/\ Me(p, "write") /\ ~Me(p, "write")'
        /\ ticket.closed = Open
        /\ ticket'.field # ticket.field)
       => \/ proc[p].consent
          \/ ticket.field \in {proc[p].seen.synced} \cup TicketEvents[proc[p].local].from
          \/ ticket.field # proc[p].name]_vars

(* A sync writes over a status other than the one it listed only where     *)
(* that status came after the sync's last look (apply: the change made     *)
(* while the tracker answered wins).                                       *)
LocalChangesStand ==
  [][\A p \in Procs :
       (/\ Me(p, "set") /\ ~Me(p, "set")'
        /\ todos' # todos
        /\ proc[p].seen # Absent
        /\ todos[proc[p].id].kind # proc[p].seen.kind)
       => p \in raced]_vars

(* Once every event has run, a ticket that only devkit moved is not left   *)
(* in progress behind a completed todo, however quickly the start and the  *)
(* finish came (fire_current looks at the todo again under its lock).      *)
FinishedIsNotInProgress ==
  (/\ \A p \in Procs : Me(p, "idle")
   /\ ~config.pushes
   /\ count.moves = 0 /\ count.faults = 0
   /\ todos # <<>>
   /\ todos[1].kind = "completed")
  => StatusMap[ticket.field] # "in_progress"
=============================================================================
