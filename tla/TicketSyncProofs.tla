-------------------------- MODULE TicketSyncProofs --------------------------
(***************************************************************************)
(* Proofs about a ticket and its todo, for any number of processes and any *)
(* statuses, events and bounds: a push that stopped half-way needs no      *)
(* consent when it is run again, what a push or a sync writes over was     *)
(* agreed or came too late to be seen, and on a board whose events agree   *)
(* with its statuses a finished todo leaves no ticket in progress.         *)
(***************************************************************************)
EXTENDS TicketSync, TLAPS

-----------------------------------------------------------------------------
(* The inductive invariant, by parts.                                      *)

Todo == [kind : Kinds, synced : Names]
WriteSet == [close : Reasons \cup {None}, field : {None, "set", "move"},
             record : Names \cup {None}]
Process == [pc : Places, local : Locals, id : {0, 1},
            seen : Todo \cup {Absent}, name : Names \cup {None},
            writes : WriteSet, consent : BOOLEAN, one : BOOLEAN]

Event(x) == TicketEvents[x.local]

(* What a process has at hand where it stands.  Once it has a todo there   *)
(* is one; a push has read the tracker's name, a sync too.                 *)
HasTodo == {"read", "close", "field", "write", "apply", "record", "event", "move",
            "moving", "check", "set"}

Equipped(x) ==
  /\ x.pc \in HasTodo => x.id = 1
  /\ x.pc \in {"list", "add", "check", "set"} => x.name \in Names
  /\ x.pc \in {"add", "check", "set"} => x.writes.record = None
  /\ x.pc = "record" => x.writes.record # None \/ x.name \in Names
  /\ x.pc = "add" => x.seen = Absent

(* What a push writes is what its change asks for, and without pushes a    *)
(* change is applied at once and fires its event.                          *)
PushOK(x) ==
  /\ x.pc = "close" => x.writes.close = Closes(x.local) /\ Closes(x.local) # None
  /\ x.pc \in {"field", "write"} => x.writes.field # None
  /\ x.pc \in {"close", "field", "write"} /\ x.writes.field # None => Event(x) # NoEvent
  /\ x.pc \in {"read", "close", "field", "write"} => config.pushes
  /\ x.pc = "apply" /\ ~config.pushes => x.writes.record = None
  /\ x.pc \in {"event", "move", "moving"} =>
       x.local \in {"start", "done"} /\ Event(x) # NoEvent /\ ~config.pushes

(* What a push read of an open ticket, once it goes on to write the field. *)
AgreedOK(x) ==
  x.pc \in {"close", "field", "write"} /\ x.writes.field # None /\ ~x.consent =>
    \/ x.name \notin Fields
    \/ x.name \in Event(x).from
    \/ x.name = x.seen.synced

(* Events take turns.                                                      *)
TurnOK == \A p \in Procs : turn = p <=> proc[p].pc \in {"move", "moving"}

(* The tracker holds what the last push wrote, until someone moves it.     *)
HalfOK ==
  half # None =>
    \/ Closes(half) # None /\ ticket.closed = Closes(half)
    \/ /\ Closes(half) = None /\ TicketEvents[half] # NoEvent
       /\ ticket.closed = Open /\ ticket.field = TicketEvents[half].to

(* A sync that looked at the todo sees it unchanged, or is marked raced.   *)
RacedOK ==
  \A p \in Procs : proc[p].pc = "set" /\ proc[p].seen # Absent =>
    todos[1].kind = proc[p].seen.kind \/ p \in raced

PlaceOK ==
  \A p \in Procs :
    /\ proc[p].id = 1 \/ proc[p].seen # Absent => todos # <<>>
    /\ Equipped(proc[p]) /\ PushOK(proc[p]) /\ AgreedOK(proc[p])

Typed == TypeOK /\ proc \in [Procs -> Process]

IInv == Typed /\ PlaceOK /\ TurnOK /\ HalfOK /\ RacedOK

(* A board whose events agree with its statuses: a finish moves the ticket *)
(* to a completed status, and does so from every status in progress; a     *)
(* start names where it moves from, and no completed status is among them. *)
BoardInOrder ==
  LET start == TicketEvents["start"]
      done  == TicketEvents["done"]
  IN  /\ done # NoEvent /\ StatusMap[done.to] = "completed"
      /\ done.from = {} \/ \A f \in Fields : StatusMap[f] = "in_progress" => f \in done.from
      /\ start = NoEvent \/ (start.from # {} /\ \A f \in start.from : StatusMap[f] # "completed")

(* Without pushes only events move the ticket, and none that is completed  *)
(* is left.                                                                *)
Alone == ~config.pushes /\ count.moves = 0 /\ count.faults = 0
Completed == StatusMap[ticket.field] = "completed"
IsDone == todos # <<>> /\ todos[1].kind = "completed"
Finisher(x) == x.pc = "event" /\ x.local = "done"
Finishes(x) == x.pc \in {"event", "move", "moving"} /\ x.local = "done"

FinishInv ==
  Alone =>
    /\ ticket.closed = Open
    /\ \A p \in Procs :
         proc[p].pc \in {"list", "add", "check", "set"}
           => /\ proc[p].name \in Fields
              /\ StatusMap[proc[p].name] = "completed" => Completed
    /\ IsDone => \/ StatusMap[ticket.field] # "in_progress"
                 \/ \E p \in Procs : Finishes(proc[p])
    /\ \A p \in Procs : proc[p].local = "start" =>
         /\ proc[p].pc = "move" /\ IsDone => Completed \/ \E q \in Procs : Finisher(proc[q])
         /\ proc[p].pc = "moving" =>
              /\ ticket.field \in TicketEvents["start"].from
              /\ IsDone => \E q \in Procs : Finisher(proc[q])

-----------------------------------------------------------------------------
(* The values a process is made of.                                        *)

LEMMA NamesAre ==
  /\ "closed:completed" \in Names /\ "closed:not_planned" \in Names
  /\ "closed:completed" \notin Fields /\ "closed:not_planned" \notin Fields
  /\ Fields \subseteq Names
  /\ \A n \in Names : n \in Fields \/ n \in {"closed:completed", "closed:not_planned"}
  /\ None \notin Names /\ None \notin Fields
  BY TicketSyncAssumption DEF Names, Reasons, Closed, None

(* What a verdict finds on the tracker is a name.                          *)
LEMMA StatusNameIsName ==
  ASSUME NEW t \in [field : Fields, closed : Reasons \cup {Open}]
  PROVE  StatusName(t) \in Names
  BY NamesAre DEF StatusName, Closed, Reasons, Open

LEMMA TargetIsKind ==
  ASSUME NEW n \in Names
  PROVE  Target(n) \in Kinds
<1>1. CASE n \in Fields
  <2>1. StatusMap[n] \in Kinds  BY <1>1, TicketSyncAssumption
  <2>2. Target(n) = StatusMap[n]  BY <1>1, NamesAre DEF Target, Closed
  <2> QED  BY <2>1, <2>2
<1>2. CASE n = "closed:completed"  BY <1>2 DEF Target, Closed, Kinds
<1>3. CASE n = "closed:not_planned"  BY <1>3 DEF Target, Closed, Kinds
<1> QED  BY <1>1, <1>2, <1>3, NamesAre

LEMMA AbsentIsNoTodo == Absent \notin Todo
<1>1. Absent.kind = None  BY DEF Absent
<1>2. None \notin Kinds  BY DEF None, Kinds
<1> QED  BY <1>1, <1>2 DEF Todo

LEMMA IdleFacts ==
  /\ Idle \in Process
  /\ Idle.pc = "idle" /\ Idle.local = "stop" /\ Idle.id = 0 /\ Idle.seen = Absent
  /\ Idle.name = None /\ Idle.writes = NoWrites /\ Idle.writes.record = None
  /\ Idle.writes.field = None
<1>1. NoWrites \in WriteSet  BY DEF NoWrites, WriteSet
<1>2. NoWrites.record = None /\ NoWrites.field = None  BY DEF NoWrites
<1>3. Absent \in Todo \cup {Absent}  OBVIOUS
<1>4. /\ Idle.pc = "idle" /\ Idle.local = "stop" /\ Idle.id = 0 /\ Idle.seen = Absent
      /\ Idle.name = None /\ Idle.writes = NoWrites
  BY DEF Idle
<1>5. Idle \in Process  BY <1>1, <1>3 DEF Idle, Process, Places, Locals
<1> QED  BY <1>2, <1>4, <1>5

(* What each change closes.                                                *)
LEMMA ClosesAre ==
  ASSUME NEW l
  PROVE  /\ Closes(l) \in Reasons \cup {None}
         /\ Closes(l) # None => Closed(Closes(l)) \in Names /\ Closed(Closes(l)) \notin Fields
  BY NamesAre DEF Closes, Reasons, Closed, None

(* What an event moves to.                                                 *)
LEMMA EventsAre ==
  ASSUME NEW l \in Locals, TicketEvents[l] # NoEvent
  PROVE  /\ TicketEvents[l].from \subseteq Fields /\ TicketEvents[l].to \in Fields
         /\ l # "stop"
  BY TicketSyncAssumption DEF Locals

(* What a push writes.                                                     *)
LEMMA WritesAreTyped ==
  ASSUME NEW l \in Locals, NEW v, NEW n \in Names
  PROVE  WritesOf(l, v, n) \in WriteSet
<1>1. NoEvent.to = None  BY DEF NoEvent
<1>2. TicketEvents[l].to \in Names \cup {None}  BY <1>1, EventsAre, NamesAre
<1>3. Closes(l) \in Reasons \cup {None}  BY ClosesAre
<1>4. (IF Closes(l) = None THEN None ELSE Closed(Closes(l))) \in Names \cup {None}
  BY ClosesAre
<1>5. CASE v \in {"write", "conflict"}  BY <1>2, <1>3, <1>4, <1>5 DEF WritesOf, WriteSet
<1>6. CASE v = "already"  BY <1>6 DEF WritesOf, WriteSet
<1>7. CASE v \notin {"write", "conflict", "already"}  BY <1>3, <1>4, <1>7 DEF WritesOf, WriteSet
<1> QED  BY <1>5, <1>6, <1>7

(* A push that goes on to write the field of an open ticket without        *)
(* consent read a value the event names or the last sync recorded.         *)
LEMMA PushesAgree ==
  ASSUME NEW l \in Locals, NEW base, NEW n \in Names, NEW v, v = VerdictOf(l, base, n),
         NEW w, w = WritesOf(l, v, n)
  PROVE  /\ w.close # None => w.close = Closes(l)
         /\ w.field # None => TicketEvents[l] # NoEvent
         /\ w.field # None /\ v # "conflict" =>
              n \notin Fields \/ n \in TicketEvents[l].from \/ n = base
<1>1. /\ w.close # None => w.close = Closes(l)
      /\ w.field # None => TicketEvents[l] # NoEvent
  BY DEF WritesOf
<1>2. ASSUME w.field # None, v # "conflict"
      PROVE  n \notin Fields \/ n \in TicketEvents[l].from \/ n = base
  <2>1. v = "write" \/ (v = "already" /\ Closes(l) # None)  BY <1>2 DEF WritesOf
  <2> QED  BY <1>1, <1>2, <2>1 DEF VerdictOf
<1> QED  BY <1>1, <1>2

-----------------------------------------------------------------------------
(* How a process moves.                                                    *)

(* The process that moves is the only one that does.                       *)
LEMMA OnlyOneMoves ==
  ASSUME Typed, NEW p \in Procs, NEW new \in Process, Set(p, new)
  PROVE  /\ proc' \in [Procs -> Process]
         /\ proc'[p] = new
         /\ \A q \in Procs : q # p => proc'[q] = proc[q]
  BY DEF Typed, Set

LEMMA GoMoves ==
  ASSUME Typed, NEW p \in Procs, NEW pc \in Places, Go(p, pc)
  PROVE  \E new \in Process :
           /\ Set(p, new) /\ new.pc = pc
           /\ new.local = proc[p].local /\ new.id = proc[p].id /\ new.seen = proc[p].seen
           /\ new.name = proc[p].name /\ new.writes = proc[p].writes
           /\ new.consent = proc[p].consent
<1>1. PICK x \in Process : x = proc[p]  BY DEF Typed
<1>2. PICK new : new = [x EXCEPT !.pc = pc]  OBVIOUS
<1>3. /\ new \in Process /\ new.pc = pc
      /\ new.local = x.local /\ new.id = x.id /\ new.seen = x.seen
      /\ new.name = x.name /\ new.writes = x.writes /\ new.consent = x.consent
  BY <1>2 DEF Process
<1> QED  BY <1>1, <1>2, <1>3 DEF Go

LEMMA FinishMoves ==
  ASSUME NEW p \in Procs, Finish(p)
  PROVE  \E new \in Process :
           /\ Set(p, new) /\ new.pc = "idle" /\ new.id = 0 /\ new.seen = Absent
  BY IdleFacts DEF Finish

LEMMA PlacesAre ==
  Places = {"idle", "read", "close", "field", "write", "apply", "record", "event", "move",
            "moving", "list", "fetch", "add", "check", "set"}
  BY DEF Places

(* What a plan does: nothing, add the todo, or check and set it.           *)
LEMMA PlanMoves ==
  ASSUME NEW p \in Procs, NEW n \in Names, NEW s \in Todo \cup {Absent}, Plan(p, n, s)
  PROVE  \E new \in Process :
           /\ Set(p, new)
           /\ \/ new.pc = "idle" /\ new.id = 0 /\ new.seen = Absent
              \/ /\ new.pc = "add" /\ new.id = 0 /\ new.name = n /\ new.seen = Absent
                 /\ new.writes.record = None
              \/ /\ new.pc = "check" /\ new.id = 1 /\ new.name = n /\ new.seen = s
                 /\ s # Absent /\ new.writes.record = None
<1>1. CASE s = Absent
  <2>1. PICK x \in Process : x = Idle  BY IdleFacts
  <2>2. PICK new : new = [x EXCEPT !.pc = "add", !.name = n]  OBVIOUS
  <2>3. /\ new \in Process /\ new.pc = "add" /\ new.name = n
        /\ new.id = x.id /\ new.seen = x.seen /\ new.writes = x.writes
    BY <2>2, PlacesAre DEF Process
  <2>4. Set(p, new)  BY <1>1, <2>1, <2>2 DEF Plan
  <2> QED  BY <2>1, <2>3, <2>4, IdleFacts
<1>2. CASE s # Absent /\ s.synced # n
  <2>1. PICK x \in Process : x = Idle  BY IdleFacts
  <2>2. PICK new : new = [x EXCEPT !.pc = "check", !.name = n, !.seen = s, !.id = 1]  OBVIOUS
  <2>3. /\ new \in Process /\ new.pc = "check" /\ new.name = n
        /\ new.id = 1 /\ new.seen = s /\ new.writes = x.writes
    BY <2>2, PlacesAre DEF Process
  <2>4. Set(p, new)  BY <1>2, <2>1, <2>2 DEF Plan
  <2> QED  BY <1>2, <2>1, <2>3, <2>4, IdleFacts
<1>3. CASE s # Absent /\ s.synced = n
  BY <1>3, IdleFacts DEF Plan
<1> QED  BY <1>1, <1>2, <1>3

(* A todo list of one: what writing its todo leaves.                       *)
LEMMA TodosAre ==
  ASSUME Typed
  PROVE  /\ todos \in Seq(Todo) /\ Len(todos) <= 1
         /\ todos # <<>> => /\ Len(todos) = 1 /\ 1 \in DOMAIN todos /\ todos[1] \in Todo
<1>1. todos \in Seq(Todo) /\ Len(todos) <= 1  BY DEF Typed, TypeOK, Todo
<1>2. ASSUME todos # <<>>
      PROVE  Len(todos) = 1 /\ 1 \in DOMAIN todos /\ todos[1] \in Todo
  <2>1. PICK n \in Nat : n = Len(todos)  BY <1>1
  <2>3. n # 0 /\ n <= 1  BY <1>1, <1>2, <2>1
  <2>2. Len(todos) = 1  BY <2>1, <2>3
  <2> QED  BY <1>1, <2>2
<1> QED  BY <1>1, <1>2

LEMMA TodoWritten ==
  ASSUME Typed, todos # <<>>, NEW t \in Todo, todos' = [todos EXCEPT ![1] = t]
  PROVE  /\ todos' \in Seq(Todo) /\ Len(todos') <= 1 /\ todos' # <<>>
         /\ todos'[1] = t
<1>1. todos \in Seq(Todo) /\ Len(todos) = 1  BY TodosAre
<1> QED  BY <1>1, SMTT(30)

LEMMA KindWritten ==
  ASSUME Typed, todos # <<>>, NEW k \in Kinds, todos' = [todos EXCEPT ![1].kind = k]
  PROVE  /\ todos' \in Seq(Todo) /\ Len(todos') <= 1 /\ todos' # <<>>
         /\ todos'[1].kind = k
<1>1. PICK x \in Todo : x = todos[1]  BY TodosAre
<1>2. PICK t : t = [x EXCEPT !.kind = k]  OBVIOUS
<1>3. t \in Todo /\ t.kind = k  BY <1>2 DEF Todo
<1>4. todos' = [todos EXCEPT ![1] = t]  BY <1>1, <1>2
<1> QED  BY <1>3, <1>4, TodoWritten

LEMMA SyncedWritten ==
  ASSUME Typed, todos # <<>>, NEW n \in Names, todos' = [todos EXCEPT ![1].synced = n]
  PROVE  /\ todos' \in Seq(Todo) /\ Len(todos') <= 1 /\ todos' # <<>>
         /\ todos'[1].kind = todos[1].kind
<1>1. PICK x \in Todo : x = todos[1]  BY TodosAre
<1>2. PICK t : t = [x EXCEPT !.synced = n]  OBVIOUS
<1>3. t \in Todo /\ t.kind = x.kind  BY <1>2 DEF Todo
<1>4. todos' = [todos EXCEPT ![1] = t]  BY <1>1, <1>2
<1> QED  BY <1>1, <1>3, <1>4, TodoWritten

Turning == {"move", "moving"}

TurnMove(p, new) ==
  \/ turn' = turn /\ (new.pc \in Turning <=> proc[p].pc \in Turning)
  \/ turn = NoProc /\ turn' = p /\ new.pc \in Turning
  \/ turn = p /\ turn' = NoProc /\ new.pc \notin Turning

(* The syncs that have looked: the todo stands, or they are marked.        *)
LooksStand(p, new) ==
  /\ \A q \in Procs : q # p /\ proc[q].pc = "set" =>
       \/ todos'[1].kind = todos[1].kind /\ (q \in raced => q \in raced')
       \/ q \in raced'
  /\ new.pc = "set" /\ new.seen # Absent => todos'[1].kind = new.seen.kind \/ p \in raced'

(* A step of one process: what it has to show.                             *)
LEMMA ProcessStep ==
  ASSUME IInv, NEW p \in Procs, NEW new \in Process, Set(p, new),
         config' = config, ticket' \in [field : Fields, closed : Reasons \cup {Open}],
         todos' \in Seq(Todo), Len(todos') <= 1, todos # <<>> => todos' # <<>>,
         turn' \in Procs \cup {NoProc},
         count' \in [commands : 0 .. MaxCommands, syncs : 0 .. MaxSyncs,
                     moves : 0 .. MaxMoves, faults : 0 .. MaxFaults],
         half' \in Locals \cup {None}, raced' \subseteq Procs,
         new.id = 1 \/ new.seen # Absent => todos' # <<>>,
         Equipped(new), PushOK(new), AgreedOK(new),
         TurnMove(p, new), HalfOK', LooksStand(p, new)
  PROVE  IInv'
<1>0. Typed /\ PlaceOK /\ TurnOK /\ RacedOK  BY DEF IInv
<1>1. /\ proc' \in [Procs -> Process] /\ proc'[p] = new
      /\ \A q \in Procs : q # p => proc'[q] = proc[q]
  BY <1>0, OnlyOneMoves
<1>2. PlaceOK'
  <2>1. ASSUME NEW q \in Procs
        PROVE  /\ proc'[q].id = 1 \/ proc'[q].seen # Absent => todos' # <<>>
               /\ Equipped(proc'[q]) /\ PushOK(proc'[q]) /\ AgreedOK(proc'[q])
    <3>1. CASE q = p  BY <1>1, <3>1
    <3>2. CASE q # p  BY <1>0, <1>1, <3>2 DEF PlaceOK
    <3> QED  BY <3>1, <3>2
  <2> QED  BY <2>1 DEF PlaceOK, Equipped, PushOK, AgreedOK, Closes, Event
<1>3. Typed'
  <2>1. ASSUME NEW q \in Procs
        PROVE  /\ proc'[q].pc \in Places /\ proc'[q].local \in Locals
               /\ proc'[q].id \in 0 .. Len(todos')
               /\ proc'[q].seen \in Todo \cup {Absent}
               /\ proc'[q].name \in Names \cup {None}
    <3>1. PICK x \in Process : x = proc'[q]  BY <1>1
    <3>2. x.id = 1 => todos' # <<>>  BY <1>2, <3>1 DEF PlaceOK
    <3>3. x.id \in {0, 1}  BY DEF Process
    <3>4. x.id \in 0 .. Len(todos')
      <4>1. Len(todos') \in Nat /\ (todos' # <<>> => Len(todos') # 0)  OBVIOUS
      <4> QED  BY <3>2, <3>3, <4>1
    <3> QED  BY <3>1, <3>4 DEF Process
  <2>2. config' \in [github : BOOLEAN, pushes : BOOLEAN]  BY <1>0 DEF Typed, TypeOK
  <2> QED  BY <1>1, <2>1, <2>2 DEF Typed, TypeOK, Todo
<1>4. TurnOK'
  <2>1. ASSUME NEW q \in Procs
        PROVE  turn' = q <=> proc'[q].pc \in Turning
    <3>1. q # NoProc  BY TicketSyncAssumption
    <3>2. turn = q <=> proc[q].pc \in Turning  BY <1>0 DEF TurnOK, Turning
    <3>3. CASE q = p  BY <1>1, <3>1, <3>2, <3>3 DEF TurnMove
    <3>4. CASE q # p  BY <1>1, <3>1, <3>2, <3>4 DEF TurnMove
    <3> QED  BY <3>3, <3>4
  <2> QED  BY <2>1 DEF TurnOK, Turning
<1>5. RacedOK'
  <2>1. ASSUME NEW q \in Procs, proc'[q].pc = "set", proc'[q].seen # Absent
        PROVE  todos'[1].kind = proc'[q].seen.kind \/ q \in raced'
    <3>1. CASE q = p  BY <1>1, <2>1, <3>1 DEF LooksStand
    <3>2. CASE q # p
      <4>1. proc'[q] = proc[q]  BY <1>1, <3>2
      <4>2. todos[1].kind = proc[q].seen.kind \/ q \in raced  BY <1>0, <2>1, <4>1 DEF RacedOK
      <4> QED  BY <2>1, <3>2, <4>1, <4>2 DEF LooksStand
    <3> QED  BY <3>1, <3>2
  <2> QED  BY <2>1 DEF RacedOK
<1> QED  BY <1>2, <1>3, <1>4, <1>5 DEF IInv

(* A step that leaves all that is shared as it is.                         *)
LEMMA PrivateStep ==
  ASSUME IInv, NEW p \in Procs, NEW new \in Process, Set(p, new), UNCHANGED Shared,
         new.id = 1 \/ new.seen # Absent => todos # <<>>,
         Equipped(new), PushOK(new), AgreedOK(new),
         proc[p].pc \notin Turning, new.pc \notin Turning,
         new.pc # "set"
  PROVE  IInv'
<1>1. /\ config' = config /\ ticket' = ticket /\ todos' = todos /\ turn' = turn
      /\ count' = count /\ half' = half /\ raced' = raced
  BY DEF Shared
<1>2. HalfOK'  BY <1>1 DEF IInv, HalfOK, Closes
<1>3. TurnMove(p, new) /\ LooksStand(p, new)  BY <1>1 DEF TurnMove, LooksStand
<1>4. todos \in Seq(Todo) /\ Len(todos) <= 1  BY TodosAre DEF IInv
<1> QED  BY <1>1, <1>2, <1>3, <1>4, ProcessStep DEF IInv, Typed, TypeOK

-----------------------------------------------------------------------------
(* Each action keeps the invariant.                                        *)

LEMMA BeginLocalKeeps ==
  ASSUME IInv, NEW p \in Procs, NEW local \in Locals, NEW consent \in BOOLEAN,
         BeginLocal(p, local, consent)
  PROVE  IInv'
<1>1. Typed /\ TypeOK /\ HalfOK  BY DEF IInv, Typed
<1>2. todos # <<>> /\ todos[1] \in Todo /\ todos \in Seq(Todo) /\ Len(todos) <= 1
  BY <1>1, TodosAre DEF BeginLocal
<1>3. PICK pc \in {"read", "apply"} : pc = IF Pushed(local) THEN "read" ELSE "apply"
  OBVIOUS
<1>4. PICK x \in Process : x = Idle  BY IdleFacts
<1>5. PICK new : new = [x EXCEPT !.pc = pc, !.local = local, !.id = 1, !.seen = todos[1],
                                 !.consent = consent]
  OBVIOUS
<1>6. /\ new \in Process /\ new.pc = pc /\ new.local = local /\ new.id = 1
      /\ new.writes = x.writes
  BY <1>2, <1>5, PlacesAre DEF Process
<1>7. /\ Set(p, new) /\ proc[p].pc = "idle"
      /\ UNCHANGED <<config, ticket, todos, turn, half, raced>>
  BY <1>3, <1>4, <1>5 DEF BeginLocal, Me
<1>8. count' \in [commands : 0 .. MaxCommands, syncs : 0 .. MaxSyncs,
                  moves : 0 .. MaxMoves, faults : 0 .. MaxFaults]
  BY <1>1, TicketSyncAssumption DEF BeginLocal, TypeOK
<1>9. Equipped(new)  BY <1>3, <1>6 DEF Equipped, HasTodo
<1>10. PushOK(new) /\ AgreedOK(new)
  <2>1. new.writes.record = None /\ new.writes.field = None  BY <1>4, <1>6, IdleFacts
  <2>2. pc = "read" => config.pushes  BY <1>3 DEF Pushed
  <2> QED  BY <1>3, <1>6, <2>1, <2>2 DEF PushOK, AgreedOK
<1>11. HalfOK'  BY <1>1, <1>7 DEF HalfOK, Closes
<1>12. TurnMove(p, new) /\ LooksStand(p, new)
  BY <1>3, <1>6, <1>7 DEF TurnMove, LooksStand, Turning
<1> QED  BY <1>1, <1>2, <1>6, <1>7, <1>8, <1>9, <1>10, <1>11, <1>12, ProcessStep DEF TypeOK

(* Where a push goes on, and with what.                                    *)
LEMMA ProceedMoves ==
  ASSUME Typed, NEW p \in Procs, NEW n \in Names, NEW w \in WriteSet, Proceed(p, n, w)
  PROVE  \E new \in Process :
           /\ Set(p, new)
           /\ new.pc \in {"close", "field", "apply"}
           /\ new.pc = "close" => w.close # None
           /\ new.pc = "field" => w.field # None
           /\ new.local = proc[p].local /\ new.id = proc[p].id /\ new.seen = proc[p].seen
           /\ new.name = n /\ new.writes = w /\ new.consent = proc[p].consent
<1>1. PICK x \in Process : x = proc[p]  BY DEF Typed
<1>2. PICK pc \in {"close", "field", "apply"} :
        pc = IF w.close # None THEN "close" ELSE IF w.field # None THEN "field" ELSE "apply"
  OBVIOUS
<1>3. PICK new : new = [x EXCEPT !.name = n, !.writes = w, !.pc = pc]  OBVIOUS
<1>4. /\ new \in Process /\ new.pc = pc
      /\ new.local = x.local /\ new.id = x.id /\ new.seen = x.seen
      /\ new.name = n /\ new.writes = w /\ new.consent = x.consent
  BY <1>3, PlacesAre DEF Process
<1>5. Set(p, new)  BY <1>1, <1>2, <1>3 DEF Proceed
<1> QED  BY <1>1, <1>2, <1>4, <1>5

LEMMA ReadTrackerKeeps ==
  ASSUME IInv, NEW p \in Procs, ReadTracker(p)
  PROVE  IInv'
<1>1. Typed /\ TypeOK  BY DEF IInv, Typed
<1>2. proc[p].pc = "read" /\ UNCHANGED Shared  BY DEF ReadTracker, Me
<1>3. /\ proc[p].id = 1 /\ todos # <<>> /\ config.pushes
  BY <1>2 DEF IInv, PlaceOK, Equipped, HasTodo, PushOK
<1>4. proc[p].local \in Locals  BY <1>1 DEF TypeOK
<1>5. PICK n \in Names : n = StatusName(ticket)  BY <1>1, StatusNameIsName DEF TypeOK
<1>6. PICK v : v = VerdictOf(proc[p].local, proc[p].seen.synced, n)  OBVIOUS
<1>7. PICK w \in WriteSet : w = WritesOf(proc[p].local, v, n)  BY <1>4, WritesAreTyped
<1>8. CASE (v # "conflict" \/ proc[p].consent) /\ Proceed(p, n, w)
  <2>1. PICK new \in Process :
           /\ Set(p, new)
           /\ new.pc \in {"close", "field", "apply"}
           /\ new.pc = "close" => w.close # None
           /\ new.pc = "field" => w.field # None
           /\ new.local = proc[p].local /\ new.id = proc[p].id /\ new.seen = proc[p].seen
           /\ new.name = n /\ new.writes = w /\ new.consent = proc[p].consent
    BY <1>1, <1>8, ProceedMoves
  <2>2. /\ w.close # None => w.close = Closes(proc[p].local)
        /\ w.field # None => TicketEvents[proc[p].local] # NoEvent
        /\ w.field # None /\ v # "conflict" =>
             \/ n \notin Fields
             \/ n \in TicketEvents[proc[p].local].from
             \/ n = proc[p].seen.synced
    BY <1>4, <1>6, <1>7, PushesAgree
  <2>3. Equipped(new)  BY <1>3, <2>1 DEF Equipped
  <2>4. PushOK(new)  BY <1>3, <2>1, <2>2 DEF PushOK, Event
  <2>5. AgreedOK(new)  BY <1>8, <2>1, <2>2 DEF AgreedOK, Event
  <2> QED  BY <1>2, <1>3, <2>1, <2>3, <2>4, <2>5, PrivateStep DEF Turning
<1>9. CASE Finish(p)
  <2>1. PICK new \in Process : Set(p, new) /\ new.pc = "idle" /\ new.id = 0 /\ new.seen = Absent
    BY <1>9, FinishMoves
  <2>2. Equipped(new) /\ PushOK(new) /\ AgreedOK(new)
    BY <2>1 DEF Equipped, HasTodo, PushOK, AgreedOK
  <2> QED  BY <1>2, <2>1, <2>2, PrivateStep DEF Turning
<1>10. CASE Set(p, [Idle EXCEPT !.pc = "fetch", !.one = TRUE])
  <2>1. PICK b \in BOOLEAN : b = TRUE  OBVIOUS
  <2>2. PICK x \in Process : x = Idle  BY IdleFacts
  <2>3. PICK y : y = [x EXCEPT !.pc = "fetch"]  OBVIOUS
  <2>4. y \in Process /\ y.pc = "fetch" /\ y.id = x.id /\ y.seen = x.seen  BY <2>3, PlacesAre DEF Process
  <2>5. PICK new : new = [y EXCEPT !.one = b]  OBVIOUS
  <2>6. new \in Process /\ new.pc = "fetch" /\ new.id = x.id /\ new.seen = x.seen
    BY <2>4, <2>5 DEF Process
  <2>7. Set(p, new)  BY <1>10, <2>1, <2>2, <2>3, <2>5
  <2>8. new.id = 0 /\ new.seen = Absent  BY <2>2, <2>6, IdleFacts
  <2>9. Equipped(new) /\ PushOK(new) /\ AgreedOK(new)
    BY <2>6 DEF Equipped, HasTodo, PushOK, AgreedOK
  <2> QED  BY <1>2, <2>6, <2>7, <2>8, <2>9, PrivateStep DEF Turning
<1> QED  BY <1>5, <1>6, <1>7, <1>8, <1>9, <1>10 DEF ReadTracker

LEMMA CloseIssueKeeps ==
  ASSUME IInv, NEW p \in Procs, CloseIssue(p)
  PROVE  IInv'
<1>1. Typed /\ TypeOK /\ PlaceOK  BY DEF IInv, Typed
<1>2. /\ proc[p].pc = "close" /\ UNCHANGED <<config, todos, turn, count, raced>>
      /\ ticket' = [ticket EXCEPT !.closed = proc[p].writes.close]
      /\ half' = proc[p].local
  BY DEF CloseIssue, Me
<1>3. PICK pc \in {"field", "apply"} :
        /\ pc = IF proc[p].writes.field # None THEN "field" ELSE "apply"
        /\ Go(p, pc)
  BY DEF CloseIssue
<1>4. PICK new \in Process :
        /\ Set(p, new) /\ new.pc = pc
        /\ new.local = proc[p].local /\ new.id = proc[p].id /\ new.seen = proc[p].seen
        /\ new.name = proc[p].name /\ new.writes = proc[p].writes
        /\ new.consent = proc[p].consent
  BY <1>1, <1>3, GoMoves, PlacesAre
<1>5. /\ proc[p].id = 1 /\ todos # <<>> /\ config.pushes
      /\ proc[p].writes.close = Closes(proc[p].local) /\ Closes(proc[p].local) # None
      /\ proc[p].writes.field # None => Event(proc[p]) # NoEvent
      /\ AgreedOK(proc[p])
  BY <1>1, <1>2 DEF PlaceOK, Equipped, HasTodo, PushOK
<1>6. ticket' \in [field : Fields, closed : Reasons \cup {Open}]
  <2>1. Closes(proc[p].local) \in Reasons  BY <1>5, ClosesAre
  <2> QED  BY <1>1, <1>2, <1>5, <2>1 DEF TypeOK
<1>7. Equipped(new)  BY <1>3, <1>4, <1>5 DEF Equipped
<1>8. PushOK(new)  BY <1>3, <1>4, <1>5 DEF PushOK, Event
<1>9. AgreedOK(new)  BY <1>2, <1>3, <1>4, <1>5 DEF AgreedOK, Event
<1>10. HalfOK'
  <2>1. ticket'.closed = Closes(proc[p].local)  BY <1>1, <1>2, <1>5 DEF TypeOK
  <2>3. half' # None => Closes(half)' # None /\ ticket'.closed = Closes(half)'
    BY <1>2, <1>5, <2>1 DEF Closes
  <2> QED  BY <2>3 DEF HalfOK
<1>11. TurnMove(p, new) /\ LooksStand(p, new)
  BY <1>2, <1>3, <1>4 DEF TurnMove, LooksStand, Turning
<1>12. half' \in Locals \cup {None} /\ todos \in Seq(Todo) /\ Len(todos) <= 1
  BY <1>1, <1>2, TodosAre DEF TypeOK
<1> QED  BY <1>1, <1>2, <1>4, <1>5, <1>6, <1>7, <1>8, <1>9, <1>10, <1>11, <1>12, ProcessStep
         DEF TypeOK

LEMMA ReadFieldKeeps ==
  ASSUME IInv, NEW p \in Procs, ReadField(p)
  PROVE  IInv'
<1>1. Typed /\ TypeOK /\ PlaceOK  BY DEF IInv, Typed
<1>2. proc[p].pc = "field" /\ UNCHANGED Shared  BY DEF ReadField, Me
<1>3. PICK pc \in {"write", "apply"} : Go(p, pc)  BY DEF ReadField
<1>4. PICK new \in Process :
        /\ Set(p, new) /\ new.pc = pc
        /\ new.local = proc[p].local /\ new.id = proc[p].id /\ new.seen = proc[p].seen
        /\ new.name = proc[p].name /\ new.writes = proc[p].writes
        /\ new.consent = proc[p].consent
  BY <1>1, <1>3, GoMoves, PlacesAre
<1>5. /\ proc[p].id = 1 /\ todos # <<>> /\ config.pushes
      /\ proc[p].writes.field # None /\ Event(proc[p]) # NoEvent
      /\ AgreedOK(proc[p])
  BY <1>1, <1>2 DEF PlaceOK, Equipped, HasTodo, PushOK
<1>6. Equipped(new)  BY <1>3, <1>4, <1>5 DEF Equipped
<1>7. PushOK(new)  BY <1>3, <1>4, <1>5 DEF PushOK, Event
<1>8. AgreedOK(new)  BY <1>2, <1>3, <1>4, <1>5 DEF AgreedOK, Event
<1> QED  BY <1>2, <1>3, <1>4, <1>5, <1>6, <1>7, <1>8, PrivateStep DEF Turning

LEMMA WriteFieldKeeps ==
  ASSUME IInv, NEW p \in Procs, WriteField(p)
  PROVE  IInv'
<1>1. Typed /\ TypeOK /\ PlaceOK /\ HalfOK  BY DEF IInv, Typed
<1>2. /\ proc[p].pc = "write" /\ UNCHANGED <<config, todos, turn, count, raced>>
      /\ ticket' = [ticket EXCEPT !.field = TicketEvents[proc[p].local].to]
      /\ half' = IF ticket.closed # Open THEN half
                 ELSE IF Closes(proc[p].local) = None THEN proc[p].local ELSE None
      /\ Go(p, "apply")
  BY DEF WriteField, Me
<1>4. PICK new \in Process :
        /\ Set(p, new) /\ new.pc = "apply"
        /\ new.local = proc[p].local /\ new.id = proc[p].id /\ new.seen = proc[p].seen
        /\ new.name = proc[p].name /\ new.writes = proc[p].writes
        /\ new.consent = proc[p].consent
  BY <1>1, <1>2, GoMoves, PlacesAre
<1>5. /\ proc[p].id = 1 /\ todos # <<>> /\ config.pushes
      /\ TicketEvents[proc[p].local] # NoEvent
  BY <1>1, <1>2 DEF PlaceOK, Equipped, HasTodo, PushOK, Event
<1>6. /\ ticket' \in [field : Fields, closed : Reasons \cup {Open}]
      /\ ticket'.field = TicketEvents[proc[p].local].to /\ ticket'.closed = ticket.closed
  <2>1. TicketEvents[proc[p].local].to \in Fields  BY <1>1, <1>5, EventsAre DEF TypeOK
  <2> QED  BY <1>1, <1>2, <2>1 DEF TypeOK
<1>7. Equipped(new)  BY <1>4, <1>5 DEF Equipped
<1>8. PushOK(new) /\ AgreedOK(new)  BY <1>4, <1>5 DEF PushOK, AgreedOK
<1>10. HalfOK'
  <2>1. CASE ticket.closed # Open
    <3>1. half # None => Closes(half) # None /\ ticket.closed = Closes(half)
      BY <1>1, <2>1 DEF HalfOK
    <3>2. half' # None => Closes(half)' # None /\ ticket'.closed = Closes(half)'
      BY <1>2, <1>6, <2>1, <3>1 DEF Closes
    <3> QED  BY <3>2 DEF HalfOK
  <2>2. CASE ticket.closed = Open
    <3>1. half' # None => half' = proc[p].local /\ Closes(proc[p].local) = None
      BY <1>2, <2>2
    <3>2. half' # None => Closes(half)' = None
      BY <1>2, <3>1 DEF Closes
    <3> QED  BY <1>5, <1>6, <2>2, <3>1, <3>2 DEF HalfOK
  <2> QED  BY <2>1, <2>2
<1>11. TurnMove(p, new) /\ LooksStand(p, new)
  BY <1>2, <1>4 DEF TurnMove, LooksStand, Turning
<1>12. half' \in Locals \cup {None} /\ todos \in Seq(Todo) /\ Len(todos) <= 1
  BY <1>1, <1>2, TodosAre DEF TypeOK
<1> QED  BY <1>1, <1>2, <1>4, <1>5, <1>6, <1>7, <1>8, <1>10, <1>11, <1>12, ProcessStep
         DEF TypeOK

(* The process that stays where it is told to, idle.                       *)
LEMMA IdleIsFine ==
  ASSUME NEW new, new.pc = "idle"
  PROVE  Equipped(new) /\ PushOK(new) /\ AgreedOK(new)
  BY DEF Equipped, HasTodo, PushOK, AgreedOK

LEMMA ApplyLocalKeeps ==
  ASSUME IInv, NEW p \in Procs, ApplyLocal(p)
  PROVE  IInv'
<1>1. Typed /\ TypeOK /\ PlaceOK /\ HalfOK  BY DEF IInv, Typed
<1>2. /\ proc[p].pc = "apply" /\ UNCHANGED <<config, ticket, turn, count>>
      /\ todos' = [todos EXCEPT ![proc[p].id].kind = KindOf(proc[p].local)]
      /\ raced' = Raced /\ half' \in {half, None}
  BY DEF ApplyLocal, Me
<1>3. proc[p].id = 1 /\ todos # <<>> /\ proc[p].local \in Locals
  BY <1>1, <1>2 DEF PlaceOK, Equipped, HasTodo, TypeOK
<1>4. KindOf(proc[p].local) \in Kinds  BY DEF KindOf, Kinds
<1>a. PICK k \in Kinds : k = KindOf(proc[p].local)  BY <1>4
<1>b. todos' = [todos EXCEPT ![1].kind = k]  BY <1>2, <1>3, <1>a
<1>5. todos' \in Seq(Todo) /\ Len(todos') <= 1 /\ todos' # <<>>
  BY <1>1, <1>3, <1>b, KindWritten
<1>6. raced' \subseteq Procs /\ half' \in Locals \cup {None}
  BY <1>1, <1>2 DEF Raced, TypeOK
<1>7. HalfOK'  BY <1>1, <1>2 DEF HalfOK, Closes
<1>8. \A q \in Procs : proc[q].pc = "set" =>
        \/ todos'[1].kind = todos[1].kind /\ (q \in raced => q \in raced')
        \/ q \in raced'
  BY <1>2 DEF Raced, Me
<1>9. ASSUME NEW new \in Process, Set(p, new), new.id \in {0, 1},
             new.pc \notin Turning, new.pc # "set",
             Equipped(new), PushOK(new), AgreedOK(new)
      PROVE  IInv'
  <2>1. TurnMove(p, new)  BY <1>2, <1>9 DEF TurnMove, Turning
  <2>2. LooksStand(p, new)  BY <1>8, <1>9 DEF LooksStand
  <2> QED  BY <1>1, <1>2, <1>5, <1>6, <1>7, <1>9, <2>1, <2>2, ProcessStep DEF TypeOK
<1>10. CASE proc[p].writes.record # None /\ Go(p, "record")
  <2>1. PICK new \in Process :
          Set(p, new) /\ new.pc = "record" /\ new.id = proc[p].id /\ new.writes = proc[p].writes
    BY <1>1, <1>10, GoMoves, PlacesAre
  <2>2. Equipped(new) /\ PushOK(new) /\ AgreedOK(new)
    BY <1>3, <1>10, <2>1 DEF Equipped, PushOK, AgreedOK
  <2> QED  BY <1>3, <1>9, <2>1, <2>2 DEF Turning
<1>11. CASE Set(p, Idle)
  <2>1. Idle \in Process /\ Idle.pc = "idle" /\ Idle.id = 0  BY IdleFacts
  <2>2. Equipped(Idle) /\ PushOK(Idle) /\ AgreedOK(Idle)  BY <2>1, IdleIsFine
  <2> QED  BY <1>9, <1>11, <2>1, <2>2 DEF Turning
<1>12. CASE /\ ~config.pushes /\ proc[p].local # "cancel"
            /\ TicketEvents[proc[p].local] # NoEvent
            /\ Set(p, [Idle EXCEPT !.pc = "event", !.local = proc[p].local, !.id = proc[p].id])
  <2>1. PICK x \in Process : x = Idle  BY IdleFacts
  <2>2. PICK new : new = [x EXCEPT !.pc = "event", !.local = proc[p].local, !.id = 1]
    OBVIOUS
  <2>3. new \in Process /\ new.pc = "event" /\ new.local = proc[p].local /\ new.id = 1
    BY <1>3, <2>2, PlacesAre DEF Process
  <2>4. Set(p, new)  BY <1>3, <1>12, <2>1, <2>2
  <2>5. proc[p].local \in {"start", "done"}  BY <1>3, <1>12, EventsAre DEF Locals
  <2>6. Equipped(new) /\ PushOK(new) /\ AgreedOK(new)
    BY <1>12, <2>3, <2>5 DEF Equipped, PushOK, AgreedOK, Event
  <2> QED  BY <1>9, <2>3, <2>4, <2>6 DEF Turning
<1> QED  BY <1>10, <1>11, <1>12 DEF ApplyLocal

LEMMA RecordSyncKeeps ==
  ASSUME IInv, NEW p \in Procs, RecordSync(p)
  PROVE  IInv'
<1>1. Typed /\ TypeOK /\ PlaceOK /\ HalfOK  BY DEF IInv, Typed
<1>2. /\ proc[p].pc = "record" /\ UNCHANGED <<config, ticket, turn, count, raced>>
      /\ half' \in {half, None} /\ Finish(p)
  BY DEF RecordSync, Me
<1>3. /\ proc[p].id = 1 /\ todos # <<>>
      /\ proc[p].writes.record # None \/ proc[p].name \in Names
  BY <1>1, <1>2 DEF PlaceOK, Equipped, HasTodo
<1>4. PICK n \in Names : todos' = [todos EXCEPT ![1].synced = n]
  <2>1. proc[p].writes.record \in Names \cup {None}
    BY <1>1 DEF Typed, Process, WriteSet
  <2> QED  BY <1>3, <2>1 DEF RecordSync
<1>5. todos' \in Seq(Todo) /\ Len(todos') <= 1 /\ todos' # <<>>
      /\ todos'[1].kind = todos[1].kind
  BY <1>1, <1>3, <1>4, SyncedWritten
<1>6. PICK new \in Process : Set(p, new) /\ new.pc = "idle" /\ new.id = 0 /\ new.seen = Absent
  BY <1>2, FinishMoves
<1>7. HalfOK'  BY <1>1, <1>2 DEF HalfOK, Closes
<1>8. TurnMove(p, new) /\ LooksStand(p, new)
  BY <1>2, <1>5, <1>6 DEF TurnMove, LooksStand, Turning
<1>9. Equipped(new) /\ PushOK(new) /\ AgreedOK(new)  BY <1>6, IdleIsFine
<1> QED  BY <1>1, <1>2, <1>5, <1>6, <1>7, <1>8, <1>9, ProcessStep DEF TypeOK

(* What an event leaves alone.                                             *)
LEMMA EventStep ==
  ASSUME IInv, NEW p \in Procs, NEW new \in Process, Set(p, new),
         config' = config, ticket' \in [field : Fields, closed : Reasons \cup {Open}],
         UNCHANGED <<todos, count, raced>>, half' \in Locals \cup {None},
         turn' \in Procs \cup {NoProc},
         TurnMove(p, new), HalfOK', new.pc # "set", new.id = 1 \/ new.seen # Absent => todos # <<>>,
         Equipped(new), PushOK(new), AgreedOK(new)
  PROVE  IInv'
<1>1. Typed /\ TypeOK  BY DEF IInv, Typed
<1>2. todos \in Seq(Todo) /\ Len(todos) <= 1  BY <1>1, TodosAre
<1>3. LooksStand(p, new)  BY DEF LooksStand
<1> QED  BY <1>1, <1>2, <1>3, ProcessStep DEF TypeOK

LEMMA EventTurnKeeps ==
  ASSUME IInv, NEW p \in Procs, EventTurn(p)
  PROVE  IInv'
<1>1. Typed /\ TypeOK /\ PlaceOK /\ HalfOK  BY DEF IInv, Typed
<1>2. /\ proc[p].pc = "event" /\ UNCHANGED <<config, ticket, todos, count, half, raced>>
      /\ turn = NoProc
      /\ \/ Go(p, "move") /\ turn' = p
         \/ Finish(p) /\ turn' = turn
  BY DEF EventTurn, Me
<1>3. /\ proc[p].id = 1 /\ todos # <<>> /\ proc[p].local \in {"start", "done"}
      /\ Event(proc[p]) # NoEvent /\ ~config.pushes
  BY <1>1, <1>2 DEF PlaceOK, Equipped, HasTodo, PushOK
<1>4. HalfOK'  BY <1>1, <1>2 DEF HalfOK, Closes
<1>5. CASE Go(p, "move") /\ turn' = p
  <2>1. PICK new \in Process :
          Set(p, new) /\ new.pc = "move" /\ new.id = proc[p].id /\ new.local = proc[p].local
    BY <1>1, <1>5, GoMoves, PlacesAre
  <2>2. Equipped(new) /\ PushOK(new) /\ AgreedOK(new)
    BY <1>3, <2>1 DEF Equipped, PushOK, AgreedOK, Event
  <2>3. TurnMove(p, new)  BY <1>2, <1>5, <2>1 DEF TurnMove, Turning
  <2> QED  BY <1>1, <1>2, <1>3, <1>4, <1>5, <2>1, <2>2, <2>3, EventStep DEF TypeOK
<1>6. CASE Finish(p) /\ turn' = turn
  <2>1. PICK new \in Process : Set(p, new) /\ new.pc = "idle" /\ new.id = 0 /\ new.seen = Absent
    BY <1>6, FinishMoves
  <2>2. Equipped(new) /\ PushOK(new) /\ AgreedOK(new)  BY <2>1, IdleIsFine
  <2>3. TurnMove(p, new)  BY <1>2, <1>6, <2>1 DEF TurnMove, Turning
  <2> QED  BY <1>1, <1>2, <1>4, <1>6, <2>1, <2>2, <2>3, EventStep DEF TypeOK
<1> QED  BY <1>2, <1>5, <1>6

LEMMA EventReadsKeeps ==
  ASSUME IInv, NEW p \in Procs, EventReads(p)
  PROVE  IInv'
<1>1. Typed /\ TypeOK /\ PlaceOK /\ HalfOK /\ TurnOK  BY DEF IInv, Typed
<1>2. /\ proc[p].pc = "move" /\ UNCHANGED <<config, ticket, todos, count, half, raced>>
      /\ \/ Go(p, "moving") /\ turn' = turn
         \/ Finish(p) /\ turn' = NoProc
  BY DEF EventReads, Me
<1>3. /\ proc[p].id = 1 /\ todos # <<>> /\ proc[p].local \in {"start", "done"}
      /\ Event(proc[p]) # NoEvent /\ ~config.pushes /\ turn = p
  BY <1>1, <1>2 DEF PlaceOK, Equipped, HasTodo, PushOK, TurnOK
<1>4. HalfOK'  BY <1>1, <1>2 DEF HalfOK, Closes
<1>5. CASE Go(p, "moving") /\ turn' = turn
  <2>1. PICK new \in Process :
          Set(p, new) /\ new.pc = "moving" /\ new.id = proc[p].id /\ new.local = proc[p].local
    BY <1>1, <1>5, GoMoves, PlacesAre
  <2>2. Equipped(new) /\ PushOK(new) /\ AgreedOK(new)
    BY <1>3, <2>1 DEF Equipped, PushOK, AgreedOK, Event
  <2>3. TurnMove(p, new)  BY <1>2, <1>5, <2>1 DEF TurnMove, Turning
  <2> QED  BY <1>1, <1>2, <1>3, <1>4, <1>5, <2>1, <2>2, <2>3, EventStep DEF TypeOK
<1>6. CASE Finish(p) /\ turn' = NoProc
  <2>1. PICK new \in Process : Set(p, new) /\ new.pc = "idle" /\ new.id = 0 /\ new.seen = Absent
    BY <1>6, FinishMoves
  <2>2. Equipped(new) /\ PushOK(new) /\ AgreedOK(new)  BY <2>1, IdleIsFine
  <2>3. TurnMove(p, new)  BY <1>3, <1>6, <2>1 DEF TurnMove, Turning
  <2> QED  BY <1>1, <1>2, <1>4, <1>6, <2>1, <2>2, <2>3, EventStep DEF TypeOK
<1> QED  BY <1>2, <1>5, <1>6

LEMMA EventWritesKeeps ==
  ASSUME IInv, NEW p \in Procs, EventWrites(p)
  PROVE  IInv'
<1>1. Typed /\ TypeOK /\ PlaceOK /\ TurnOK  BY DEF IInv, Typed
<1>2. /\ proc[p].pc = "moving" /\ UNCHANGED <<config, todos, count, raced>>
      /\ ticket' = [ticket EXCEPT !.field = TicketEvents[proc[p].local].to]
      /\ half' = None /\ turn' = NoProc /\ Finish(p)
  BY DEF EventWrites, Me
<1>3. Event(proc[p]) # NoEvent /\ turn = p /\ proc[p].local \in Locals
  BY <1>1, <1>2 DEF PlaceOK, PushOK, TurnOK, TypeOK
<1>4. ticket' \in [field : Fields, closed : Reasons \cup {Open}]
  <2>1. TicketEvents[proc[p].local].to \in Fields  BY <1>3, EventsAre DEF Event
  <2> QED  BY <1>1, <1>2, <2>1 DEF TypeOK
<1>5. HalfOK'  BY <1>2 DEF HalfOK
<1>6. PICK new \in Process : Set(p, new) /\ new.pc = "idle" /\ new.id = 0 /\ new.seen = Absent
  BY <1>2, FinishMoves
<1>7. Equipped(new) /\ PushOK(new) /\ AgreedOK(new)  BY <1>6, IdleIsFine
<1>8. TurnMove(p, new)  BY <1>2, <1>3, <1>6 DEF TurnMove, Turning
<1> QED  BY <1>2, <1>4, <1>5, <1>6, <1>7, <1>8, EventStep

LEMMA BeginSyncKeeps ==
  ASSUME IInv, NEW p \in Procs, NEW one \in BOOLEAN, BeginSync(p, one)
  PROVE  IInv'
<1>1. Typed /\ TypeOK /\ HalfOK  BY DEF IInv, Typed
<1>2. proc[p].pc = "idle" /\ UNCHANGED <<config, ticket, todos, turn, half, raced>>
  BY DEF BeginSync, Me
<1>3. PICK s \in Todo \cup {Absent} : s = IF one THEN Absent ELSE Listed
  BY <1>1, TodosAre DEF Listed
<1>4. PICK x \in Process : x = Idle  BY IdleFacts
<1>5. PICK new : new = [x EXCEPT !.pc = "fetch", !.one = one, !.seen = s]  OBVIOUS
<1>6. new \in Process /\ new.pc = "fetch" /\ new.id = x.id /\ new.seen = s
  BY <1>5, PlacesAre DEF Process
<1>7. Set(p, new)  BY <1>3, <1>4, <1>5 DEF BeginSync
<1>8. count' \in [commands : 0 .. MaxCommands, syncs : 0 .. MaxSyncs,
                  moves : 0 .. MaxMoves, faults : 0 .. MaxFaults]
  BY <1>1, TicketSyncAssumption, SMTT(30) DEF BeginSync, TypeOK
<1>9. new.id = 0 /\ (new.seen # Absent => todos # <<>>)
  BY <1>3, <1>4, <1>6, IdleFacts DEF Listed
<1>10. Equipped(new) /\ PushOK(new) /\ AgreedOK(new)
  BY <1>6 DEF Equipped, HasTodo, PushOK, AgreedOK
<1>11. HalfOK'  BY <1>1, <1>2 DEF HalfOK, Closes
<1>12. TurnMove(p, new) /\ LooksStand(p, new)
  BY <1>2, <1>6 DEF TurnMove, LooksStand, Turning
<1>13. todos \in Seq(Todo) /\ Len(todos) <= 1  BY <1>1, TodosAre
<1> QED  BY <1>1, <1>2, <1>6, <1>7, <1>8, <1>9, <1>10, <1>11, <1>12, <1>13, ProcessStep
         DEF TypeOK

LEMMA PlanKeeps ==
  ASSUME IInv, NEW p \in Procs, NEW n \in Names, NEW s \in Todo \cup {Absent},
         Plan(p, n, s), UNCHANGED Shared, proc[p].pc \notin Turning, s # Absent => todos # <<>>
  PROVE  IInv'
<1>1. PICK new \in Process :
         /\ Set(p, new)
         /\ \/ new.pc = "idle" /\ new.id = 0 /\ new.seen = Absent
            \/ /\ new.pc = "add" /\ new.id = 0 /\ new.name = n /\ new.seen = Absent
               /\ new.writes.record = None
            \/ /\ new.pc = "check" /\ new.id = 1 /\ new.name = n /\ new.seen = s
               /\ s # Absent /\ new.writes.record = None
  BY PlanMoves
<1>2. Equipped(new)  BY <1>1 DEF Equipped, HasTodo
<1>3. PushOK(new) /\ AgreedOK(new)  BY <1>1 DEF PushOK, AgreedOK
<1> QED  BY <1>1, <1>2, <1>3, PrivateStep DEF Turning

LEMMA FetchKeeps ==
  ASSUME IInv, NEW p \in Procs, Fetch(p)
  PROVE  IInv'
<1>1. Typed /\ TypeOK /\ PlaceOK  BY DEF IInv, Typed
<1>2. proc[p].pc = "fetch" /\ UNCHANGED Shared  BY DEF Fetch, Me
<1>3. PICK n \in Names : n = StatusName(ticket)  BY <1>1, StatusNameIsName DEF TypeOK
<1>4. PICK x \in Process : x = proc[p]  BY <1>1 DEF Typed
<1>5. x.id = 1 \/ x.seen # Absent => todos # <<>>  BY <1>1, <1>4 DEF PlaceOK
<1>6. CASE Set(p, [proc[p] EXCEPT !.pc = "list", !.name = StatusName(ticket)])
  <2>1. PICK new : new = [x EXCEPT !.pc = "list", !.name = n]  OBVIOUS
  <2>2. /\ new \in Process /\ new.pc = "list" /\ new.name = n
        /\ new.id = x.id /\ new.seen = x.seen
    BY <2>1, PlacesAre DEF Process
  <2>3. Set(p, new)  BY <1>3, <1>4, <1>6, <2>1
  <2>4. Equipped(new) /\ PushOK(new) /\ AgreedOK(new)
    BY <2>2 DEF Equipped, HasTodo, PushOK, AgreedOK
  <2> QED  BY <1>2, <1>5, <2>2, <2>3, <2>4, PrivateStep DEF Turning
<1>7. CASE Plan(p, StatusName(ticket), proc[p].seen)
  <2>1. PICK s \in Todo \cup {Absent} : s = proc[p].seen  BY <1>4 DEF Process
  <2> QED  BY <1>2, <1>3, <1>4, <1>5, <1>7, <2>1, PlanKeeps DEF Turning
<1> QED  BY <1>6, <1>7 DEF Fetch

LEMMA ListKeeps ==
  ASSUME IInv, NEW p \in Procs, List(p)
  PROVE  IInv'
<1>1. Typed /\ TypeOK /\ PlaceOK  BY DEF IInv, Typed
<1>2. proc[p].pc = "list" /\ UNCHANGED Shared /\ Plan(p, proc[p].name, Listed)
  BY DEF List, Me
<1>3. proc[p].name \in Names  BY <1>1, <1>2 DEF PlaceOK, Equipped
<1>4. Listed \in Todo \cup {Absent} /\ (Listed # Absent => todos # <<>>)
  BY <1>1, TodosAre DEF Listed
<1> QED  BY <1>2, <1>3, <1>4, PlanKeeps DEF Turning

LEMMA AddKeeps ==
  ASSUME IInv, NEW p \in Procs, Add(p)
  PROVE  IInv'
<1>1. Typed /\ TypeOK /\ PlaceOK /\ HalfOK  BY DEF IInv, Typed
<1>2. /\ proc[p].pc = "add" /\ UNCHANGED <<config, ticket, turn, count, half, raced>>
      /\ todos' = IF todos # <<>> THEN todos
                  ELSE <<[kind |-> "pending", synced |-> proc[p].name]>>
  BY DEF Add, Me
<1>3. /\ proc[p].name \in Names /\ proc[p].writes.record = None /\ proc[p].seen = Absent
  BY <1>1, <1>2 DEF PlaceOK, Equipped
<1>4. todos' \in Seq(Todo) /\ Len(todos') <= 1 /\ todos' # <<>>
  <2>1. CASE todos # <<>>  BY <1>1, <1>2, <2>1, TodosAre
  <2>2. CASE todos = <<>>
    <3>1. PICK t \in Todo : t = [kind |-> "pending", synced |-> proc[p].name]
      BY <1>3 DEF Todo, Kinds
    <3>2. todos' = <<t>>  BY <1>2, <2>2, <3>1
    <3> QED  BY <3>2
  <2> QED  BY <2>1, <2>2
<1>5. \A q \in Procs : proc[q].pc = "set" => todos'[1].kind = todos[1].kind
  BY <1>1, <1>2 DEF PlaceOK, Equipped, HasTodo
<1>6. HalfOK'  BY <1>1, <1>2 DEF HalfOK, Closes
<1>7. ASSUME NEW new \in Process, Set(p, new), new.pc \in {"idle", "set"}, new.seen = Absent,
             Equipped(new), PushOK(new), AgreedOK(new)
      PROVE  IInv'
  <2>1. TurnMove(p, new) /\ LooksStand(p, new)
    BY <1>2, <1>5, <1>7 DEF TurnMove, LooksStand, Turning
  <2> QED  BY <1>1, <1>2, <1>4, <1>6, <1>7, <2>1, ProcessStep DEF TypeOK
<1>8. CASE Set(p, Idle)
  <2>1. Idle \in Process /\ Idle.pc = "idle" /\ Idle.seen = Absent  BY IdleFacts
  <2>2. Equipped(Idle) /\ PushOK(Idle) /\ AgreedOK(Idle)  BY <2>1, IdleIsFine
  <2> QED  BY <1>7, <1>8, <2>1, <2>2
<1>9. CASE Set(p, [proc[p] EXCEPT !.id = 1, !.pc = "set"])
  <2>1. PICK x \in Process : x = proc[p]  BY <1>1 DEF Typed
  <2>2. PICK new : new = [x EXCEPT !.id = 1, !.pc = "set"]  OBVIOUS
  <2>3. /\ new \in Process /\ new.pc = "set" /\ new.id = 1
        /\ new.name = x.name /\ new.seen = x.seen /\ new.writes = x.writes
    BY <2>2, PlacesAre DEF Process
  <2>4. Equipped(new) /\ PushOK(new) /\ AgreedOK(new)
    BY <1>3, <2>1, <2>3 DEF Equipped, HasTodo, PushOK, AgreedOK
  <2> QED  BY <1>3, <1>7, <1>9, <2>1, <2>2, <2>3, <2>4
<1> QED  BY <1>8, <1>9 DEF Add

LEMMA CheckMovedKeeps ==
  ASSUME IInv, NEW p \in Procs, CheckMoved(p)
  PROVE  IInv'
<1>1. Typed /\ TypeOK /\ PlaceOK /\ HalfOK  BY DEF IInv, Typed
<1>2. /\ proc[p].pc = "check" /\ UNCHANGED <<config, ticket, todos, turn, count, half>>
      /\ raced' = raced \ {p}
  BY DEF CheckMoved, Me
<1>3. /\ proc[p].id = 1 /\ todos # <<>> /\ proc[p].name \in Names
      /\ proc[p].writes.record = None
  BY <1>1, <1>2 DEF PlaceOK, Equipped, HasTodo
<1>4. PICK pc \in {"set", "record"} :
        Go(p, pc) /\ (pc = "set" => todos[1].kind = proc[p].seen.kind)
  BY <1>3 DEF CheckMoved
<1>5. PICK new \in Process :
        /\ Set(p, new) /\ new.pc = pc /\ new.id = proc[p].id /\ new.seen = proc[p].seen
        /\ new.name = proc[p].name /\ new.writes = proc[p].writes
  BY <1>1, <1>4, GoMoves, PlacesAre
<1>6. Equipped(new) /\ PushOK(new) /\ AgreedOK(new)
  BY <1>3, <1>4, <1>5 DEF Equipped, HasTodo, PushOK, AgreedOK
<1>7. HalfOK'  BY <1>1, <1>2 DEF HalfOK, Closes
<1>8. TurnMove(p, new) /\ LooksStand(p, new)
  BY <1>2, <1>4, <1>5 DEF TurnMove, LooksStand, Turning
<1>9. todos \in Seq(Todo) /\ Len(todos) <= 1 /\ raced' \subseteq Procs
  BY <1>1, <1>2, TodosAre DEF TypeOK
<1> QED  BY <1>1, <1>2, <1>3, <1>5, <1>6, <1>7, <1>8, <1>9, ProcessStep DEF TypeOK

LEMMA ApplySyncKeeps ==
  ASSUME IInv, NEW p \in Procs, ApplySync(p)
  PROVE  IInv'
<1>1. Typed /\ TypeOK /\ PlaceOK /\ HalfOK  BY DEF IInv, Typed
<1>2. /\ proc[p].pc = "set" /\ UNCHANGED <<config, ticket, turn, count, half>>
      /\ todos' = [todos EXCEPT ![proc[p].id].kind = Target(proc[p].name)]
      /\ raced' = Raced /\ (Finish(p) \/ Go(p, "record"))
  BY DEF ApplySync, Me
<1>3. /\ proc[p].id = 1 /\ todos # <<>> /\ proc[p].name \in Names
  BY <1>1, <1>2 DEF PlaceOK, Equipped, HasTodo
<1>4. PICK k \in Kinds : k = Target(proc[p].name)  BY <1>3, TargetIsKind
<1>5. todos' = [todos EXCEPT ![1].kind = k]  BY <1>2, <1>3, <1>4
<1>6. todos' \in Seq(Todo) /\ Len(todos') <= 1 /\ todos' # <<>>
  BY <1>1, <1>3, <1>5, KindWritten
<1>7. raced' \subseteq Procs  BY <1>1, <1>2 DEF Raced, TypeOK
<1>8. HalfOK'  BY <1>1, <1>2 DEF HalfOK, Closes
<1>9. \A q \in Procs : proc[q].pc = "set" =>
        \/ todos'[1].kind = todos[1].kind /\ (q \in raced => q \in raced')
        \/ q \in raced'
  BY <1>2 DEF Raced, Me
<1>10. PICK new \in Process :
         Set(p, new) /\ new.pc \in {"idle", "record"}
         /\ (new.pc = "record" => new.id = proc[p].id /\ new.name = proc[p].name)
  <2>1. CASE Finish(p)  BY <2>1, FinishMoves
  <2>2. CASE Go(p, "record")  BY <1>1, <2>2, GoMoves, PlacesAre
  <2> QED  BY <1>2, <2>1, <2>2
<1>11. Equipped(new) /\ PushOK(new) /\ AgreedOK(new)
  BY <1>3, <1>10 DEF Equipped, HasTodo, PushOK, AgreedOK
<1>12. TurnMove(p, new) /\ LooksStand(p, new)
  BY <1>2, <1>9, <1>10 DEF TurnMove, LooksStand, Turning
<1> QED  BY <1>1, <1>2, <1>6, <1>7, <1>8, <1>10, <1>11, <1>12, ProcessStep DEF TypeOK

LEMMA FailKeeps ==
  ASSUME IInv, NEW p \in Procs, Fail(p)
  PROVE  IInv'
<1>1. Typed /\ TypeOK /\ PlaceOK /\ HalfOK /\ TurnOK  BY DEF IInv, Typed
<1>2. /\ UNCHANGED <<config, ticket, todos, half, raced>> /\ Finish(p)
      /\ turn' = IF turn = p THEN NoProc ELSE turn
  BY DEF Fail
<1>3. PICK new \in Process : Set(p, new) /\ new.pc = "idle" /\ new.id = 0 /\ new.seen = Absent
  BY <1>2, FinishMoves
<1>4. count' \in [commands : 0 .. MaxCommands, syncs : 0 .. MaxSyncs,
                  moves : 0 .. MaxMoves, faults : 0 .. MaxFaults]
  BY <1>1, TicketSyncAssumption DEF Fail, TypeOK
<1>5. HalfOK'  BY <1>1, <1>2 DEF HalfOK, Closes
<1>6. TurnMove(p, new) /\ LooksStand(p, new)
  BY <1>1, <1>2, <1>3 DEF TurnMove, LooksStand, Turning, TurnOK
<1>7. Equipped(new) /\ PushOK(new) /\ AgreedOK(new)  BY <1>3, IdleIsFine
<1>8. todos \in Seq(Todo) /\ Len(todos) <= 1 /\ turn' \in Procs \cup {NoProc}
  BY <1>1, <1>2, TodosAre DEF TypeOK
<1> QED  BY <1>1, <1>2, <1>3, <1>4, <1>5, <1>6, <1>7, <1>8, ProcessStep DEF TypeOK

LEMMA TrackerMovesKeeps ==
  ASSUME IInv, NEW field \in Fields, NEW closed \in Reasons \cup {Open},
         TrackerMoves(field, closed)
  PROVE  IInv'
<1>1. Typed /\ TypeOK /\ PlaceOK /\ TurnOK /\ RacedOK  BY DEF IInv, Typed
<1>2. /\ UNCHANGED <<config, todos, proc, turn, raced>> /\ half' = None
      /\ ticket' = [field |-> field, closed |-> closed]
  BY DEF TrackerMoves
<1>3. count' \in [commands : 0 .. MaxCommands, syncs : 0 .. MaxSyncs,
                  moves : 0 .. MaxMoves, faults : 0 .. MaxFaults]
  BY <1>1, TicketSyncAssumption DEF TrackerMoves, TypeOK
<1>4. ticket' \in [field : Fields, closed : Reasons \cup {Open}]  BY <1>2
<1>5. Typed'  BY <1>1, <1>2, <1>3, <1>4 DEF Typed, TypeOK
<1>6. PlaceOK'
  BY <1>1, <1>2 DEF PlaceOK, Equipped, PushOK, AgreedOK, Closes, Event
<1>7. TurnOK' /\ RacedOK'  BY <1>1, <1>2 DEF TurnOK, RacedOK
<1>8. HalfOK'  BY <1>2 DEF HalfOK
<1> QED  BY <1>5, <1>6, <1>7, <1>8 DEF IInv

LEMMA InitIInv == Init => IInv
<1> SUFFICES ASSUME Init  PROVE IInv
  OBVIOUS
<1>1. \A p \in Procs : proc[p] = Idle  BY DEF Init
<1>2. Typed
  <2>1. proc \in [Procs -> Process]  BY IdleFacts DEF Init
  <2>2. /\ todos = <<>> /\ turn = NoProc /\ half = None /\ raced = {}
        /\ config \in [github : BOOLEAN, pushes : BOOLEAN]
        /\ ticket \in [field : Fields, closed : Reasons \cup {Open}]
    BY DEF Init
  <2>3. count \in [commands : 0 .. MaxCommands, syncs : 0 .. MaxSyncs,
                   moves : 0 .. MaxMoves, faults : 0 .. MaxFaults]
    BY TicketSyncAssumption DEF Init
  <2>4. /\ Idle.pc \in Places /\ Idle.local \in Locals /\ Idle.id \in 0 .. 0
        /\ Idle.seen \in Todo \cup {Absent} /\ Idle.name \in Names \cup {None}
    BY IdleFacts DEF Process
  <2>5. todos \in Seq(Todo) /\ Len(todos) = 0 /\ Len(todos) <= 1  BY <2>2
  <2> QED  BY <1>1, <2>1, <2>2, <2>3, <2>4, <2>5 DEF Typed, TypeOK, Todo
<1>3. PlaceOK  BY <1>1, IdleFacts, IdleIsFine DEF PlaceOK
<1>4. TurnOK
  <2>1. \A p \in Procs : p # NoProc  BY TicketSyncAssumption
  <2>2. turn = NoProc  BY DEF Init
  <2> QED  BY <1>1, <2>1, <2>2, IdleFacts DEF TurnOK
<1>5. HalfOK  BY DEF Init, HalfOK
<1>6. RacedOK  BY <1>1, IdleFacts DEF RacedOK
<1> QED  BY <1>2, <1>3, <1>4, <1>5, <1>6 DEF IInv

LEMMA NextIInv == IInv /\ [Next]_vars => IInv'
<1> SUFFICES ASSUME IInv, [Next]_vars  PROVE IInv'
  OBVIOUS
<1>1. ASSUME NEW p \in Procs,
             \/ \E local \in Locals, consent \in BOOLEAN : BeginLocal(p, local, consent)
             \/ ReadTracker(p) \/ CloseIssue(p) \/ ReadField(p) \/ WriteField(p)
             \/ ApplyLocal(p) \/ RecordSync(p)
      PROVE  IInv'
  BY <1>1, BeginLocalKeeps, ReadTrackerKeeps, CloseIssueKeeps, ReadFieldKeeps,
     WriteFieldKeeps, ApplyLocalKeeps, RecordSyncKeeps
<1>2. ASSUME NEW p \in Procs, EventTurn(p) \/ EventReads(p) \/ EventWrites(p)
      PROVE  IInv'
  BY <1>2, EventTurnKeeps, EventReadsKeeps, EventWritesKeeps
<1>3. ASSUME NEW p \in Procs,
             \/ \E one \in BOOLEAN : BeginSync(p, one)
             \/ Fetch(p) \/ List(p) \/ Add(p) \/ CheckMoved(p) \/ ApplySync(p) \/ Fail(p)
      PROVE  IInv'
  BY <1>3, BeginSyncKeeps, FetchKeeps, ListKeeps, AddKeeps, CheckMovedKeeps,
     ApplySyncKeeps, FailKeeps
<1>4. ASSUME NEW field \in Fields, NEW closed \in Reasons \cup {Open},
             TrackerMoves(field, closed)
      PROVE  IInv'
  BY <1>4, TrackerMovesKeeps
<1>5. CASE UNCHANGED vars
  BY <1>5 DEF vars, IInv, Typed, TypeOK, PlaceOK, Equipped, PushOK, AgreedOK, Closes, Event,
     TurnOK, HalfOK, RacedOK
<1> QED  BY <1>1, <1>2, <1>3, <1>4, <1>5 DEF Next

-----------------------------------------------------------------------------
(* What holds always.                                                      *)

(* The state is typed and a ticket has one todo at most, however many      *)
(* syncs add it at once; every process has at hand what its step uses.     *)
THEOREM TypeCorrect == Spec => [](TypeOK /\ PlaceOK)
<1>1. IInv => TypeOK /\ PlaceOK  BY DEF IInv, Typed
<1> QED  BY <1>1, InitIInv, NextIInv, PTL DEF Spec

(* A push that closed the issue or moved the ticket and then stopped finds *)
(* its own write when it is run again and asks for no consent: the tracker *)
(* holds what it wrote for as long as nobody else moves the ticket.        *)
THEOREM RerunNeedsNoConsentHolds == Spec => []RerunNeedsNoConsent
<1>1. IInv => RerunNeedsNoConsent
  <2> SUFFICES ASSUME IInv, half # None, todos # <<>>
               PROVE  VerdictOf(half, todos[1].synced, StatusName(ticket)) # "conflict"
    BY DEF RerunNeedsNoConsent
  <2>1. PICK n : n = StatusName(ticket)  OBVIOUS
  <2>2. CASE Closes(half) # None /\ ticket.closed = Closes(half)
    <3>1. n = Closed(Closes(half))
      BY <2>1, <2>2, ClosesAre DEF StatusName, Reasons, Open
    <3>2. n \notin Fields  BY <2>2, <3>1, ClosesAre
    <3>3. VerdictOf(half, todos[1].synced, n) = "already"
      BY <2>2, <3>1, <3>2 DEF VerdictOf
    <3> QED  BY <2>1, <3>3
  <2>3. CASE /\ Closes(half) = None /\ TicketEvents[half] # NoEvent
             /\ ticket.closed = Open /\ ticket.field = TicketEvents[half].to
    <3>1. n = TicketEvents[half].to  BY <2>1, <2>3 DEF StatusName
    <3>2. VerdictOf(half, todos[1].synced, n) = "already"  BY <2>3, <3>1 DEF VerdictOf
    <3> QED  BY <2>1, <3>2
  <2> QED  BY <2>2, <2>3 DEF IInv, HalfOK
<1> QED  BY <1>1, InitIInv, NextIInv, PTL DEF Spec

(* Who changes the tracker's field.                                        *)
LEMMA FieldChanges ==
  ASSUME IInv, Next, ticket'.field # ticket.field
  PROVE  \/ \E p \in Procs : WriteField(p) \/ EventWrites(p)
         \/ \E field \in Fields, closed \in Reasons \cup {Open} : TrackerMoves(field, closed)
<1>1. ticket \in [field : Fields, closed : Reasons \cup {Open}]  BY DEF IInv, Typed, TypeOK
<1>2. \A p \in Procs : CloseIssue(p) => ticket'.field = ticket.field
  BY <1>1 DEF CloseIssue
<1>3. ASSUME NEW p \in Procs,
             \/ \E local \in Locals, consent \in BOOLEAN : BeginLocal(p, local, consent)
             \/ ReadTracker(p) \/ ReadField(p) \/ ApplyLocal(p) \/ RecordSync(p)
             \/ EventTurn(p) \/ EventReads(p)
             \/ \E one \in BOOLEAN : BeginSync(p, one)
             \/ Fetch(p) \/ List(p) \/ Add(p) \/ CheckMoved(p) \/ ApplySync(p) \/ Fail(p)
      PROVE  ticket' = ticket
  BY <1>3 DEF BeginLocal, ReadTracker, ReadField, ApplyLocal, RecordSync, EventTurn,
     EventReads, BeginSync, Fetch, List, Add, CheckMoved, ApplySync, Fail, Shared
<1> QED  BY <1>2, <1>3 DEF Next

(* A process that another one's step leaves where it is.                   *)
LEMMA OthersStay ==
  ASSUME IInv, NEW p \in Procs, NEW q \in Procs, q # p,
         WriteField(q) \/ EventWrites(q)
  PROVE  proc'[p] = proc[p]
<1>1. \E new : proc' = [proc EXCEPT ![q] = new]
  BY DEF WriteField, EventWrites, Set, Go, Finish
<1> QED  BY <1>1 DEF IInv, Typed

LEMMA AgreedStep ==
  ASSUME IInv, Next, NEW p \in Procs, Me(p, "write"), ~Me(p, "write")',
         ticket.closed = Open, ticket'.field # ticket.field
  PROVE  \/ proc[p].consent
         \/ ticket.field \in {proc[p].seen.synced} \cup TicketEvents[proc[p].local].from
         \/ ticket.field # proc[p].name
<1>1. proc' # proc  BY DEF Me
<1>2. PICK q \in Procs : WriteField(q) \/ EventWrites(q)
  BY <1>1, FieldChanges DEF TrackerMoves
<1>3. q = p  BY <1>2, OthersStay DEF Me
<1>4. WriteField(p)  BY <1>2, <1>3 DEF EventWrites, Me
<1>5. AgreedOK(proc[p]) /\ proc[p].writes.field # None
  BY DEF IInv, PlaceOK, PushOK, Me
<1>6. ticket.field \in Fields  BY DEF IInv, Typed, TypeOK
<1> QED  BY <1>5, <1>6 DEF AgreedOK, Event, Me

(* A push writes the field of an open ticket over another value only where *)
(* the last sync recorded that value, the event names it, a person agreed, *)
(* or it came after the push had read the tracker.                         *)
THEOREM OverwritesAreAgreedHolds == Spec => OverwritesAreAgreed
<1>1. IInv /\ [Next]_vars =>
        [\A p \in Procs :
           (/\ Me(p, "write") /\ ~Me(p, "write")'
            /\ ticket.closed = Open
            /\ ticket'.field # ticket.field)
           => \/ proc[p].consent
              \/ ticket.field \in {proc[p].seen.synced} \cup TicketEvents[proc[p].local].from
              \/ ticket.field # proc[p].name]_vars
  BY AgreedStep
<1> QED  BY <1>1, InitIInv, NextIInv, PTL DEF Spec, OverwritesAreAgreed

LEMMA StandStep ==
  ASSUME IInv, Next, NEW p \in Procs, Me(p, "set"), ~Me(p, "set")', todos' # todos,
         proc[p].seen # Absent, todos[proc[p].id].kind # proc[p].seen.kind
  PROVE  p \in raced
<1>1. proc[p].id = 1  BY DEF IInv, PlaceOK, Equipped, HasTodo, Me
<1> QED  BY <1>1 DEF IInv, RacedOK, Me

(* A sync writes over a status other than the one it listed only where     *)
(* that status came after its last look.                                   *)
THEOREM LocalChangesStandHolds == Spec => LocalChangesStand
<1>1. IInv /\ [Next]_vars =>
        [\A p \in Procs :
           (/\ Me(p, "set") /\ ~Me(p, "set")'
            /\ todos' # todos
            /\ proc[p].seen # Absent
            /\ todos[proc[p].id].kind # proc[p].seen.kind)
           => p \in raced]_vars
  BY StandStep
<1> QED  BY <1>1, InitIInv, NextIInv, PTL DEF Spec, LocalChangesStand

-----------------------------------------------------------------------------
(* A board whose events agree with its statuses.                           *)

Saw(x) ==
  x.pc \in {"list", "add", "check", "set"} =>
    x.name \in Fields /\ (StatusMap[x.name] = "completed" => Completed)

(* A start reads no completed status it would move from.                   *)
LEMMA StartLeavesCompleted ==
  ASSUME BoardInOrder, TicketEvents["start"] # NoEvent, ticket.field \in TicketEvents["start"].from
  PROVE  ~Completed
  BY DEF BoardInOrder, Completed

(* A step of a process that leaves the ticket: what it has to show.        *)
LEMMA FinishStep ==
  ASSUME IInv, FinishInv, BoardInOrder, Alone,
         NEW p \in Procs, NEW new \in Process, Set(p, new), ticket' = ticket,
         IsDone' => IsDone \/ Completed \/ Finisher(new),
         Saw(new),
         Finishes(proc[p]) =>
           Finishes(new) \/ ~IsDone' \/ StatusMap[ticket.field] # "in_progress",
         Finisher(proc[p]) => ~IsDone' \/ (turn = NoProc /\ (new.pc \in Turning => new.local # "start")),
         new.local = "start" =>
           /\ new.pc = "move" /\ IsDone' =>
                Completed \/ \E q \in Procs : q # p /\ Finisher(proc[q])
           /\ new.pc = "moving" =>
                /\ ticket.field \in TicketEvents["start"].from
                /\ IsDone' => \E q \in Procs : q # p /\ Finisher(proc[q])
  PROVE  FinishInv'
<1>0. Typed /\ TurnOK /\ PlaceOK  BY DEF IInv
<1>1. /\ proc'[p] = new
      /\ \A q \in Procs : q # p => proc'[q] = proc[q]
  BY <1>0, OnlyOneMoves
<1>2. /\ ticket.closed = Open
      /\ \A q \in Procs : Saw(proc[q])
      /\ IsDone => \/ StatusMap[ticket.field] # "in_progress"
                   \/ \E q \in Procs : Finishes(proc[q])
      /\ \A q \in Procs : proc[q].local = "start" =>
           /\ proc[q].pc = "move" /\ IsDone => Completed \/ \E r \in Procs : Finisher(proc[r])
           /\ proc[q].pc = "moving" =>
                /\ ticket.field \in TicketEvents["start"].from
                /\ IsDone => \E r \in Procs : Finisher(proc[r])
  BY DEF FinishInv, Saw
<1>3. Completed' = Completed /\ ticket'.closed = Open
      /\ (Completed => StatusMap[ticket.field] # "in_progress")
  BY <1>2 DEF Completed
<1>4. ASSUME NEW q \in Procs, proc'[q].pc \in {"list", "add", "check", "set"}
      PROVE  proc'[q].name \in Fields /\ (StatusMap[proc'[q].name] = "completed" => Completed)
  <2>1. CASE q = p  BY <1>1, <1>4, <2>1 DEF Saw
  <2>2. CASE q # p
    <3>1. proc'[q] = proc[q] /\ Saw(proc[q])  BY <1>1, <1>2, <2>2
    <3> QED  BY <1>4, <3>1 DEF Saw
  <2> QED  BY <2>1, <2>2
<1>5. ASSUME IsDone', StatusMap[ticket.field] = "in_progress"
      PROVE  \E q \in Procs : Finishes(proc'[q])
  <2>1. CASE Finisher(new)  BY <1>1, <2>1 DEF Finisher, Finishes
  <2>2. CASE IsDone
    <3>1. PICK q \in Procs : Finishes(proc[q])  BY <1>2, <1>5, <2>2
    <3>2. CASE q = p  BY <1>1, <1>5, <3>1, <3>2
    <3>3. CASE q # p  BY <1>1, <3>1, <3>3
    <3> QED  BY <3>2, <3>3
  <2> QED  BY <1>3, <1>5, <2>1, <2>2
<1>6. ASSUME NEW q \in Procs, proc'[q].local = "start", proc'[q].pc = "move", IsDone'
      PROVE  Completed \/ \E r \in Procs : Finisher(proc'[r])
  <2>1. CASE q = p  BY <1>1, <1>6, <2>1
  <2>2. CASE q # p
    <3>1. proc'[q] = proc[q]  BY <1>1, <2>2
    <3>2. turn = q /\ q # NoProc
      BY <1>0, <1>6, <3>1, TicketSyncAssumption DEF TurnOK
    <3>3. CASE IsDone
      <4>1. Completed \/ \E r \in Procs : Finisher(proc[r])  BY <1>2, <1>6, <3>1, <3>3
      <4>2. ~Finisher(proc[p])  BY <1>6, <3>2
      <4> QED  BY <1>1, <4>1, <4>2
    <3> QED  BY <1>1, <1>6, <3>3
  <2> QED  BY <2>1, <2>2
<1>7. ASSUME NEW q \in Procs, proc'[q].local = "start", proc'[q].pc = "moving"
      PROVE  /\ ticket.field \in TicketEvents["start"].from
             /\ IsDone' => \E r \in Procs : Finisher(proc'[r])
  <2>1. CASE q = p  BY <1>1, <1>7, <2>1
  <2>2. CASE q # p
    <3>1. proc'[q] = proc[q]  BY <1>1, <2>2
    <3>2. turn = q /\ q # NoProc
      BY <1>0, <1>7, <3>1, TicketSyncAssumption DEF TurnOK
    <3>3. ticket.field \in TicketEvents["start"].from  BY <1>2, <1>7, <3>1
    <3>4. TicketEvents["start"] # NoEvent
      BY <1>0, <1>7, <3>1 DEF PlaceOK, PushOK, Event
    <3>5. ~Completed  BY <3>3, <3>4, StartLeavesCompleted
    <3>6. ASSUME IsDone'  PROVE \E r \in Procs : Finisher(proc'[r])
      <4>1. CASE IsDone
        <5>1. \E r \in Procs : Finisher(proc[r])  BY <1>2, <1>7, <3>1, <4>1
        <5>2. ~Finisher(proc[p])  BY <3>2, <3>6
        <5> QED  BY <1>1, <5>1, <5>2
      <4> QED  BY <1>1, <3>5, <3>6, <4>1
    <3> QED  BY <3>3, <3>6
  <2> QED  BY <2>1, <2>2
<1> QED  BY <1>3, <1>4, <1>5, <1>6, <1>7
         DEF FinishInv, Completed, IsDone, Finisher, Finishes

(* A step of a process that is no event, leaves the ticket and the todo's  *)
(* kind, and sees nothing new.                                             *)
LEMMA PlainStep ==
  ASSUME IInv, FinishInv, BoardInOrder, Alone,
         NEW p \in Procs, NEW new \in Process, Set(p, new), ticket' = ticket,
         IsDone' => IsDone, Saw(new),
         proc[p].pc \notin {"event", "move", "moving"},
         new.pc \notin {"event", "move", "moving"}
  PROVE  FinishInv'
<1>1. ~Finishes(proc[p]) /\ ~Finisher(proc[p])  BY DEF Finishes, Finisher
<1>2. new.pc # "move" /\ new.pc # "moving"  OBVIOUS
<1> QED  BY <1>1, <1>2, FinishStep

(* What the ticket reads when it is open.                                  *)
LEMMA OpenName ==
  ASSUME IInv, FinishInv, Alone
  PROVE  StatusName(ticket) = ticket.field /\ ticket.field \in Fields
  BY DEF FinishInv, StatusName, IInv, Typed, TypeOK

(* A plan made of a name seen.                                             *)
LEMMA PlanFinish ==
  ASSUME IInv, FinishInv, BoardInOrder, Alone,
         NEW p \in Procs, NEW n \in Fields, StatusMap[n] = "completed" => Completed,
         NEW s \in Todo \cup {Absent}, Plan(p, n, s), UNCHANGED Shared,
         proc[p].pc \notin {"event", "move", "moving"}
  PROVE  FinishInv'
<1>1. n \in Names  BY NamesAre
<1>2. PICK new \in Process :
         /\ Set(p, new)
         /\ \/ new.pc = "idle"
            \/ new.pc \in {"add", "check"} /\ new.name = n
  BY <1>1, PlanMoves
<1>3. Saw(new)  BY <1>2 DEF Saw
<1>4. ticket' = ticket /\ (IsDone' => IsDone)  BY DEF Shared, IsDone
<1> QED  BY <1>2, <1>3, <1>4, PlainStep

LEMMA ApplyLocalFinish ==
  ASSUME IInv, FinishInv, BoardInOrder, Alone, NEW p \in Procs, ApplyLocal(p)
  PROVE  FinishInv'
<1>1. Typed /\ TypeOK /\ PlaceOK  BY DEF IInv, Typed
<1>2. /\ proc[p].pc = "apply" /\ ticket' = ticket
      /\ todos' = [todos EXCEPT ![proc[p].id].kind = KindOf(proc[p].local)]
  BY DEF ApplyLocal, Me
<1>3. /\ proc[p].id = 1 /\ todos # <<>> /\ proc[p].local \in Locals
      /\ proc[p].writes.record = None
  BY <1>1, <1>2 DEF PlaceOK, Equipped, HasTodo, TypeOK, PushOK, Alone
<1>4. PICK k \in Kinds : k = KindOf(proc[p].local)  BY DEF KindOf, Kinds
<1>5. todos' = [todos EXCEPT ![1].kind = k]  BY <1>2, <1>3, <1>4
<1>6. todos' # <<>> /\ todos'[1].kind = k  BY <1>1, <1>3, <1>5, KindWritten
<1>7. IsDone' => k = "completed"  BY <1>6 DEF IsDone
<1>8. k = "completed" => proc[p].local = "done"  BY <1>3, <1>4 DEF KindOf, Locals
<1>9. ~Finishes(proc[p]) /\ ~Finisher(proc[p])  BY <1>2 DEF Finishes, Finisher
<1>10. CASE Set(p, Idle) /\ (IsDone' => IsDone)
  <2>1. Idle \in Process /\ Idle.pc = "idle"  BY IdleFacts
  <2>2. Saw(Idle)  BY <2>1 DEF Saw
  <2> QED  BY <1>2, <1>10, <2>1, <2>2, PlainStep
<1>11. CASE Set(p, [Idle EXCEPT !.pc = "event", !.local = proc[p].local, !.id = proc[p].id])
  <2>1. PICK x \in Process : x = Idle  BY IdleFacts
  <2>2. PICK new : new = [x EXCEPT !.pc = "event", !.local = proc[p].local, !.id = 1]
    OBVIOUS
  <2>3. new \in Process /\ new.pc = "event" /\ new.local = proc[p].local
    BY <1>3, <2>2, PlacesAre DEF Process
  <2>4. Set(p, new)  BY <1>3, <1>11, <2>1, <2>2
  <2>5. IsDone' => Finisher(new)  BY <1>7, <1>8, <2>3 DEF Finisher
  <2>6. Saw(new)  BY <2>3 DEF Saw
  <2> QED  BY <1>2, <1>9, <2>3, <2>4, <2>5, <2>6, FinishStep
<1>12. TicketEvents["done"] # NoEvent  BY DEF BoardInOrder
<1>13. \/ Set(p, [Idle EXCEPT !.pc = "event", !.local = proc[p].local, !.id = proc[p].id])
       \/ /\ Set(p, Idle)
          /\ \/ proc[p].local = "cancel"
             \/ TicketEvents[proc[p].local] = NoEvent
             \/ todos[1].kind = k
  BY <1>3, <1>4 DEF ApplyLocal, Alone
<1>14. (\/ proc[p].local = "cancel"
        \/ TicketEvents[proc[p].local] = NoEvent
        \/ todos[1].kind = k) => (IsDone' => IsDone)
  BY <1>3, <1>7, <1>8, <1>12 DEF IsDone
<1> QED  BY <1>10, <1>11, <1>13, <1>14

LEMMA EventTurnFinish ==
  ASSUME IInv, FinishInv, BoardInOrder, Alone, NEW p \in Procs, EventTurn(p)
  PROVE  FinishInv'
<1>1. Typed /\ TypeOK /\ PlaceOK  BY DEF IInv, Typed
<1>2. /\ proc[p].pc = "event" /\ UNCHANGED <<ticket, todos>> /\ turn = NoProc
  BY DEF EventTurn, Me
<1>3. proc[p].id = 1 /\ todos # <<>> /\ proc[p].local \in {"start", "done"}
  BY <1>1, <1>2 DEF PlaceOK, Equipped, HasTodo, PushOK
<1>4. IsDone' = IsDone  BY <1>2 DEF IsDone
<1>5. CASE todos[1].kind = KindOf(proc[p].local) /\ Go(p, "move")
  <2>1. PICK new \in Process : Set(p, new) /\ new.pc = "move" /\ new.local = proc[p].local
    BY <1>1, <1>5, GoMoves, PlacesAre
  <2>2. proc[p].local = "start" => ~IsDone  BY <1>5 DEF IsDone, KindOf
  <2>3. Saw(new)  BY <2>1 DEF Saw
  <2>4. Finishes(proc[p]) => Finishes(new)  BY <2>1 DEF Finishes
  <2>5. Finisher(proc[p]) => new.local # "start"  BY <2>1 DEF Finisher
  <2> QED  BY <1>2, <1>4, <2>1, <2>2, <2>3, <2>4, <2>5, FinishStep
<1>6. CASE todos[1].kind # KindOf(proc[p].local) /\ Finish(p)
  <2>1. PICK new \in Process : Set(p, new) /\ new.pc = "idle"  BY <1>6, FinishMoves
  <2>2. proc[p].local = "done" => ~IsDone  BY <1>6 DEF IsDone, KindOf
  <2>3. Saw(new)  BY <2>1 DEF Saw
  <2>4. (Finishes(proc[p]) \/ Finisher(proc[p])) => ~IsDone  BY <2>2 DEF Finishes, Finisher
  <2> QED  BY <1>2, <1>4, <2>1, <2>3, <2>4, FinishStep DEF Turning
<1> QED  BY <1>3, <1>5, <1>6 DEF EventTurn

LEMMA EventReadsFinish ==
  ASSUME IInv, FinishInv, BoardInOrder, Alone, NEW p \in Procs, EventReads(p)
  PROVE  FinishInv'
<1>1. Typed /\ TypeOK /\ PlaceOK  BY DEF IInv, Typed
<1>2. proc[p].pc = "move" /\ UNCHANGED <<ticket, todos>>  BY DEF EventReads, Me
<1>3. /\ proc[p].local \in {"start", "done"} /\ TicketEvents[proc[p].local] # NoEvent
      /\ ticket.field \in Fields
  BY <1>1, <1>2 DEF PlaceOK, PushOK, Event, TypeOK
<1>4. IsDone' = IsDone /\ ~Finisher(proc[p])  BY <1>2 DEF IsDone, Finisher
<1>5. CASE Moves(TicketEvents[proc[p].local], ticket.field) /\ Go(p, "moving")
  <2>1. PICK new \in Process : Set(p, new) /\ new.pc = "moving" /\ new.local = proc[p].local
    BY <1>1, <1>5, GoMoves, PlacesAre
  <2>2. Saw(new)  BY <2>1 DEF Saw
  <2>3. Finishes(proc[p]) => Finishes(new)  BY <2>1 DEF Finishes
  <2>4. ASSUME new.local = "start"
        PROVE  /\ ticket.field \in TicketEvents["start"].from
               /\ IsDone => \E q \in Procs : q # p /\ Finisher(proc[q])
    <3>1. ticket.field \in TicketEvents["start"].from
      BY <1>3, <1>5, <2>1, <2>4 DEF Moves, BoardInOrder
    <3>2. ~Completed  BY <1>3, <2>1, <2>4, <3>1, StartLeavesCompleted
    <3>3. IsDone => Completed \/ \E q \in Procs : Finisher(proc[q])
      BY <1>2, <2>1, <2>4 DEF FinishInv
    <3> QED  BY <1>4, <3>1, <3>2, <3>3
  <2> QED  BY <1>2, <1>4, <2>1, <2>2, <2>3, <2>4, FinishStep
<1>6. CASE ~Moves(TicketEvents[proc[p].local], ticket.field) /\ Finish(p)
  <2>1. PICK new \in Process : Set(p, new) /\ new.pc = "idle"  BY <1>6, FinishMoves
  <2>2. Saw(new)  BY <2>1 DEF Saw
  <2>3. Finishes(proc[p]) => StatusMap[ticket.field] # "in_progress"
    BY <1>3, <1>6 DEF Finishes, Moves, BoardInOrder
  <2> QED  BY <1>2, <1>4, <2>1, <2>2, <2>3, FinishStep
<1> QED  BY <1>5, <1>6 DEF EventReads

LEMMA EventWritesFinish ==
  ASSUME IInv, FinishInv, BoardInOrder, Alone, NEW p \in Procs, EventWrites(p)
  PROVE  FinishInv'
<1>1. Typed /\ TypeOK /\ PlaceOK /\ TurnOK  BY DEF IInv, Typed
<1>2. /\ proc[p].pc = "moving" /\ todos' = todos
      /\ ticket' = [ticket EXCEPT !.field = TicketEvents[proc[p].local].to]
      /\ Finish(p)
  BY DEF EventWrites, Me
<1>3. /\ proc[p].local \in {"start", "done"} /\ TicketEvents[proc[p].local] # NoEvent
      /\ turn = p
  BY <1>1, <1>2 DEF PlaceOK, PushOK, Event, TurnOK
<1>4. ticket'.field = TicketEvents[proc[p].local].to /\ ticket'.closed = ticket.closed
  BY <1>1, <1>2 DEF TypeOK
<1>5. PICK new \in Process : Set(p, new) /\ new.pc = "idle"  BY <1>2, FinishMoves
<1>6. /\ proc'[p] = new
      /\ \A q \in Procs : q # p => proc'[q] = proc[q]
  BY <1>1, <1>5, OnlyOneMoves
<1>7. \A q \in Procs : proc'[q].pc \notin {"move", "moving"}
  BY <1>1, <1>3, <1>5, <1>6 DEF TurnOK
<1>8. IsDone' = IsDone  BY <1>2 DEF IsDone
<1>9. ticket'.closed = Open  BY <1>4 DEF FinishInv
<1>10. ASSUME NEW q \in Procs, proc'[q].pc \in {"list", "add", "check", "set"}
       PROVE  proc'[q].name \in Fields /\ (StatusMap[proc'[q].name] = "completed" => Completed')
  <2>1. q # p /\ proc'[q] = proc[q]  BY <1>5, <1>6, <1>10
  <2>2. proc[q].name \in Fields /\ (StatusMap[proc[q].name] = "completed" => Completed)
    BY <1>10, <2>1 DEF FinishInv
  <2>3. CASE proc[p].local = "start"
    <3>1. ticket.field \in TicketEvents["start"].from  BY <1>2, <2>3 DEF FinishInv
    <3>2. ~Completed  BY <1>3, <2>3, <3>1, StartLeavesCompleted
    <3> QED  BY <2>1, <2>2, <3>2
  <2>4. CASE proc[p].local = "done"
    <3>1. Completed'  BY <1>4, <2>4 DEF Completed, BoardInOrder
    <3> QED  BY <2>1, <2>2, <3>1
  <2> QED  BY <1>3, <2>3, <2>4
<1>11. IsDone' => \/ StatusMap[ticket'.field] # "in_progress"
                  \/ \E q \in Procs : Finishes(proc'[q])
  <2>1. CASE proc[p].local = "start"
    <3>1. IsDone => \E q \in Procs : Finisher(proc[q])  BY <1>2, <2>1 DEF FinishInv
    <3>2. ~Finisher(proc[p])  BY <1>2 DEF Finisher
    <3> QED  BY <1>6, <1>8, <3>1, <3>2 DEF Finisher, Finishes
  <2>2. CASE proc[p].local = "done"  BY <1>4, <2>2 DEF BoardInOrder
  <2> QED  BY <1>3, <2>1, <2>2
<1> QED  BY <1>7, <1>9, <1>10, <1>11 DEF FinishInv, Completed, IsDone, Finisher, Finishes

LEMMA BeginsFinish ==
  ASSUME IInv, FinishInv, BoardInOrder, Alone, NEW p \in Procs,
         \/ \E local \in Locals, consent \in BOOLEAN : BeginLocal(p, local, consent)
         \/ \E one \in BOOLEAN : BeginSync(p, one)
  PROVE  FinishInv'
<1>1. Typed  BY DEF IInv
<1>2. proc[p].pc = "idle" /\ UNCHANGED <<ticket, todos>>  BY DEF BeginLocal, BeginSync, Me
<1>3. IsDone' => IsDone  BY <1>2 DEF IsDone
<1>4. PICK x \in Process : x = Idle  BY IdleFacts
<1>5. CASE \E local \in Locals, consent \in BOOLEAN : BeginLocal(p, local, consent)
  <2>1. PICK local \in Locals, consent \in BOOLEAN : BeginLocal(p, local, consent)  BY <1>5
  <2>2. todos # <<>> /\ todos[1] \in Todo  BY <1>1, <2>1, TodosAre DEF BeginLocal
  <2>3. PICK pc \in {"read", "apply"} : pc = IF Pushed(local) THEN "read" ELSE "apply"
    OBVIOUS
  <2>4. PICK new : new = [x EXCEPT !.pc = pc, !.local = local, !.id = 1, !.seen = todos[1],
                                   !.consent = consent]
    OBVIOUS
  <2>5. new \in Process /\ new.pc = pc  BY <2>2, <2>4, PlacesAre DEF Process
  <2>6. Set(p, new)  BY <1>4, <2>1, <2>3, <2>4 DEF BeginLocal
  <2>7. Saw(new)  BY <2>3, <2>5 DEF Saw
  <2> QED  BY <1>2, <1>3, <2>3, <2>5, <2>6, <2>7, PlainStep
<1>6. CASE \E one \in BOOLEAN : BeginSync(p, one)
  <2>1. PICK one \in BOOLEAN : BeginSync(p, one)  BY <1>6
  <2>2. PICK s \in Todo \cup {Absent} : s = IF one THEN Absent ELSE Listed
    BY <1>1, TodosAre DEF Listed
  <2>3. PICK new : new = [x EXCEPT !.pc = "fetch", !.one = one, !.seen = s]  OBVIOUS
  <2>4. new \in Process /\ new.pc = "fetch"  BY <2>2, <2>3, PlacesAre DEF Process
  <2>5. Set(p, new)  BY <1>4, <2>1, <2>2, <2>3 DEF BeginSync
  <2>6. Saw(new)  BY <2>4 DEF Saw
  <2> QED  BY <1>2, <1>3, <2>4, <2>5, <2>6, PlainStep
<1> QED  BY <1>5, <1>6

LEMMA RecordSyncFinish ==
  ASSUME IInv, FinishInv, BoardInOrder, Alone, NEW p \in Procs, RecordSync(p)
  PROVE  FinishInv'
<1>1. Typed /\ PlaceOK  BY DEF IInv
<1>2. proc[p].pc = "record" /\ ticket' = ticket /\ Finish(p)  BY DEF RecordSync, Me
<1>3. /\ proc[p].id = 1 /\ todos # <<>>
      /\ proc[p].writes.record # None \/ proc[p].name \in Names
  BY <1>1, <1>2 DEF PlaceOK, Equipped, HasTodo
<1>4. PICK n \in Names : todos' = [todos EXCEPT ![1].synced = n]
  <2>1. proc[p].writes.record \in Names \cup {None}
    BY <1>1 DEF Typed, Process, WriteSet
  <2> QED  BY <1>3, <2>1 DEF RecordSync
<1>5. todos'[1].kind = todos[1].kind  BY <1>1, <1>3, <1>4, SyncedWritten
<1>6. IsDone' => IsDone  BY <1>3, <1>5 DEF IsDone
<1>7. PICK new \in Process : Set(p, new) /\ new.pc = "idle"  BY <1>2, FinishMoves
<1>8. Saw(new)  BY <1>7 DEF Saw
<1> QED  BY <1>2, <1>6, <1>7, <1>8, PlainStep

LEMMA FetchFinish ==
  ASSUME IInv, FinishInv, BoardInOrder, Alone, NEW p \in Procs, Fetch(p)
  PROVE  FinishInv'
<1>1. Typed  BY DEF IInv
<1>2. proc[p].pc = "fetch" /\ UNCHANGED Shared  BY DEF Fetch, Me
<1>3. PICK n \in Fields : n = StatusName(ticket) /\ n = ticket.field  BY OpenName
<1>4. StatusMap[n] = "completed" => Completed  BY <1>3 DEF Completed
<1>5. PICK x \in Process : x = proc[p]  BY <1>1 DEF Typed
<1>6. CASE Set(p, [proc[p] EXCEPT !.pc = "list", !.name = StatusName(ticket)])
  <2>1. PICK new : new = [x EXCEPT !.pc = "list", !.name = n]  OBVIOUS
  <2>2. n \in Names  BY NamesAre
  <2>3. new \in Process /\ new.pc = "list" /\ new.name = n
    BY <2>1, <2>2, PlacesAre DEF Process
  <2>4. Set(p, new)  BY <1>3, <1>5, <1>6, <2>1
  <2>5. Saw(new)  BY <1>4, <2>3 DEF Saw
  <2>6. ticket' = ticket /\ (IsDone' => IsDone)  BY <1>2 DEF Shared, IsDone
  <2> QED  BY <1>2, <2>3, <2>4, <2>5, <2>6, PlainStep
<1>7. CASE Plan(p, StatusName(ticket), proc[p].seen)
  <2>1. PICK s \in Todo \cup {Absent} : s = proc[p].seen  BY <1>5 DEF Process
  <2> QED  BY <1>2, <1>3, <1>4, <1>7, <2>1, PlanFinish
<1> QED  BY <1>6, <1>7 DEF Fetch

LEMMA ListFinish ==
  ASSUME IInv, FinishInv, BoardInOrder, Alone, NEW p \in Procs, List(p)
  PROVE  FinishInv'
<1>1. Typed  BY DEF IInv
<1>2. proc[p].pc = "list" /\ UNCHANGED Shared /\ Plan(p, proc[p].name, Listed)
  BY DEF List, Me
<1>3. proc[p].name \in Fields /\ (StatusMap[proc[p].name] = "completed" => Completed)
  BY <1>2 DEF FinishInv
<1>4. Listed \in Todo \cup {Absent}  BY <1>1, TodosAre DEF Listed
<1> QED  BY <1>2, <1>3, <1>4, PlanFinish

LEMMA AddFinish ==
  ASSUME IInv, FinishInv, BoardInOrder, Alone, NEW p \in Procs, Add(p)
  PROVE  FinishInv'
<1>1. Typed  BY DEF IInv
<1>2. /\ proc[p].pc = "add" /\ ticket' = ticket
      /\ todos' = IF todos # <<>> THEN todos
                  ELSE <<[kind |-> "pending", synced |-> proc[p].name]>>
  BY DEF Add, Me
<1>3. IsDone' => IsDone
  <2>1. CASE todos # <<>>  BY <1>2, <2>1 DEF IsDone
  <2>2. CASE todos = <<>>
    <3>1. todos'[1].kind = "pending"  BY <1>2, <2>2
    <3> QED  BY <3>1 DEF IsDone
  <2> QED  BY <2>1, <2>2
<1>4. CASE Set(p, Idle)
  <2>1. Idle \in Process /\ Idle.pc = "idle"  BY IdleFacts
  <2>2. Saw(Idle)  BY <2>1 DEF Saw
  <2> QED  BY <1>2, <1>3, <1>4, <2>1, <2>2, PlainStep
<1>5. CASE Set(p, [proc[p] EXCEPT !.id = 1, !.pc = "set"])
  <2>1. PICK x \in Process : x = proc[p]  BY <1>1 DEF Typed
  <2>2. PICK new : new = [x EXCEPT !.id = 1, !.pc = "set"]  OBVIOUS
  <2>3. new \in Process /\ new.pc = "set" /\ new.name = x.name
    BY <2>2, PlacesAre DEF Process
  <2>4. proc[p].name \in Fields /\ (StatusMap[proc[p].name] = "completed" => Completed)
    BY <1>2 DEF FinishInv
  <2>5. Saw(new)  BY <2>1, <2>3, <2>4 DEF Saw
  <2> QED  BY <1>2, <1>3, <1>5, <2>1, <2>2, <2>3, <2>5, PlainStep
<1> QED  BY <1>4, <1>5 DEF Add

LEMMA CheckMovedFinish ==
  ASSUME IInv, FinishInv, BoardInOrder, Alone, NEW p \in Procs, CheckMoved(p)
  PROVE  FinishInv'
<1>1. Typed  BY DEF IInv
<1>2. proc[p].pc = "check" /\ UNCHANGED <<ticket, todos>>  BY DEF CheckMoved, Me
<1>3. PICK pc \in {"set", "record"} : Go(p, pc)  BY DEF CheckMoved
<1>4. PICK new \in Process : Set(p, new) /\ new.pc = pc /\ new.name = proc[p].name
  BY <1>1, <1>3, GoMoves, PlacesAre
<1>5. proc[p].name \in Fields /\ (StatusMap[proc[p].name] = "completed" => Completed)
  BY <1>2 DEF FinishInv
<1>6. Saw(new) /\ (IsDone' => IsDone)  BY <1>2, <1>4, <1>5 DEF Saw, IsDone
<1> QED  BY <1>2, <1>3, <1>4, <1>6, PlainStep

LEMMA ApplySyncFinish ==
  ASSUME IInv, FinishInv, BoardInOrder, Alone, NEW p \in Procs, ApplySync(p)
  PROVE  FinishInv'
<1>1. Typed /\ PlaceOK  BY DEF IInv
<1>2. /\ proc[p].pc = "set" /\ ticket' = ticket /\ (Finish(p) \/ Go(p, "record"))
      /\ todos' = [todos EXCEPT ![proc[p].id].kind = Target(proc[p].name)]
  BY DEF ApplySync, Me
<1>3. /\ proc[p].id = 1 /\ todos # <<>>
      /\ proc[p].name \in Fields /\ (StatusMap[proc[p].name] = "completed" => Completed)
  BY <1>1, <1>2 DEF PlaceOK, Equipped, HasTodo, FinishInv
<1>4. PICK k \in Kinds : k = Target(proc[p].name) /\ k = StatusMap[proc[p].name]
  BY <1>3, TargetIsKind, NamesAre DEF Target, Closed
<1>5. todos' = [todos EXCEPT ![1].kind = k]  BY <1>2, <1>3, <1>4
<1>6. todos'[1].kind = k  BY <1>1, <1>3, <1>5, KindWritten
<1>7. IsDone' => Completed  BY <1>3, <1>4, <1>6 DEF IsDone
<1>8. PICK new \in Process : Set(p, new) /\ new.pc \in {"idle", "record"}
  <2>1. CASE Finish(p)  BY <2>1, FinishMoves
  <2>2. CASE Go(p, "record")  BY <1>1, <2>2, GoMoves, PlacesAre
  <2> QED  BY <1>2, <2>1, <2>2
<1>9. Saw(new)  BY <1>8 DEF Saw
<1>10. ~Finishes(proc[p]) /\ ~Finisher(proc[p])  BY <1>2 DEF Finishes, Finisher
<1> QED  BY <1>2, <1>7, <1>8, <1>9, <1>10, FinishStep

LEMMA InitFinish == Init => FinishInv
<1> SUFFICES ASSUME Init  PROVE FinishInv
  OBVIOUS
<1>1. \A p \in Procs : proc[p] = Idle  BY DEF Init
<1>2. ticket.closed = Open /\ ~IsDone  BY DEF Init, IsDone
<1> QED  BY <1>1, <1>2, IdleFacts DEF FinishInv

(* Nobody but devkit moved the ticket and nothing failed: so it was before.*)
LEMMA AloneBefore ==
  ASSUME IInv, Next, Alone'
  PROVE  /\ Alone
         /\ \A p \in Procs : ~Fail(p)
         /\ \A field \in Fields, closed \in Reasons \cup {Open} : ~TrackerMoves(field, closed)
<1>1. count \in [commands : 0 .. MaxCommands, syncs : 0 .. MaxSyncs,
                 moves : 0 .. MaxMoves, faults : 0 .. MaxFaults]
  BY DEF IInv, Typed, TypeOK
<1>2. \A p \in Procs : ~Fail(p)  BY <1>1 DEF Fail, Alone
<1>3. \A field \in Fields, closed \in Reasons \cup {Open} : ~TrackerMoves(field, closed)
  BY <1>1 DEF TrackerMoves, Alone
<1>4. config' = config /\ count'.moves = count.moves /\ count'.faults = count.faults
  <2>1. ASSUME NEW p \in Procs,
               \/ \E local \in Locals, consent \in BOOLEAN : BeginLocal(p, local, consent)
               \/ \E one \in BOOLEAN : BeginSync(p, one)
        PROVE  config' = config /\ count'.moves = count.moves /\ count'.faults = count.faults
    BY <1>1, <2>1 DEF BeginLocal, BeginSync
  <2>2. ASSUME NEW p \in Procs,
               \/ ReadTracker(p) \/ CloseIssue(p) \/ ReadField(p) \/ WriteField(p)
               \/ ApplyLocal(p) \/ RecordSync(p)
               \/ EventTurn(p) \/ EventReads(p) \/ EventWrites(p)
               \/ Fetch(p) \/ List(p) \/ Add(p) \/ CheckMoved(p) \/ ApplySync(p)
        PROVE  UNCHANGED <<config, count>>
    BY <2>2 DEF ReadTracker, CloseIssue, ReadField, WriteField, ApplyLocal, RecordSync,
       EventTurn, EventReads, EventWrites, Fetch, List, Add, CheckMoved, ApplySync, Shared
  <2> QED  BY <1>2, <1>3, <2>1, <2>2 DEF Next
<1> QED  BY <1>2, <1>3, <1>4 DEF Alone

LEMMA NextFinish ==
  ASSUME BoardInOrder
  PROVE  IInv /\ FinishInv /\ [Next]_vars => FinishInv'
<1> SUFFICES ASSUME IInv, FinishInv, [Next]_vars, Alone'  PROVE FinishInv'
  BY DEF FinishInv
<1>1. CASE UNCHANGED vars
  BY <1>1 DEF vars, FinishInv, Alone, Completed, IsDone, Finisher, Finishes
<1>2. CASE Next
  <2>1. /\ Alone
        /\ \A p \in Procs : ~Fail(p)
        /\ \A field \in Fields, closed \in Reasons \cup {Open} : ~TrackerMoves(field, closed)
    BY <1>2, AloneBefore
  <2>2. \A p \in Procs : ~ReadTracker(p) /\ ~CloseIssue(p) /\ ~ReadField(p) /\ ~WriteField(p)
    BY <2>1 DEF IInv, PlaceOK, PushOK, Alone, ReadTracker, CloseIssue, ReadField, WriteField, Me
  <2>3. ASSUME NEW p \in Procs,
               \/ \E local \in Locals, consent \in BOOLEAN : BeginLocal(p, local, consent)
               \/ \E one \in BOOLEAN : BeginSync(p, one)
        PROVE  FinishInv'
    BY <2>1, <2>3, BeginsFinish
  <2>4. ASSUME NEW p \in Procs,
               \/ ApplyLocal(p) \/ RecordSync(p)
               \/ EventTurn(p) \/ EventReads(p) \/ EventWrites(p)
               \/ Fetch(p) \/ List(p) \/ Add(p) \/ CheckMoved(p) \/ ApplySync(p)
        PROVE  FinishInv'
    BY <2>1, <2>4, ApplyLocalFinish, RecordSyncFinish, EventTurnFinish, EventReadsFinish,
       EventWritesFinish, FetchFinish, ListFinish, AddFinish, CheckMovedFinish,
       ApplySyncFinish
  <2> QED  BY <1>2, <2>1, <2>2, <2>3, <2>4 DEF Next
<1> QED  BY <1>1, <1>2

(* Where statuses are not pushed, on a board whose events agree with its   *)
(* statuses: once everyone is done, a ticket only devkit moved is not left *)
(* in progress behind a completed todo.                                    *)
THEOREM FinishedIsNotInProgressHolds ==
  ASSUME BoardInOrder
  PROVE  Spec => []FinishedIsNotInProgress
<1>1. FinishInv => FinishedIsNotInProgress
  BY DEF FinishInv, FinishedIsNotInProgress, Me, Alone, IsDone, Finishes
<1>2. IInv /\ FinishInv /\ [Next]_vars => FinishInv'  BY NextFinish
<1> QED  BY <1>1, <1>2, InitIInv, NextIInv, InitFinish, PTL DEF Spec
=============================================================================
