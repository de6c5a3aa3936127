---------------------------- MODULE PortRegistry ----------------------------
(***************************************************************************)
(* Clients of the port registry working at the same time: devrun up, down, *)
(* portm alloc, release, prune and every read that prunes on the way       *)
(* (crates/devkit-ports/src/registry.rs and run.rs), with the servers they *)
(* start.                                                                  *)
(*                                                                         *)
(* Every mutation is one commit of the store, atomic here: the flock and   *)
(* the daemon's mutex that make it so are module LockService's subject.    *)
(* What is not atomic is kept apart: the liveness probes run on a snapshot *)
(* before the commit, and spawning runs between two commits.  The daemon's *)
(* handlers call the same `_with` functions in the same order.             *)
(*                                                                         *)
(* A server that hangs, and one that exited but is not reaped, look alike  *)
(* to the registry (the pid exists, nothing accepts): both are "hung".     *)
(***************************************************************************)
EXTENDS PortModel

CONSTANTS
  Clients,   \* processes working on the registry
  Jobs,      \* what clients may be asked to do
  None,      \* no job
  MaxClock   \* bound on time

FirstLabel ==
  [up |-> "alloc", alloc |-> "alloc", prune |-> "read",
   down |-> "down", downports |-> "down",
   release |-> "release", releaseports |-> "release"]

Requests == [key : ServerKeys, base : Nat]

ASSUME PortRegistryAssumption ==
  /\ MaxClock \in Nat
  /\ \A j \in Jobs :
       /\ j.op \in DOMAIN FirstLabel
       /\ j.op \in {"up", "alloc"} => j.reqs \in Seq(Requests)

VARIABLES
  rows,    \* ports.json
  job,     \* job[c]: what client c is doing
  pc,      \* pc[c]: where it is in it
  picked,  \* picked[c]: ports chosen or granted, one per request
  view,    \* view[c]: the snapshot it reads the registry from
  dead,    \* dead[c]: ports that snapshot's probe found dead
  todo,    \* todo[c]: requests of a launch still to spawn (indices)
  child,   \* child[c]: the server it spawned and has not recorded yet
  procs,   \* procs[q]: the server with pid q
  dirs,    \* worktrees that exist
  clock

locals == <<job, pc, picked, view, dead, todo, child>>
vars == <<rows, job, pc, picked, view, dead, todo, child, procs, dirs, clock>>

(* Servers: unused pid, starting, accepting, not accepting, gone.          *)
States == {"unused", "boot", "serving", "hung", "gone"}

NoProc == [st |-> "unused", port |-> 0, sig |-> FALSE, recorded |-> FALSE]

Alive == {q \in Pids : procs[q].st \in {"boot", "serving", "hung"}}

Open == {procs[q].port : q \in {q \in Pids : procs[q].st = "serving"}}

UnusedPids == {q \in Pids : procs[q].st = "unused"}

Init ==
  /\ rows = NoRows
  /\ job = [c \in Clients |-> None]
  /\ pc = [c \in Clients |-> "idle"]
  /\ picked = [c \in Clients |-> <<>>]
  /\ view = [c \in Clients |-> NoRows]
  /\ dead = [c \in Clients |-> {}]
  /\ todo = [c \in Clients |-> {}]
  /\ child = [c \in Clients |-> NoPid]
  /\ procs = [q \in Pids |-> NoProc]
  /\ dirs = Worktrees
  /\ clock = 0

(* A step of client c from one label to another.                           *)
Goto(c, from, to) == pc[c] = from /\ pc' = [pc EXCEPT ![c] = to]

(* The job is over; nothing of it is remembered.                           *)
Finish(c, from) ==
  /\ pc[c] = from
  /\ pc' = [pc EXCEPT ![c] = "idle"]
  /\ job' = [job EXCEPT ![c] = None]
  /\ picked' = [picked EXCEPT ![c] = <<>>]
  /\ view' = [view EXCEPT ![c] = NoRows]
  /\ dead' = [dead EXCEPT ![c] = {}]
  /\ todo' = [todo EXCEPT ![c] = {}]
  /\ child' = [child EXCEPT ![c] = NoPid]

(* A command starts; `up` and `alloc` run inside their worktree.           *)
Start(c, j) ==
  /\ j.op \in {"up", "alloc"} => \A i \in DOMAIN j.reqs : j.reqs[i].key.holder \in dirs
  /\ Goto(c, "idle", FirstLabel[j.op])
  /\ job' = [job EXCEPT ![c] = j]
  /\ UNCHANGED <<rows, picked, view, dead, todo, child, procs, dirs, clock>>

(* alloc_with, before the lock: snapshot, probe, choose.  Where no port is *)
(* left it panics, here and under the lock: the client can only die.       *)
AllocChoose(c) ==
  /\ Goto(c, "alloc", "grant")
  /\ NoPort \notin Range(ChoosePorts(rows, job[c].reqs, Open, clock))
  /\ picked' = [picked EXCEPT ![c] = ChoosePorts(rows, job[c].reqs, Open, clock)]
  /\ UNCHANGED <<rows, job, view, dead, todo, child, procs, dirs, clock>>

(* What alloc_with commits and answers for client c.                       *)
Granted(c) == CommitPorts(rows, job[c].reqs, picked[c], Open, clock)

(* alloc_with, under the lock.                                             *)
AllocCommit(c) ==
  /\ pc[c] = "grant"
  /\ NoPort \notin Range(Granted(c).ports)
  /\ rows' = Granted(c).rows
  /\ \/ /\ job[c].op = "up"
        /\ Goto(c, "grant", "read")
        /\ picked' = [picked EXCEPT ![c] = Granted(c).ports]
        /\ UNCHANGED <<job, view, dead, todo, child>>
     \/ job[c].op = "alloc" /\ Finish(c, "grant")
  /\ UNCHANGED <<procs, dirs, clock>>

(* The read's answer when it is done: the servers of a launch that no live *)
(* row stands for are still to be spawned.                                 *)
Unlaunched(c, d) ==
  {i \in DOMAIN job[c].reqs :
      ~ExistingServer(d, picked[c][i], job[c].reqs[i].key, Alive)}

AfterRead(c, from, d) ==
  IF job[c].op = "up"
  THEN /\ Goto(c, from, "spawn")
       /\ todo' = [todo EXCEPT ![c] = Unlaunched(c, d)]
       /\ UNCHANGED <<job, picked, view, dead, child>>
  ELSE Finish(c, from)

(* snapshot_with and prune_with, before the lock: snapshot and probe.      *)
ReadProbe(c) ==
  LET found == DeadPorts(rows, clock, dirs, Alive, Open)
  IN  /\ pc[c] = "read"
      /\ IF found = {} THEN AfterRead(c, "read", rows)
         ELSE /\ Goto(c, "read", "prune")
              /\ view' = [view EXCEPT ![c] = rows]
              /\ dead' = [dead EXCEPT ![c] = found]
              /\ UNCHANGED <<job, picked, todo, child>>
      /\ UNCHANGED <<rows, procs, dirs, clock>>

(* snapshot_with and prune_with, under the lock.  A read whose commit      *)
(* fails answers its own view without the dead, and nothing is written; an *)
(* error of prune_with's, or of any other commit, ends the client as       *)
(* ClientDies does.                                                        *)
PruneCommit(c) ==
  /\ pc[c] = "prune"
  /\ \/ /\ rows' = ReleasePorts(rows, dead[c])
        /\ AfterRead(c, "prune", rows')
     \/ /\ job[c].op = "up"
        /\ AfterRead(c, "prune", ReleasePorts(view[c], dead[c]))
        /\ UNCHANGED rows
  /\ UNCHANGED <<procs, dirs, clock>>

(* launch_with: the next pending plan, in order, or done.                  *)
Spawn(c) ==
  /\ pc[c] = "spawn" /\ todo[c] # {} /\ UnusedPids # {}
  /\ Goto(c, "spawn", "record")
  /\ procs' = [procs EXCEPT ![Min(UnusedPids)] =
                 [NoProc EXCEPT !.st = "boot", !.port = picked[c][Min(todo[c])]]]
  /\ child' = [child EXCEPT ![c] = Min(UnusedPids)]
  /\ UNCHANGED <<rows, job, picked, view, dead, todo, dirs, clock>>

(* The spawn fails, or no pid is left: `?` abandons the rest.              *)
SpawnFails(c) ==
  /\ todo[c] # {}
  /\ Finish(c, "spawn")
  /\ UNCHANGED <<rows, procs, dirs, clock>>

RecordSpawned(c) ==
  LET q == child[c]
      i == Min(todo[c])
  IN  /\ Goto(c, "record", "spawn")
      /\ rows' = RecordPid(rows, picked[c][i], job[c].reqs[i].key, q, clock)
      /\ procs' = [procs EXCEPT ![q].recorded = TRUE]
      /\ todo' = [todo EXCEPT ![c] = @ \ {i}]
      /\ child' = [child EXCEPT ![c] = NoPid]
      /\ UNCHANGED <<job, picked, view, dead, dirs, clock>>

LaunchDone(c) ==
  /\ todo[c] = {}
  /\ Finish(c, "spawn")
  /\ UNCHANGED <<rows, procs, dirs, clock>>

(* The rows a down or a release is about: listed by number, or a holder's. *)
DownScope(j) ==
  IF j.op \in {"downports", "releaseports"} THEN DOMAIN rows \cap j.ports
  ELSE HolderPorts(rows, j.holder, j.roles)

Signalled(ps) ==
  [q \in Pids |-> [procs[q] EXCEPT !.sig = @ \/ q \in {rows[p].pid : p \in ps}]]

(* bring_down and bring_down_ports without a daemon: SIGTERM and release   *)
(* under one lock, with no prune first.                                    *)
BringDown(c) ==
  /\ pc[c] = "down"
  /\ procs' = Signalled(DownScope(job[c]))
  /\ rows' = ReleasePorts(rows, DownScope(job[c]))
  /\ Finish(c, "down")
  /\ UNCHANGED <<dirs, clock>>

(* portm release: rows only, no signal.                                    *)
ReleaseRows(c) ==
  /\ pc[c] = "release"
  /\ rows' = ReleasePorts(rows, DownScope(job[c]))
  /\ Finish(c, "release")
  /\ UNCHANGED <<procs, dirs, clock>>

(* A client is killed, or gives up on an error: what it committed stays.   *)
ClientDies(c) ==
  /\ \E from \in {"alloc", "grant", "read", "prune", "spawn", "record"} : Finish(c, from)
  /\ UNCHANGED <<rows, procs, dirs, clock>>

(***************************************************************************)
(* The servers, the file system and time                                   *)
(***************************************************************************)

(* A server binds its port, and exits if something else has it.            *)
Bind(q) ==
  /\ procs[q].st = "boot"
  /\ procs' = [procs EXCEPT ![q].st = IF procs[q].port \in Open THEN "gone" ELSE "serving"]
  /\ UNCHANGED <<rows, locals, dirs, clock>>

Hang(q) ==
  /\ procs[q].st = "serving"
  /\ procs' = [procs EXCEPT ![q].st = "hung"]
  /\ UNCHANGED <<rows, locals, dirs, clock>>

(* A crash, or the answer to a SIGTERM.                                    *)
Exit(q) ==
  /\ q \in Alive
  /\ procs' = [procs EXCEPT ![q].st = "gone"]
  /\ UNCHANGED <<rows, locals, dirs, clock>>

RemoveWorktree(h) ==
  /\ h \in dirs
  /\ dirs' = dirs \ {h}
  /\ UNCHANGED <<rows, locals, procs, clock>>

Tick ==
  /\ clock < MaxClock
  /\ clock' = clock + 1
  /\ UNCHANGED <<rows, locals, procs, dirs>>

Work(c) ==
  \/ AllocChoose(c) \/ AllocCommit(c) \/ ReadProbe(c) \/ PruneCommit(c)
  \/ Spawn(c) \/ SpawnFails(c) \/ RecordSpawned(c) \/ LaunchDone(c)
  \/ BringDown(c) \/ ReleaseRows(c)

Next ==
  \/ \E c \in Clients : Work(c) \/ ClientDies(c) \/ \E j \in Jobs : Start(c, j)
  \/ \E q \in Pids : Bind(q) \/ Hang(q) \/ Exit(q)
  \/ \E h \in Worktrees : RemoveWorktree(h)
  \/ Tick

Spec == Init /\ [][Next]_vars

(***************************************************************************)
(* Properties                                                              *)
(***************************************************************************)

(* Shapes; a client holds a port for every request once it has chosen.     *)
TypeOK ==
  /\ IsPortRegistry(rows)
  /\ procs \in [Pids -> [st : States, port : 0..MaxPort, sig : BOOLEAN, recorded : BOOLEAN]]
  /\ dirs \subseteq Worktrees /\ clock \in 0..MaxClock
  /\ \A c \in Clients :
       /\ pc[c] = "idle" <=> job[c] = None
       /\ picked[c] \in Seq(Ports) /\ IsPortRegistry(view[c])
       /\ pc[c] \in {"grant", "spawn", "record"} => Len(picked[c]) = Len(job[c].reqs)
       /\ pc[c] = "record" <=> child[c] \in Pids
       /\ pc[c] = "record" => todo[c] # {}

(* alloc_with never takes a row away or changes one, however much happened *)
(* between its probe and its commit ("the commit re-checks under           *)
(* exclusion").                                                            *)
AllocKeepsRows ==
  [][\A c \in Clients : pc[c] = "grant" /\ AllocCommit(c) =>
       \A p \in DOMAIN rows : p \in DOMAIN rows' /\ rows'[p] = rows[p]]_vars

(* What alloc_with answers stands in the registry for the caller, a port   *)
(* for each request, and concurrent callers for one key share its row:     *)
(* the commit adds no second row for a key that had one.                   *)
AllocIsIdempotent ==
  [][\A c \in Clients : pc[c] = "grant" /\ AllocCommit(c) =>
       \A i \in DOMAIN job[c].reqs :
         LET key == job[c].reqs[i].key
         IN  /\ Granted(c).ports[i] \in Holds(rows', key)
             /\ Holds(rows', key) \subseteq Holds(rows, key) \cup {Granted(c).ports[i]}
             /\ Holds(rows, key) # {} => Holds(rows', key) = Holds(rows, key)]_vars

(* A server whose pid was recorded and that nobody stopped has a row as    *)
(* long as it lives and no worktree was removed: "a live process is never  *)
(* left untracked".                                                        *)
LiveIsTracked ==
  dirs = Worktrees =>
    \A q \in Alive :
      procs[q].recorded /\ ~procs[q].sig => \E p \in DOMAIN rows : rows[p].pid = q
=============================================================================
