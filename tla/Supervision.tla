---------------------------- MODULE Supervision -----------------------------
(***************************************************************************)
(* devkitd as a process supervisor: the request handlers of                *)
(* src/bin/devkitd/server.rs, the supervision and health-probe threads of  *)
(* main.rs and the table of supervisor.rs, running at the same time over   *)
(* the port registry, with the servers they start and daemon restarts.     *)
(*                                                                         *)
(* A step is what a thread does under one acquisition of the table's mutex *)
(* or in one registry commit; between two steps every other thread may     *)
(* run.  The `spawning` mutex is held across steps and is a variable.      *)
(* Control groups, memory warnings and log lines are left out.             *)
(***************************************************************************)
EXTENDS PortModel

CONSTANTS
  Handlers,     \* connection threads
  Requests,     \* what clients may ask
  None,
  MaxRestarts,  \* DEVKIT_DAEMON_MAX_RESTARTS
  Window,       \* DEVKIT_DAEMON_RESTART_WINDOW, in ticks
  Probing,      \* health probes are on
  Threshold,    \* DEVKIT_DAEMON_HEALTH_FAIL_THRESHOLD
  MemRestart,   \* the memory action is "restart" and a limit is set
  MemTicks,     \* DEVKIT_DAEMON_MEM_LIMIT_TICKS
  SavesFail,    \* registry writes may fail
  MaxDeaths,    \* bound on daemon deaths
  MaxClock      \* bound on time

(* What the protocol can carry to the handlers modelled here.              *)
RequestKinds ==
  [op : {"supervise"}, key : ServerKeys, base : Ports]
    \cup [op : {"down"}, holder : Worktrees, roles : SUBSET Roles]
    \cup [op : {"downports"}, ports : SUBSET Ports]
    \cup [op : {"snapshot"}]

ASSUME SupervisionAssumption ==
  /\ Requests \subseteq RequestKinds
  /\ None \notin Handlers
  /\ {MaxRestarts, MaxDeaths, MaxClock} \subseteq Nat
  /\ {Window, Threshold, MemTicks} \subseteq Nat \ {0}
  /\ {Probing, MemRestart, SavesFail} \subseteq BOOLEAN

VARIABLES
  rows,      \* the port registry, memory and file alike
  sup,       \* Supervisor.children: server key -> child
  spawning,  \* the handler holding Daemon.spawning, or None
  hs,        \* hs[h]: request, label and locals of handler h
  reaper,    \* label and locals of the supervision thread
  prober,    \* label and locals of the health-probe thread
  procs,     \* the servers
  running,   \* the daemon is up
  deaths,    \* how often it went down
  clock,
  wanted     \* wanted[k]: no Down for k has been answered since the last
             \* Supervise for k began (history)

vars == <<rows, sup, spawning, hs, reaper, prober, procs, running, deaths, clock, wanted>>

(***************************************************************************)
(* Servers.  A zombie has exited and is not reaped: its pid still exists.  *)
(***************************************************************************)

NoProc == [st |-> "unused", port |-> 0, key |-> None, by |-> None, own |-> FALSE,
           sig |-> {}, answered |-> FALSE]

Used == {q \in Pids : procs[q].st # "unused"}
UnusedPids == Pids \ Used

Up == {q \in Pids : procs[q].st \in {"boot", "serving", "hung"}}

(* pid_alive: kill(pid, 0) succeeds on a zombie too.                       *)
Alive == Up \cup {q \in Pids : procs[q].st = "zombie"}

Serving == {q \in Pids : procs[q].st = "serving"}

Open == {procs[q].port : q \in Serving}

(* spawn_detached; `by` remembers who asked.                               *)
SpawnAs(q, port, key, by) ==
  procs' = [procs EXCEPT ![q] = [NoProc EXCEPT !.st = "boot", !.port = port,
                                               !.key = key, !.by = by, !.own = TRUE]]

(* supervise::stop: SIGTERM; a pid that is gone is ignored.                *)
Signalled(pids, why) ==
  [q \in Pids |-> IF q \in pids \cap Up THEN [procs[q] EXCEPT !.sig = @ \cup {why}]
                  ELSE procs[q]]

(***************************************************************************)
(* The supervision table                                                   *)
(***************************************************************************)

NewChild(pid, port, owned) ==
  [pid |-> pid, port |-> port, owned |-> owned, spec |-> owned, restarts |-> <<>>,
   armed |-> FALSE, failures |-> 0, over |-> 0, gaveup |-> FALSE]

WithChild(k, c) == [j \in DOMAIN sup \cup {k} |-> IF j = k THEN c ELSE sup[j]]

Without(keys) == Restrict(sup, DOMAIN sup \ keys)

(* Restarts of a child still inside the window.  The code also forgets the *)
(* others, which no later count can see again.                             *)
Recent(c) == {i \in DOMAIN c.restarts : clock - c.restarts[i] < Window}

(* Mutant: one restart too many is thought to be possible.                 *)
CanRestartOneMore(c) == Cardinality(Recent(c)) <= MaxRestarts

(* can_restart: the memory path's look at the budget; nothing is charged.  *)
CanRestart(c) == Cardinality(Recent(c)) < MaxRestarts

(* Mutant: one restart too many is allowed.                                *)
MayRestartOneMore(c) == Cardinality(Recent(c)) <= MaxRestarts

(* may_restart: the same test ...                                          *)
MayRestart(c) == Cardinality(Recent(c)) < MaxRestarts

(* ... which charges the restart it allows.                                *)
Charged(c) == [c EXCEPT !.restarts = Append(@, clock)]

(* set_pid: a fresh process must prove itself ready again.                 *)
Respawned(c, pid) ==
  [c EXCEPT !.pid = pid, !.owned = TRUE, !.armed = FALSE, !.failures = 0,
            !.over = 0, !.gaveup = FALSE]

(* record_probe on a tracked child.                                        *)
Probed(c, ok) ==
  IF ok THEN [c EXCEPT !.armed = TRUE, !.failures = 0]
  ELSE IF ~c.armed THEN c
  ELSE [c EXCEPT !.failures = IF @ + 1 >= Threshold THEN 0 ELSE @ + 1]

(* Mutant: a child that never answered is judged too.                      *)
JudgedHungUnarmed(c, ok) == ~ok /\ c.failures + 1 >= Threshold

JudgedHung(c, ok) == ~ok /\ c.armed /\ c.failures + 1 >= Threshold

(***************************************************************************)
(* Threads                                                                 *)
(***************************************************************************)

IdleHandler == [req |-> None, pc |-> "idle", port |-> 0, dead |-> {}, keys |-> {},
                child |-> NoPid]
IdleReaper == [pc |-> "sleep", dead |-> {}, key |-> None, port |-> 0, child |-> NoPid]
IdleProber == [pc |-> "sleep", targets |-> {}, key |-> None, ok |-> FALSE, pid |-> NoPid]

Init ==
  /\ rows = NoRows
  /\ sup = [k \in {} |-> 0]
  /\ spawning = None
  /\ hs = [h \in Handlers |-> IdleHandler]
  /\ reaper = IdleReaper
  /\ prober = IdleProber
  /\ procs = [q \in Pids |-> NoProc]
  /\ running = TRUE
  /\ deaths = 0
  /\ clock = 0
  /\ wanted = [k \in ServerKeys |-> FALSE]

At(h, label) == hs[h].pc = label

Answer(h) == hs' = [hs EXCEPT ![h] = IdleHandler]

FirstLabel ==
  [supervise |-> "lock", down |-> "snapshot", downports |-> "snapshot", snapshot |-> "snapshot"]

Receive(h, r) ==
  /\ running
  /\ At(h, "idle")
  /\ hs' = [hs EXCEPT ![h] = [IdleHandler EXCEPT !.req = r, !.pc = FirstLabel[r.op]]]
  /\ wanted' = IF r.op = "supervise" THEN [wanted EXCEPT ![r.key] = TRUE] ELSE wanted
  /\ UNCHANGED <<rows, sup, spawning, reaper, prober, procs, running, deaths, clock>>

(***************************************************************************)
(* Supervise                                                               *)
(***************************************************************************)

(* Mutant: the request does not wait for one that is spawning.             *)
TakeSpawningFree(h) ==
  /\ At(h, "lock")
  /\ spawning' = h
  /\ hs' = [hs EXCEPT ![h].pc = "choose"]
  /\ UNCHANGED <<rows, sup, reaper, prober, procs, running, deaths, clock, wanted>>

TakeSpawning(h) ==
  /\ At(h, "lock")
  /\ spawning = None
  /\ spawning' = h
  /\ hs' = [hs EXCEPT ![h].pc = "choose"]
  /\ UNCHANGED <<rows, sup, reaper, prober, procs, running, deaths, clock, wanted>>

(* The key has a port, or one is free for it: MaxPort bounds the search as *)
(* u16::MAX does in the code, which panics beyond it.                      *)
HasPort(h) ==
  \/ Holds(rows, hs[h].req.key) # {}
  \/ \E p \in hs[h].req.base .. MaxPort : p \notin DOMAIN rows /\ p \notin Open

(* alloc_with for the one app of the request, its probe and its commit.    *)
Choose(h) ==
  /\ At(h, "choose")
  /\ HasPort(h)
  /\ hs' = [hs EXCEPT ![h].pc = "grant",
                      ![h].port = AllocOne(rows, hs[h].req.key, hs[h].req.base, Open, clock).port]
  /\ UNCHANGED <<rows, sup, spawning, reaper, prober, procs, running, deaths, clock, wanted>>

Grant(h) ==
  LET g == CommitOne(rows, hs[h].req.key, hs[h].req.base, hs[h].port, Open, clock)
  IN  /\ At(h, "grant")
      /\ HasPort(h) \/ hs[h].port \notin DOMAIN rows
      /\ rows' = g.rows
      /\ hs' = [hs EXCEPT ![h].pc = "check", ![h].port = g.port]
      /\ UNCHANGED <<sup, spawning, reaper, prober, procs, running, deaths, clock, wanted>>

(* Mutant: the early answer does not give the mutex back.                  *)
ReportExistingKeepsMutex(h) ==
  /\ At(h, "check")
  /\ ExistingServer(rows, hs[h].port, hs[h].req.key, Alive)
  /\ Answer(h)
  /\ UNCHANGED <<rows, sup, spawning, reaper, prober, procs, running, deaths, clock, wanted>>

(* A live server already tracked for the key is reported.                  *)
ReportExisting(h) ==
  /\ At(h, "check")
  /\ ExistingServer(rows, hs[h].port, hs[h].req.key, Alive)
  /\ spawning' = None
  /\ Answer(h)
  /\ UNCHANGED <<rows, sup, reaper, prober, procs, running, deaths, clock, wanted>>

SpawnChild(h) ==
  /\ At(h, "check")
  /\ ~ExistingServer(rows, hs[h].port, hs[h].req.key, Alive)
  /\ UnusedPids # {}
  /\ SpawnAs(Min(UnusedPids), hs[h].port, hs[h].req.key, "request")
  /\ hs' = [hs EXCEPT ![h].pc = "record", ![h].child = Min(UnusedPids)]
  /\ UNCHANGED <<rows, sup, spawning, reaper, prober, running, deaths, clock, wanted>>

(* An error answer: the alloc's commit, the spawn or the record failed.    *)
(* What was already done stays done.                                       *)
SuperviseFails(h) ==
  /\ \/ At(h, "check") /\ ~ExistingServer(rows, hs[h].port, hs[h].req.key, Alive)
     \/ SavesFail /\ (At(h, "grant") \/ At(h, "record"))
  /\ spawning' = None
  /\ Answer(h)
  /\ UNCHANGED <<rows, sup, reaper, prober, procs, running, deaths, clock, wanted>>

RecordChild(h) ==
  /\ At(h, "record")
  /\ rows' = RecordPid(rows, hs[h].port, hs[h].req.key, hs[h].child, clock)
  /\ hs' = [hs EXCEPT ![h].pc = "insert"]
  /\ UNCHANGED <<sup, spawning, reaper, prober, procs, running, deaths, clock, wanted>>

(* insert_owned, and the end of the spawning section.                      *)
InsertOwned(h) ==
  /\ At(h, "insert")
  /\ sup' = WithChild(hs[h].req.key, NewChild(hs[h].child, hs[h].port, TRUE))
  /\ spawning' = None
  /\ Answer(h)
  /\ UNCHANGED <<rows, reaper, prober, procs, running, deaths, clock, wanted>>

(***************************************************************************)
(* Down, DownPorts and Snapshot                                            *)
(***************************************************************************)

Covers(r, k) == r.op = "down" /\ k.holder = r.holder /\ k.role \in r.roles

(* The ports, of a registry view, that a request is about.                 *)
Scope(r, d) ==
  IF r.op = "downports" THEN DOMAIN d \cap r.ports ELSE {p \in DOMAIN d : Covers(r, d[p].key)}

KeysOf(r, d) == {d[p].key : p \in Scope(r, d)}

(* A snapshot request ends with its read; a down goes on with its keys.    *)
AfterSnapshot(h, d) ==
  IF hs[h].req.op = "snapshot" THEN Answer(h)
  ELSE hs' = [hs EXCEPT ![h].pc = "remove", ![h].keys = KeysOf(hs[h].req, d)]

(* snapshot_with: view and probe ...                                       *)
SnapshotProbe(h) ==
  LET found == DeadPorts(rows, clock, Worktrees, Alive, Open)
  IN  /\ At(h, "snapshot")
      /\ IF found = {} THEN AfterSnapshot(h, rows)
         ELSE hs' = [hs EXCEPT ![h].pc = "prune", ![h].dead = found,
                               ![h].keys = KeysOf(hs[h].req, ReleasePorts(rows, found))]
      /\ UNCHANGED <<rows, sup, spawning, reaper, prober, procs, running, deaths, clock, wanted>>

(* ... and the removal of what the probe found.                            *)
SnapshotPrune(h) ==
  /\ At(h, "prune")
  /\ rows' = ReleasePorts(rows, hs[h].dead)
  /\ AfterSnapshot(h, rows')
  /\ UNCHANGED <<sup, spawning, reaper, prober, procs, running, deaths, clock, wanted>>

(* A removal that cannot be saved is let go: the pruned view is the answer.*)
SnapshotUnsaved(h) ==
  /\ SavesFail
  /\ At(h, "prune")
  /\ IF hs[h].req.op = "snapshot" THEN Answer(h) ELSE hs' = [hs EXCEPT ![h].pc = "remove"]
  /\ UNCHANGED <<rows, sup, spawning, reaper, prober, procs, running, deaths, clock, wanted>>

(* Under the table's mutex: each key leaves the table before its child is  *)
(* signalled.                                                              *)
RemoveAndStop(h) ==
  LET keys == hs[h].keys \cap DOMAIN sup
  IN  /\ At(h, "remove")
      /\ sup' = Without(keys)
      /\ procs' = Signalled({sup[k].pid : k \in keys}, "down")
      /\ hs' = [hs EXCEPT ![h].pc = "release"]
      /\ UNCHANGED <<rows, spawning, reaper, prober, running, deaths, clock, wanted>>

(* Keys a Supervise request is being served for.                           *)
Starting == {hs[h].req.key : h \in {h \in Handlers : hs[h].req # None
                                                      /\ hs[h].req.op = "supervise"}}

(* release_with or release_ports_with, and the answer.                     *)
ReleaseScope(h) ==
  /\ At(h, "release")
  /\ rows' = ReleasePorts(rows, Scope(hs[h].req, rows))
  /\ wanted' = [k \in ServerKeys |->
                  wanted[k] /\ ~(Covers(hs[h].req, k) /\ k \notin Starting)]
  /\ Answer(h)
  /\ UNCHANGED <<sup, spawning, reaper, prober, procs, running, deaths, clock>>

(* The release cannot be saved: an error answer, after the stop.           *)
ReleaseFails(h) ==
  /\ SavesFail
  /\ At(h, "release")
  /\ Answer(h)
  /\ UNCHANGED <<rows, sup, spawning, reaper, prober, procs, running, deaths, clock, wanted>>

(***************************************************************************)
(* The supervision thread                                                  *)
(***************************************************************************)

ReaperAt(label) == running /\ reaper.pc = label

(* A child whose process is gone: waitpid for an owned one (a pid that is  *)
(* no child of ours counts as gone), pid_alive for an adopted one.         *)
ChildGone(c) == IF c.owned THEN c.pid \notin Up ELSE c.pid \notin Alive

ReapOnce ==
  LET gone == {k \in DOMAIN sup : ChildGone(sup[k])}
      pids == {sup[k].pid : k \in {k \in gone : sup[k].owned}}
  IN  /\ ReaperAt("sleep")
      /\ procs' = [q \in Pids |-> IF q \in pids THEN [procs[q] EXCEPT !.st = "gone"]
                                  ELSE procs[q]]
      /\ reaper' = [IdleReaper EXCEPT !.pc = "each", !.dead = gone]
      /\ UNCHANGED <<rows, sup, spawning, hs, prober, running, deaths, clock, wanted>>

(* restart: the key was removed meanwhile, nothing to do.                  *)
RestartSkips(k) ==
  /\ ReaperAt("each") /\ k \in reaper.dead
  /\ k \notin DOMAIN sup
  /\ reaper' = [reaper EXCEPT !.dead = @ \ {k}]
  /\ UNCHANGED <<rows, sup, spawning, hs, prober, procs, running, deaths, clock, wanted>>

(* Mutant: a child out of budget stays in the table.                       *)
RestartDropsAdopted(k) ==
  /\ ReaperAt("each") /\ k \in reaper.dead
  /\ k \in DOMAIN sup
  /\ ~sup[k].spec \/ ~MayRestart(sup[k])
  /\ sup' = IF sup[k].spec THEN sup ELSE Without({k})
  /\ reaper' = [reaper EXCEPT !.dead = @ \ {k}]
  /\ UNCHANGED <<rows, spawning, hs, prober, procs, running, deaths, clock, wanted>>

(* restart: no launch spec, or no budget left; the child is dropped.       *)
RestartDrops(k) ==
  /\ ReaperAt("each") /\ k \in reaper.dead
  /\ k \in DOMAIN sup
  /\ ~sup[k].spec \/ ~MayRestart(sup[k])
  /\ sup' = Without({k})
  /\ reaper' = [reaper EXCEPT !.dead = @ \ {k}]
  /\ UNCHANGED <<rows, spawning, hs, prober, procs, running, deaths, clock, wanted>>

(* restart: charged, and on to respawn.  The memory kill that led here, if *)
(* one did, has been answered.                                             *)
RestartAllowed(k) ==
  /\ ReaperAt("each") /\ k \in reaper.dead
  /\ k \in DOMAIN sup
  /\ sup[k].spec /\ MayRestart(sup[k])
  /\ sup' = WithChild(k, Charged(sup[k]))
  /\ procs' = [procs EXCEPT ![sup[k].pid].sig = @ \ {"memory"}]
  /\ reaper' = [reaper EXCEPT !.dead = @ \ {k}, !.pc = "launch", !.key = k]
  /\ UNCHANGED <<rows, spawning, hs, prober, running, deaths, clock, wanted>>

BackToEach == [reaper EXCEPT !.pc = "each", !.key = None, !.port = 0, !.child = NoPid]

(* respawn: the launch spec is looked up under a new lock.                 *)
LaunchOf ==
  LET k == reaper.key
  IN  /\ ReaperAt("launch")
      /\ reaper' = IF k \in DOMAIN sup /\ sup[k].spec
                   THEN [reaper EXCEPT !.pc = "spawn", !.port = sup[k].port]
                   ELSE BackToEach
      /\ UNCHANGED <<rows, sup, spawning, hs, prober, procs, running, deaths, clock, wanted>>

Respawn ==
  /\ ReaperAt("spawn")
  /\ UnusedPids # {}
  /\ SpawnAs(Min(UnusedPids), reaper.port, reaper.key, "respawn")
  /\ reaper' = [reaper EXCEPT !.pc = "record", !.child = Min(UnusedPids)]
  /\ UNCHANGED <<rows, sup, spawning, hs, prober, running, deaths, clock, wanted>>

RespawnFails ==
  /\ ReaperAt("spawn")
  /\ reaper' = BackToEach
  /\ UNCHANGED <<rows, sup, spawning, hs, prober, procs, running, deaths, clock, wanted>>

(* The pid is recorded; a failure to save it is ignored.                   *)
RespawnRecord ==
  /\ ReaperAt("record")
  /\ \/ rows' = RecordPid(rows, reaper.port, reaper.key, reaper.child, clock)
     \/ SavesFail /\ rows' = rows
  /\ reaper' = [reaper EXCEPT !.pc = "setpid"]
  /\ UNCHANGED <<sup, spawning, hs, prober, procs, running, deaths, clock, wanted>>

SetPid ==
  LET k == reaper.key
  IN  /\ ReaperAt("setpid")
      /\ sup' = IF k \in DOMAIN sup THEN WithChild(k, Respawned(sup[k], reaper.child)) ELSE sup
      /\ reaper' = BackToEach
      /\ UNCHANGED <<rows, spawning, hs, prober, procs, running, deaths, clock, wanted>>

(* mem_limit_actions on one child, `big` being those at or over the limit. *)
Weighed(k, big) ==
  LET c == sup[k]
      due == c.over + 1 >= MemTicks
  IN  IF ~c.spec THEN c
      ELSE IF k \notin big THEN [c EXCEPT !.over = 0, !.gaveup = FALSE]
      ELSE [c EXCEPT !.over = IF due THEN 0 ELSE @ + 1,
                     !.gaveup = @ \/ (due /\ ~CanRestart(c))]

MemKills(big) ==
  {k \in big \cap DOMAIN sup : sup[k].spec /\ sup[k].over + 1 >= MemTicks /\ CanRestart(sup[k])}

(* The end of a tick: the memory limit, then sleep.                        *)
MemoryTick(big) ==
  /\ ReaperAt("each") /\ reaper.dead = {}
  /\ IF MemRestart
     THEN /\ sup' = [k \in DOMAIN sup |-> Weighed(k, big)]
          /\ procs' = Signalled({sup[k].pid : k \in MemKills(big)}, "memory")
     ELSE UNCHANGED <<sup, procs>>
  /\ reaper' = IdleReaper
  /\ UNCHANGED <<rows, spawning, hs, prober, running, deaths, clock, wanted>>

(***************************************************************************)
(* The health-probe thread                                                 *)
(***************************************************************************)

ProberAt(label) == Probing /\ running /\ prober.pc = label

ProbeTargets ==
  /\ ProberAt("sleep")
  /\ prober' = [IdleProber EXCEPT !.pc = "probe",
                  !.targets = {<<k, sup[k].port>> : k \in {k \in DOMAIN sup : sup[k].spec}}]
  /\ UNCHANGED <<rows, sup, spawning, hs, reaper, procs, running, deaths, clock, wanted>>

(* A connect to one target, with no lock held.                             *)
ProbeConnect(t) ==
  /\ ProberAt("probe") /\ t \in prober.targets
  /\ prober' = [prober EXCEPT !.pc = "fold", !.targets = @ \ {t}, !.key = t[1],
                              !.ok = t[2] \in Open]
  /\ procs' = [q \in Pids |-> IF q \in Serving /\ procs[q].port = t[2]
                              THEN [procs[q] EXCEPT !.answered = TRUE] ELSE procs[q]]
  /\ UNCHANGED <<rows, sup, spawning, hs, reaper, running, deaths, clock, wanted>>

(* record_probe, for whatever child the key names by now.                  *)
ProbeFold ==
  LET k == prober.key
      hung == k \in DOMAIN sup /\ JudgedHung(sup[k], prober.ok)
  IN  /\ ProberAt("fold")
      /\ sup' = IF k \in DOMAIN sup THEN WithChild(k, Probed(sup[k], prober.ok)) ELSE sup
      /\ prober' = IF hung THEN [prober EXCEPT !.pc = "stop", !.pid = sup[k].pid]
                   ELSE [IdleProber EXCEPT !.pc = "probe", !.targets = prober.targets]
      /\ UNCHANGED <<rows, spawning, hs, reaper, procs, running, deaths, clock, wanted>>

ProbeStop ==
  /\ ProberAt("stop")
  /\ procs' = Signalled({prober.pid}, "probe")
  /\ prober' = [IdleProber EXCEPT !.pc = "probe", !.targets = prober.targets]
  /\ UNCHANGED <<rows, sup, spawning, hs, reaper, running, deaths, clock, wanted>>

ProbeDone ==
  /\ ProberAt("probe") /\ prober.targets = {}
  /\ prober' = IdleProber
  /\ UNCHANGED <<rows, sup, spawning, hs, reaper, procs, running, deaths, clock, wanted>>

(***************************************************************************)
(* The daemon's life, the servers and time                                 *)
(***************************************************************************)

(* The daemon is killed, or leaves: its threads stop where they are, its   *)
(* servers live on under init, which reaps the exited ones.                *)
DaemonDies ==
  /\ running /\ deaths < MaxDeaths
  /\ running' = FALSE
  /\ deaths' = deaths + 1
  /\ sup' = [k \in {} |-> 0]
  /\ spawning' = None
  /\ hs' = [h \in Handlers |-> IdleHandler]
  /\ reaper' = IdleReaper
  /\ prober' = IdleProber
  /\ procs' = [q \in Pids |-> [procs[q] EXCEPT !.own = FALSE,
                                 !.st = IF @ = "zombie" THEN "gone" ELSE @]]
  /\ UNCHANGED <<rows, clock, wanted>>

(* A new daemon loads the registry and adopts every row with a live pid;   *)
(* of two rows for one key the one with the higher port wins.              *)
DaemonBoots ==
  LET live == {p \in DOMAIN rows : rows[p].pid \in Alive}
      port(k) == Max({p \in live : rows[p].key = k})
  IN  /\ ~running
      /\ running' = TRUE
      /\ sup' = [k \in {rows[p].key : p \in live} |-> NewChild(rows[port(k)].pid, port(k), FALSE)]
      /\ UNCHANGED <<rows, spawning, hs, reaper, prober, procs, deaths, clock, wanted>>

(* A server binds its port, and exits if another server has it.            *)
Bind(q) ==
  /\ procs[q].st = "boot"
  /\ procs' = [procs EXCEPT ![q].st =
                 IF procs[q].port \notin Open THEN "serving"
                 ELSE IF procs[q].own THEN "zombie" ELSE "gone"]
  /\ UNCHANGED <<rows, sup, spawning, hs, reaper, prober, running, deaths, clock, wanted>>

Hang(q) ==
  /\ procs[q].st = "serving"
  /\ procs' = [procs EXCEPT ![q].st = "hung"]
  /\ UNCHANGED <<rows, sup, spawning, hs, reaper, prober, running, deaths, clock, wanted>>

(* A crash, or the answer to a SIGTERM.                                    *)
Exit(q) ==
  /\ q \in Up
  /\ procs' = [procs EXCEPT ![q].st = IF procs[q].own THEN "zombie" ELSE "gone"]
  /\ UNCHANGED <<rows, sup, spawning, hs, reaper, prober, running, deaths, clock, wanted>>

Tick ==
  /\ clock < MaxClock
  /\ clock' = clock + 1
  /\ UNCHANGED <<rows, sup, spawning, hs, reaper, prober, procs, running, deaths, wanted>>

Serve(h) ==
  \/ TakeSpawning(h) \/ Choose(h) \/ Grant(h) \/ ReportExisting(h) \/ SpawnChild(h)
  \/ SuperviseFails(h) \/ RecordChild(h) \/ InsertOwned(h)
  \/ SnapshotProbe(h) \/ SnapshotPrune(h) \/ SnapshotUnsaved(h)
  \/ RemoveAndStop(h) \/ ReleaseScope(h) \/ ReleaseFails(h)

Reap ==
  \/ ReapOnce
  \/ \E k \in ServerKeys : RestartSkips(k) \/ RestartDrops(k) \/ RestartAllowed(k)
  \/ LaunchOf \/ Respawn \/ RespawnFails \/ RespawnRecord \/ SetPid
  \/ \E big \in SUBSET {k \in DOMAIN sup : sup[k].pid \in Up} : MemoryTick(big)

Probe ==
  \/ ProbeTargets
  \/ \E t \in prober.targets : ProbeConnect(t)
  \/ ProbeFold \/ ProbeStop \/ ProbeDone

Next ==
  \/ \E h \in Handlers : Serve(h) \/ \E r \in Requests : Receive(h, r)
  \/ Reap
  \/ Probe
  \/ DaemonDies \/ DaemonBoots
  \/ \E q \in Pids : Bind(q) \/ Hang(q) \/ Exit(q)
  \/ Tick

Spec == Init /\ [][Next]_vars

(* The supervision thread wakes every half second and takes no lock that   *)
(* is held for long.                                                       *)
FairSpec == Spec /\ WF_vars(Reap)

(***************************************************************************)
(* Properties                                                              *)
(***************************************************************************)

(* Shapes; the spawning mutex is held exactly by a request between its     *)
(* lock and its answer.                                                    *)
TypeOK ==
  /\ IsPortRegistry(rows)
  /\ DOMAIN sup \subseteq ServerKeys
  /\ \A k \in DOMAIN sup : sup[k].pid \in Used /\ sup[k].port \in Ports
  /\ \A h \in Handlers :
       hs[h].pc \in {"choose", "grant", "check", "record", "insert"} <=> spawning = h
  /\ reaper.dead \subseteq ServerKeys
  /\ reaper.pc \in {"record", "setpid"} <=> reaper.child \in Pids
  /\ \A q \in UnusedPids : procs[q] = NoProc

(* Concurrent requests for one key start one server (the `spawning` mutex  *)
(* of supervise_app): a key never has two servers up that nobody told to   *)
(* stop, as long as the supervision thread, which does not take that mutex,*)
(* has respawned none for it, and no daemon died with a server unrecorded. *)
OneServerPerKey ==
  \A k \in ServerKeys :
    LET servers == {q \in Used : procs[q].key = k}
    IN  deaths = 0 /\ (\A q \in servers : procs[q].by = "request")
        => Cardinality({q \in servers \cap Up : procs[q].sig = {}}) <= 1

(* The crash-loop budget bounds what a flapping server costs: each server  *)
(* a request started is respawned at most MaxRestarts times per window,    *)
(* whatever the crashes, failed spawns, hung verdicts and memory kills.    *)
RestartsAreBounded ==
  \A k \in ServerKeys :
    LET Started(by) == Cardinality({q \in Used : procs[q].key = k /\ procs[q].by = by})
    IN  Started("respawn") <= MaxRestarts * (1 + clock \div Window) * Started("request")

(* The memory path looks at the budget before it kills, so a child it      *)
(* killed is respawned and never given up on for want of budget.           *)
MemoryKillIsRespawned ==
  [][\A k \in DOMAIN sup : RestartDrops(k) /\ sup[k].spec
                             => "memory" \notin procs[sup[k].pid].sig]_vars

(* A dead child does not stay in the table: it is respawned or dropped.    *)
DeadChildIsHandled ==
  \A k \in ServerKeys :
    (k \in DOMAIN sup /\ ChildGone(sup[k])) ~> (k \notin DOMAIN sup \/ ~ChildGone(sup[k]))

(* A stopped server stays stopped: once a Down is answered, and until the  *)
(* next Supervise, no server of its keys is up that was not told to stop   *)
(* (down removes the key first "so the child is not respawned").           *)
DownIsFinal ==
  \A k \in ServerKeys :
    ~wanted[k] => \A q \in Up : procs[q].key = k => procs[q].sig # {}

(* Some server accepted a connection on a port where a server of `key` was *)
(* started.                                                                *)
Accepted(key) ==
  \E r, s \in Used : procs[r].answered /\ procs[s].key = key /\ procs[s].port = procs[r].port

(* The health probe stops no server of a key none of whose ports ever      *)
(* accepted a connection ("a slow-starting server is never judged hung").  *)
(* It need not be the same process: an answer of the old one, folded after *)
(* the respawn has disarmed the key, arms its successor.                   *)
OnlyReadyIsJudged ==
  \A q \in Pids : "probe" \in procs[q].sig => Accepted(procs[q].key)
=============================================================================
