------------------------- MODULE LockServiceProofs -------------------------
(***************************************************************************)
(* Proofs about the registry file, the gate, the data flock and the daemon *)
(* for any number of clients and requests: LockService's type invariant,   *)
(* that memory follows the file, that answers are truthful, and, when no   *)
(* daemon shuts down with threads in flight, that the file is never torn   *)
(* and implements LockRegistry.                                            *)
(***************************************************************************)
EXTENDS LockService, FiniteSetTheorems, TLAPS

-----------------------------------------------------------------------------
(* What the operations on a registry preserve.                             *)

LEMMA RestrictType ==
  ASSUME NEW d, IsRegistry(d), NEW K \in SUBSET DOMAIN d
  PROVE  IsRegistry(Restrict(d, K))
  BY DEF IsRegistry, Restrict

LEMMA NewEntryType ==
  ASSUME NEW h \in Holders, NEW pid \in Pids \cup {NoPid},
         NEW ttl \in Ttls, NEW time \in Nat
  PROVE  NewEntry(h, pid, ttl, time) \in Entries
  BY DEF NewEntry, Entries

(* A prune leaves a registry without a lapsed row.                         *)
LEMMA PruneDeadType ==
  ASSUME NEW d, IsRegistry(d), NEW time \in Nat, NEW A
  PROVE  /\ IsRegistry(PruneDead(d, time, A))
         /\ \A k \in DOMAIN PruneDead(d, time, A) :
               ~Lapsed(PruneDead(d, time, A)[k], time)
<1>1. LiveKeys(d, time, A) \in SUBSET DOMAIN d
  BY DEF LiveKeys
<1>2. IsRegistry(PruneDead(d, time, A))
  BY <1>1, RestrictType DEF PruneDead
<1>3. \A k \in DOMAIN PruneDead(d, time, A) : ~Lapsed(PruneDead(d, time, A)[k], time)
  BY DEF PruneDead, LiveKeys, DeadKeys, EntryDead, Restrict
<1>. QED
  BY <1>2, <1>3

(* try_acquire on a registry without lapsed rows.                          *)
LEMMA TryAcquireType ==
  ASSUME NEW d, IsRegistry(d), NEW root \in Roots, NEW paths \in SUBSET Paths,
         NEW h \in Holders, NEW pid \in Pids \cup {NoPid}, NEW ttl \in Ttls,
         NEW time \in Nat, NEW A
  PROVE  IsRegistry(TryAcquire(d, root, paths, h, pid, ttl, time, A))
<1>1. {root} \X paths \subseteq Keys
  BY DEF Keys
<1>2. \A k \in DOMAIN d : [d[k] EXCEPT !.ts = time] \in Entries
  BY DEF IsRegistry, Entries
<1>. QED
  BY <1>1, <1>2, NewEntryType DEF TryAcquire, IsRegistry

(* decide_write, likewise.                                                 *)
LEMMA DecideWriteType ==
  ASSUME NEW d, IsRegistry(d), NEW root \in Roots, NEW path \in Paths,
         NEW w \in Holders, NEW pid \in Pids \cup {NoPid}, NEW ttl \in Ttls,
         NEW time \in Nat, NEW A
  PROVE  IsRegistry(DecideWrite(d, root, path, w, pid, ttl, time, A))
<1>1. <<root, path>> \in Keys
  BY DEF Keys
<1>2. \A k \in DOMAIN d : [d[k] EXCEPT !.ts = time] \in Entries
  BY DEF IsRegistry, Entries
<1>. QED
  BY <1>1, <1>2, NewEntryType DEF DecideWrite, IsRegistry

-----------------------------------------------------------------------------
(* The inductive invariant, by parts.                                      *)

(* Between taking its lock and dropping it, a writer is in one of these.   *)
Busy == {"ready", "torn", "full", "renamed"}

(* The clock stays within its bound: what LockRegistry calls the lag of a  *)
(* commit is at most MaxClock.                                             *)
WorldOK == clock \in 0 .. MaxClock /\ alive \subseteq Pids

RequestsOK == req \in [Clients -> Requests]

(* Who is where: a connection thread never does what only a client does,   *)
(* and there are threads only once the daemon serves.                      *)
PhasesOK ==
  \A c \in Clients :
    /\ phase[Cli(c)] # "asked"
    /\ phase[Srv(c)] \in Busy \cup {"idle", "asked", "stamped", "done", "failed"}
    /\ dstate \in {"down", "gated", "loaded"} => phase[Srv(c)] = "idle"

(* The data flock, the gate and the mutex are held exactly by the writers  *)
(* that are inside the code each protects.                                 *)
LocksOK ==
  /\ \A c \in Clients :
       /\ flock = c <=> phase[Cli(c)] \in Busy
       /\ c \in shared <=> phase[Cli(c)] \in Busy \cup {"gated"}
       /\ mutex = c <=> phase[Srv(c)] \in Busy
  /\ Exclusive => shared = {}

(* From the load on, the daemon's memory is the file, until a thread has   *)
(* renamed: then the file is that thread's work.                           *)
MemoryOK ==
  dstate \in {"loaded", "serving", "closing"} =>
    /\ (\A c \in Clients : phase[Srv(c)] # "renamed") => mem = Load(file)
    /\ \A c \in Clients :
         /\ At(Srv(c), "renamed") => Load(file) = work[Srv(c)]
         /\ At(Srv(c), "full") => tmp = Whole(work[Srv(c)])

Mutates(c) == req[c].kind \notin {"check", "prune", "read"}

(* How often a request has reached the file, by where its writers are.     *)
CountOK ==
  \A c \in Clients :
    /\ phase[Cli(c)] \notin {"waiting", "killed"} => At(Srv(c), "idle")
    /\ phase[Cli(c)] \in {"idle", "connect", "direct", "stamped", "gated", "ready",
                          "torn", "full", "refused", "failed"} => commits[c] = 0
    /\ phase[Srv(c)] \in {"asked", "stamped", "ready", "torn", "full", "failed"}
         => commits[c] = 0
    /\ At(Cli(c), "renamed") \/ At(Srv(c), "renamed") => commits[c] = 1
    /\ (At(Cli(c), "done") \/ At(Srv(c), "done")) /\ Mutates(c) => commits[c] = 1
    /\ commits[c] \in {0, 1}

IInv == TypeOK /\ WorldOK /\ RequestsOK /\ PhasesOK /\ LocksOK /\ MemoryOK /\ CountOK

(* Without a graceful exit there is one writer at a time: what it is about *)
(* to save is its request's operation on the file as it stands, at the     *)
(* time it read and for a set of processes that has only shrunk since.     *)
NoExit == dstate \notin {"closing", "released"}

OneWriter == \A v, w \in Writers : phase[v] \in Busy /\ phase[w] \in Busy => v = w

TmpOK == \A w \in Writers : At(w, "full") => tmp = Whole(work[w])

Current(w) ==
  \E A \in SUBSET Pids :
    /\ alive \subseteq A
    /\ work[w] = Commit(req[w[2]], Load(file), now[w], A)

WorkOK == \A w \in Writers : phase[w] \in {"ready", "torn", "full"} => Current(w)

FileInv == NoExit /\ TmpOK /\ FileWhole /\ WorkOK

-----------------------------------------------------------------------------
(* Writers and what they save.                                             *)

LEMMA WriterFacts ==
  /\ \A c \in Clients : /\ Cli(c) \in Writers /\ Cli(c)[1] = "cli" /\ Cli(c)[2] = c
                        /\ Srv(c) \in Writers /\ Srv(c)[1] = "srv" /\ Srv(c)[2] = c
  /\ \A c, d \in Clients : /\ Cli(c) # Srv(d)
                           /\ Cli(c) = Cli(d) => c = d
                           /\ Srv(c) = Srv(d) => c = d
  /\ \A w \in Writers : /\ w[2] \in Clients
                        /\ \/ w[1] = "cli" /\ w = Cli(w[2])
                           \/ w[1] = "srv" /\ w = Srv(w[2])
  BY DEF Writers, Cli, Srv

LEMMA EmptyIsRegistry == IsRegistry(EmptyRegistry)
  BY DEF IsRegistry, EmptyRegistry

LEMMA DocumentTypes ==
  /\ IsDocument(Missing) /\ IsDocument(Torn)
  /\ \A d : IsRegistry(d) => IsDocument(Whole(d)) /\ Load(Whole(d)) = d
  /\ \A f : IsDocument(f) => IsRegistry(Load(f))
  BY EmptyIsRegistry DEF IsDocument, Missing, Torn, Whole, Load

(* The one path of a write request.                                        *)
LEMMA WritePath ==
  ASSUME NEW r \in Requests, r.kind = "write"
  PROVE  (CHOOSE p \in r.paths : TRUE) \in Paths
<1>1. Cardinality(r.paths) = 1 /\ r.paths \subseteq Paths
  BY LockServiceAssumption
<1>2. ASSUME r.paths = {}
      PROVE  FALSE
  <2>1. Cardinality({}) = 1
    BY <1>1, <1>2, Zenon
  <2>. QED
    BY <2>1, FS_EmptySet
<1>3. PICK p \in r.paths : TRUE
  BY <1>2
<1>. QED
  BY <1>1, <1>3

LEMMA CommitType ==
  ASSUME NEW r \in Requests, NEW d, IsRegistry(d), NEW t \in Nat, NEW A
  PROVE  IsRegistry(Commit(r, d, t, A))
<1>1. IsRegistry(PruneDead(d, t, A))
  BY PruneDeadType
<1>2. CASE r.kind = "acquire"
  BY <1>1, <1>2, TryAcquireType, LockServiceAssumption DEF Commit
<1>3. CASE r.kind = "write"
  <2>1. IsRegistry(DecideWrite(PruneDead(d, t, A), r.root, CHOOSE p \in r.paths : TRUE,
                               r.holder, NoPid, r.ttl, t, A))
    BY <1>1, <1>3, WritePath, DecideWriteType, LockServiceAssumption
  <2>. QED
    BY <1>3, <2>1 DEF Commit
<1>4. CASE r.kind = "release"
  BY <1>4, RestrictType DEF Commit, DoRelease
<1>5. CASE r.kind = "release_all"
  BY <1>5, RestrictType DEF Commit, ReleaseAll
<1>6. CASE r.kind = "release_prefix"
  BY <1>6, RestrictType DEF Commit, ReleasePrefix
<1>7. CASE r.kind \notin {"acquire", "write", "release", "release_all", "release_prefix"}
  BY <1>1, <1>7 DEF Commit
<1>. QED
  BY <1>2, <1>3, <1>4, <1>5, <1>6, <1>7

-----------------------------------------------------------------------------
LEMMA InitIInv == Init => IInv
<1> SUFFICES ASSUME Init
             PROVE  IInv
  OBVIOUS
<1>1. TypeOK
  BY DocumentTypes, EmptyIsRegistry, LockServiceAssumption DEF Init, TypeOK, InFlight
<1>2. WorldOK /\ RequestsOK
  BY LockServiceAssumption DEF Init, WorldOK, RequestsOK
<1>3. PhasesOK /\ LocksOK /\ CountOK
  BY WriterFacts, LockServiceAssumption
     DEF Init, PhasesOK, LocksOK, CountOK, Exclusive, Busy, At
<1>4. MemoryOK
  BY DEF Init, MemoryOK
<1>. QED
  BY <1>1, <1>2, <1>3, <1>4 DEF IInv

(* Every write of the model is of its type: each action separately.        *)
LEMMA TypeStep ==
  ASSUME TypeOK, WorldOK, RequestsOK, CountOK, [Next]_vars
  PROVE  TypeOK' /\ WorldOK' /\ RequestsOK'
<1> USE LockServiceAssumption
<1>0. clock \in Nat
  BY DEF WorldOK
<1>1. ASSUME NEW c \in Clients, Submit(c) \/ Connect(c) \/ EnterGate(c) \/ Unlock(c)
                             \/ LoseDaemon(c) \/ ClientKill(c) \/ Reply(c)
      PROVE  TypeOK' /\ WorldOK' /\ RequestsOK'
  <2>1. UNCHANGED <<disk, dstate, mem, mutex, world, req, now, work>>
    BY <1>1 DEF Submit, Connect, EnterGate, Unlock, LoseDaemon, ClientKill, Reply, daemon
  <2>2. shared' \subseteq Clients /\ flock' \in Clients \cup {None}
    BY <1>1 DEF Submit, Connect, EnterGate, Unlock, LoseDaemon, ClientKill, Reply, TypeOK
  <2>3. phase' \in [Writers -> InFlight \cup {"idle", "asked", "done", "refused",
                                          "failed", "lost", "killed"}]
    BY <1>1, WriterFacts DEF Submit, Connect, EnterGate, Unlock, LoseDaemon, ClientKill, Reply, TypeOK,
       Go, At, InFlight
  <2>. QED
    BY <2>1, <2>2, <2>3 DEF TypeOK, WorldOK, RequestsOK, disk, world
<1>2. ASSUME NEW c \in Clients, Stamp(c) \/ ThreadStamp(c)
      PROVE  TypeOK' /\ WorldOK' /\ RequestsOK'
  <2>1. UNCHANGED <<disk, daemon, world, shared, flock, req, work>>
    BY <1>2 DEF Stamp, ThreadStamp
  <2>2. now' \in [Writers -> 0 .. clock]
    BY <1>0, <1>2, WriterFacts DEF Stamp, ThreadStamp, TypeOK
  <2>3. phase' \in [Writers -> InFlight \cup {"idle", "asked", "done", "refused",
                                          "failed", "lost", "killed"}]
    BY <1>2, WriterFacts DEF Stamp, ThreadStamp, TypeOK, Go, InFlight
  <2>. QED
    BY <2>1, <2>2, <2>3 DEF TypeOK, WorldOK, RequestsOK, disk, daemon, world
<1>3. ASSUME NEW c \in Clients, TakeFlock(c) \/ ThreadLock(c)
      PROVE  TypeOK' /\ WorldOK' /\ RequestsOK'
  <2>1. \A w \in Writers : now[w] \in Nat
    BY <1>0 DEF TypeOK
  <2>2. /\ IsRegistry(Commit(req[c], Load(file), now[Cli(c)], alive))
        /\ IsRegistry(Commit(req[c], mem, now[Srv(c)], alive))
    BY <2>1, CommitType, DocumentTypes, WriterFacts DEF TypeOK, RequestsOK
  <2>. QED
    BY <1>3, <2>2, WriterFacts DEF TakeFlock, ThreadLock, TypeOK, WorldOK, RequestsOK,
       Go, InFlight, disk, daemon, world
<1>4. ASSUME NEW c \in Clients, ThreadPublish(c)
      PROVE  TypeOK' /\ WorldOK' /\ RequestsOK'
  BY <1>4, WriterFacts DEF ThreadPublish, TypeOK, WorldOK, RequestsOK, Go, InFlight,
     disk, daemon, world
<1>5. ASSUME NEW w \in Writers, CreateTmp(w) \/ FillTmp(w)
      PROVE  TypeOK' /\ WorldOK' /\ RequestsOK'
  <2>1. IsDocument(tmp')
    BY <1>5, DocumentTypes DEF CreateTmp, FillTmp, TypeOK
  <2>. QED
    BY <1>5, <2>1, WriterFacts DEF CreateTmp, FillTmp, TypeOK, WorldOK, RequestsOK, Go,
       InFlight, daemon, world
<1>6. ASSUME NEW w \in Writers, Rename(w)
      PROVE  TypeOK' /\ WorldOK' /\ RequestsOK'
  <2>1. IsDocument(tmp') /\ IsDocument(file')
    BY <1>6, DocumentTypes DEF Rename, TypeOK
  <2>2. commits' \in [Clients -> 0 .. 2]
    BY <1>6, WriterFacts DEF Rename, TypeOK, CountOK
  <2>. QED
    BY <1>6, <2>1, <2>2, WriterFacts DEF Rename, TypeOK, WorldOK, RequestsOK, Go,
       InFlight, daemon, world
<1>7. ASSUME NEW w \in Writers, SaveFails(w)
      PROVE  TypeOK' /\ WorldOK' /\ RequestsOK'
  <2>1. /\ UNCHANGED <<disk, dstate, mem, world, req, now, work>>
        /\ shared' \subseteq Clients /\ flock' \in Clients \cup {None}
        /\ mutex' \in Clients \cup {None}
    BY <1>7 DEF SaveFails, TypeOK, daemon
  <2>2. phase' \in [Writers -> InFlight \cup {"idle", "asked", "done", "refused",
                                          "failed", "lost", "killed"}]
    BY <1>7, WriterFacts DEF SaveFails, TypeOK, Go
  <2>. QED
    BY <2>1, <2>2 DEF TypeOK, WorldOK, RequestsOK, disk, world
<1>8. ASSUME DaemonStep \/ DaemonStart \/ DaemonShutdown \/ DaemonKill
      PROVE  TypeOK' /\ WorldOK' /\ RequestsOK'
  <2>1. /\ UNCHANGED <<disk, world, shared, flock, req, now, work>>
        /\ dstate' \in {"down", "gated", "loaded", "serving", "closing", "released"}
        /\ mutex' \in Clients \cup {None}
    BY <1>8 DEF DaemonStep, DaemonLoad, DaemonBind, DaemonRelease, DaemonExit, DaemonGone,
       DaemonStart, DaemonShutdown, DaemonKill, TypeOK
  <2>2. IsRegistry(mem')
    BY <1>8, DocumentTypes DEF DaemonStep, DaemonLoad, DaemonBind, DaemonRelease, DaemonExit,
       DaemonGone, DaemonStart, DaemonShutdown, DaemonKill, TypeOK
  <2>3. phase' \in [Writers -> InFlight \cup {"idle", "asked", "done", "refused",
                                          "failed", "lost", "killed"}]
    BY <1>8 DEF DaemonStep, DaemonLoad, DaemonBind, DaemonRelease, DaemonExit,
       DaemonGone, DaemonStart, DaemonShutdown, DaemonKill, ThreadsGone, TypeOK
  <2>. QED
    BY <2>1, <2>2, <2>3 DEF TypeOK, WorldOK, RequestsOK, disk, world
<1>9. ASSUME Tick \/ \E p \in Pids : PidExit(p)
      PROVE  TypeOK' /\ WorldOK' /\ RequestsOK'
  <2>1. \A w \in Writers : now[w] \in 0 .. clock'
    BY <1>0, <1>9 DEF Tick, PidExit, TypeOK
  <2>2. now \in [Writers -> 0 .. clock']
    BY <2>1 DEF TypeOK
  <2>. QED
    BY <1>0, <1>9, <2>2 DEF Tick, PidExit, TypeOK, WorldOK, RequestsOK, disk, daemon
<1>10. ASSUME UNCHANGED vars
       PROVE  TypeOK' /\ WorldOK' /\ RequestsOK'
  BY <1>10 DEF vars, TypeOK, WorldOK, RequestsOK
<1>. QED
  BY <1>1, <1>2, <1>3, <1>4, <1>5, <1>6, <1>7, <1>8, <1>9, <1>10
     DEF Next, ClientStep, ThreadStep, SaveStep

(* Where a step moves its writer, and that it moves nobody else.           *)
LEMMA Moves ==
  ASSUME TypeOK, NEW w \in Writers, NEW p, Go(w, p)
  PROVE  phase'[w] = p /\ \A v \in Writers : v # w => phase'[v] = phase[v]
  BY DEF TypeOK, Go

LEMMA DaemonMoves ==
  ASSUME DaemonGone
  PROVE  \A c \in Clients : phase'[Cli(c)] = phase[Cli(c)] /\ phase'[Srv(c)] = "idle"
  BY WriterFacts DEF DaemonGone, ThreadsGone

(* The lock discipline is kept: a writer enters the code a lock protects   *)
(* when it takes the lock, and leaves it, finished, failed or killed, when *)
(* the lock is dropped.                                                    *)
LEMMA LocksStep ==
  ASSUME TypeOK, PhasesOK, LocksOK, CountOK, [Next]_vars
  PROVE  PhasesOK' /\ LocksOK'
<1> USE LockServiceAssumption, WriterFacts DEF Busy
<1>1. ASSUME NEW c \in Clients, Submit(c) \/ Connect(c) \/ Stamp(c) \/ LoseDaemon(c)
      PROVE  PhasesOK' /\ LocksOK'
  <2>1. UNCHANGED <<shared, flock, dstate, mutex>>
    BY <1>1 DEF Submit, Connect, Stamp, LoseDaemon, daemon
  <2>2. \A d \in Clients :
          /\ phase'[Cli(d)] \in Busy \cup {"gated"} <=> phase[Cli(d)] \in Busy \cup {"gated"}
          /\ phase'[Cli(d)] \in Busy <=> phase[Cli(d)] \in Busy
          /\ phase'[Cli(d)] # "asked"
          /\ phase'[Srv(d)] = phase[Srv(d)] \/ (/\ phase'[Srv(d)] = "asked"
                                                /\ phase[Srv(d)] = "idle"
                                                /\ dstate = "serving")
    BY <1>1, Moves DEF Submit, Connect, Stamp, LoseDaemon, At, Go, PhasesOK, CountOK, TypeOK
  <2>. QED
    BY <2>1, <2>2 DEF PhasesOK, LocksOK, Exclusive
<1>2. ASSUME NEW c \in Clients, EnterGate(c)
      PROVE  PhasesOK' /\ LocksOK'
  BY <1>2, Moves DEF EnterGate, At, PhasesOK, LocksOK, Exclusive, daemon
<1>3. ASSUME NEW c \in Clients, TakeFlock(c) \/ Unlock(c)
      PROVE  PhasesOK' /\ LocksOK'
  BY <1>3, Moves DEF TakeFlock, Unlock, At, PhasesOK, LocksOK, Exclusive, daemon
<1>4. ASSUME NEW c \in Clients, ThreadStamp(c) \/ ThreadLock(c) \/ ThreadPublish(c)
      PROVE  PhasesOK' /\ LocksOK'
  BY <1>4, Moves DEF ThreadStamp, ThreadLock, ThreadPublish, At, PhasesOK, LocksOK,
     Exclusive, daemon
<1>5. ASSUME NEW c \in Clients, Reply(c)
      PROVE  PhasesOK' /\ LocksOK'
  BY <1>5 DEF Reply, TypeOK, PhasesOK, LocksOK, Exclusive, daemon
<1>6. ASSUME NEW c \in Clients, ClientKill(c)
      PROVE  PhasesOK' /\ LocksOK'
  BY <1>6, Moves DEF ClientKill, PhasesOK, LocksOK, Exclusive, daemon
<1>7. ASSUME NEW w \in Writers, CreateTmp(w) \/ FillTmp(w) \/ Rename(w)
      PROVE  PhasesOK' /\ LocksOK'
  BY <1>7, Moves DEF CreateTmp, FillTmp, Rename, At, PhasesOK, LocksOK, Exclusive, daemon
<1>8. ASSUME NEW w \in Writers, SaveFails(w)
      PROVE  PhasesOK' /\ LocksOK'
  BY <1>8, Moves DEF SaveFails, At, PhasesOK, LocksOK, Exclusive, daemon
<1>9. ASSUME DaemonLoad \/ DaemonBind \/ DaemonRelease \/ DaemonStart \/ DaemonShutdown
      PROVE  PhasesOK' /\ LocksOK'
  BY <1>9 DEF DaemonLoad, DaemonBind, DaemonRelease, DaemonStart, DaemonShutdown,
     PhasesOK, LocksOK, Exclusive
<1>10. ASSUME DaemonExit \/ DaemonKill
       PROVE  PhasesOK' /\ LocksOK'
  BY <1>10, DaemonMoves DEF DaemonExit, DaemonKill, DaemonGone, PhasesOK, LocksOK, Exclusive
<1>11. ASSUME Tick \/ (\E p \in Pids : PidExit(p)) \/ UNCHANGED vars
       PROVE  PhasesOK' /\ LocksOK'
  BY <1>11 DEF Tick, PidExit, vars, PhasesOK, LocksOK, Exclusive, daemon
<1>. QED
  BY <1>1, <1>2, <1>3, <1>4, <1>5, <1>6, <1>7, <1>8, <1>9, <1>10, <1>11
     DEF Next, ClientStep, ThreadStep, SaveStep, DaemonStep

(* A request reaches the file at most once, and is answered accordingly.   *)
LEMMA CountStep ==
  ASSUME TypeOK, PhasesOK, CountOK, [Next]_vars
  PROVE  CountOK'
<1> USE WriterFacts DEF Busy, Mutates, At
<1>1. ASSUME NEW c \in Clients, Submit(c) \/ EnterGate(c) \/ TakeFlock(c) \/ Unlock(c)
                                \/ LoseDaemon(c) \/ ClientKill(c)
      PROVE  CountOK'
  <2>1. UNCHANGED <<commits, req>>
    BY <1>1 DEF Submit, EnterGate, TakeFlock, Unlock, LoseDaemon, ClientKill, disk
  <2>2. /\ \A v \in Writers : v # Cli(c) => phase'[v] = phase[v]
        /\ \/ phase[Cli(c)] = "idle" /\ phase'[Cli(c)] = "connect"
           \/ phase[Cli(c)] = "stamped" /\ phase'[Cli(c)] \in {"gated", "refused"}
           \/ /\ phase[Cli(c)] = "stamped" /\ phase'[Cli(c)] = "done"
              /\ req[c].kind = "check"
           \/ phase[Cli(c)] = "gated" /\ phase'[Cli(c)] = "ready"
           \/ phase[Cli(c)] = "renamed" /\ phase'[Cli(c)] = "done"
           \/ /\ phase[Cli(c)] = "waiting" /\ phase'[Cli(c)] = "lost"
              /\ phase[Srv(c)] = "idle"
           \/ phase'[Cli(c)] = "killed"
    BY <1>1, Moves DEF Submit, EnterGate, TakeFlock, Unlock, LoseDaemon, ClientKill
  <2>. QED
    BY <2>1, <2>2 DEF CountOK
<1>2. ASSUME NEW c \in Clients, Connect(c)
      PROVE  CountOK'
  BY <1>2 DEF Connect, CountOK, TypeOK, disk
<1>3. ASSUME NEW c \in Clients, Stamp(c)
      PROVE  CountOK'
  BY <1>3, Moves DEF Stamp, NeedsCommit, CountOK, disk
<1>4. ASSUME NEW c \in Clients, ThreadStamp(c)
      PROVE  CountOK'
  BY <1>4, Moves DEF ThreadStamp, NeedsCommit, CountOK, disk
<1>5. ASSUME NEW c \in Clients, ThreadLock(c) \/ ThreadPublish(c)
      PROVE  CountOK'
  BY <1>5, Moves DEF ThreadLock, ThreadPublish, CountOK, disk
<1>6. ASSUME NEW c \in Clients, Reply(c)
      PROVE  CountOK'
  BY <1>6 DEF Reply, CountOK, TypeOK, disk
<1>7. ASSUME NEW w \in Writers, CreateTmp(w) \/ FillTmp(w)
      PROVE  CountOK'
  BY <1>7, Moves DEF CreateTmp, FillTmp, CountOK
<1>8. ASSUME NEW w \in Writers, Rename(w)
      PROVE  CountOK'
  <2>1. /\ phase[w] = "full" /\ phase'[w] = "renamed" /\ req' = req
        /\ \A v \in Writers : v # w => phase'[v] = phase[v]
        /\ \A c \in Clients : commits'[c] = IF c = w[2] THEN commits[c] + 1 ELSE commits[c]
    BY <1>8, Moves DEF Rename, TypeOK
  <2>2. CASE w = Cli(w[2])
    BY <2>1, <2>2 DEF CountOK
  <2>3. CASE w = Srv(w[2])
    BY <2>1, <2>3 DEF CountOK
  <2>. QED
    BY <2>2, <2>3
<1>9. ASSUME NEW w \in Writers, SaveFails(w)
      PROVE  CountOK'
  <2>1. /\ phase[w] \in {"ready", "torn", "full"} /\ UNCHANGED <<req, commits>>
        /\ \A v \in Writers : v # w => phase'[v] = phase[v]
        /\ \/ phase'[w] = "done" /\ req[w[2]].kind = "check"
           \/ phase'[w] = "failed"
    BY <1>9, Moves DEF SaveFails, disk
  <2>. QED
    BY <2>1 DEF CountOK
<1>10. ASSUME DaemonExit \/ DaemonKill
       PROVE  CountOK'
  BY <1>10, DaemonMoves DEF DaemonExit, DaemonKill, DaemonGone, CountOK, disk
<1>11. ASSUME UNCHANGED <<phase, commits, req>>
       PROVE  CountOK'
  BY <1>11 DEF CountOK
<1>. QED
  BY <1>1, <1>2, <1>3, <1>4, <1>5, <1>6, <1>7, <1>8, <1>9, <1>10, <1>11
     DEF Next, ClientStep, ThreadStep, SaveStep, DaemonStep, DaemonLoad, DaemonBind,
         DaemonRelease, DaemonStart, DaemonShutdown, Tick, PidExit, vars, disk

(* The mutex and the gate leave one writer while a daemon has a registry   *)
(* in memory, so nothing comes between its rename and its publication.     *)
LEMMA MemoryStep ==
  ASSUME TypeOK, PhasesOK, LocksOK, CountOK, MemoryOK, [Next]_vars
  PROVE  MemoryOK'
<1> USE WriterFacts DEF Busy, At
<1> DEFINE Loaded == {"loaded", "serving", "closing"}
<1>0. \A c \in Clients : dstate \in Loaded => phase[Cli(c)] \notin Busy
  BY DEF LocksOK, Exclusive
<1>1. ASSUME UNCHANGED <<file, tmp, dstate, mem>>,
             \A c \in Clients : /\ phase'[Srv(c)] = "renamed" <=> phase[Srv(c)] = "renamed"
                                /\ phase'[Srv(c)] = "full" => phase[Srv(c)] = "full"
                                /\ phase[Srv(c)] \in {"renamed", "full"}
                                     => work'[Srv(c)] = work[Srv(c)]
      PROVE  MemoryOK'
  BY <1>1 DEF MemoryOK, Load
<1>2. ASSUME NEW c \in Clients, Submit(c) \/ Connect(c) \/ Stamp(c) \/ EnterGate(c) \/ Unlock(c)
                                \/ LoseDaemon(c) \/ ClientKill(c) \/ Reply(c)
      PROVE  MemoryOK'
  <2>1. UNCHANGED <<file, tmp, dstate, mem, work>>
    BY <1>2 DEF Submit, Connect, Stamp, EnterGate, Unlock, LoseDaemon, ClientKill, Reply, disk, daemon
  <2>2. \A d \in Clients : \/ phase'[Srv(d)] = phase[Srv(d)]
                           \/ /\ phase[Srv(d)] \in {"idle", "done", "failed"}
                              /\ phase'[Srv(d)] \in {"idle", "asked"}
    BY <1>2 DEF Submit, Connect, Stamp, EnterGate, Unlock, LoseDaemon, ClientKill, Reply, Go,
       TypeOK, CountOK
  <2>. QED
    BY <1>1, <2>1, <2>2
<1>3. ASSUME NEW c \in Clients, TakeFlock(c)
      PROVE  MemoryOK'
  BY <1>1, <1>3, Moves DEF TakeFlock, TypeOK, disk, daemon
<1>4. ASSUME NEW c \in Clients, ThreadStamp(c)
      PROVE  MemoryOK'
  BY <1>1, <1>4, Moves DEF ThreadStamp, disk, daemon
<1>5. ASSUME NEW c \in Clients, ThreadLock(c)
      PROVE  MemoryOK'
  BY <1>1, <1>5, Moves DEF ThreadLock, TypeOK, disk
<1>6. ASSUME NEW c \in Clients, ThreadPublish(c)
      PROVE  MemoryOK'
  <2>1. /\ mem' = work[Srv(c)] /\ UNCHANGED <<file, tmp, dstate, work>>
        /\ \A d \in Clients : phase[Srv(d)] \in Busy => d = c
        /\ phase'[Srv(c)] = "done"
        /\ \A d \in Clients : d # c => phase'[Srv(d)] = phase[Srv(d)]
        /\ phase[Srv(c)] = "renamed"
    BY <1>6, Moves DEF ThreadPublish, LocksOK, disk
  <2>. QED
    BY <2>1 DEF MemoryOK
<1>7. ASSUME NEW w \in Writers, CreateTmp(w)
      PROVE  MemoryOK'
  <2>1. /\ phase[w] = "ready" /\ phase'[w] = "torn"
        /\ \A v \in Writers : v # w => phase'[v] = phase[v]
        /\ UNCHANGED <<file, mem, dstate, work>>
    BY <1>7, Moves DEF CreateTmp, daemon
  <2>2. \A d \in Clients : dstate \in Loaded /\ phase[Srv(d)] \in Busy => w = Srv(d)
    BY <1>0, <2>1 DEF LocksOK
  <2>. QED
    BY <2>1, <2>2 DEF MemoryOK
<1>8. ASSUME NEW w \in Writers, FillTmp(w)
      PROVE  MemoryOK'
  <2>1. /\ phase[w] = "torn" /\ phase'[w] = "full"
        /\ \A v \in Writers : v # w => phase'[v] = phase[v]
        /\ UNCHANGED <<file, mem, dstate, work>> /\ tmp' = Whole(work[w])
    BY <1>8, Moves DEF FillTmp, daemon
  <2>2. \A d \in Clients : dstate \in Loaded /\ phase[Srv(d)] \in Busy => w = Srv(d)
    BY <1>0, <2>1 DEF LocksOK
  <2>. QED
    BY <2>1, <2>2 DEF MemoryOK
<1>9. ASSUME NEW w \in Writers, Rename(w)
      PROVE  MemoryOK'
  <2>1. /\ phase[w] = "full" /\ phase'[w] = "renamed"
        /\ \A v \in Writers : v # w => phase'[v] = phase[v]
        /\ UNCHANGED <<mem, dstate, work>> /\ file' = tmp
    BY <1>9, Moves DEF Rename, daemon
  <2>2. dstate \in Loaded => /\ w = Srv(w[2])
                             /\ \A d \in Clients : phase[Srv(d)] \in Busy => w = Srv(d)
    BY <1>0, <2>1 DEF LocksOK
  <2>3. dstate \in Loaded => Load(file') = work[w]
    BY <2>1, <2>2, DocumentTypes DEF MemoryOK, TypeOK
  <2>. QED
    BY <2>1, <2>2, <2>3 DEF MemoryOK
<1>10. ASSUME NEW w \in Writers, SaveFails(w)
       PROVE  MemoryOK'
  <2>1. /\ phase'[w] \in {"done", "failed"} /\ phase[w] \in {"ready", "torn", "full"}
        /\ \A v \in Writers : v # w => phase'[v] = phase[v]
        /\ UNCHANGED <<file, tmp, mem, dstate, work>>
    BY <1>10, Moves DEF SaveFails, disk, daemon
  <2>. QED
    BY <1>1, <2>1
<1>11. ASSUME DaemonLoad
       PROVE  MemoryOK'
  BY <1>11 DEF DaemonLoad, MemoryOK, PhasesOK, disk
<1>12. ASSUME DaemonBind \/ DaemonShutdown
       PROVE  MemoryOK'
  BY <1>12 DEF DaemonBind, DaemonShutdown, MemoryOK, disk
<1>13. ASSUME DaemonRelease \/ DaemonStart \/ DaemonExit \/ DaemonKill
       PROVE  MemoryOK'
  BY <1>13 DEF DaemonRelease, DaemonStart, DaemonExit, DaemonKill, DaemonGone, MemoryOK
<1>14. ASSUME Tick \/ (\E p \in Pids : PidExit(p)) \/ UNCHANGED vars
       PROVE  MemoryOK'
  BY <1>1, <1>14 DEF Tick, PidExit, vars, disk, daemon
<1>. QED
  BY <1>2, <1>3, <1>4, <1>5, <1>6, <1>7, <1>8, <1>9, <1>10, <1>11, <1>12, <1>13, <1>14
     DEF Next, ClientStep, ThreadStep, SaveStep, DaemonStep

LEMMA IInvHolds == Spec => []IInv
<1>1. IInv /\ [Next]_vars => IInv'
  BY TypeStep, LocksStep, CountStep, MemoryStep DEF IInv
<1>. QED
  BY InitIInv, <1>1, PTL DEF Spec

(* However clients, threads, kills and failed saves interleave, file,      *)
(* temporary file, memory and the registries about to be saved are         *)
(* registries of the model, and no request commits more than twice.        *)
THEOREM TypeCorrect == Spec => []TypeOK
  BY IInvHolds, PTL DEF IInv

(* MemoryStore's promise, with or without graceful exits and for any       *)
(* number of clients: while a daemon serves and no thread is between its   *)
(* rename and its publication, memory is what the file holds.              *)
THEOREM MemoryIsFileHolds == Spec => []MemoryIsFile
<1>1. IInv => MemoryIsFile
  <2> SUFFICES ASSUME IInv, dstate = "serving", mutex = None
               PROVE  mem = Load(file)
    BY DEF MemoryIsFile
  <2>1. \A c \in Clients : phase[Srv(c)] # "renamed"
    BY LockServiceAssumption DEF IInv, LocksOK, Busy
  <2>. QED
    BY <2>1 DEF IInv, MemoryOK
<1>. QED
  BY <1>1, IInvHolds, PTL

(* What a client is told about its request is what happened to the file,   *)
(* whichever path the request took and whatever was killed on the way.     *)
THEOREM AnswersTruthfulHolds == Spec => []AnswersTruthful
<1>1. IInv => AnswersTruthful
  BY DEF IInv, CountOK, Mutates, AnswersTruthful, At
<1>. QED
  BY <1>1, IInvHolds, PTL

-----------------------------------------------------------------------------
(* The registry file, when a daemon ends only by being killed.             *)

(* The gate keeps direct writers and daemon threads apart, the data flock  *)
(* and the mutex each kind from itself.                                    *)
LEMMA OneWriterHolds ==
  ASSUME TypeOK, PhasesOK, LocksOK, NoExit
  PROVE  OneWriter
<1> SUFFICES ASSUME NEW v \in Writers, NEW w \in Writers,
                    phase[v] \in Busy, phase[w] \in Busy
             PROVE  v = w
  BY DEF OneWriter
<1>1. \A c, d \in Clients : phase[Cli(c)] \in Busy /\ phase[Cli(d)] \in Busy => c = d
  BY DEF LocksOK
<1>2. \A c, d \in Clients : phase[Srv(c)] \in Busy /\ phase[Srv(d)] \in Busy => c = d
  BY DEF LocksOK
<1>3. \A c, d \in Clients : ~(phase[Cli(c)] \in Busy /\ phase[Srv(d)] \in Busy)
  <2> SUFFICES ASSUME NEW c \in Clients, NEW d \in Clients,
                      phase[Cli(c)] \in Busy, phase[Srv(d)] \in Busy
               PROVE  FALSE
    OBVIOUS
  <2>1. c \in shared /\ ~Exclusive
    BY DEF LocksOK
  <2>2. dstate = "down"
    BY <2>1 DEF Exclusive, NoExit, TypeOK
  <2>. QED
    BY <2>2 DEF PhasesOK, Busy
<1>. QED
  BY <1>1, <1>2, <1>3, WriterFacts

(* The work of a writer stays current while the others leave the file, its *)
(* request, its time and its work alone; anchor processes only exit.       *)
LEMMA StaysCurrent ==
  ASSUME NEW w, Current(w), UNCHANGED file, req'[w[2]] = req[w[2]],
         now'[w] = now[w], work'[w] = work[w], alive' \subseteq alive
  PROVE  Current(w)'
<1>1. PICK A \in SUBSET Pids : /\ alive \subseteq A
                               /\ work[w] = Commit(req[w[2]], Load(file), now[w], A)
  BY DEF Current
<1>2. /\ alive' \subseteq A
      /\ work'[w] = Commit(req[w[2]]', Load(file'), now'[w], A)
  BY <1>1
<1>. QED
  BY <1>2 DEF Current

LEMMA FileStep ==
  ASSUME ~GracefulExit, IInv, FileInv, [Next]_vars
  PROVE  FileInv'
<1> USE WriterFacts DEF Busy, At, IInv
<1>1. NoExit'
  BY DEF FileInv, NoExit, Next, ClientStep, ThreadStep, SaveStep, DaemonStep, Submit, Connect,
     Stamp, EnterGate, TakeFlock, Unlock, LoseDaemon, ClientKill, Reply, ThreadStamp,
     ThreadLock, ThreadPublish, CreateTmp, FillTmp, Rename, SaveFails, DaemonLoad, DaemonBind,
     DaemonRelease, DaemonExit, DaemonGone, DaemonStart, DaemonShutdown, DaemonKill, Tick,
     PidExit, vars, daemon
<1>2. OneWriter
  BY OneWriterHolds DEF FileInv
<1>3. ASSUME UNCHANGED <<file, tmp, req>>, alive' \subseteq alive,
             \A w \in Writers :
               /\ phase'[w] = "full" => phase[w] = "full"
               /\ phase'[w] \in {"ready", "torn", "full"} =>
                    /\ phase[w] \in {"ready", "torn", "full"}
                    /\ now'[w] = now[w] /\ work'[w] = work[w]
      PROVE  TmpOK' /\ FileWhole' /\ WorkOK'
  <2>1. TmpOK' /\ FileWhole'
    BY <1>3 DEF FileInv, TmpOK, FileWhole
  <2>2. ASSUME NEW w \in Writers, phase'[w] \in {"ready", "torn", "full"}
        PROVE  Current(w)'
    BY <1>3, <2>2, StaysCurrent DEF FileInv, WorkOK
  <2>. QED
    BY <2>1, <2>2 DEF WorkOK
<1>4. ASSUME NEW c \in Clients, Submit(c) \/ Connect(c) \/ EnterGate(c) \/ Unlock(c)
                                \/ LoseDaemon(c) \/ ClientKill(c) \/ Reply(c) \/ ThreadPublish(c)
      PROVE  TmpOK' /\ FileWhole' /\ WorkOK'
  <2>1. UNCHANGED <<file, tmp, req, alive, now, work>>
    BY <1>4 DEF Submit, Connect, EnterGate, Unlock, LoseDaemon, ClientKill, Reply,
       ThreadPublish, disk, world
  <2>2. \A w \in Writers : phase'[w] = phase[w] \/ phase'[w] \notin {"ready", "torn", "full"}
    BY <1>4, Moves DEF Submit, Connect, EnterGate, Unlock, LoseDaemon, ClientKill, Reply,
       ThreadPublish, TypeOK
  <2>. QED
    BY <1>3, <2>1, <2>2
<1>5. ASSUME NEW c \in Clients, Stamp(c) \/ ThreadStamp(c)
      PROVE  TmpOK' /\ FileWhole' /\ WorkOK'
  <2>1. UNCHANGED <<file, tmp, req, alive, work>>
    BY <1>5 DEF Stamp, ThreadStamp, disk, world
  <2>2. \A w \in Writers : \/ phase'[w] \notin {"ready", "torn", "full"}
                           \/ phase'[w] = phase[w] /\ now'[w] = now[w]
    BY <1>5, Moves DEF Stamp, ThreadStamp, TypeOK
  <2>. QED
    BY <1>3, <2>1, <2>2
<1>6. ASSUME NEW w \in Writers, SaveFails(w)
      PROVE  TmpOK' /\ FileWhole' /\ WorkOK'
  <2>1. UNCHANGED <<file, tmp, req, alive, now, work>>
    BY <1>6 DEF SaveFails, disk, world
  <2>2. \A v \in Writers : phase'[v] = phase[v] \/ phase'[v] \notin {"ready", "torn", "full"}
    BY <1>6, Moves DEF SaveFails
  <2>. QED
    BY <1>3, <2>1, <2>2
<1>7. ASSUME DaemonStep \/ DaemonStart \/ DaemonShutdown \/ DaemonKill
      PROVE  TmpOK' /\ FileWhole' /\ WorkOK'
  <2>1. UNCHANGED <<file, tmp, req, alive, now, work>>
    BY <1>7 DEF DaemonStep, DaemonLoad, DaemonBind, DaemonRelease, DaemonExit, DaemonGone,
       DaemonStart, DaemonShutdown, DaemonKill, disk, world
  <2>2. \A w \in Writers : phase'[w] = phase[w] \/ phase'[w] = "idle"
    BY <1>7 DEF DaemonStep, DaemonLoad, DaemonBind, DaemonRelease, DaemonExit, DaemonGone,
       ThreadsGone, DaemonStart, DaemonShutdown, DaemonKill
  <2>. QED
    BY <1>3, <2>1, <2>2
<1>8. ASSUME Tick \/ (\E p \in Pids : PidExit(p)) \/ UNCHANGED vars
      PROVE  TmpOK' /\ FileWhole' /\ WorkOK'
  BY <1>3, <1>8 DEF Tick, PidExit, vars, disk
<1>9. ASSUME NEW w \in Writers, UNCHANGED <<file, tmp, req, alive, now>>,
             work' = [work EXCEPT ![w] = Commit(req[w[2]], Load(file), now[w], alive)],
             Go(w, "ready")
      PROVE  TmpOK' /\ FileWhole' /\ WorkOK'
  <2>1. /\ work'[w] = Commit(req[w[2]], Load(file), now[w], alive)
        /\ \A v \in Writers : v # w => work'[v] = work[v]
    BY <1>9 DEF TypeOK
  <2>2. TmpOK' /\ FileWhole'
    BY <1>9, <2>1, Moves DEF FileInv, TmpOK, FileWhole
  <2>3. ASSUME NEW v \in Writers, v # w, phase'[v] \in {"ready", "torn", "full"}
        PROVE  Current(v)'
    BY <1>9, <2>1, <2>3, Moves, StaysCurrent DEF FileInv, WorkOK
  <2>4. Current(w)'
    <3>1. work'[w] = Commit(req'[w[2]], Load(file'), now'[w], alive')
      BY <1>9, <2>1
    <3>2. alive' \in SUBSET Pids
      BY <1>9 DEF WorldOK
    <3>. QED
      BY <3>1, <3>2 DEF Current
  <2>. QED
    BY <2>2, <2>3, <2>4 DEF WorkOK
<1>10. ASSUME NEW c \in Clients, TakeFlock(c)
       PROVE  TmpOK' /\ FileWhole' /\ WorkOK'
  BY <1>9, <1>10 DEF TakeFlock, disk, world
<1>11. ASSUME NEW c \in Clients, ThreadLock(c)
       PROVE  TmpOK' /\ FileWhole' /\ WorkOK'
  <2>1. dstate = "serving" /\ \A d \in Clients : phase[Srv(d)] # "renamed"
    BY <1>11, LockServiceAssumption
       DEF ThreadLock, PhasesOK, LocksOK, FileInv, NoExit, TypeOK
  <2>2. mem = Load(file)
    BY <2>1 DEF MemoryOK
  <2>. QED
    BY <1>9, <1>11, <2>2 DEF ThreadLock, disk, world
<1>12. ASSUME NEW w \in Writers, CreateTmp(w) \/ FillTmp(w)
       PROVE  TmpOK' /\ FileWhole' /\ WorkOK'
  <2>1. /\ UNCHANGED <<file, req, alive, now, work>>
        /\ phase[w] \in {"ready", "torn"} /\ phase'[w] \in {"torn", "full"}
        /\ \A v \in Writers : v # w => phase'[v] = phase[v] /\ phase[v] \notin Busy
        /\ phase'[w] = "full" => tmp' = Whole(work[w])
    BY <1>2, <1>12, Moves DEF CreateTmp, FillTmp, world, OneWriter
  <2>2. TmpOK' /\ FileWhole'
    BY <2>1 DEF FileInv, TmpOK, FileWhole
  <2>3. Current(w)'
    BY <2>1, StaysCurrent DEF FileInv, WorkOK
  <2>. QED
    BY <2>1, <2>2, <2>3 DEF WorkOK
<1>13. ASSUME NEW w \in Writers, Rename(w)
       PROVE  TmpOK' /\ FileWhole' /\ WorkOK'
  <2>1. /\ phase[w] = "full" /\ phase'[w] = "renamed" /\ file' = tmp
        /\ \A v \in Writers : v # w => phase'[v] = phase[v] /\ phase[v] \notin Busy
    BY <1>2, <1>13, Moves DEF Rename, OneWriter
  <2>2. \A v \in Writers : phase'[v] \notin {"ready", "torn", "full"}
    BY <2>1
  <2>3. file' = Whole(work[w])
    BY <2>1 DEF FileInv, TmpOK
  <2>. QED
    BY <2>2, <2>3 DEF TmpOK, FileWhole, WorkOK, Whole
<1>. QED
  BY <1>1, <1>4, <1>5, <1>6, <1>7, <1>8, <1>10, <1>11, <1>12, <1>13
     DEF FileInv, Next, ClientStep, ThreadStep, SaveStep

LEMMA FileInvHolds ==
  ASSUME ~GracefulExit
  PROVE  Spec => []FileInv
<1>1. Init => FileInv
  BY WriterFacts DEF Init, FileInv, NoExit, TmpOK, FileWhole, WorkOK, At, Missing
<1>2. IInv /\ FileInv /\ [Next]_vars => FileInv'
  BY FileStep
<1>. QED
  BY <1>1, <1>2, IInvHolds, PTL DEF Spec

(* store::write: with daemons that are only ever killed, no crash, kill or *)
(* failed save leaves a registry file that does not parse.                 *)
THEOREM FileWholeHolds ==
  ASSUME ~GracefulExit
  PROVE  Spec => []FileWhole
  BY FileInvHolds, PTL DEF FileInv

-----------------------------------------------------------------------------
(* The refinement.                                                         *)

(* LockRegistry computes with the operators of LockModel, as LockService   *)
(* does.                                                                   *)
LEMMA SamePrune ==
  ASSUME NEW d, NEW t, NEW A
  PROVE  Abstract!PruneDead(d, t, A) = PruneDead(d, t, A)
  BY DEF PruneDead, LiveKeys, DeadKeys, EntryDead, Lapsed, SaturatingSub, Anchored, Restrict,
     Abstract!PruneDead, Abstract!LiveKeys, Abstract!DeadKeys, Abstract!EntryDead,
     Abstract!Lapsed, Abstract!SaturatingSub, Abstract!Anchored, Abstract!Restrict

LEMMA SameLive ==
  ASSUME NEW d, NEW t, NEW A
  PROVE  Abstract!LiveKeys(d, t, A) = LiveKeys(d, t, A)
  BY DEF LiveKeys, DeadKeys, EntryDead, Lapsed, SaturatingSub, Anchored,
     Abstract!LiveKeys, Abstract!DeadKeys, Abstract!EntryDead,
     Abstract!Lapsed, Abstract!SaturatingSub, Abstract!Anchored

LEMMA SameAcquire ==
  ASSUME NEW d, NEW root, NEW paths, NEW h, NEW pid, NEW ttl, NEW t, NEW A
  PROVE  Abstract!TryAcquire(d, root, paths, h, pid, ttl, t, A)
           = TryAcquire(d, root, paths, h, pid, ttl, t, A)
<1>1. Abstract!Check(d, root, paths, h, t, A) = Check(d, root, paths, h, t, A)
  BY SameLive DEF Check, OnOneAncestryLine, IsAncestorOrSelf, KeysOverlap, PathsOverlap, IsPrefix,
     Abstract!Check, Abstract!OnOneAncestryLine, Abstract!IsAncestorOrSelf,
     Abstract!KeysOverlap, Abstract!PathsOverlap, Abstract!IsPrefix
<1>2. Abstract!KeptKeys(d, root, paths, h, t, A) = KeptKeys(d, root, paths, h, t, A)
  BY SameLive DEF KeptKeys, Abstract!KeptKeys
<1>. QED
  BY <1>1, <1>2 DEF TryAcquire, NewEntry, Abstract!TryAcquire, Abstract!NewEntry

LEMMA SameWrite ==
  ASSUME NEW d, NEW root, NEW path, NEW h, NEW pid, NEW ttl, NEW t, NEW A
  PROVE  Abstract!DecideWrite(d, root, path, h, pid, ttl, t, A)
           = DecideWrite(d, root, path, h, pid, ttl, t, A)
<1>1. Abstract!WriteBlockers(d, root, path, h, t, A) = WriteBlockers(d, root, path, h, t, A)
  BY SameLive DEF WriteBlockers, IsAncestorOrSelf, KeysOverlap, PathsOverlap, IsPrefix,
     Abstract!WriteBlockers, Abstract!IsAncestorOrSelf, Abstract!KeysOverlap,
     Abstract!PathsOverlap, Abstract!IsPrefix
<1>2. Abstract!Renewed(d, root, path, t, A) = Renewed(d, root, path, t, A)
  BY SameLive DEF Renewed, KeysOverlap, PathsOverlap, IsPrefix, Abstract!Renewed,
     Abstract!KeysOverlap, Abstract!PathsOverlap, Abstract!IsPrefix
<1>3. Abstract!Covering(d, root, path, t, A) = Covering(d, root, path, t, A)
  BY <1>2 DEF Covering, CoversChildren, IsPrefix, Abstract!Covering, Abstract!CoversChildren,
     Abstract!IsPrefix
<1>. QED
  BY <1>1, <1>2, <1>3 DEF DecideWrite, NewEntry, Abstract!DecideWrite, Abstract!NewEntry

LEMMA SameRelease ==
  ASSUME NEW d, NEW root, NEW paths, NEW h, NEW force
  PROVE  /\ Abstract!DoRelease(d, root, paths, h, force) = DoRelease(d, root, paths, h, force)
         /\ Abstract!ReleaseAll(d, h) = ReleaseAll(d, h)
         /\ Abstract!ReleasePrefix(d, h) = ReleasePrefix(d, h)
  BY DEF DoRelease, ReleaseAll, ReleasePrefix, Restrict, IsAncestorOrSelf, IsPrefix,
     Abstract!DoRelease, Abstract!ReleaseAll, Abstract!ReleasePrefix, Abstract!Restrict,
     Abstract!IsAncestorOrSelf, Abstract!IsPrefix

(* What a writer saves is one atomic operation of LockRegistry on what the *)
(* file held, at a time it read before and for processes that existed when *)
(* it ran.                                                                 *)
LEMMA SaveIsAnOperation ==
  ASSUME IInv, NEW r \in Requests, NEW t \in 0 .. clock, NEW A \in SUBSET Pids,
         alive \subseteq A, UNCHANGED <<clock, alive>>,
         Load(file') = Commit(r, Load(file), t, A)
  PROVE  Abstract!Next
<1> USE LockServiceAssumption
<1>1. t \in Abstract!Nows /\ A \in Abstract!Seen
  BY DEF Abstract!Nows, Abstract!Seen, IInv, WorldOK
<1>2. /\ r.holder \in Holders /\ r.root \in Roots /\ r.paths \in SUBSET Paths
      /\ r.pid \in Pids \cup {NoPid} /\ r.ttl \in Ttls /\ r.force \in BOOLEAN
  OBVIOUS
<1>3. CASE r.kind = "acquire"
  <2>1. Abstract!AcquireWith(r.holder, r.root, r.paths, r.pid, r.ttl, t, A, A)
    BY <1>3, SamePrune, SameAcquire DEF Commit, Abstract!AcquireWith, Abstract!Acquired
  <2>2. Abstract!ActsUnforced(r.holder)
    BY <1>1, <1>2, <2>1 DEF Abstract!ActsUnforced
  <2>. QED
    BY <1>2, <2>2 DEF Abstract!Next
<1>4. CASE r.kind = "write"
  <2>1. Abstract!WriteDecideWith(r.holder, r.root, CHOOSE p \in r.paths : TRUE, r.ttl, t, A, A)
    BY <1>4, SamePrune, SameWrite DEF Commit, Abstract!WriteDecideWith, Abstract!Written
  <2>2. Abstract!ActsUnforced(r.holder)
    BY <1>1, <1>2, <1>4, <2>1, WritePath DEF Abstract!ActsUnforced
  <2>. QED
    BY <1>2, <2>2 DEF Abstract!Next
<1>5. CASE r.kind = "release"
  <2>1. Abstract!ReleaseWith(r.holder, r.root, r.paths, r.force)
    BY <1>5, SameRelease DEF Commit, Abstract!ReleaseWith
  <2>2. Abstract!ActsUnforced(r.holder) \/ Abstract!ForceRelease(r.holder)
    BY <1>2, <2>1 DEF Abstract!ActsUnforced, Abstract!ForceRelease
  <2>. QED
    BY <1>2, <2>2 DEF Abstract!Next
<1>6. CASE r.kind = "release_all"
  <2>1. Abstract!ReleaseAllWith(r.holder)
    BY <1>6, SameRelease DEF Commit, Abstract!ReleaseAllWith
  <2>. QED
    BY <1>2, <2>1 DEF Abstract!Next, Abstract!ActsUnforced
<1>7. CASE r.kind = "release_prefix"
  <2>1. Abstract!ReleasePrefixWith(r.holder)
    BY <1>7, SameRelease DEF Commit, Abstract!ReleasePrefixWith
  <2>. QED
    BY <1>2, <2>1 DEF Abstract!Next, Abstract!ActsUnforced
<1>8. CASE r.kind \notin {"acquire", "write", "release", "release_all", "release_prefix"}
  <2>1. Abstract!PruneWith(t, A)
    BY <1>8, SamePrune DEF Commit, Abstract!PruneWith
  <2>. QED
    BY <1>1, <2>1 DEF Abstract!Next
<1>. QED
  BY <1>3, <1>4, <1>5, <1>6, <1>7, <1>8

(* Only a rename changes the registry: every other step leaves the file    *)
(* alone, and is a stutter, a tick or the exit of a process.               *)
LEMMA StepSimulates ==
  ASSUME ~GracefulExit, IInv, FileInv, [Next]_vars
  PROVE  [Abstract!Next]_(Abstract!vars)
<1>1. ASSUME NEW w \in Writers, Rename(w)
      PROVE  Abstract!Next
  <2>1. At(w, "full") /\ file' = tmp /\ UNCHANGED <<clock, alive>>
    BY <1>1 DEF Rename, world
  <2>2. PICK A \in SUBSET Pids : /\ alive \subseteq A
                                 /\ work[w] = Commit(req[w[2]], Load(file), now[w], A)
    BY <2>1 DEF FileInv, WorkOK, Current, At
  <2>3. Load(file') = work[w]
    BY <2>1, DocumentTypes DEF FileInv, TmpOK, IInv, TypeOK
  <2>4. req[w[2]] \in Requests /\ now[w] \in 0 .. clock
    BY WriterFacts DEF IInv, RequestsOK, TypeOK
  <2>. QED
    BY <2>1, <2>2, <2>3, <2>4, SaveIsAnOperation
<1>2. ASSUME Tick
      PROVE  Abstract!Next
  <2>1. Abstract!Tick
    BY <1>2 DEF Tick, Abstract!Tick, Load, disk
  <2>. QED
    BY <2>1 DEF Abstract!Next
<1>3. ASSUME NEW p \in Pids, PidExit(p)
      PROVE  Abstract!Next
  <2>1. Abstract!PidExit(p)
    BY <1>3 DEF PidExit, Abstract!PidExit, Load, disk
  <2>. QED
    BY <2>1 DEF Abstract!Next
<1>4. ASSUME UNCHANGED <<file, clock, alive>>
      PROVE  UNCHANGED Abstract!vars
  BY <1>4 DEF Abstract!vars, Load
<1>5. ASSUME NEW c \in Clients, ClientStep(c) \/ ThreadStep(c) \/ Submit(c) \/ ClientKill(c)
      PROVE  UNCHANGED <<file, clock, alive>>
  BY <1>5 DEF ClientStep, ThreadStep, Submit, Connect, Stamp, EnterGate, TakeFlock, Unlock,
     LoseDaemon, ClientKill, Reply, ThreadStamp, ThreadLock, ThreadPublish, disk, world
<1>6. ASSUME NEW w \in Writers, CreateTmp(w) \/ FillTmp(w) \/ SaveFails(w)
      PROVE  UNCHANGED <<file, clock, alive>>
  BY <1>6 DEF CreateTmp, FillTmp, SaveFails, disk, world
<1>7. ASSUME DaemonStep \/ DaemonStart \/ DaemonShutdown \/ DaemonKill
      PROVE  UNCHANGED <<file, clock, alive>>
  BY <1>7 DEF DaemonStep, DaemonLoad, DaemonBind, DaemonRelease, DaemonExit, DaemonGone,
     DaemonStart, DaemonShutdown, DaemonKill, disk, world
<1>8. ASSUME UNCHANGED vars
      PROVE  UNCHANGED <<file, clock, alive>>
  BY <1>8 DEF vars
<1>. QED
  BY <1>1, <1>2, <1>3, <1>4, <1>5, <1>6, <1>7, <1>8 DEF Next, SaveStep

(* The file, the flock, the gate and the daemon together implement the     *)
(* atomic registry of LockRegistry, whoever writes, for any number of      *)
(* clients and requests.                                                   *)
THEOREM RegistryImplemented ==
  ASSUME ~GracefulExit
  PROVE  Spec => ImplementsRegistry
<1>1. Init => Abstract!Init
  BY DEF Init, Abstract!Init, Load, Missing, EmptyRegistry, Abstract!EmptyRegistry
<1>2. IInv /\ FileInv /\ [Next]_vars => [Abstract!Next]_(Abstract!vars)
  BY StepSimulates
<1>. QED
  BY <1>1, <1>2, IInvHolds, FileInvHolds, PTL DEF Spec, ImplementsRegistry, Abstract!Spec

-----------------------------------------------------------------------------
(* What is proved of the atomic registry therefore holds of the file.      *)

Registry == INSTANCE LockRegistryProofs WITH locks <- Load(file), MaxLag <- MaxClock

(* The two instances of LockRegistry are one specification.                *)
LEMMA SameRegistry ==
  ASSUME ~GracefulExit
  PROVE  Spec => Registry!Spec
<1>1. Abstract!Init <=> Registry!Init
  BY DEF Abstract!Init, Registry!Init, Abstract!EmptyRegistry, Registry!EmptyRegistry
<1>2. Abstract!Next <=> Registry!Next
  BY DEF Abstract!Next, Registry!Next, Abstract!ActsUnforced, Registry!ActsUnforced,
     Abstract!ForceRelease, Registry!ForceRelease, Abstract!AcquireWith,
     Registry!AcquireWith, Abstract!Acquired, Registry!Acquired,
     Abstract!WriteDecideWith, Registry!WriteDecideWith, Abstract!Written,
     Registry!Written, Abstract!ReleaseWith, Registry!ReleaseWith,
     Abstract!ReleaseAllWith, Registry!ReleaseAllWith, Abstract!ReleasePrefixWith,
     Registry!ReleasePrefixWith, Abstract!PruneWith, Registry!PruneWith, Abstract!Tick,
     Registry!Tick, Abstract!PidExit, Registry!PidExit, Abstract!Nows, Registry!Nows,
     Abstract!Seen, Registry!Seen, Abstract!TryAcquire, Registry!TryAcquire,
     Abstract!PruneDead, Registry!PruneDead, Abstract!LiveKeys, Registry!LiveKeys,
     Abstract!DeadKeys, Registry!DeadKeys, Abstract!EntryDead, Registry!EntryDead,
     Abstract!Lapsed, Registry!Lapsed, Abstract!SaturatingSub, Registry!SaturatingSub,
     Abstract!Anchored, Registry!Anchored, Abstract!Restrict, Registry!Restrict,
     Abstract!Check, Registry!Check, Abstract!OnOneAncestryLine,
     Registry!OnOneAncestryLine, Abstract!IsAncestorOrSelf, Registry!IsAncestorOrSelf,
     Abstract!KeysOverlap, Registry!KeysOverlap, Abstract!PathsOverlap,
     Registry!PathsOverlap, Abstract!IsPrefix, Registry!IsPrefix, Abstract!KeptKeys,
     Registry!KeptKeys, Abstract!NewEntry, Registry!NewEntry, Abstract!DecideWrite,
     Registry!DecideWrite, Abstract!WriteBlockers, Registry!WriteBlockers,
     Abstract!Renewed, Registry!Renewed, Abstract!Covering, Registry!Covering,
     Abstract!CoversChildren, Registry!CoversChildren, Abstract!DoRelease,
     Registry!DoRelease, Abstract!ReleaseAll, Registry!ReleaseAll,
     Abstract!ReleasePrefix, Registry!ReleasePrefix
<1>3. [Abstract!Next]_(Abstract!vars) <=> [Registry!Next]_(Registry!vars)
  BY <1>2 DEF Abstract!vars, Registry!vars
<1>. QED
  BY <1>1, <1>3, RegistryImplemented, PTL DEF ImplementsRegistry, Abstract!Spec, Registry!Spec

(* However many processes share the registry file, and whichever of them   *)
(* are killed: in what the file holds, overlapping live rows belong to one *)
(* session line, writers of two sessions are never entitled to overlapping *)
(* paths, and no unforced operation that runs next robs anybody.           *)
THEOREM FileIsSafe ==
  ASSUME ~GracefulExit
  PROVE  Spec => [](/\ Registry!OneLinePerRegion
                    /\ Registry!WriteExclusion
                    /\ Registry!NoTheft)
  BY SameRegistry, Registry!OneLineHolds, Registry!WriteExclusionHolds, Registry!NoTheftHolds,
     LockServiceAssumption, LockModelAssumption, PTL
=============================================================================
