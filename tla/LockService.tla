---------------------------- MODULE LockService ----------------------------
(***************************************************************************)
(* How the lock registry is really kept: a JSON file replaced by rename,   *)
(* the data flock, the gate `devkitd.lock`, and a daemon that serves the   *)
(* registry from memory while it holds the gate.  Sources: devkit-common   *)
(* store.rs, devkit-locks store.rs and lib.rs, devkitd main.rs and         *)
(* lock_server.rs.                                                         *)
(*                                                                         *)
(* Each client makes one request.  It asks a daemon if one answers, else   *)
(* it commits to the file itself.  A writer is either the client process   *)
(* ("cli") or the daemon's connection thread for that client ("srv"); both *)
(* replace the file through the same temporary file.  Any process may be   *)
(* killed between two steps, and a save may fail.                          *)
(***************************************************************************)
EXTENDS LockModel

CONSTANTS
  Clients,       \* client processes
  Requests,      \* what they may ask for
  None,          \* nobody
  MaxClock,      \* bound on the clock
  GracefulExit   \* whether the daemon may shut down, or can only be killed

ASSUME LockServiceAssumption ==
  /\ MaxClock \in Nat
  /\ GracefulExit \in BOOLEAN
  /\ None \notin Clients
  /\ \A r \in Requests :
       /\ r.kind \in {"acquire", "write", "release", "release_all",
                      "release_prefix", "check", "prune", "read"}
       /\ r.holder \in Holders /\ r.root \in Roots /\ r.paths \subseteq Paths
       /\ r.pid \in Pids \cup {NoPid} /\ r.ttl \in Ttls /\ r.force \in BOOLEAN
       /\ r.kind = "write" => Cardinality(r.paths) = 1 /\ r.pid = NoPid

VARIABLES
  file,      \* locks.json
  tmp,       \* locks.json.tmp
  shared,    \* the clients holding devkitd.lock shared
  flock,     \* who holds locks.lock exclusive
  dstate,    \* the daemon: "down", "gated", "loaded", "serving", "closing",
             \* "released"
  mem,       \* the daemon's registry
  mutex,     \* the client whose connection thread holds the registry mutex
  phase,     \* where each writer is
  req,       \* what each client asks for
  now,       \* the time each writer read
  work,      \* the registry each writer is about to save
  commits,   \* how often each client's request reached the file (history)
  clock,
  alive
vars == <<file, tmp, shared, flock, dstate, mem, mutex, phase, req, now, work,
          commits, clock, alive>>
disk == <<file, tmp, commits>>
daemon == <<dstate, mem, mutex>>
world == <<clock, alive>>

(* A document on disk: missing, cut short, or a whole registry.            *)
Missing == [state |-> "missing", data |-> EmptyRegistry]
Torn == [state |-> "torn", data |-> EmptyRegistry]
Whole(d) == [state |-> "whole", data |-> d]

Cli(c) == <<"cli", c>>
Srv(c) == <<"srv", c>>
Writers == {"cli", "srv"} \X Clients

(* store::read: a missing file is an empty registry, and what does not     *)
(* parse at all is put aside as *.json.bak and the registry starts empty.  *)
Load(f) == IF f.state = "whole" THEN f.data ELSE EmptyRegistry

(* The closures the `*_with` functions hand to Store::commit.              *)
Commit(r, d, t, A) ==
  CASE r.kind = "acquire" ->
         TryAcquire(PruneDead(d, t, A), r.root, r.paths, r.holder, r.pid,
                    r.ttl, t, A)
    [] r.kind = "write" ->
         DecideWrite(PruneDead(d, t, A), r.root, CHOOSE p \in r.paths : TRUE,
                     r.holder, NoPid, r.ttl, t, A)
    [] r.kind = "release" -> DoRelease(d, r.root, r.paths, r.holder, r.force)
    [] r.kind = "release_all" -> ReleaseAll(d, r.holder)
    [] r.kind = "release_prefix" -> ReleasePrefix(d, r.holder)
    [] OTHER -> PruneDead(d, t, A)

(* check_with, status_with and prune_with commit only when the snapshot    *)
(* they took shows a dead row; check_read_only_with and check_covering_with*)
(* never commit.                                                           *)
NeedsCommit(r, snapshot, t) ==
  /\ r.kind # "read"
  /\ r.kind \in {"check", "prune"} => DeadKeys(snapshot, t, alive) # {}

At(w, p) == phase[w] = p
Go(w, p) == phase' = [phase EXCEPT ![w] = p]

(* The daemon holds the gate exclusive from its start to its last step.    *)
Exclusive == dstate \in {"gated", "loaded", "serving", "closing"}

-----------------------------------------------------------------------------
(* The client: routing.                                                    *)

Submit(c) ==
  /\ At(Cli(c), "idle")
  /\ Go(Cli(c), "connect")
  /\ UNCHANGED <<disk, daemon, world, shared, flock, req, now, work>>

(* daemon_request: connect and shake hands, else take the direct path.     *)
Connect(c) ==
  /\ At(Cli(c), "connect")
  /\ phase' = IF dstate = "serving"
              THEN [phase EXCEPT ![Cli(c)] = "waiting", ![Srv(c)] = "asked"]
              ELSE [phase EXCEPT ![Cli(c)] = "direct"]
  /\ UNCHANGED <<disk, daemon, world, shared, flock, req, now, work>>

(* The direct path reads the clock and, for the operations that look       *)
(* before they commit, the file, holding no lock.  (One step for the two   *)
(* reads: a later look with the earlier time only finds fewer dead rows.)  *)
Stamp(c) ==
  /\ At(Cli(c), "direct")
  /\ now' = [now EXCEPT ![Cli(c)] = clock]
  /\ Go(Cli(c), IF NeedsCommit(req[c], Load(file), clock)
                THEN "stamped" ELSE "done")
  /\ UNCHANGED <<disk, daemon, world, shared, flock, req, work>>

(* Mutant: the gate is not consulted.                                      *)
EnterGateBlind(c) ==
  /\ At(Cli(c), "stamped")
  /\ Go(Cli(c), "gated")
  /\ shared' = shared \cup {c}
  /\ UNCHANGED <<disk, daemon, world, flock, req, now, work>>

(* FlockStore::commit: a shared, non-blocking hold of the gate, refused    *)
(* while a daemon holds it; check and status swallow the refusal.          *)
EnterGate(c) ==
  /\ At(Cli(c), "stamped")
  /\ IF Exclusive
     THEN /\ Go(Cli(c), IF req[c].kind = "check" THEN "done" ELSE "refused")
          /\ UNCHANGED shared
     ELSE /\ Go(Cli(c), "gated")
          /\ shared' = shared \cup {c}
  /\ UNCHANGED <<disk, daemon, world, flock, req, now, work>>

(* store::with_lock: the data flock blocks, then the file is read and the  *)
(* operation runs on what was read.                                        *)
TakeFlock(c) ==
  /\ At(Cli(c), "gated")
  /\ flock = None
  /\ flock' = c
  /\ work' = [work EXCEPT ![Cli(c)] =
                 Commit(req[c], Load(file), now[Cli(c)], alive)]
  /\ Go(Cli(c), "ready")
  /\ UNCHANGED <<disk, daemon, world, shared, req, now>>

(* The guards drop: data flock first, then the gate.                       *)
Unlock(c) ==
  /\ At(Cli(c), "renamed")
  /\ flock' = None
  /\ shared' = shared \ {c}
  /\ Go(Cli(c), "done")
  /\ UNCHANGED <<disk, daemon, world, req, now, work>>

-----------------------------------------------------------------------------
(* store::write, the same for both writers: create the temporary file,     *)
(* fill it, rename it over the registry.                                   *)

(* Mutant: the registry is rewritten in place.                             *)
CreateTmpInPlace(w) ==
  /\ At(w, "ready")
  /\ file' = Torn
  /\ tmp' = Torn
  /\ Go(w, "torn")
  /\ UNCHANGED <<commits, daemon, world, shared, flock, req, now, work>>

CreateTmp(w) ==
  /\ At(w, "ready")
  /\ tmp' = Torn
  /\ Go(w, "torn")
  /\ UNCHANGED <<file, commits, daemon, world, shared, flock, req, now, work>>

FillTmp(w) ==
  /\ At(w, "torn")
  /\ tmp' = Whole(work[w])
  /\ Go(w, "full")
  /\ UNCHANGED <<file, commits, daemon, world, shared, flock, req, now, work>>

Rename(w) ==
  /\ At(w, "full")
  /\ tmp # Missing
  /\ file' = tmp
  /\ tmp' = Missing
  /\ commits' = [commits EXCEPT ![w[2]] = @ + 1]
  /\ Go(w, "renamed")
  /\ UNCHANGED <<daemon, world, shared, flock, req, now, work>>

(* Mutant: a thread whose save fails keeps the mutex.                      *)
SaveFailsKeepsMutex(w) ==
  /\ \/ phase[w] \in {"ready", "torn"}
     \/ At(w, "full") /\ tmp = Missing
  /\ Go(w, IF req[w[2]].kind = "check" THEN "done" ELSE "failed")
  /\ IF w[1] = "cli"
     THEN flock' = None /\ shared' = shared \ {w[2]}
     ELSE UNCHANGED <<flock, shared>>
  /\ UNCHANGED <<disk, daemon, world, req, now, work>>

(* A save that fails (disk full, or the temporary file is gone) unwinds    *)
(* the guards and surfaces the error; check and status swallow it.         *)
SaveFails(w) ==
  /\ \/ phase[w] \in {"ready", "torn"}
     \/ At(w, "full") /\ tmp = Missing
  /\ Go(w, IF req[w[2]].kind = "check" THEN "done" ELSE "failed")
  /\ IF w[1] = "cli"
     THEN flock' = None /\ shared' = shared \ {w[2]} /\ UNCHANGED daemon
     ELSE mutex' = None /\ UNCHANGED <<flock, shared, dstate, mem>>
  /\ UNCHANGED <<disk, world, req, now, work>>

-----------------------------------------------------------------------------
(* The daemon's connection threads: lock_server::dispatch over MemoryStore.*)

ThreadStamp(c) ==
  /\ At(Srv(c), "asked")
  /\ req[c].kind \in {"check", "prune", "read"} => mutex = None
  /\ now' = [now EXCEPT ![Srv(c)] = clock]
  /\ Go(Srv(c), IF NeedsCommit(req[c], mem, clock) THEN "stamped" ELSE "done")
  /\ UNCHANGED <<disk, daemon, world, shared, flock, req, work>>

(* Mutant: memory is updated before the file.                              *)
ThreadLockMemoryFirst(c) ==
  /\ At(Srv(c), "stamped")
  /\ mutex = None
  /\ mutex' = c
  /\ mem' = Commit(req[c], mem, now[Srv(c)], alive)
  /\ work' = [work EXCEPT ![Srv(c)] = mem']
  /\ Go(Srv(c), "ready")
  /\ UNCHANGED <<disk, dstate, world, shared, flock, req, now>>

ThreadLock(c) ==
  /\ At(Srv(c), "stamped")
  /\ mutex = None
  /\ mutex' = c
  /\ work' = [work EXCEPT ![Srv(c)] = Commit(req[c], mem, now[Srv(c)], alive)]
  /\ Go(Srv(c), "ready")
  /\ UNCHANGED <<disk, dstate, mem, world, shared, flock, req, now>>

(* The file is the commit point: memory follows it.                        *)
ThreadPublish(c) ==
  /\ At(Srv(c), "renamed")
  /\ mem' = work[Srv(c)]
  /\ mutex' = None
  /\ Go(Srv(c), "done")
  /\ UNCHANGED <<disk, dstate, world, shared, flock, req, now, work>>

(* The answer reaches the client, if the client is still there.            *)
Reply(c) ==
  /\ phase[Srv(c)] \in {"done", "failed"}
  /\ phase' = [phase EXCEPT
                 ![Srv(c)] = "idle",
                 ![Cli(c)] = IF @ = "waiting" THEN phase[Srv(c)] ELSE @]
  /\ UNCHANGED <<disk, daemon, world, shared, flock, req, now, work>>

(* Mutant: a request whose daemon went away is retried on the direct path. *)
LoseDaemonRetries(c) ==
  /\ At(Cli(c), "waiting")
  /\ At(Srv(c), "idle")
  /\ Go(Cli(c), "direct")
  /\ UNCHANGED <<disk, daemon, world, shared, flock, req, now, work>>

(* A live daemon that fails mid-request is reported, never written behind. *)
LoseDaemon(c) ==
  /\ At(Cli(c), "waiting")
  /\ At(Srv(c), "idle")
  /\ Go(Cli(c), "lost")
  /\ UNCHANGED <<disk, daemon, world, shared, flock, req, now, work>>

-----------------------------------------------------------------------------
(* The daemon's life.                                                      *)

(* try_write on the gate; refused while anybody holds it.                  *)
DaemonStart ==
  /\ dstate = "down"
  /\ shared = {}
  /\ dstate' = "gated"
  /\ UNCHANGED <<disk, mem, mutex, world, shared, flock, phase, req, now, work>>

DaemonLoad ==
  /\ dstate = "gated"
  /\ mem' = Load(file)
  /\ dstate' = "loaded"
  /\ UNCHANGED <<disk, mutex, world, shared, flock, phase, req, now, work>>

DaemonBind ==
  /\ dstate = "loaded"
  /\ dstate' = "serving"
  /\ UNCHANGED <<disk, mem, mutex, world, shared, flock, phase, req, now, work>>

(* A Shutdown request or idle exit: accepting ends, sockets are removed.   *)
DaemonShutdown ==
  /\ GracefulExit
  /\ dstate = "serving"
  /\ dstate' = "closing"
  /\ UNCHANGED <<disk, mem, mutex, world, shared, flock, phase, req, now, work>>

(* main drops the gate; connection threads are not joined.                 *)
DaemonRelease ==
  /\ dstate = "closing"
  /\ dstate' = "released"
  /\ UNCHANGED <<disk, mem, mutex, world, shared, flock, phase, req, now, work>>

(* The process ends, and its threads with it.                              *)
ThreadsGone ==
  [w \in Writers |-> IF w[1] = "srv" THEN "idle" ELSE phase[w]]

DaemonGone ==
  /\ dstate' = "down"
  /\ mutex' = None
  /\ phase' = ThreadsGone
  /\ UNCHANGED <<disk, mem, world, shared, flock, req, now, work>>

DaemonExit == dstate = "released" /\ DaemonGone

DaemonKill == dstate # "down" /\ DaemonGone

-----------------------------------------------------------------------------
(* The environment.                                                        *)

InFlight == {"connect", "waiting", "direct", "stamped", "gated", "ready",
             "torn", "full", "renamed"}

ClientKill(c) ==
  /\ phase[Cli(c)] \in InFlight
  /\ Go(Cli(c), "killed")
  /\ flock' = IF flock = c THEN None ELSE flock
  /\ shared' = shared \ {c}
  /\ UNCHANGED <<disk, daemon, world, req, now, work>>

Tick ==
  /\ clock < MaxClock
  /\ clock' = clock + 1
  /\ UNCHANGED <<disk, daemon, shared, flock, phase, req, now, work, alive>>

PidExit(p) ==
  /\ p \in alive
  /\ alive' = alive \ {p}
  /\ UNCHANGED <<disk, daemon, shared, flock, phase, req, now, work, clock>>

-----------------------------------------------------------------------------
ClientStep(c) ==
  \/ Connect(c) \/ Stamp(c) \/ EnterGate(c) \/ TakeFlock(c) \/ Unlock(c)
  \/ LoseDaemon(c)

ThreadStep(c) ==
  \/ ThreadStamp(c) \/ ThreadLock(c) \/ ThreadPublish(c) \/ Reply(c)

SaveStep(w) == CreateTmp(w) \/ FillTmp(w) \/ Rename(w) \/ SaveFails(w)

DaemonStep == DaemonLoad \/ DaemonBind \/ DaemonRelease \/ DaemonExit

Next ==
  \/ \E c \in Clients : ClientStep(c) \/ ThreadStep(c) \/ Submit(c) \/ ClientKill(c)
  \/ \E w \in Writers : SaveStep(w)
  \/ DaemonStep \/ DaemonStart \/ DaemonShutdown \/ DaemonKill
  \/ Tick
  \/ \E p \in Pids : PidExit(p)

Init ==
  /\ file = Missing
  /\ tmp = Missing
  /\ shared = {}
  /\ flock = None
  /\ dstate = "down"
  /\ mem = EmptyRegistry
  /\ mutex = None
  /\ phase = [w \in Writers |-> "idle"]
  /\ req \in [Clients -> Requests]
  /\ now = [w \in Writers |-> 0]
  /\ work = [w \in Writers |-> EmptyRegistry]
  /\ commits = [c \in Clients |-> 0]
  /\ clock = 0
  /\ alive = Pids

Spec == Init /\ [][Next]_vars

-----------------------------------------------------------------------------
IsDocument(f) ==
  /\ f = [state |-> f.state, data |-> f.data]
  /\ f.state \in {"missing", "torn", "whole"}
  /\ IsRegistry(f.data)

TypeOK ==
  /\ IsDocument(file)
  /\ IsDocument(tmp)
  /\ shared \subseteq Clients
  /\ flock \in Clients \cup {None}
  /\ dstate \in {"down", "gated", "loaded", "serving", "closing", "released"}
  /\ IsRegistry(mem)
  /\ mutex \in Clients \cup {None}
  /\ phase \in [Writers -> InFlight \cup {"idle", "asked", "done", "refused",
                                          "failed", "lost", "killed"}]
  /\ now \in [Writers -> 0 .. clock]
  /\ DOMAIN work = Writers /\ \A w \in Writers : IsRegistry(work[w])
  /\ commits \in [Clients -> 0 .. 2]

(* MemoryStore: "memory and file never diverge".  While a daemon serves,   *)
(* its memory is what the file holds, except for the thread that has       *)
(* renamed and still has the mutex; a failed save leaves both as they were.*)
MemoryIsFile ==
  dstate = "serving" /\ mutex = None => mem = Load(file)

(* store::write: neither a crash between two steps nor a failed save ever  *)
(* leaves a registry file that does not parse.                             *)
FileWhole == file.state # "torn"

(* What a client is told is true: an answered mutation is in the file, a   *)
(* refused one is not, and no failure makes a request happen twice (a lost *)
(* daemon is not written behind).                                          *)
AnswersTruthful ==
  \A c \in Clients :
    /\ At(Cli(c), "done") /\ req[c].kind \notin {"check", "prune", "read"}
       => commits[c] = 1
    /\ phase[Cli(c)] \in {"refused", "failed"} => commits[c] = 0
    /\ commits[c] <= 1

(* The registry the file implements: every change of the file is one       *)
(* atomic operation of LockRegistry on what the file held.                 *)
Abstract == INSTANCE LockRegistry WITH locks <- Load(file), MaxLag <- MaxClock

ImplementsRegistry == Abstract!Spec

-----------------------------------------------------------------------------
(* Fairness: every process that is alive and can move, moves.  Nobody is   *)
(* obliged to send a request, to start or to stop a daemon, to be killed   *)
(* or to fail a save.                                                      *)
Fairness ==
  /\ \A c \in Clients : WF_vars(ClientStep(c)) /\ WF_vars(ThreadStep(c))
  /\ \A w \in Writers : WF_vars(SaveStep(w))
  /\ WF_vars(DaemonStep)

FairSpec == Spec /\ Fairness

(* Nobody waits for ever: a request that was sent is answered, refused or  *)
(* reported lost, whatever is killed meanwhile.  A daemon that dies in the *)
(* middle of a commit leaves no lock behind, and a direct writer waits only*)
(* for writers that finish.                                                *)
EveryRequestEnds ==
  \A c \in Clients :
    phase[Cli(c)] \in InFlight ~> phase[Cli(c)] \notin InFlight
=============================================================================
