------------------------------ MODULE Baseline ------------------------------
(***************************************************************************)
(* Baseline worktrees (src/bin/devkit/baseline/mod.rs and locks.rs, with   *)
(* the commands that use them: devrun up, devrun down, devrun baseline     *)
(* prune and workspace end).                                               *)
(*                                                                         *)
(* A baseline is one tree per fork point, built on demand, shared by every *)
(* worktree whose record pins it, and reclaimed once no record does.  The  *)
(* references are not stored: every decision scans the worktrees' records. *)
(* Each slot has a file lock, the directory of slots another, always taken *)
(* first.                                                                  *)
(*                                                                         *)
(* A tree is one value: no directory, a directory without a marker (being  *)
(* built, or what an interrupted build left), the commit its marker names, *)
(* or a marker that is damaged ("corrupt": there, and no TOML) or cannot   *)
(* even be looked at ("blocked").  git's registration of a tree comes and  *)
(* goes with its directory.  A removal that fails, runs out of time or is  *)
(* killed leaves a part of the tree, with its marker or without, and the   *)
(* git a killed command had started goes on by itself.                     *)
(*                                                                         *)
(* A scan is one step, and so is taking a lock with the first read under   *)
(* it: until then a lock held early is one taken late.  The servers of a   *)
(* tree are known by the command that launched them, one per tree; a       *)
(* server does not exit by itself.                                         *)
(***************************************************************************)
EXTENDS Integers, FiniteSets

CONSTANTS
  Checkouts,      \* worktrees of the repository
  Shas,           \* commits worktrees fork from
  Short,          \* Short[s]: the directory-name form of a commit
  MaxCandidates,  \* MAX_SLOT_CANDIDATES
  Commands,       \* processes, one command each
  Earlier,        \* the server an earlier command launched
  Nobody,         \* no slot, no holder of a lock
  MaxEvents       \* bound on rebases, kills, damaged files and sweeps cut short

ASSUME BaselineAssumption ==
  /\ Short \in [Shas -> {Short[s] : s \in Shas}]
  /\ MaxCandidates \in Nat \ {0}
  /\ MaxEvents \in Nat
  /\ Earlier \notin Commands
  /\ Nobody \notin Commands \cup Shas
  /\ Nobody \notin {Short[s] : s \in Shas} \X (1 .. MaxCandidates)
  /\ {"none", "unmarked", "corrupt", "blocked"} \cap Shas = {}

VARIABLES
  trees,     \* trees[p]: the tree at slot p
  records,   \* records[w]: what the record of worktree w says
  forks,     \* forks[w]: the commit w forks from
  servers,   \* servers[s]: the slot server s runs in
  dirLock,   \* holder of the directory lock
  slotLocks, \* slotLocks[p]: holder of p's lock
  cmds,      \* cmds[c]: what command c is doing
  events,    \* rebases, kills, damaged files and sweeps cut short so far
  strayed,   \* history: slots worked on under another slot's lock
  broken,    \* history: slots whose marker was damaged, or vouches for too much
  disturbed  \* history: see Disturb

baselineVars == <<trees, records, forks, servers, dirLock, slotLocks, cmds,
                  events, strayed, broken, disturbed>>

history == <<strayed, broken, disturbed>>

Slots == {<<Short[s], n>> : s \in Shas, n \in 1 .. MaxCandidates}

Pin(sha, p) == [is |-> "pin", sha |-> sha, slot |-> p]

(* No pin: the worktree has none, its record cannot be read, or it is gone.*)
Unpinned(why) == [is |-> why, sha |-> Nobody, slot |-> Nobody]

Idle ==
  [op |-> "none", at |-> "idle", tree |-> Nobody, force |-> FALSE,
   sha |-> Nobody, lock |-> Nobody, slot |-> Nobody, prev |-> Nobody,
   built |-> FALSE, rows |-> {}, held |-> {}, queue |-> {}]

Over == [Idle EXCEPT !.at = "done"]

(* The command was killed, and the git it started goes on with its tree.   *)
Outlived == {"adding", "removing"}

Active(c) == cmds[c].at \notin {"idle", "done"} \cup Outlived

-----------------------------------------------------------------------------
(* The scan of the worktrees.                                              *)

Pinned(w) == records[w].is = "pin"

(* References::naming: the worktrees whose record pins p.                  *)
Naming(p) == {w \in Checkouts : records[w].slot = p}

(* References.unreadable other than the tree p itself: a record that does  *)
(* not parse, and a tree that cannot be told from a worktree.              *)
BlindBut(p) ==
  \/ \E w \in Checkouts : records[w].is = "unreadable"
  \/ \E q \in Slots \ {p} : trees[q] = "blocked"

Blind == BlindBut(Nobody)

(* baseline_state is Yes: the marker is there, whatever it says.           *)
Marked(p) == trees[p] \in Shas \cup {"corrupt"}

Unreferenced(p) == ~Blind /\ Naming(p) = {}

ServersIn(p) == {s \in Commands \cup {Earlier} : servers[s] = p}

(* slot: the first candidate that is not another commit's baseline.        *)
Candidate(sha) ==
  LET free == {n \in 1 .. MaxCandidates :
                 trees[<<Short[sha], n>>] \notin Shas \ {sha}}
  IN  IF free = {} THEN Nobody
      ELSE <<Short[sha], CHOOSE n \in free : \A m \in free : n <= m>>

-----------------------------------------------------------------------------
(* Steps of a command.                                                     *)

Step(c, from, new) == cmds[c].at = from /\ cmds' = [cmds EXCEPT ![c] = new]

Unlock(c) == slotLocks' = [slotLocks EXCEPT ![cmds[c].lock] = Nobody]

(* History: what entitles a server to be left behind.  Two commands at     *)
(* work on one worktree, and an `end` alongside another up or end.         *)
Overlaps(op, w) ==
  \E d \in Commands :
    /\ Active(d)
    /\ \/ cmds[d].tree = w
       \/ op = "end" /\ cmds[d].op \in {"up", "end"}
       \/ op = "up" /\ cmds[d].op = "end"

Disturb(b) == disturbed' = (disturbed \/ b)

(* What git may leave of a tree it does not finish adding or removing: the *)
(* marker goes with the other files, in any order.                         *)
Unfinished(doing, t) ==
  {t, "none"} \cup (IF t # "none" \/ doing = "adding" THEN {"unmarked"} ELSE {})

Happens == events < MaxEvents /\ events' = events + 1

(* devrun up: the fork point, the pin to be replaced and the slot whose    *)
(* lock to take.                                                           *)
BeginUp(c, w) ==
  /\ records[w].is # "gone"
  /\ Candidate(forks[w]) # Nobody
  /\ Step(c, "idle", [Idle EXCEPT !.op = "up", !.at = "ensure", !.tree = w,
       !.sha = forks[w], !.lock = Candidate(forks[w]),
       !.prev = records[w].slot])
  /\ Disturb(Overlaps("up", w))
  /\ UNCHANGED <<trees, records, forks, servers, dirLock, slotLocks, events,
                 strayed, broken>>

(* Any error inside the lock: the command is over.                         *)
EnsureFails(c) ==
  /\ Step(c, cmds[c].at, Over)
  /\ Unlock(c)
  /\ UNCHANGED <<records, forks, servers, dirLock, events, history>>

(* Mutant: a rebuild asks nobody.                                          *)
RebuildableAlways(c, p) == TRUE

(* assert_rebuildable: no other worktree names the tree, as far as every   *)
(* other worktree can be read.                                             *)
Rebuildable(c, p) == ~BlindBut(p) /\ Naming(p) \subseteq {cmds[c].tree}

CanServe(c, p) ==
  p # Nobody /\ (trees[p] \in {cmds[c].sha, "none"} \/ Rebuildable(c, p))

(* The lock, and the slot again under it.  It may be another one by now.   *)
Resolve(c) ==
  LET p == Candidate(cmds[c].sha) IN
  /\ cmds[c].at = "ensure"
  /\ slotLocks[cmds[c].lock] = Nobody
  /\ \/ /\ CanServe(c, p)
        /\ Step(c, "ensure", [cmds[c] EXCEPT !.slot = p,
             !.at = CASE trees[p] = cmds[c].sha -> "build"
                      [] trees[p] = "none"      -> "create"
                      [] OTHER                  -> "clear"])
        /\ slotLocks' = [slotLocks EXCEPT ![cmds[c].lock] = c]
        /\ strayed' = strayed \cup ({p} \ {cmds[c].lock})
     \/ /\ ~CanServe(c, p)
        /\ Step(c, "ensure", Over)
        /\ UNCHANGED <<slotLocks, strayed>>
  /\ UNCHANGED <<trees, records, forks, servers, dirLock, events, broken, disturbed>>

(* Rebuild: the old tree goes, whatever it holds, or some of it: nobody    *)
(* looks at how the removals went.                                         *)
Clear(c) ==
  /\ Step(c, "clear", [cmds[c] EXCEPT !.at = "create"])
  /\ \E t \in Unfinished("removing", trees[cmds[c].slot]) :
       trees' = [trees EXCEPT ![cmds[c].slot] = t]
  /\ UNCHANGED <<records, forks, servers, dirLock, slotLocks, events, history>>

(* History: a tree added while nobody names it starts afresh, unless the   *)
(* git of a killed command is still at work on it.                         *)
Heal(p) ==
  broken' = IF Naming(p) = {} /\ \A c \in Commands : cmds[c].at \in Outlived => cmds[c].slot # p
            THEN broken \ {p} ELSE broken

(* git adds the worktree, refuses (over a directory that is there, or for  *)
(* a reason of its own) or runs out of time half way.                      *)
Create(c) ==
  LET p == cmds[c].slot IN
  /\ cmds[c].at = "create"
  /\ \/ /\ trees[p] = "none"
        /\ Step(c, "create", [cmds[c] EXCEPT !.at = "build", !.built = TRUE])
        /\ trees' = [trees EXCEPT ![p] = "unmarked"]
        /\ Heal(p)
        /\ UNCHANGED <<records, forks, servers, dirLock, slotLocks, events, strayed, disturbed>>
     \/ /\ EnsureFails(c)
        /\ \/ UNCHANGED trees
           \/ trees[p] = "none" /\ trees' = [trees EXCEPT ![p] = "unmarked"]

(* Includes, prep and hooks, then the marker.  A failure takes a tree this *)
(* command created with it (unless the removal fails too).                 *)
Build(c) ==
  /\ cmds[c].at = "build"
  /\ \/ /\ Step(c, "build", [cmds[c] EXCEPT !.at = "pin"])
        /\ trees' = [trees EXCEPT ![cmds[c].slot] = cmds[c].sha]
        /\ UNCHANGED <<records, forks, servers, dirLock, slotLocks, events, history>>
     \/ /\ EnsureFails(c)
        /\ \/ UNCHANGED trees
           \/ /\ cmds[c].built
              /\ \E t \in Unfinished("removing", trees[cmds[c].slot]) :
                   trees' = [trees EXCEPT ![cmds[c].slot] = t]

(* Mutant: the baseline that was pinned before is forgotten.               *)
AfterPinForgets(c) ==
  [cmds[c] EXCEPT !.lock = Nobody, !.sha = Nobody, !.built = FALSE, !.at = "launch",
                  !.prev = Nobody]

(* What is left of a command once ensure, or a release, is behind it.      *)
AfterPin(c) ==
  LET rest == [cmds[c] EXCEPT !.lock = Nobody, !.sha = Nobody, !.built = FALSE] IN
  IF cmds[c].prev \in {Nobody, cmds[c].slot}
  THEN [rest EXCEPT !.at = "launch", !.prev = Nobody]
  ELSE [rest EXCEPT !.at = "release"]

AfterRelease(c) ==
  LET rest == [cmds[c] EXCEPT !.lock = Nobody, !.rows = {}] IN
  CASE cmds[c].op = "up"   -> [rest EXCEPT !.at = "launch", !.prev = Nobody]
    [] cmds[c].op = "end"  -> [rest EXCEPT !.at = "remove"]
    [] cmds[c].op = "down" -> Over

(* write_pin, still under the lock, then the lock goes.  A record that     *)
(* cannot be read is not written over, and a worktree that is gone has     *)
(* nothing to write to.                                                    *)
WritePin(c) ==
  LET w == cmds[c].tree IN
  /\ cmds[c].at = "pin"
  /\ \/ /\ records[w].is \notin {"gone", "unreadable"}
        /\ records' = [records EXCEPT ![w] = Pin(cmds[c].sha, cmds[c].slot)]
        /\ Step(c, "pin", AfterPin(c))
        /\ Unlock(c)
        /\ UNCHANGED <<trees, forks, servers, dirLock, events, history>>
     \/ /\ records[w].is \in {"gone", "unreadable"}
        /\ EnsureFails(c)
        /\ UNCHANGED trees

-----------------------------------------------------------------------------
(* release_abandoned, of up after a repin and of end, and down's exemption *)
(* for a baseline that is the worktree's own.                              *)

(* workspace end.  A record that cannot be read needs --force, and then    *)
(* pins nothing.                                                           *)
BeginEnd(c, w) ==
  /\ records[w].is # "gone"
  /\ Step(c, "idle", [Idle EXCEPT !.op = "end", !.tree = w,
       !.at = IF Pinned(w) THEN "release" ELSE "remove",
       !.prev = records[w].slot])
  /\ Disturb(Overlaps("end", w) \/ records[w].is = "unreadable")
  /\ UNCHANGED <<trees, records, forks, servers, dirLock, slotLocks, events,
                 strayed, broken>>

(* devrun down, where the pinned baseline has servers to stop.             *)
BeginDown(c, w) ==
  /\ Pinned(w)
  /\ Marked(records[w].slot)
  /\ ServersIn(records[w].slot) # {}
  /\ Step(c, "idle", [Idle EXCEPT !.op = "down", !.at = "release", !.tree = w,
                                  !.prev = records[w].slot])
  /\ Disturb(Overlaps("down", w))
  /\ UNCHANGED <<trees, records, forks, servers, dirLock, slotLocks, events,
                 strayed, broken>>

(* Mutant: the reader's own pin is the only one looked at.                 *)
StoppableBlindly(c) == Marked(cmds[c].prev) /\ ~Blind

(* The servers are this command's to stop: a proven baseline, every record *)
(* read, and no other worktree naming it.  down also reads its pin again.  *)
Stoppable(c) ==
  /\ Marked(cmds[c].prev)
  /\ ~Blind
  /\ Naming(cmds[c].prev) \subseteq {cmds[c].tree}
  /\ cmds[c].op = "down" => cmds[c].tree \in Naming(cmds[c].prev)

(* The lock of the slot, the scan and the snapshot of the rows.            *)
ReleaseScan(c) ==
  /\ cmds[c].at = "release"
  /\ slotLocks[cmds[c].prev] = Nobody
  /\ LET rows == IF Stoppable(c) THEN ServersIn(cmds[c].prev) ELSE {} IN
     \/ /\ rows # {}
        /\ Step(c, "release", [cmds[c] EXCEPT !.at = "stop", !.lock = cmds[c].prev,
                                              !.rows = rows])
        /\ slotLocks' = [slotLocks EXCEPT ![cmds[c].prev] = c]
     \/ /\ rows = {}
        /\ Step(c, "release", AfterRelease(c))
        /\ UNCHANGED slotLocks
  /\ UNCHANGED <<trees, records, forks, servers, dirLock, events, history>>

(* bring_down_ports of the rows, then the lock goes.  A failure is warned  *)
(* about and the command goes on.                                          *)
StopServers(c) ==
  /\ Step(c, "stop", AfterRelease(c))
  /\ \/ /\ servers' = [s \in DOMAIN servers |->
                         IF s \in cmds[c].rows THEN Nobody ELSE servers[s]]
        /\ UNCHANGED disturbed
     \/ Disturb(TRUE) /\ UNCHANGED servers
  /\ Unlock(c)
  /\ UNCHANGED <<trees, records, forks, dirLock, events, strayed, broken>>

(* up starts the servers: one that runs is used, a tree that is gone has   *)
(* nothing to run in.                                                      *)
LaunchServers(c) ==
  /\ Step(c, "launch", Over)
  /\ servers' = IF trees[cmds[c].slot] = "none" \/ ServersIn(cmds[c].slot) # {}
                THEN servers
                ELSE [servers EXCEPT ![c] = cmds[c].slot]
  /\ UNCHANGED <<trees, records, forks, dirLock, slotLocks, events, history>>

(* end removes the worktree and its record, or git refuses to, as it does  *)
(* a second time.                                                          *)
RemoveCheckout(c) ==
  LET w == cmds[c].tree IN
  /\ cmds[c].at = "remove"
  /\ \/ /\ records[w].is # "gone"
        /\ Step(c, "remove", IF cmds[c].prev = Nobody THEN Over
                             ELSE [cmds[c] EXCEPT !.at = "snapshot"])
        /\ records' = [records EXCEPT ![w] = Unpinned("gone")]
     \/ Step(c, "remove", Over) /\ UNCHANGED records
  /\ UNCHANGED <<trees, forks, servers, dirLock, slotLocks, events, history>>

-----------------------------------------------------------------------------
(* drop_reference of end, and prune_all.                                   *)

RowsNow == {s \in DOMAIN servers : servers[s] # Nobody}

(* Both read the port rows once, before any lock.                          *)
BeginPrune(c, force) ==
  /\ Step(c, "idle", [Idle EXCEPT !.op = "prune", !.at = "dir", !.force = force,
                                  !.rows = RowsNow])
  /\ UNCHANGED <<trees, records, forks, servers, dirLock, slotLocks, events, history>>

SnapshotRows(c) ==
  /\ Step(c, "snapshot", [cmds[c] EXCEPT !.at = "dir", !.rows = RowsNow])
  /\ UNCHANGED <<trees, records, forks, servers, dirLock, slotLocks, events, history>>

(* The directory lock, the slots to look at and the first scan.            *)
SweepLock(c) ==
  LET found == IF cmds[c].op = "end" THEN {cmds[c].prev}
               ELSE {p \in Slots : trees[p] # "none"}
  IN
  /\ dirLock = Nobody
  /\ dirLock' = c
  /\ Step(c, "dir", [cmds[c] EXCEPT !.at = "sweep", !.queue = found,
                                     !.held = {p \in found : ~Unreferenced(p)}])
  /\ UNCHANGED <<trees, records, forks, servers, slotLocks, events, history>>

(* A sweep leaves a tree without a marker alone.                           *)
SkippedUnmarked(c, p) == cmds[c].op = "prune" /\ trees[p] \in {"none", "unmarked"}

(* The next slot by name: of one short name, by candidate.                 *)
SweepNext(c, p) ==
  /\ p \in cmds[c].queue
  /\ \A q \in cmds[c].queue : q[1] = p[1] => p[2] <= q[2]
  /\ Step(c, "sweep", [cmds[c] EXCEPT !.queue = @ \ {p},
       !.at = IF SkippedUnmarked(c, p) THEN "sweep" ELSE "wait",
       !.slot = IF SkippedUnmarked(c, p) THEN Nobody ELSE p])
  /\ UNCHANGED <<trees, records, forks, servers, dirLock, slotLocks, events, history>>

SweepEnds(c) ==
  /\ cmds[c].queue = {}
  /\ Step(c, "sweep", Over)
  /\ dirLock' = Nobody
  /\ UNCHANGED <<trees, records, forks, servers, slotLocks, events, history>>

(* The gates of decide that the model tells apart, on the scan and the     *)
(* rows taken before the lock.                                             *)
Passes(c, p) ==
  /\ p \notin cmds[c].held
  /\ Marked(p)
  /\ cmds[c].force \/ cmds[c].rows \cap ServersIn(p) = {}

(* Mutant: the first scan is good enough.                                  *)
StillUnreferencedAssumed(p) == TRUE

(* The references are read again under the slot lock.                      *)
StillUnreferenced(p) == Unreferenced(p)

Swept(c) == [cmds[c] EXCEPT !.at = "sweep", !.slot = Nobody, !.lock = Nobody]

(* The slot lock, decide and the second scan.  The slot may also be left   *)
(* standing because this process is inside it, git has it locked, or its   *)
(* files were edited.                                                      *)
Decide(c) ==
  LET p == cmds[c].slot IN
  /\ cmds[c].at = "wait"
  /\ slotLocks[p] = Nobody
  /\ \/ /\ Passes(c, p) /\ StillUnreferenced(p)
        /\ Step(c, "wait", [cmds[c] EXCEPT !.at = "reclaim", !.lock = p])
        /\ slotLocks' = [slotLocks EXCEPT ![p] = c]
     \/ /\ Step(c, "wait", Swept(c))
        /\ UNCHANGED slotLocks
  /\ UNCHANGED <<trees, records, forks, servers, dirLock, events, history>>

(* git removes the tree, or fails, before it has begun or half way, and    *)
(* the sweep goes on.  A marker may outlast other files of its tree.       *)
Reclaim(c) ==
  LET p == cmds[c].slot IN
  /\ Step(c, "reclaim", Swept(c))
  /\ Unlock(c)
  /\ \/ /\ trees' = [trees EXCEPT ![p] = "none"]
        /\ Disturb(ServersIn(p) # {})
        /\ UNCHANGED <<events, broken>>
     \/ UNCHANGED <<trees, events, broken, disturbed>>
     \/ /\ Happens
        /\ \E t \in Unfinished("removing", trees[p]) : trees' = [trees EXCEPT ![p] = t]
        /\ broken' = IF trees' = trees THEN broken \cup {p} ELSE broken
        /\ Disturb(TRUE)
  /\ UNCHANGED <<records, forks, servers, dirLock, strayed>>

-----------------------------------------------------------------------------
(* The environment.                                                        *)

Rebase(w, s) ==
  /\ Happens
  /\ records[w].is # "gone" /\ forks[w] # s
  /\ forks' = [forks EXCEPT ![w] = s]
  /\ UNCHANGED <<trees, records, servers, dirLock, slotLocks, cmds, history>>

(* What git is doing for a command.                                        *)
GitAt(c) ==
  CASE cmds[c].at = "create" -> "adding"
    [] cmds[c].at \in {"clear", "reclaim"}   -> "removing"
    [] cmds[c].at = "build" /\ cmds[c].built -> "removing"
    [] OTHER                                 -> "done"

(* A killed process lets go of its locks.  The git it was waiting for is a *)
(* process of its own, which need not end with it.                         *)
Kill(c) ==
  /\ Happens
  /\ Active(c)
  /\ \/ cmds' = [cmds EXCEPT ![c] = Over] /\ UNCHANGED broken
     \/ /\ GitAt(c) \in Outlived
        /\ cmds' = [cmds EXCEPT ![c] = [Over EXCEPT !.at = GitAt(c), !.slot = cmds[c].slot]]
        /\ broken' = broken \cup {cmds[c].slot}
  /\ slotLocks' = [p \in Slots |-> IF slotLocks[p] = c THEN Nobody ELSE slotLocks[p]]
  /\ dirLock' = IF dirLock = c THEN Nobody ELSE dirLock
  /\ Disturb(TRUE)
  /\ UNCHANGED <<trees, records, forks, servers, strayed>>

(* The git of a killed command, some of its work or the rest of it: under  *)
(* no lock, on whatever is at the slot by now.                             *)
GitGoesOn(c) ==
  /\ cmds[c].at \in Outlived
  /\ \E new \in {cmds[c], Over} : Step(c, cmds[c].at, new)
  /\ \E t \in Unfinished(cmds[c].at, trees[cmds[c].slot]) :
       trees' = [trees EXCEPT ![cmds[c].slot] = t]
  /\ UNCHANGED <<records, forks, servers, dirLock, slotLocks, events, history>>

DamageRecord(w) ==
  /\ Happens
  /\ records[w].is \notin {"gone", "unreadable"}
  /\ records' = [records EXCEPT ![w] = Unpinned("unreadable")]
  /\ Disturb(TRUE)
  /\ UNCHANGED <<trees, forks, servers, dirLock, slotLocks, cmds, strayed, broken>>

DamageMarker(p, how) ==
  /\ Happens
  /\ trees[p] \in Shas
  /\ trees' = [trees EXCEPT ![p] = how]
  /\ broken' = broken \cup {p}
  /\ Disturb(TRUE)
  /\ UNCHANGED <<records, forks, servers, dirLock, slotLocks, cmds, strayed>>

-----------------------------------------------------------------------------
(* A repository without baselines, or with one that some worktrees pin and *)
(* that is served.                                                         *)
BaselineInit ==
  /\ forks \in [Checkouts -> Shas]
  /\ \/ /\ trees = [p \in Slots |-> "none"]
        /\ records = [w \in Checkouts |-> Unpinned("none")]
        /\ servers = [s \in Commands \cup {Earlier} |-> Nobody]
     \/ \E sha \in Shas, pinned \in (SUBSET Checkouts) \ {{}} :
          LET p == <<Short[sha], 1>> IN
          /\ trees = [q \in Slots |-> IF q = p THEN sha ELSE "none"]
          /\ records = [w \in Checkouts |-> IF w \in pinned THEN Pin(sha, p) ELSE Unpinned("none")]
          /\ servers = [s \in Commands \cup {Earlier} |->
                          IF s = Earlier THEN p ELSE Nobody]
  /\ dirLock = Nobody
  /\ slotLocks = [p \in Slots |-> Nobody]
  /\ cmds = [c \in Commands |-> Idle]
  /\ events = 0
  /\ strayed = {} /\ broken = {} /\ disturbed = FALSE

Begin(c) ==
  \/ \E w \in Checkouts : BeginUp(c, w) \/ BeginEnd(c, w) \/ BeginDown(c, w)
  \/ \E force \in BOOLEAN : BeginPrune(c, force)

Goes(c) ==
  \/ Resolve(c) \/ Clear(c) \/ Create(c) \/ Build(c) \/ WritePin(c)
  \/ ReleaseScan(c) \/ StopServers(c) \/ LaunchServers(c) \/ RemoveCheckout(c)
  \/ SnapshotRows(c) \/ SweepLock(c) \/ SweepEnds(c) \/ Decide(c) \/ Reclaim(c)
  \/ \E p \in Slots : SweepNext(c, p)

(* Every command has ended: not a deadlock.                                *)
AllDone == (\A c \in Commands : cmds[c].at = "done") /\ UNCHANGED baselineVars

BaselineNext ==
  \/ \E c \in Commands : Begin(c) \/ Goes(c) \/ Kill(c) \/ GitGoesOn(c)
  \/ \E w \in Checkouts : DamageRecord(w) \/ \E s \in Shas : Rebase(w, s)
  \/ \E p \in Slots, how \in {"corrupt", "blocked"} : DamageMarker(p, how)
  \/ AllDone

BaselineSpec == BaselineInit /\ [][BaselineNext]_baselineVars

-----------------------------------------------------------------------------
(* A tree goes, or part of it, or a removal of it is begun.                *)
Loses(p) ==
  /\ trees[p] # "none"
  /\ \/ trees'[p] # trees[p] /\ trees'[p] \in {"none", "unmarked"}
     \/ p \in broken' \ broken

(* A tree another worktree's record names is never removed, in whole or in *)
(* part, by a sweep or a rebuild: up pins under the slot lock, and whoever *)
(* removes has scanned under it.  The clean-up of a failed build takes     *)
(* what that command had created, and the git of a killed command is       *)
(* nobody's any more.  A worktree may rebuild its own baseline, and a slot *)
(* is excepted once two commits with one short name made a command work on *)
(* it under the other slot's lock.                                         *)
ReferencedIsKept ==
  [][\A p \in Slots \ strayed :
       Loses(p) =>
         \A c \in Commands :
           cmds'[c] # cmds[c] /\ ~cmds[c].built /\ cmds[c].at \notin Outlived =>
             Naming(p) \subseteq {cmds[c].tree}
    ]_baselineVars

(* What a readable record pins is a finished tree of the pinned commit,    *)
(* whoever builds, sweeps, fails or is killed: the marker comes last and   *)
(* the pin after it, both under the slot lock, and a half-removed tree is  *)
(* built again.  Until they are built afresh with no record naming them,   *)
(* three kinds of slot are excepted: one with a damaged marker, one whose  *)
(* marker outlasted other files in a removal cut short (up takes such a    *)
(* tree for whole), and one a command was killed at while git added or     *)
(* removed its tree.  So are strayed ones.                                 *)
PinnedIsComplete ==
  \A w \in Checkouts :
    Pinned(w) /\ records[w].slot \notin strayed \cup broken
    => trees[records[w].slot] = records[w].sha

(* Nobody stops servers another worktree's baseline is served by: repin,   *)
(* end and down decide and stop under the lock an adopting up pins under.  *)
OthersServersStand ==
  [][\A s \in DOMAIN servers :
       servers'[s] = Nobody /\ servers[s] \in Slots \ strayed =>
         \A c \in Commands :
           cmds'[c] # cmds[c] => Naming(servers[s]) \subseteq {cmds[c].tree}
    ]_baselineVars

(* Once every command has ended, a server runs under a baseline nobody     *)
(* pins, out of every worktree's reach, only if something disturbed the    *)
(* last worktree's leaving: a kill, a damaged file, a sweep cut short or   *)
(* under a served tree, two commands on one worktree, or an `end`          *)
(* alongside another up or end (release_abandoned scans before end removes *)
(* its worktree, so two ends that share a baseline each take the other for *)
(* a user of it).  Any number of ups that move their pins at once leave    *)
(* none behind.  Strayed slots are excepted.                               *)
StrandedNeedsARace ==
  (/\ \A c \in Commands : ~Active(c)
   /\ \E s \in DOMAIN servers :
        servers[s] \in Slots \ strayed /\ Naming(servers[s]) = {})
  => disturbed
=============================================================================
