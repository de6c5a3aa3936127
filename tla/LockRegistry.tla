---------------------------- MODULE LockRegistry ----------------------------
(***************************************************************************)
(* The lock registry as its callers are promised it: every mutation is one *)
(* atomic read-modify-write.  crates/devkit-locks/src/store.rs, the        *)
(* functions `*_with`; LockService shows that the file, the daemon and the *)
(* gate implement this module.                                             *)
(*                                                                         *)
(* Two things are not atomic even here.  `now` is read before the commit   *)
(* waits for its turn, so an operation may run with a `now` up to MaxLag   *)
(* behind the clock.  And pid_alive is a system call per row: the prune    *)
(* and the operation of one commit see sets A and B of processes, in which *)
(* one that has just exited, or whose pid another process now uses, may    *)
(* still count as alive.                                                   *)
(***************************************************************************)
EXTENDS LockModel

CONSTANTS
  MaxClock,  \* bound on the clock, in seconds
  MaxLag     \* how long a commit may wait between reading `now` and running

ASSUME LockRegistryAssumption == MaxClock \in Nat /\ MaxLag \in Nat

VARIABLES
  locks,  \* Data.locks
  clock,  \* unix time
  alive   \* the anchor processes that exist
vars == <<locks, clock, alive>>

-----------------------------------------------------------------------------
(* acquire_with: prune, then all-or-nothing acquire.                       *)
Acquired(h, root, paths, pid, ttl, now, A, B) ==
  TryAcquire(PruneDead(locks, now, A), root, paths, h, pid, ttl, now, B)

AcquireWith(h, root, paths, pid, ttl, now, A, B) ==
  /\ locks' = Acquired(h, root, paths, pid, ttl, now, A, B)
  /\ UNCHANGED <<clock, alive>>

(* write_decide_with: prune, then decide; the hook never anchors to a pid. *)
Written(h, root, path, ttl, now, A, B) ==
  DecideWrite(PruneDead(locks, now, A), root, path, h, NoPid, ttl, now, B)

WriteDecideWith(h, root, path, ttl, now, A, B) ==
  /\ locks' = Written(h, root, path, ttl, now, A, B)
  /\ UNCHANGED <<clock, alive>>

ReleaseWith(h, root, paths, force) ==
  /\ locks' = DoRelease(locks, root, paths, h, force)
  /\ UNCHANGED <<clock, alive>>

ReleaseAllWith(h) ==
  /\ locks' = ReleaseAll(locks, h)
  /\ UNCHANGED <<clock, alive>>

ReleasePrefixWith(prefix) ==
  /\ locks' = ReleasePrefix(locks, prefix)
  /\ UNCHANGED <<clock, alive>>

(* prune_with, and the best-effort prune of check_with and status_with.    *)
PruneWith(now, A) ==
  /\ locks' = PruneDead(locks, now, A)
  /\ UNCHANGED <<clock, alive>>

(* The environment: time passes, anchor processes exit.                    *)
Tick ==
  /\ clock < MaxClock
  /\ clock' = clock + 1
  /\ UNCHANGED <<locks, alive>>

PidExit(p) ==
  /\ p \in alive
  /\ alive' = alive \ {p}
  /\ UNCHANGED <<locks, clock>>

-----------------------------------------------------------------------------
Nows == {n \in 0 .. clock : n + MaxLag >= clock}

(* The sets of processes a row of pid_alive calls may see.                 *)
Seen == {A \in SUBSET Pids : alive \subseteq A}

(* What holder h may ask for without --force.                              *)
ActsUnforced(h) ==
  \/ \E root \in Roots, paths \in SUBSET Paths, pid \in Pids \cup {NoPid},
        ttl \in Ttls, now \in Nows, A \in Seen, B \in Seen :
        AcquireWith(h, root, paths, pid, ttl, now, A, B)
  \/ \E root \in Roots, path \in Paths, ttl \in Ttls, now \in Nows,
        A \in Seen, B \in Seen : WriteDecideWith(h, root, path, ttl, now, A, B)
  \/ \E root \in Roots, paths \in SUBSET Paths :
        ReleaseWith(h, root, paths, FALSE)
  \/ ReleaseAllWith(h)
  \/ ReleasePrefixWith(h)

ForceRelease(h) ==
  \E root \in Roots, paths \in SUBSET Paths : ReleaseWith(h, root, paths, TRUE)

Next ==
  \/ \E h \in Holders : ActsUnforced(h) \/ ForceRelease(h)
  \/ \E now \in Nows, A \in Seen : PruneWith(now, A)
  \/ Tick
  \/ \E p \in Pids : PidExit(p)

Init ==
  /\ locks = EmptyRegistry
  /\ clock = 0
  /\ alive = Pids

Spec == Init /\ [][Next]_vars

-----------------------------------------------------------------------------
TypeOK ==
  /\ IsRegistry(locks)
  /\ clock \in Nat
  /\ alive \subseteq Pids

(* Two rows whose paths overlap belong to one session line (a holder and   *)
(* its ancestor), whatever mix of acquires, hook writes, stale clocks and  *)
(* expiries produced them: try_acquire and decide_write never let a second *)
(* session, or a sibling sub-agent, into a region somebody holds.  A row   *)
(* whose anchor process is gone counts for nothing and is excepted.        *)
OneLine(d, A) ==
  \A j, k \in DOMAIN d :
    KeysOverlap(j, k) /\ Anchored(d[j], A) /\ Anchored(d[k], A)
    => OnOneAncestryLine(d[j].holder, d[k].holder)

OneLinePerRegion == OneLine(locks, alive)

(* The row at key j lets writer w write the key k.                         *)
Entitles(j, w, k) ==
  /\ j[1] = k[1]
  /\ CoversChildren(j[2], k[2])
  /\ IsAncestorOrSelf(locks[j].holder, w)
  /\ Anchored(locks[j], alive)

(* Two writers of different sessions are never both entitled to overlapping*)
(* paths: what write_decide_with's AllowedByOwnership rests on.            *)
WriteExclusion ==
  \A j1, j2 \in DOMAIN locks, k1, k2 \in Keys :
    KeysOverlap(k1, k2) =>
      \A w1, w2 \in Holders :
        Entitles(j1, w1, k1) /\ Entitles(j2, w2, k2) => w1[1] = w2[1]

(* check_covering is exact for a fresh name: no other session's row covers *)
(* `dir` if and only if a name under `dir` that no row is at or below can  *)
(* be acquired.  (check_scope would also report rows below `dir`.)         *)
CoveringIsExact ==
  \A root \in Roots, dir, p \in Paths, h \in Holders :
    /\ IsStrictPrefix(dir, p) /\ Len(p) = Len(dir) + 1
    /\ ~\E k \in DOMAIN locks : k[1] = root /\ IsPrefix(p, k[2])
    => (CheckCovering(locks, root, {dir}, h, clock, alive) = {}
          <=> Check(locks, root, {p}, h, clock, alive) = {})

(* Registry d leaves alone every live row of a holder that is neither h    *)
(* nor one of its sub-agents: holder, lease and anchor stand, the row is at*)
(* most renewed.                                                           *)
Spares(d, h) ==
  \A k \in LiveKeys(locks, clock, alive) :
    \/ IsAncestorOrSelf(h, locks[k].holder)
    \/ /\ k \in DOMAIN d
       /\ [d[k] EXCEPT !.ts = 0] = [locks[k] EXCEPT !.ts = 0]

(* No unforced operation h may try next robs anybody, stale clock or not   *)
(* (do_release's holder test, release_prefix's segment test, try_acquire's *)
(* `keep`, decide_write's `covered`, and the prunes of all of them).       *)
NoTheft ==
  \A h \in Holders :
    /\ Spares(ReleaseAll(locks, h), h)
    /\ Spares(ReleasePrefix(locks, h), h)
    /\ \A root \in Roots, paths \in SUBSET Paths :
         Spares(DoRelease(locks, root, paths, h, FALSE), h)
    /\ \A root \in Roots, ttl \in Ttls, now \in Nows, A \in Seen, B \in Seen :
         /\ \A paths \in SUBSET Paths, pid \in Pids \cup {NoPid} :
              Spares(Acquired(h, root, paths, pid, ttl, now, A, B), h)
         /\ \A path \in Paths : Spares(Written(h, root, path, ttl, now, A, B), h)
=============================================================================
