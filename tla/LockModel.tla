----------------------------- MODULE LockModel -----------------------------
(***************************************************************************)
(* The lock registry's data and the pure operations on it:                 *)
(* crates/devkit-locks/src/model.rs, and the prune-then-operate closures   *)
(* that crates/devkit-locks/src/store.rs commits.                          *)
(*                                                                         *)
(* A path is the sequence of its components, so "." is <<>>; a holder id   *)
(* (`session`, `session/agent`) is the sequence of its segments.  Module   *)
(* PathKeys shows that the string tests of the code are the prefix tests   *)
(* used here.  A registry is a function from keys <<root, path>> to        *)
(* entries: the code stores root and path in the entry too, always equal   *)
(* to the key's.  Notes are display text and are left out.                 *)
(***************************************************************************)
EXTENDS Integers, SequencesExt, FiniteSets

CONSTANTS
  Names,     \* path components and holder segments
  Roots,     \* project roots
  Paths,     \* root-relative normalised paths (sequences of components)
  Holders,   \* holder ids (sequences of segments)
  Pids,      \* anchor pids
  NoPid,     \* LockEntry.pid = None
  Ttls       \* leases in use, in seconds; 0 never expires

ASSUME LockModelAssumption ==
  /\ Paths \subseteq Seq(Names)
  /\ Holders \subseteq Seq(Names) \ {<<>>}
  /\ NoPid \notin Pids
  /\ Ttls \subseteq Nat

Keys == Roots \X Paths

Entries == [holder : Holders, pid : Pids \cup {NoPid}, ts : Nat, ttl : Ttls]

IsRegistry(d) ==
  /\ d = [k \in DOMAIN d |-> d[k]]
  /\ DOMAIN d \subseteq Keys
  /\ \A k \in DOMAIN d : d[k] \in Entries

EmptyRegistry == [k \in {} |-> 0]

(* Two paths overlap when one is the other, or an ancestor of it.          *)
PathsOverlap(a, b) == IsPrefix(a, b) \/ IsPrefix(b, a)

(* The same test on keys: a claim only reaches paths of its own root.      *)
KeysOverlap(j, k) == j[1] = k[1] /\ PathsOverlap(j[2], k[2])

IsAncestorOrSelf(existing, writer) == IsPrefix(existing, writer)

OnOneAncestryLine(a, b) == IsAncestorOrSelf(a, b) \/ IsAncestorOrSelf(b, a)

(* Mutant: only the directory's own claim covers it.                       *)
CoversChildrenExactOnly(claim, dir) == claim = dir

(* A claim on dir or above it covers every path created under dir.         *)
CoversChildren(claim, dir) == IsPrefix(claim, dir)

SaturatingSub(a, b) == IF a >= b THEN a - b ELSE 0

(* The lease has lapsed at `now`.                                          *)
Lapsed(e, now) == e.ttl # 0 /\ SaturatingSub(now, e.ts) >= e.ttl

(* No anchor pid, or one whose process exists.                             *)
Anchored(e, alive) == e.pid = NoPid \/ e.pid \in alive

EntryDead(e, now, alive) == Lapsed(e, now) \/ ~Anchored(e, alive)

DeadKeys(d, now, alive) == {k \in DOMAIN d : EntryDead(d[k], now, alive)}

LiveKeys(d, now, alive) == DOMAIN d \ DeadKeys(d, now, alive)

PruneDead(d, now, alive) == Restrict(d, LiveKeys(d, now, alive))

(* Mutant: a claim below the requested path is overlooked.                 *)
CheckAboveOnly(d, root, paths, holder, now, alive) ==
  {c \in paths \X LiveKeys(d, now, alive) :
      /\ ~OnOneAncestryLine(d[c[2]].holder, holder)
      /\ c[2][1] = root
      /\ IsPrefix(c[2][2], c[1])}

(* Conflicts for `holder` asking for `paths` under `root`: the rows, each  *)
(* with the requested path it stands in the way of.                        *)
Check(d, root, paths, holder, now, alive) ==
  {c \in paths \X LiveKeys(d, now, alive) :
      /\ ~OnOneAncestryLine(d[c[2]].holder, holder)
      /\ KeysOverlap(c[2], <<root, c[1]>>)}

(* Conflicts for creating a fresh name under each of `dirs`.               *)
CheckCovering(d, root, dirs, holder, now, alive) ==
  {c \in dirs \X LiveKeys(d, now, alive) :
      /\ c[2][1] = root
      /\ ~OnOneAncestryLine(d[c[2]].holder, holder)
      /\ CoversChildren(c[2][2], c[1])}

NewEntry(holder, pid, ttl, now) ==
  [holder |-> holder, pid |-> pid, ts |-> now, ttl |-> ttl]

(* Mutant: an acquire rewrites whatever row it was let through to.         *)
KeptKeysNone(d, root, paths, holder, now, alive) == {}

(* Keys of the request that already belong, alive, to somebody else.       *)
KeptKeys(d, root, paths, holder, now, alive) ==
  {k \in LiveKeys(d, now, alive) :
      k \in {root} \X paths /\ d[k].holder # holder}

(* All or nothing.  Kept rows are renewed, their holder and lease are not  *)
(* the caller's to change.                                                 *)
TryAcquire(d, root, paths, holder, pid, ttl, now, alive) ==
  LET kept == KeptKeys(d, root, paths, holder, now, alive)
      mine == ({root} \X paths) \ kept
  IN  IF Check(d, root, paths, holder, now, alive) # {} THEN d
      ELSE [k \in DOMAIN d \cup mine |->
              IF k \in mine THEN NewEntry(holder, pid, ttl, now)
              ELSE IF k \in kept THEN [d[k] EXCEPT !.ts = now]
              ELSE d[k]]

(* Release of named paths; without `force` only the caller's own rows go.  *)
DoRelease(d, root, paths, holder, force) ==
  Restrict(d, {k \in DOMAIN d : ~ /\ k \in {root} \X paths
                                  /\ d[k].holder = holder \/ force})

(* The rows a release refuses, left with whoever holds them.               *)
Refused(d, root, paths, holder, force) ==
  {k \in DOMAIN d : /\ k \in {root} \X paths
                    /\ d[k].holder # holder
                    /\ ~force}

ReleaseAll(d, holder) ==
  Restrict(d, {k \in DOMAIN d : d[k].holder # holder})

ReleasePrefix(d, prefix) ==
  Restrict(d, {k \in DOMAIN d : ~IsAncestorOrSelf(prefix, d[k].holder)})

(* Mutant: a claim below the written directory does not block the write.   *)
WriteBlockersAboveOnly(d, root, path, writer, now, alive) ==
  {k \in LiveKeys(d, now, alive) :
      /\ k[1] = root
      /\ CoversChildren(k[2], path)
      /\ ~IsAncestorOrSelf(d[k].holder, writer)}

(* Live rows overlapping the path that neither the writer nor an ancestor  *)
(* of the writer holds.                                                    *)
WriteBlockers(d, root, path, writer, now, alive) ==
  {k \in LiveKeys(d, now, alive) :
      /\ KeysOverlap(k, <<root, path>>)
      /\ ~IsAncestorOrSelf(d[k].holder, writer)}

(* Live rows a write to the path renews, and those that already cover it.  *)
Renewed(d, root, path, now, alive) ==
  {k \in LiveKeys(d, now, alive) : KeysOverlap(k, <<root, path>>)}

Covering(d, root, path, now, alive) ==
  {k \in Renewed(d, root, path, now, alive) : CoversChildren(k[2], path)}

DecideWrite(d, root, path, writer, pid, ttl, now, alive) ==
  LET renewed == Renewed(d, root, path, now, alive)
      claimed == IF Covering(d, root, path, now, alive) = {}
                 THEN {<<root, path>>} ELSE {}
  IN  IF WriteBlockers(d, root, path, writer, now, alive) # {} THEN d
      ELSE [k \in DOMAIN d \cup claimed |->
              IF k \in claimed THEN NewEntry(writer, pid, ttl, now)
              ELSE IF k \in renewed THEN [d[k] EXCEPT !.ts = now]
              ELSE d[k]]

(* What a write is answered.                                               *)
WriteDecision(d, root, path, writer, now, alive) ==
  IF WriteBlockers(d, root, path, writer, now, alive) # {} THEN "Denied"
  ELSE IF Covering(d, root, path, now, alive) # {} THEN "AllowedByOwnership"
  ELSE "Acquired"
=============================================================================
