------------------------- MODULE LockRegistryProofs -------------------------
(***************************************************************************)
(* Proofs for every set of roots, paths, holders, pids and leases:         *)
(* LockRegistry's type invariant, one session line per region, write       *)
(* exclusion between sessions, that no unforced operation robs anybody,    *)
(* and that the covering check is exact for a fresh name.                  *)
(***************************************************************************)
EXTENDS LockRegistry, TLAPS

-----------------------------------------------------------------------------
(* Prefixes.                                                               *)

LEMMA PrefixReflexive ==
  ASSUME NEW s \in Seq(Names)
  PROVE  IsPrefix(s, s)
  BY DEF IsPrefix

LEMMA OverlapSymmetric ==
  ASSUME NEW j, NEW k
  PROVE  KeysOverlap(j, k) <=> KeysOverlap(k, j)
  BY DEF KeysOverlap, PathsOverlap

LEMMA LineReflexive ==
  ASSUME NEW h \in Holders
  PROVE  OnOneAncestryLine(h, h)
  BY LockModelAssumption, PrefixReflexive DEF OnOneAncestryLine, IsAncestorOrSelf

LEMMA LineSymmetric ==
  ASSUME NEW a, NEW b
  PROVE  OnOneAncestryLine(a, b) <=> OnOneAncestryLine(b, a)
  BY DEF OnOneAncestryLine

(* A prefix agrees with the longer sequence at every position it has.      *)
LEMMA PrefixPointwise ==
  ASSUME NEW s \in Seq(Names), NEW t \in Seq(Names)
  PROVE  IsPrefix(s, t) <=> /\ Len(s) <= Len(t)
                            /\ \A i \in 1 .. Len(s) : s[i] = t[i]
<1>1. ASSUME Len(s) <= Len(t)
      PROVE  SubSeq(s, 1, Len(s)) = SubSeq(t, 1, Len(s))
               <=> \A i \in 1 .. Len(s) : s[i] = t[i]
  <2>1. /\ SubSeq(s, 1, Len(s)) \in Seq(Names)
        /\ Len(SubSeq(s, 1, Len(s))) = Len(s)
        /\ \A i \in 1 .. Len(s) : SubSeq(s, 1, Len(s))[i] = s[i]
    OBVIOUS
  <2>2. /\ SubSeq(t, 1, Len(s)) \in Seq(Names)
        /\ Len(SubSeq(t, 1, Len(s))) = Len(s)
        /\ \A i \in 1 .. Len(s) : SubSeq(t, 1, Len(s))[i] = t[i]
    BY <1>1
  <2>. QED
    BY <2>1, <2>2
<1>. QED
  BY <1>1 DEF IsPrefix

(* Extending two comparable sequences' prefixes: prefixes of comparable    *)
(* sequences are comparable.                                               *)
LEMMA PrefixesComparable ==
  ASSUME NEW a \in Seq(Names), NEW b \in Seq(Names),
         NEW c \in Seq(Names), NEW d \in Seq(Names),
         IsPrefix(a, c), IsPrefix(b, d), IsPrefix(c, d) \/ IsPrefix(d, c)
  PROVE  IsPrefix(a, b) \/ IsPrefix(b, a)
<1>1. \A i \in 1 .. Len(a) : i \in 1 .. Len(b) => a[i] = b[i]
  BY PrefixPointwise
<1>2. Len(a) <= Len(b) \/ Len(b) <= Len(a)
  OBVIOUS
<1>. QED
  BY <1>1, <1>2, PrefixPointwise

-----------------------------------------------------------------------------
(* What the operations on a registry preserve.                             *)

LEMMA RestrictType ==
  ASSUME NEW d, IsRegistry(d), NEW K \in SUBSET DOMAIN d
  PROVE  IsRegistry(Restrict(d, K))
  BY DEF IsRegistry, Restrict

LEMMA NewEntryType ==
  ASSUME NEW h \in Holders, NEW pid \in Pids \cup {NoPid},
         NEW ttl \in Ttls, NEW now \in Nat
  PROVE  NewEntry(h, pid, ttl, now) \in Entries
  BY DEF NewEntry, Entries

(* A prune leaves a registry without a lapsed row.                         *)
LEMMA PruneDeadType ==
  ASSUME NEW d, IsRegistry(d), NEW now \in Nat, NEW A
  PROVE  /\ IsRegistry(PruneDead(d, now, A))
         /\ \A k \in DOMAIN PruneDead(d, now, A) :
               ~Lapsed(PruneDead(d, now, A)[k], now)
<1>1. LiveKeys(d, now, A) \in SUBSET DOMAIN d
  BY DEF LiveKeys
<1>2. IsRegistry(PruneDead(d, now, A))
  BY <1>1, RestrictType DEF PruneDead
<1>3. \A k \in DOMAIN PruneDead(d, now, A) : ~Lapsed(PruneDead(d, now, A)[k], now)
  BY DEF PruneDead, LiveKeys, DeadKeys, EntryDead, Restrict
<1>. QED
  BY <1>2, <1>3

(* try_acquire on a registry without lapsed rows.                          *)
LEMMA TryAcquireType ==
  ASSUME NEW d, IsRegistry(d), NEW root \in Roots, NEW paths \in SUBSET Paths,
         NEW h \in Holders, NEW pid \in Pids \cup {NoPid}, NEW ttl \in Ttls,
         NEW now \in Nat, NEW A
  PROVE  IsRegistry(TryAcquire(d, root, paths, h, pid, ttl, now, A))
<1>1. {root} \X paths \subseteq Keys
  BY DEF Keys
<1>2. \A k \in DOMAIN d : [d[k] EXCEPT !.ts = now] \in Entries
  BY DEF IsRegistry, Entries
<1>. QED
  BY <1>1, <1>2, NewEntryType DEF TryAcquire, IsRegistry

(* decide_write, likewise.                                                 *)
LEMMA DecideWriteType ==
  ASSUME NEW d, IsRegistry(d), NEW root \in Roots, NEW path \in Paths,
         NEW w \in Holders, NEW pid \in Pids \cup {NoPid}, NEW ttl \in Ttls,
         NEW now \in Nat, NEW A
  PROVE  IsRegistry(DecideWrite(d, root, path, w, pid, ttl, now, A))
<1>1. <<root, path>> \in Keys
  BY DEF Keys
<1>2. \A k \in DOMAIN d : [d[k] EXCEPT !.ts = now] \in Entries
  BY DEF IsRegistry, Entries
<1>. QED
  BY <1>1, <1>2, NewEntryType DEF DecideWrite, IsRegistry

(* Dropping rows, and anchors, cannot bring two lines together.            *)
LEMMA RestrictOneLine ==
  ASSUME NEW d, NEW A, NEW B \in SUBSET A, OneLine(d, A),
         NEW K \in SUBSET DOMAIN d
  PROVE  OneLine(Restrict(d, K), B)
  BY DEF OneLine, Restrict, Anchored

LEMMA PruneOneLine ==
  ASSUME NEW d, NEW now \in Nat, NEW A, NEW B, OneLine(d, B)
  PROVE  OneLine(PruneDead(d, now, A), B)
  BY RestrictOneLine DEF PruneDead, LiveKeys

LEMMA TryAcquireOneLine ==
  ASSUME NEW d, IsRegistry(d), NEW root \in Roots, NEW paths \in SUBSET Paths,
         NEW h \in Holders, NEW pid \in Pids \cup {NoPid}, NEW ttl \in Ttls,
         NEW now \in Nat, NEW B, NEW A \in SUBSET B,
         \A k \in DOMAIN d : ~Lapsed(d[k], now),
         OneLine(d, A)
  PROVE  OneLine(TryAcquire(d, root, paths, h, pid, ttl, now, B), A)
<1> DEFINE kept == KeptKeys(d, root, paths, h, now, B)
           mine == ({root} \X paths) \ kept
           e == TryAcquire(d, root, paths, h, pid, ttl, now, B)
<1>1. CASE Check(d, root, paths, h, now, B) # {}
  BY <1>1 DEF TryAcquire
<1>2. CASE Check(d, root, paths, h, now, B) = {}
  <2>1. /\ DOMAIN e = DOMAIN d \cup mine
        /\ \A k \in mine : e[k] = NewEntry(h, pid, ttl, now)
        /\ \A k \in DOMAIN d \ mine :
              e[k].holder = d[k].holder /\ e[k].pid = d[k].pid
    BY <1>2 DEF TryAcquire, IsRegistry, Entries
  <2>2. \A k \in mine : e[k].holder = h
    BY <2>1 DEF NewEntry
  <2>3. \A j \in mine, k \in DOMAIN d \ mine :
           KeysOverlap(j, k) /\ Anchored(e[k], A)
           => OnOneAncestryLine(e[j].holder, e[k].holder)
    <3> SUFFICES ASSUME NEW j \in mine, NEW k \in DOMAIN d \ mine,
                        KeysOverlap(j, k), Anchored(e[k], A)
                 PROVE  OnOneAncestryLine(d[k].holder, h)
      BY <2>1, <2>2, LineSymmetric
    <3>1. k \in LiveKeys(d, now, B)
      BY <2>1 DEF LiveKeys, DeadKeys, EntryDead, Anchored
    <3>2. j[2] \in paths /\ j = <<root, j[2]>>
      OBVIOUS
    <3>3. KeysOverlap(k, <<root, j[2]>>)
      BY <3>2, OverlapSymmetric
    <3> DEFINE c == <<j[2], k>>
    <3>4. /\ c \in paths \X LiveKeys(d, now, B)
          /\ c[1] = j[2] /\ c[2] = k
      BY <3>1, <3>2
    <3> HIDE DEF c
    <3>5. c \notin Check(d, root, paths, h, now, B)
      BY <1>2
    <3>. QED
      BY <3>3, <3>4, <3>5 DEF Check
  <2>. QED
    <3> SUFFICES ASSUME NEW j \in DOMAIN e, NEW k \in DOMAIN e, KeysOverlap(j, k),
                        Anchored(e[j], A), Anchored(e[k], A)
                 PROVE  OnOneAncestryLine(e[j].holder, e[k].holder)
      BY DEF OneLine
    <3>1. CASE j \in mine /\ k \in mine
      BY <3>1, <2>2, LineReflexive
    <3>2. CASE j \in mine /\ k \notin mine
      BY <3>2, <2>1, <2>3
    <3>3. CASE j \notin mine /\ k \in mine
      BY <3>3, <2>1, <2>3, OverlapSymmetric, LineSymmetric
    <3>4. CASE j \notin mine /\ k \notin mine
      <4>1. /\ j \in DOMAIN d /\ k \in DOMAIN d
            /\ Anchored(d[j], A) /\ Anchored(d[k], A)
        BY <3>4, <2>1 DEF Anchored
      <4>. QED
        BY <3>4, <4>1, <2>1 DEF OneLine
    <3>. QED
      BY <3>1, <3>2, <3>3, <3>4
<1>. QED
  BY <1>1, <1>2

LEMMA DecideWriteOneLine ==
  ASSUME NEW d, IsRegistry(d), NEW root \in Roots, NEW path \in Paths,
         NEW w \in Holders, NEW pid \in Pids \cup {NoPid}, NEW ttl \in Ttls,
         NEW now \in Nat, NEW B, NEW A \in SUBSET B,
         \A k \in DOMAIN d : ~Lapsed(d[k], now),
         OneLine(d, A)
  PROVE  OneLine(DecideWrite(d, root, path, w, pid, ttl, now, B), A)
<1> DEFINE own == <<root, path>>
           claimed == IF Covering(d, root, path, now, B) = {} THEN {own} ELSE {}
           e == DecideWrite(d, root, path, w, pid, ttl, now, B)
<1>1. CASE WriteBlockers(d, root, path, w, now, B) # {}
  BY <1>1 DEF DecideWrite
<1>2. CASE WriteBlockers(d, root, path, w, now, B) = {}
  <2>1. /\ DOMAIN e = DOMAIN d \cup claimed
        /\ \A k \in claimed : e[k] = NewEntry(w, pid, ttl, now)
        /\ \A k \in DOMAIN d \ claimed :
              e[k].holder = d[k].holder /\ e[k].pid = d[k].pid
    BY <1>2 DEF DecideWrite, IsRegistry, Entries
  <2>2. \A k \in claimed : k = own /\ e[k].holder = w
    BY <2>1 DEF NewEntry
  <2>3. \A k \in DOMAIN d \ claimed :
           KeysOverlap(own, k) /\ Anchored(e[k], A)
           => OnOneAncestryLine(w, e[k].holder)
    <3> SUFFICES ASSUME NEW k \in DOMAIN d \ claimed,
                        KeysOverlap(own, k), Anchored(e[k], A)
                 PROVE  OnOneAncestryLine(w, d[k].holder)
      BY <2>1
    <3>1. k \in LiveKeys(d, now, B)
      BY <2>1 DEF LiveKeys, DeadKeys, EntryDead, Anchored
    <3>2. KeysOverlap(k, own)
      BY OverlapSymmetric
    <3>. QED
      BY <1>2, <3>1, <3>2 DEF WriteBlockers, OnOneAncestryLine
  <2> HIDE DEF own, claimed, e
  <2>. QED
    <3> SUFFICES ASSUME NEW j \in DOMAIN e, NEW k \in DOMAIN e, KeysOverlap(j, k),
                        Anchored(e[j], A), Anchored(e[k], A)
                 PROVE  OnOneAncestryLine(e[j].holder, e[k].holder)
      BY DEF OneLine, e
    <3>1. CASE j \in claimed /\ k \in claimed
      BY <3>1, <2>2, LineReflexive
    <3>2. CASE j \in claimed /\ k \notin claimed
      BY <3>2, <2>1, <2>2, <2>3
    <3>3. CASE j \notin claimed /\ k \in claimed
      BY <3>3, <2>1, <2>2, <2>3, OverlapSymmetric, LineSymmetric
    <3>4. CASE j \notin claimed /\ k \notin claimed
      <4>1. /\ j \in DOMAIN d /\ k \in DOMAIN d
            /\ Anchored(d[j], A) /\ Anchored(d[k], A)
        BY <3>4, <2>1 DEF Anchored
      <4>. QED
        BY <3>4, <4>1, <2>1 DEF OneLine
    <3>. QED
      BY <3>1, <3>2, <3>3, <3>4
<1>. QED
  BY <1>1, <1>2

-----------------------------------------------------------------------------
(* The specification.                                                      *)

LEMMA NowsType ==
  ASSUME clock \in Nat
  PROVE  Nows \subseteq Nat
  BY DEF Nows

(* Every row names a key, a holder, an anchor and a lease of the model:    *)
(* no operation of store.rs writes anything else.                          *)
THEOREM TypeCorrect == Spec => []TypeOK
<1>1. Init => TypeOK
  BY DEF Init, TypeOK, IsRegistry, EmptyRegistry
<1>2. TypeOK /\ [Next]_vars => TypeOK'
  <2> SUFFICES ASSUME TypeOK, [Next]_vars
               PROVE  TypeOK'
    OBVIOUS
  <2> USE DEF TypeOK
  <2>1. ASSUME NEW h \in Holders, NEW root \in Roots, NEW paths \in SUBSET Paths,
               NEW pid \in Pids \cup {NoPid}, NEW ttl \in Ttls, NEW now \in Nows,
               NEW A \in Seen, NEW B \in Seen,
               AcquireWith(h, root, paths, pid, ttl, now, A, B)
        PROVE  TypeOK'
    BY <2>1, NowsType, PruneDeadType, TryAcquireType DEF AcquireWith, Acquired
  <2>2. ASSUME NEW h \in Holders, NEW root \in Roots, NEW path \in Paths,
               NEW ttl \in Ttls, NEW now \in Nows,
               NEW A \in Seen, NEW B \in Seen,
               WriteDecideWith(h, root, path, ttl, now, A, B)
        PROVE  TypeOK'
    BY <2>2, NowsType, PruneDeadType, DecideWriteType DEF WriteDecideWith, Written
  <2>3. ASSUME NEW h \in Holders, NEW root \in Roots, NEW paths \in SUBSET Paths,
               NEW force \in BOOLEAN, ReleaseWith(h, root, paths, force)
        PROVE  TypeOK'
    BY <2>3, RestrictType DEF ReleaseWith, DoRelease
  <2>4. ASSUME NEW h \in Holders, ReleaseAllWith(h)
        PROVE  TypeOK'
    BY <2>4, RestrictType DEF ReleaseAllWith, ReleaseAll
  <2>5. ASSUME NEW h \in Holders, ReleasePrefixWith(h)
        PROVE  TypeOK'
    BY <2>5, RestrictType DEF ReleasePrefixWith, ReleasePrefix
  <2>6. ASSUME NEW now \in Nows, NEW A \in Seen, PruneWith(now, A)
        PROVE  TypeOK'
    BY <2>6, NowsType, PruneDeadType DEF PruneWith
  <2>7. CASE Tick
    BY <2>7 DEF Tick
  <2>8. ASSUME NEW p \in Pids, PidExit(p)
        PROVE  TypeOK'
    BY <2>8 DEF PidExit
  <2>9. CASE UNCHANGED vars
    BY <2>9 DEF vars
  <2>. QED
    BY <2>1, <2>2, <2>3, <2>4, <2>5, <2>6, <2>7, <2>8, <2>9
    DEF Next, ActsUnforced, ForceRelease
<1>. QED
  BY <1>1, <1>2, PTL DEF Spec

(* Rows on overlapping paths belong to one session line, for any number of *)
(* sessions and paths, any leases, and any delay between reading the clock *)
(* and committing.  With TypeOK the property is its own induction          *)
(* hypothesis: prune_dead has just dropped every row that is dead for the  *)
(* commit's own `now`, so check and write_blockers see every row that      *)
(* still counts.                                                           *)
THEOREM OneLineHolds == Spec => []OneLinePerRegion
<1>1. Init => OneLinePerRegion
  BY DEF Init, OneLinePerRegion, OneLine, EmptyRegistry
<1>2. TypeOK /\ OneLinePerRegion /\ [Next]_vars => OneLinePerRegion'
  <2> SUFFICES ASSUME TypeOK, OneLine(locks, alive), [Next]_vars
               PROVE  OneLine(locks', alive')
    BY DEF OneLinePerRegion
  <2>. USE DEF TypeOK
  <2>1. ASSUME NEW h \in Holders, NEW root \in Roots, NEW paths \in SUBSET Paths,
               NEW pid \in Pids \cup {NoPid}, NEW ttl \in Ttls, NEW now \in Nows,
               NEW A \in Seen, NEW B \in Seen,
               AcquireWith(h, root, paths, pid, ttl, now, A, B)
        PROVE  OneLine(locks', alive')
    <3> DEFINE d == PruneDead(locks, now, A)
    <3>1. /\ IsRegistry(d)
          /\ \A k \in DOMAIN d : ~Lapsed(d[k], now)
          /\ OneLine(d, alive)
      BY <2>1, NowsType, PruneDeadType, PruneOneLine DEF AcquireWith, Acquired
    <3>. HIDE DEF d
    <3>2. OneLine(TryAcquire(d, root, paths, h, pid, ttl, now, B), alive)
      BY <3>1, NowsType, TryAcquireOneLine DEF Seen
    <3>. QED
      BY <2>1, <3>2 DEF AcquireWith, Acquired, d
  <2>2. ASSUME NEW h \in Holders, NEW root \in Roots, NEW path \in Paths,
               NEW ttl \in Ttls, NEW now \in Nows,
               NEW A \in Seen, NEW B \in Seen,
               WriteDecideWith(h, root, path, ttl, now, A, B)
        PROVE  OneLine(locks', alive')
    <3> DEFINE d == PruneDead(locks, now, A)
    <3>1. /\ IsRegistry(d)
          /\ \A k \in DOMAIN d : ~Lapsed(d[k], now)
          /\ OneLine(d, alive)
      BY <2>2, NowsType, PruneDeadType, PruneOneLine DEF WriteDecideWith, Written
    <3>. HIDE DEF d
    <3>2. OneLine(DecideWrite(d, root, path, h, NoPid, ttl, now, B), alive)
      BY <3>1, NowsType, DecideWriteOneLine DEF Seen
    <3>. QED
      BY <2>2, <3>2 DEF WriteDecideWith, Written, d
  <2>3. ASSUME NEW h \in Holders, NEW root \in Roots, NEW paths \in SUBSET Paths,
               NEW force \in BOOLEAN, ReleaseWith(h, root, paths, force)
        PROVE  OneLine(locks', alive')
    BY <2>3, RestrictOneLine DEF ReleaseWith, DoRelease
  <2>4. ASSUME NEW h \in Holders, ReleaseAllWith(h)
        PROVE  OneLine(locks', alive')
    BY <2>4, RestrictOneLine DEF ReleaseAllWith, ReleaseAll
  <2>5. ASSUME NEW h \in Holders, ReleasePrefixWith(h)
        PROVE  OneLine(locks', alive')
    BY <2>5, RestrictOneLine DEF ReleasePrefixWith, ReleasePrefix
  <2>6. ASSUME NEW now \in Nows, NEW A \in Seen, PruneWith(now, A)
        PROVE  OneLine(locks', alive')
    BY <2>6, NowsType, PruneOneLine DEF PruneWith
  <2>7. CASE Tick
    BY <2>7 DEF Tick
  <2>8. ASSUME NEW p \in Pids, PidExit(p)
        PROVE  OneLine(locks', alive')
    BY <2>8 DEF PidExit, OneLine, Anchored
  <2>9. CASE UNCHANGED vars
    BY <2>9 DEF vars
  <2>. QED
    BY <2>1, <2>2, <2>3, <2>4, <2>5, <2>6, <2>7, <2>8, <2>9
    DEF Next, ActsUnforced, ForceRelease
<1>. QED
  BY <1>1, <1>2, TypeCorrect, PTL DEF Spec

(* Two rows that entitle two writers to overlapping paths overlap too, so  *)
(* they are on one line, and a line never leaves its session.              *)
THEOREM WriteExclusionHolds == Spec => []WriteExclusion
<1>1. TypeOK /\ OneLinePerRegion => WriteExclusion
  <2> SUFFICES ASSUME TypeOK, OneLine(locks, alive),
                      NEW j1 \in DOMAIN locks, NEW j2 \in DOMAIN locks,
                      NEW k1 \in Keys, NEW k2 \in Keys, KeysOverlap(k1, k2),
                      NEW w1 \in Holders, NEW w2 \in Holders,
                      Entitles(j1, w1, k1), Entitles(j2, w2, k2)
               PROVE  w1[1] = w2[1]
    BY DEF OneLinePerRegion, WriteExclusion
  <2> DEFINE h1 == locks[j1].holder
             h2 == locks[j2].holder
  <2>1. /\ j1[2] \in Seq(Names) /\ j2[2] \in Seq(Names)
        /\ k1[2] \in Seq(Names) /\ k2[2] \in Seq(Names)
        /\ h1 \in Holders /\ h2 \in Holders
    BY LockModelAssumption DEF TypeOK, IsRegistry, Keys, Entries
  <2>2. KeysOverlap(j1, j2)
    BY <2>1, PrefixesComparable
    DEF KeysOverlap, PathsOverlap, Entitles, CoversChildren
  <2>3. OnOneAncestryLine(h1, h2)
    BY <2>2 DEF OneLine, Entitles
  <2>4. \A a, b \in Holders : IsPrefix(a, b) => a[1] = b[1]
    <3> SUFFICES ASSUME NEW a \in Holders, NEW b \in Holders, IsPrefix(a, b)
                 PROVE  a[1] = b[1]
      OBVIOUS
    <3>1. a \in Seq(Names) /\ b \in Seq(Names) /\ 1 \in 1 .. Len(a)
      BY LockModelAssumption
    <3>. QED
      BY <3>1, PrefixPointwise
  <2>. QED
    BY <2>1, <2>3, <2>4 DEF OnOneAncestryLine, IsAncestorOrSelf, Entitles
<1>. QED
  BY <1>1, TypeCorrect, OneLineHolds, PTL

(* A row that is alive now outlives the prune of any commit, and is alive  *)
(* for it: the commit's clock is no later and it sees no fewer processes.  *)
LEMMA LiveRowSurvivesPrune ==
  ASSUME TypeOK, NEW k \in LiveKeys(locks, clock, alive),
         NEW now \in Nows, NEW A \in Seen, NEW B \in Seen
  PROVE  /\ k \in LiveKeys(PruneDead(locks, now, A), now, B)
         /\ PruneDead(locks, now, A)[k] = locks[k]
<1>1. now \in Nat /\ clock \in Nat /\ now <= clock
  BY DEF Nows, TypeOK
<1>2. k \in DOMAIN locks /\ locks[k].ts \in Nat /\ locks[k].ttl \in Nat
  BY LockModelAssumption DEF LiveKeys, TypeOK, IsRegistry, Entries
<1>3. ~Lapsed(locks[k], clock) /\ Anchored(locks[k], alive)
  BY DEF LiveKeys, DeadKeys, EntryDead
<1>4. ~Lapsed(locks[k], now)
  BY <1>1, <1>2, <1>3 DEF Lapsed, SaturatingSub
<1>5. Anchored(locks[k], A) /\ Anchored(locks[k], B)
  BY <1>3 DEF Anchored, Seen
<1>6. k \in DOMAIN PruneDead(locks, now, A) /\ PruneDead(locks, now, A)[k] = locks[k]
  BY <1>2, <1>4, <1>5 DEF PruneDead, Restrict, LiveKeys, DeadKeys, EntryDead
<1>. QED
  BY <1>4, <1>5, <1>6 DEF LiveKeys, DeadKeys, EntryDead

(* acquire, write and the releases each leave alone the live rows of       *)
(* everybody but the caller and its sub-agents, in every state a row can   *)
(* be in: only the type invariant is needed, not the exclusion.            *)
THEOREM NoTheftHolds == Spec => []NoTheft
<1>1. TypeOK => NoTheft
  <2> SUFFICES ASSUME TypeOK, NEW h \in Holders
               PROVE  /\ Spares(ReleaseAll(locks, h), h)
                      /\ Spares(ReleasePrefix(locks, h), h)
                      /\ \A root \in Roots, paths \in SUBSET Paths :
                           Spares(DoRelease(locks, root, paths, h, FALSE), h)
                      /\ \A root \in Roots, ttl \in Ttls, now \in Nows,
                            A \in Seen, B \in Seen :
                           /\ \A paths \in SUBSET Paths, pid \in Pids \cup {NoPid} :
                                Spares(Acquired(h, root, paths, pid, ttl, now, A, B), h)
                           /\ \A path \in Paths :
                                Spares(Written(h, root, path, ttl, now, A, B), h)
    BY DEF NoTheft
  <2> DEFINE Others == {k \in LiveKeys(locks, clock, alive) :
                          ~IsAncestorOrSelf(h, locks[k].holder)}
             Kept(d, k) == /\ k \in DOMAIN d
                           /\ [d[k] EXCEPT !.ts = 0] = [locks[k] EXCEPT !.ts = 0]
  <2>1. ASSUME NEW d, \A k \in Others : Kept(d, k)
        PROVE  Spares(d, h)
    BY <2>1 DEF Spares
  <2>2. ASSUME NEW k \in Others
        PROVE  /\ k \in DOMAIN locks /\ k \in Keys /\ locks[k] \in Entries
               /\ locks[k].holder # h
    BY LockModelAssumption, PrefixReflexive
    DEF IsAncestorOrSelf, LiveKeys, TypeOK, IsRegistry
  <2> HIDE DEF Others
  <2>3. Spares(ReleaseAll(locks, h), h)
    BY <2>1, <2>2 DEF ReleaseAll, Restrict
  <2>4. Spares(ReleasePrefix(locks, h), h)
    <3>1. \A k \in Others : ~IsAncestorOrSelf(h, locks[k].holder)
      BY DEF Others
    <3>. QED
      BY <2>1, <2>2, <3>1 DEF ReleasePrefix, Restrict
  <2>5. ASSUME NEW root \in Roots, NEW paths \in SUBSET Paths
        PROVE  Spares(DoRelease(locks, root, paths, h, FALSE), h)
    BY <2>1, <2>2 DEF DoRelease, Restrict
  <2>6. ASSUME NEW root \in Roots, NEW ttl \in Ttls, NEW now \in Nows,
               NEW A \in Seen, NEW B \in Seen
        PROVE  /\ \A paths \in SUBSET Paths, pid \in Pids \cup {NoPid} :
                    Spares(Acquired(h, root, paths, pid, ttl, now, A, B), h)
               /\ \A path \in Paths : Spares(Written(h, root, path, ttl, now, A, B), h)
    <3> DEFINE d == PruneDead(locks, now, A)
    <3>1. ASSUME NEW k \in Others
          PROVE  k \in LiveKeys(d, now, B) /\ k \in DOMAIN d /\ d[k] = locks[k]
      BY LiveRowSurvivesPrune DEF LiveKeys, Others
    <3> HIDE DEF d
    <3>2. ASSUME NEW paths \in SUBSET Paths, NEW pid \in Pids \cup {NoPid},
                 NEW k \in Others
          PROVE  Kept(TryAcquire(d, root, paths, h, pid, ttl, now, B), k)
      <4>1. k \in {root} \X paths => k \in KeptKeys(d, root, paths, h, now, B)
        BY <2>2, <3>1 DEF KeptKeys
      <4>. QED
        BY <2>2, <3>1, <4>1 DEF TryAcquire, Entries
    <3>3. ASSUME NEW path \in Paths, NEW k \in Others
          PROVE  Kept(DecideWrite(d, root, path, h, NoPid, ttl, now, B), k)
      <4>1. k = <<root, path>> => k \in Covering(d, root, path, now, B)
        BY <3>1, LockModelAssumption, PrefixReflexive
        DEF Covering, Renewed, KeysOverlap, PathsOverlap, CoversChildren
      <4>. QED
        BY <2>2, <3>1, <4>1 DEF DecideWrite, Entries
    <3> HIDE DEF Kept
    <3>4. ASSUME NEW paths \in SUBSET Paths, NEW pid \in Pids \cup {NoPid}
          PROVE  Spares(Acquired(h, root, paths, pid, ttl, now, A, B), h)
      BY <2>1, <3>2 DEF Acquired, d
    <3>5. ASSUME NEW path \in Paths
          PROVE  Spares(Written(h, root, path, ttl, now, A, B), h)
      BY <2>1, <3>3 DEF Written, d
    <3>. QED
      BY <3>4, <3>5
  <2>. QED
    BY <2>3, <2>4, <2>5, <2>6
<1>. QED
  BY <1>1, TypeCorrect, PTL

-----------------------------------------------------------------------------
(* A strict ancestor of a direct child of dir is dir or above it.          *)
LEMMA AncestorOfChild ==
  ASSUME NEW dir \in Seq(Names), NEW p \in Seq(Names), NEW q \in Seq(Names),
         IsStrictPrefix(dir, p), Len(p) = Len(dir) + 1, ~IsPrefix(p, q)
  PROVE  IsPrefix(q, dir) <=> PathsOverlap(q, p)
<1>1. IsPrefix(dir, p)
  BY DEF IsStrictPrefix
<1>2. ASSUME IsPrefix(q, dir)
      PROVE  IsPrefix(q, p)
  BY <1>1, <1>2, PrefixPointwise
<1>3. ASSUME IsPrefix(q, p)
      PROVE  IsPrefix(q, dir)
  <2>1. Len(q) # Len(p)
    BY <1>3, PrefixPointwise
  <2>. QED
    BY <1>1, <1>3, <2>1, PrefixPointwise
<1>. QED
  BY <1>2, <1>3 DEF PathsOverlap

(* check_covering answers exactly what acquiring a fresh name under the    *)
(* directory would: a row in the way of the name is at the directory or    *)
(* above it.                                                               *)
THEOREM CoveringIsExactHolds == Spec => []CoveringIsExact
<1>1. TypeOK => CoveringIsExact
  <2> SUFFICES ASSUME TypeOK, NEW root \in Roots, NEW dir \in Paths,
                      NEW p \in Paths, NEW h \in Holders,
                      IsStrictPrefix(dir, p), Len(p) = Len(dir) + 1,
                      ~\E k \in DOMAIN locks : k[1] = root /\ IsPrefix(p, k[2])
               PROVE  CheckCovering(locks, root, {dir}, h, clock, alive) = {}
                        <=> Check(locks, root, {p}, h, clock, alive) = {}
    BY DEF CoveringIsExact
  <2>1. \A k \in LiveKeys(locks, clock, alive) :
          k \in DOMAIN locks /\ k[2] \in Seq(Names)
    BY LockModelAssumption DEF LiveKeys, TypeOK, IsRegistry, Keys
  <2>2. \A k \in LiveKeys(locks, clock, alive) :
          k[1] = root => (CoversChildren(k[2], dir) <=> PathsOverlap(k[2], p))
    BY <2>1, AncestorOfChild, LockModelAssumption DEF CoversChildren
  <2>3. \A k \in LiveKeys(locks, clock, alive) :
          k[1] = root /\ CoversChildren(k[2], dir) <=> KeysOverlap(k, <<root, p>>)
    BY <2>2 DEF KeysOverlap
  <2> DEFINE L == LiveKeys(locks, clock, alive)
  <2>4. CheckCovering(locks, root, {dir}, h, clock, alive) = {}
          <=> \A k \in L : ~ /\ k[1] = root
                             /\ ~OnOneAncestryLine(locks[k].holder, h)
                             /\ CoversChildren(k[2], dir)
    <3>1. \A k \in L : <<dir, k>> \in {dir} \X L
      OBVIOUS
    <3>2. \A c \in {dir} \X L : c[1] = dir /\ c[2] \in L
      OBVIOUS
    <3>. QED
      BY <3>1, <3>2 DEF CheckCovering
  <2>5. Check(locks, root, {p}, h, clock, alive) = {}
          <=> \A k \in L : ~ /\ ~OnOneAncestryLine(locks[k].holder, h)
                             /\ KeysOverlap(k, <<root, p>>)
    <3>1. \A k \in L : <<p, k>> \in {p} \X L
      OBVIOUS
    <3>2. \A c \in {p} \X L : c[1] = p /\ c[2] \in L
      OBVIOUS
    <3>. QED
      BY <3>1, <3>2 DEF Check
  <2>. QED
    BY <2>3, <2>4, <2>5
<1>. QED
  BY <1>1, TypeCorrect, PTL
=============================================================================
