-------------------------- MODULE ReplicaSyncProofs -------------------------
(***************************************************************************)
(* Proofs about the todo replica's queue and its syncs, for any number of  *)
(* processes, writes, failures and crashes: hook writes land in the order  *)
(* they were made, and nothing is left behind once everyone is done.       *)
(***************************************************************************)
EXTENDS ReplicaSync, TLAPS

-----------------------------------------------------------------------------
(* The inductive invariant, by parts.                                      *)

Process == [pc : Places, back : Places, entry : 0 .. MaxWrites,
            applied : BOOLEAN, background : BOOLEAN, succeeded : BOOLEAN]

(* Which lock a process holds, by where it stands.                         *)
Applying == {"peek", "apply", "applying", "pop", "drained"}
Touching == {"writing", "applying", "syncing"}

InSync(x) ==
  \/ x.pc \in {"clear", "sync", "syncing", "after", "look", "unlock"}
  \/ x.pc \in DrainPlaces /\ x.back \in {"sync", "after"}

Holds(x, l) ==
  \/ l = "drain" /\ x.pc \in Applying
  \/ l = "replica" /\ x.pc \in Touching
  \/ l = "sync" /\ InSync(x)

LocksOK == \A p \in Procs, l \in Locks : lock[l] = p <=> Holds(proc[p], l)

(* Where a drain goes on, and what a sync that failed leaves behind.       *)
BackOK ==
  \A p \in Procs :
    /\ proc[p].pc \in DrainPlaces => proc[p].back \in {"idle", "mark", "sync", "after"}
    /\ proc[p].pc = "unlock" /\ ~proc[p].succeeded => failed

(* Writes are numbered in the order they are made.                         *)
NumbersOK ==
  /\ hooked \subseteq 1 .. writes
  /\ \A i \in DOMAIN replica : replica[i] <= writes
  /\ \A p \in Procs : proc[p].pc = "writing" =>
       proc[p].entry \in 1 .. writes /\ proc[p].entry \notin hooked

(* The queue holds hook writes in order, and whoever applies one applies   *)
(* the first.                                                              *)
QueueOK ==
  /\ \A i \in DOMAIN queue : queue[i] \in hooked
  /\ \A i, j \in DOMAIN queue : i < j => queue[i] < queue[j]
  /\ \A p \in Procs : proc[p].pc \in {"apply", "applying", "pop"} =>
       queue # <<>> /\ proc[p].entry = queue[1]

(* A hook write that has landed is past the queue, or is its first entry,  *)
(* applied and not yet popped.                                             *)
LandedOK ==
  \A i \in DOMAIN replica : replica[i] \in hooked /\ queue # <<>> =>
    \/ replica[i] < queue[1]
    \/ replica[i] = queue[1] /\ (crashes > 0 \/ \E p \in Procs : proc[p].pc = "pop")

(* While anything is queued somebody will look at the queue: a drain, a    *)
(* command before its own drain, a sync before the drain that follows it.  *)
Drainer(x) == x.pc \in DrainPlaces \cup {"writing", "syncing"}

QueueWatched ==
  crashes = 0 /\ ~failed /\ queue # <<>> => \E p \in Procs : Drainer(proc[p])

(* While a write is not sent, a process is on its way to mark or to send,  *)
(* or the marker is there and a process will look at it.                   *)
Sends(x) ==
  \/ x.pc \in {"mark", "clear", "sync", "syncing"}
  \/ x.pc \in DrainPlaces /\ x.back \in {"mark", "sync"}
  \/ x.applied /\ (x.pc = "after" \/ (x.pc \in DrainPlaces /\ x.back = "after"))

Looks(x) ==
  \/ x.pc \in {"check", "lock", "look", "after"}
  \/ x.pc \in DrainPlaces /\ x.back = "after"
  \/ x.pc \in {"unlock", "recheck"} /\ x.succeeded

Unsent == Range(replica) \ (server \cup stopApplied)

WritesWatched ==
  crashes = 0 /\ ~failed /\ Unsent # {} =>
    \/ \E p \in Procs : Sends(proc[p])
    \/ pending /\ \E p \in Procs : Looks(proc[p])

IInv ==
  /\ TypeOK
  /\ LocksOK
  /\ BackOK
  /\ NumbersOK
  /\ QueueOK
  /\ LandedOK
  /\ LandsInOrder
  /\ QueueWatched
  /\ WritesWatched

-----------------------------------------------------------------------------
(* How a process moves.                                                    *)

Become(p, new) == new \in Process /\ proc' = [proc EXCEPT ![p] = new]

(* The places there are, and the entry of a process that has none.         *)
LEMMA Domains ==
  /\ Places = {"idle", "writing", "drain", "peek", "apply", "applying", "pop", "drained",
               "again", "mark", "check", "lock", "clear", "sync", "syncing", "after",
               "look", "unlock", "recheck"}
  /\ 0 \in 0 .. MaxWrites
  BY ReplicaSyncAssumption DEF Places, DrainPlaces, SyncPlaces

(* The process that moves is the only one that does.                       *)
LEMMA OnlyOneMoves ==
  ASSUME TypeOK, NEW p \in Procs, NEW new, Become(p, new)
  PROVE  /\ proc' \in [Procs -> Process]
         /\ proc'[p] = new
         /\ \A q \in Procs : q # p => proc'[q] = proc[q]
  BY DEF TypeOK, Become, Process

(* Go changes a process's place and nothing else.                          *)
LEMMA GoMoves ==
  ASSUME TypeOK, NEW p \in Procs, NEW pc \in Places, Go(p, pc)
  PROVE  \E new \in Process :
           /\ Become(p, new)
           /\ new.pc = pc /\ new.back = proc[p].back /\ new.entry = proc[p].entry
           /\ new.applied = proc[p].applied /\ new.background = proc[p].background
           /\ new.succeeded = proc[p].succeeded
<1>1. PICK x \in Process : x = proc[p]  BY DEF TypeOK, Process
<1>2. PICK new : new = [x EXCEPT !.pc = pc]  OBVIOUS
<1>3. /\ new.pc = pc /\ new.back = x.back /\ new.entry = x.entry
      /\ new.applied = x.applied /\ new.background = x.background
      /\ new.succeeded = x.succeeded
  BY <1>2 DEF Process
<1>4. new \in Process  BY <1>2 DEF Process
<1>5. proc' = [proc EXCEPT ![p] = new]  BY <1>1, <1>2 DEF Go, TypeOK
<1> QED  BY <1>1, <1>3, <1>4, <1>5 DEF Become

(* DrainThen sends it to the drain and says where it goes on after.        *)
LEMMA DrainThenMoves ==
  ASSUME TypeOK, NEW p \in Procs, NEW back \in Places, DrainThen(p, back)
  PROVE  \E new \in Process :
           /\ Become(p, new)
           /\ new.pc = "drain" /\ new.back = back /\ new.entry = 0
           /\ new.applied = proc[p].applied /\ new.background = proc[p].background
           /\ new.succeeded = proc[p].succeeded
<1>1. PICK x \in Process : x = proc[p]  BY DEF TypeOK, Process
<1>2. PICK new : new = [x EXCEPT !.pc = "drain", !.back = back, !.entry = 0]  OBVIOUS
<1>3. /\ new.pc = "drain" /\ new.back = back /\ new.entry = 0
      /\ new.applied = x.applied /\ new.background = x.background
      /\ new.succeeded = x.succeeded
  BY <1>2 DEF Process
<1>a. "drain" \in Places /\ 0 \in 0 .. MaxWrites  BY Domains
<1>4. new \in Process  BY <1>2, <1>a DEF Process
<1>5. proc' = [proc EXCEPT ![p] = new]  BY <1>1, <1>2 DEF DrainThen, TypeOK
<1> QED  BY <1>1, <1>3, <1>4, <1>5 DEF Become

(* Return goes on where the drain was called.                              *)
LEMMA ReturnMoves ==
  ASSUME TypeOK, NEW p \in Procs, Return(p)
  PROVE  \E new \in Process :
           /\ Become(p, new)
           /\ new.pc = proc[p].back /\ new.back = "idle"
           /\ new.applied = (proc[p].applied /\ proc[p].back = "after")
           /\ new.background = proc[p].background
           /\ new.succeeded = proc[p].succeeded
<1>1. PICK x \in Process : x = proc[p]  BY DEF TypeOK, Process
<1>2. PICK b \in BOOLEAN : b = (x.applied /\ x.back = "after")  OBVIOUS
<1>3. PICK y : y = [x EXCEPT !.pc = x.back, !.back = "idle", !.entry = 0]
  OBVIOUS
<1>a. "idle" \in Places /\ 0 \in 0 .. MaxWrites  BY Domains
<1>4. y \in Process /\ y.pc = x.back /\ y.back = "idle"
      /\ y.background = x.background /\ y.succeeded = x.succeeded
  BY <1>3, <1>a DEF Process
<1>5. PICK new : new = [y EXCEPT !.applied = b]  OBVIOUS
<1>6. new \in Process /\ new.pc = x.back /\ new.back = "idle"
      /\ new.applied = b /\ new.background = x.background
      /\ new.succeeded = x.succeeded
  BY <1>4, <1>5 DEF Process
<1>7. proc' = [proc EXCEPT ![p] = new]
  BY <1>1, <1>2, <1>3, <1>5 DEF Return, TypeOK
<1> QED  BY <1>1, <1>2, <1>6, <1>7 DEF Become

(* Finish makes the slot idle again.                                       *)
LEMMA FinishMoves ==
  ASSUME TypeOK, NEW p \in Procs, Finish(p)
  PROVE  \E new \in Process :
           Become(p, new) /\ new.pc = "idle" /\ new.back = "idle" /\ new.applied = FALSE
<1>1. Idle \in Process  BY ReplicaSyncAssumption DEF Idle, Process, Places
<1>2. Idle.pc = "idle" /\ Idle.back = "idle" /\ Idle.applied = FALSE  BY DEF Idle
<1> QED  BY <1>1, <1>2 DEF Finish, Become

GoEntry(p, pc, v) == proc' = [proc EXCEPT ![p].pc = pc, ![p].entry = v]
GoApplied(p, pc, v) == proc' = [proc EXCEPT ![p].pc = pc, ![p].applied = v]
GoBackground(p, pc, v) == proc' = [proc EXCEPT ![p].pc = pc, ![p].background = v]
GoSucceeded(p, pc, v) == proc' = [proc EXCEPT ![p].pc = pc, ![p].succeeded = v]

(* A move that sets the entry.                                             *)
LEMMA EntryMoves ==
  ASSUME TypeOK, NEW p \in Procs, NEW pc \in Places, NEW v \in 0 .. MaxWrites,
         GoEntry(p, pc, v)
  PROVE  \E new \in Process :
           /\ Become(p, new)
           /\ new.pc = pc /\ new.entry = v
           /\ new.back = proc[p].back /\ new.applied = proc[p].applied
           /\ new.background = proc[p].background /\ new.succeeded = proc[p].succeeded
<1>1. PICK x \in Process : x = proc[p]  BY DEF TypeOK, Process
<1>2. PICK y : y = [x EXCEPT !.pc = pc]  OBVIOUS
<1>3. y \in Process /\ y.pc = pc /\ y.back = x.back
      /\ y.applied = x.applied
      /\ y.background = x.background
      /\ y.succeeded = x.succeeded
  BY <1>2 DEF Process
<1>4. PICK new : new = [y EXCEPT !.entry = v]  OBVIOUS
<1>5. new \in Process /\ new.pc = pc /\ new.entry = v
      /\ new.back = x.back
      /\ new.applied = x.applied
      /\ new.background = x.background
      /\ new.succeeded = x.succeeded
  BY <1>3, <1>4 DEF Process
<1>6. proc' = [proc EXCEPT ![p] = new]  BY <1>1, <1>2, <1>4 DEF GoEntry, TypeOK
<1> QED  BY <1>1, <1>5, <1>6 DEF Become

(* A move that says whether the drain applied something.                   *)
LEMMA AppliedMoves ==
  ASSUME TypeOK, NEW p \in Procs, NEW pc \in Places, NEW v \in BOOLEAN,
         GoApplied(p, pc, v)
  PROVE  \E new \in Process :
           /\ Become(p, new)
           /\ new.pc = pc /\ new.applied = v
           /\ new.back = proc[p].back /\ new.entry = proc[p].entry
           /\ new.background = proc[p].background /\ new.succeeded = proc[p].succeeded
<1>1. PICK x \in Process : x = proc[p]  BY DEF TypeOK, Process
<1>2. PICK y : y = [x EXCEPT !.pc = pc]  OBVIOUS
<1>3. y \in Process /\ y.pc = pc /\ y.back = x.back
      /\ y.entry = x.entry
      /\ y.background = x.background
      /\ y.succeeded = x.succeeded
  BY <1>2 DEF Process
<1>4. PICK new : new = [y EXCEPT !.applied = v]  OBVIOUS
<1>5. new \in Process /\ new.pc = pc /\ new.applied = v
      /\ new.back = x.back
      /\ new.entry = x.entry
      /\ new.background = x.background
      /\ new.succeeded = x.succeeded
  BY <1>3, <1>4 DEF Process
<1>6. proc' = [proc EXCEPT ![p] = new]  BY <1>1, <1>2, <1>4 DEF GoApplied, TypeOK
<1> QED  BY <1>1, <1>5, <1>6 DEF Become

(* A move that says whether the sync runs in the background.               *)
LEMMA BackgroundMoves ==
  ASSUME TypeOK, NEW p \in Procs, NEW pc \in Places, NEW v \in BOOLEAN,
         GoBackground(p, pc, v)
  PROVE  \E new \in Process :
           /\ Become(p, new)
           /\ new.pc = pc /\ new.background = v
           /\ new.back = proc[p].back /\ new.entry = proc[p].entry
           /\ new.applied = proc[p].applied /\ new.succeeded = proc[p].succeeded
<1>1. PICK x \in Process : x = proc[p]  BY DEF TypeOK, Process
<1>2. PICK y : y = [x EXCEPT !.pc = pc]  OBVIOUS
<1>3. y \in Process /\ y.pc = pc /\ y.back = x.back
      /\ y.entry = x.entry
      /\ y.applied = x.applied
      /\ y.succeeded = x.succeeded
  BY <1>2 DEF Process
<1>4. PICK new : new = [y EXCEPT !.background = v]  OBVIOUS
<1>5. new \in Process /\ new.pc = pc /\ new.background = v
      /\ new.back = x.back
      /\ new.entry = x.entry
      /\ new.applied = x.applied
      /\ new.succeeded = x.succeeded
  BY <1>3, <1>4 DEF Process
<1>6. proc' = [proc EXCEPT ![p] = new]  BY <1>1, <1>2, <1>4 DEF GoBackground, TypeOK
<1> QED  BY <1>1, <1>5, <1>6 DEF Become

(* A move that says whether the round trip succeeded.                      *)
LEMMA SucceededMoves ==
  ASSUME TypeOK, NEW p \in Procs, NEW pc \in Places, NEW v \in BOOLEAN,
         GoSucceeded(p, pc, v)
  PROVE  \E new \in Process :
           /\ Become(p, new)
           /\ new.pc = pc /\ new.succeeded = v
           /\ new.back = proc[p].back /\ new.entry = proc[p].entry
           /\ new.applied = proc[p].applied /\ new.background = proc[p].background
<1>1. PICK x \in Process : x = proc[p]  BY DEF TypeOK, Process
<1>2. PICK y : y = [x EXCEPT !.pc = pc]  OBVIOUS
<1>3. y \in Process /\ y.pc = pc /\ y.back = x.back
      /\ y.entry = x.entry
      /\ y.applied = x.applied
      /\ y.background = x.background
  BY <1>2 DEF Process
<1>4. PICK new : new = [y EXCEPT !.succeeded = v]  OBVIOUS
<1>5. new \in Process /\ new.pc = pc /\ new.succeeded = v
      /\ new.back = x.back
      /\ new.entry = x.entry
      /\ new.applied = x.applied
      /\ new.background = x.background
  BY <1>3, <1>4 DEF Process
<1>6. proc' = [proc EXCEPT ![p] = new]  BY <1>1, <1>2, <1>4 DEF GoSucceeded, TypeOK
<1> QED  BY <1>1, <1>5, <1>6 DEF Become

-----------------------------------------------------------------------------
(* What a move keeps, part by part.                                        *)

LockMove(p, new, l) ==
  \/ lock'[l] = lock[l] /\ (Holds(new, l) <=> Holds(proc[p], l))
  \/ lock[l] = NoProc /\ lock'[l] = p /\ Holds(new, l)
  \/ lock[l] = p /\ lock'[l] = NoProc /\ ~Holds(new, l)

(* A lock is taken when it is free and released by its holder.             *)
LEMMA LocksMove ==
  ASSUME TypeOK, LocksOK, NEW p \in Procs, NEW new, Become(p, new),
         \A l \in Locks : LockMove(p, new, l)
  PROVE  LocksOK'
<1>1. /\ proc'[p] = new
      /\ \A q \in Procs : q # p => proc'[q] = proc[q]
  BY OnlyOneMoves
<1>2. ASSUME NEW q \in Procs, NEW l \in Locks
      PROVE  lock'[l] = q <=> Holds(proc'[q], l)
  <2>1. lock[l] = q <=> Holds(proc[q], l)  BY DEF LocksOK
  <2>2. LockMove(p, new, l)  OBVIOUS
  <2>3. q # NoProc  BY ReplicaSyncAssumption DEF NoProc
  <2>4. CASE q = p  BY <1>1, <2>1, <2>2, <2>3, <2>4 DEF LockMove
  <2>5. CASE q # p
    <3>1. proc'[q] = proc[q]  BY <1>1, <2>5
    <3> QED  BY <2>1, <2>2, <2>3, <2>5, <3>1 DEF LockMove
  <2> QED  BY <2>4, <2>5
<1> QED  BY <1>2 DEF LocksOK, Holds, InSync

LEMMA TakeLock ==
  ASSUME TypeOK, NEW p \in Procs, NEW l \in Locks, Take(p, l)
  PROVE  /\ lock' \in [Locks -> Procs \cup {NoProc}]
         /\ lock'[l] = p
         /\ \A m \in Locks : m # l => lock'[m] = lock[m]
  BY DEF TypeOK, Take

LEMMA ReleaseLock ==
  ASSUME TypeOK, NEW l \in Locks, Release(l)
  PROVE  /\ lock' \in [Locks -> Procs \cup {NoProc}]
         /\ lock'[l] = NoProc
         /\ \A m \in Locks : m # l => lock'[m] = lock[m]
  BY DEF TypeOK, Release

(* A move that does not leave the queue unwatched.                         *)
DrainGoesOn(p, new) ==
  \/ crashes' > 0 \/ failed' \/ queue' = <<>>
  \/ Drainer(new)
  \/ \E q \in Procs : q # p /\ Drainer(proc[q])
  \/ UNCHANGED <<queue, failed, crashes>> /\ ~Drainer(proc[p])

LEMMA QueueStaysWatched ==
  ASSUME TypeOK, QueueWatched, NEW p \in Procs, NEW new, Become(p, new),
         DrainGoesOn(p, new)
  PROVE  QueueWatched'
<1>1. /\ proc'[p] = new
      /\ \A q \in Procs : q # p => proc'[q] = proc[q]
  BY OnlyOneMoves
<1>2. SUFFICES ASSUME crashes' = 0, ~failed', queue' # <<>>
               PROVE  \E q \in Procs : Drainer(proc'[q])
  BY DEF QueueWatched, Drainer
<1>3. CASE Drainer(new)  BY <1>1, <1>3
<1>4. CASE \E q \in Procs : q # p /\ Drainer(proc[q])  BY <1>1, <1>4
<1>5. CASE UNCHANGED <<queue, failed, crashes>> /\ ~Drainer(proc[p])
  <2>1. \E q \in Procs : Drainer(proc[q])  BY <1>2, <1>5 DEF QueueWatched
  <2> QED  BY <1>1, <1>5, <2>1
<1> QED  BY <1>2, <1>3, <1>4, <1>5 DEF DrainGoesOn

(* A move that does not leave a write unsent and unwatched.                *)
SendGoesOn(p, new) ==
  \/ crashes' > 0 \/ failed' \/ Unsent' = {}
  \/ Sends(new)
  \/ pending' /\ Looks(new)
  \/ \E q \in Procs : q # p /\ Sends(proc[q])
  \/ /\ UNCHANGED <<failed, crashes>>
     /\ Unsent' \subseteq Unsent
     /\ pending => pending'
     /\ ~Sends(proc[p])
     /\ pending /\ Looks(proc[p]) =>
          \E q \in Procs : q # p /\ (Sends(proc[q]) \/ Looks(proc[q]))

LEMMA WritesStayWatched ==
  ASSUME TypeOK, WritesWatched, NEW p \in Procs, NEW new, Become(p, new),
         SendGoesOn(p, new)
  PROVE  WritesWatched'
<1>1. /\ proc'[p] = new
      /\ \A q \in Procs : q # p => proc'[q] = proc[q]
  BY OnlyOneMoves
<1>2. SUFFICES ASSUME crashes' = 0, ~failed', Unsent' # {}
               PROVE  \/ \E q \in Procs : Sends(proc'[q])
                      \/ pending' /\ \E q \in Procs : Looks(proc'[q])
  BY DEF WritesWatched, Sends, Looks
<1>3. CASE Sends(new)  BY <1>1, <1>3
<1>4. CASE pending' /\ Looks(new)  BY <1>1, <1>4
<1>5. CASE \E q \in Procs : q # p /\ Sends(proc[q])  BY <1>1, <1>5
<1>6. CASE /\ UNCHANGED <<failed, crashes>>
           /\ Unsent' \subseteq Unsent
           /\ pending => pending'
           /\ ~Sends(proc[p])
           /\ pending /\ Looks(proc[p]) =>
                \E q \in Procs : q # p /\ (Sends(proc[q]) \/ Looks(proc[q]))
  <2>1. \/ \E q \in Procs : Sends(proc[q])
        \/ pending /\ \E q \in Procs : Looks(proc[q])
    BY <1>2, <1>6 DEF WritesWatched
  <2>2. CASE \E q \in Procs : Sends(proc[q])  BY <1>1, <1>6, <2>2
  <2>3. CASE pending /\ \E q \in Procs : Looks(proc[q])
    <3>1. \E q \in Procs : q # p /\ (Sends(proc[q]) \/ Looks(proc[q]))
      BY <1>6, <2>3
    <3>2. pending'  BY <1>6, <2>3
    <3> QED  BY <1>1, <3>1, <3>2
  <2> QED  BY <2>1, <2>2, <2>3
<1> QED  BY <1>2, <1>3, <1>4, <1>5, <1>6 DEF SendGoesOn

(* A drain knows where it goes on, a failed sync leaves its mark.          *)
LEMMA BacksMove ==
  ASSUME TypeOK, BackOK, NEW p \in Procs, NEW new, Become(p, new),
         new.pc \in DrainPlaces => new.back \in {"idle", "mark", "sync", "after"},
         new.pc = "unlock" /\ ~new.succeeded => failed',
         failed => failed' \/ \A q \in Procs : q # p => proc[q].pc # "unlock"
  PROVE  BackOK'
<1>1. /\ proc'[p] = new
      /\ \A q \in Procs : q # p => proc'[q] = proc[q]
  BY OnlyOneMoves
<1>2. ASSUME NEW q \in Procs
      PROVE  /\ proc'[q].pc \in DrainPlaces => proc'[q].back \in {"idle", "mark", "sync", "after"}
             /\ proc'[q].pc = "unlock" /\ ~proc'[q].succeeded => failed'
  <2>1. CASE q = p  BY <1>1, <2>1
  <2>2. CASE q # p
    <3>1. proc'[q] = proc[q]  BY <1>1, <2>2
    <3>2. /\ proc[q].pc \in DrainPlaces => proc[q].back \in {"idle", "mark", "sync", "after"}
          /\ proc[q].pc = "unlock" /\ ~proc[q].succeeded => failed
      BY DEF BackOK
    <3> QED  BY <2>2, <3>1, <3>2
  <2> QED  BY <2>1, <2>2
<1> QED  BY <1>2 DEF BackOK

(* The next three are for moves that leave the queue and the replica.      *)
LEMMA NumbersStand ==
  ASSUME TypeOK, NumbersOK, NEW p \in Procs, NEW new, Become(p, new),
         UNCHANGED <<replica, writes, hooked>>, new.pc # "writing"
  PROVE  NumbersOK'
<1>1. /\ proc'[p] = new
      /\ \A q \in Procs : q # p => proc'[q] = proc[q]
  BY OnlyOneMoves
<1> QED  BY <1>1 DEF NumbersOK

LEMMA QueueStands ==
  ASSUME TypeOK, QueueOK, NEW p \in Procs, NEW new, Become(p, new),
         UNCHANGED <<queue, hooked>>,
         new.pc \in {"apply", "applying", "pop"} => queue # <<>> /\ new.entry = queue[1]
  PROVE  QueueOK'
<1>1. /\ proc'[p] = new
      /\ \A q \in Procs : q # p => proc'[q] = proc[q]
  BY OnlyOneMoves
<1> QED  BY <1>1 DEF QueueOK

LEMMA LandedStands ==
  ASSUME TypeOK, LandedOK, NEW p \in Procs, NEW new, Become(p, new),
         UNCHANGED <<queue, replica, hooked, crashes>>, proc[p].pc # "pop"
  PROVE  LandedOK'
<1>1. \A q \in Procs : q # p => proc'[q] = proc[q]
  BY OnlyOneMoves
<1> QED  BY <1>1 DEF LandedOK

(* A move that leaves the queue and the replica as they are.               *)
LEMMA QuietStep ==
  ASSUME IInv, NEW p \in Procs, NEW new, Become(p, new),
         UNCHANGED <<queue, replica, writes, crashes, hooked, stopApplied>>,
         server' \subseteq Writes, pending' \in BOOLEAN, failed' \in BOOLEAN,
         lock' \in [Locks -> Procs \cup {NoProc}],
         runs' \in 0 .. MaxRuns, failures' \in 0 .. MaxFailures,
         \A l \in Locks : LockMove(p, new, l),
         proc[p].pc # "pop", new.pc # "writing",
         new.pc \in {"apply", "applying", "pop"} => queue # <<>> /\ new.entry = queue[1],
         new.pc \in DrainPlaces => new.back \in {"idle", "mark", "sync", "after"},
         new.pc = "unlock" /\ ~new.succeeded => failed',
         failed => failed' \/ \A q \in Procs : q # p => proc[q].pc # "unlock",
         DrainGoesOn(p, new), SendGoesOn(p, new)
  PROVE  IInv'
<1> USE DEF IInv
<1>1. TypeOK'
  <2>1. proc' \in [Procs -> Process]  BY OnlyOneMoves
  <2> QED  BY <2>1 DEF TypeOK, Process
<1>2. LocksOK'  BY LocksMove
<1>3. BackOK'  BY BacksMove
<1>4. NumbersOK'  BY NumbersStand
<1>5. QueueOK'  BY QueueStands
<1>6. LandedOK'  BY LandedStands
<1>7. LandsInOrder'  BY DEF LandsInOrder
<1>8. QueueWatched'  BY QueueStaysWatched
<1>9. WritesWatched'  BY WritesStayWatched
<1> QED  BY <1>1, <1>2, <1>3, <1>4, <1>5, <1>6, <1>7, <1>8, <1>9

-----------------------------------------------------------------------------
(* The moves that leave the queue and the replica as they are.             *)

(* The first entry of a queue that has one.                                *)
LEMMA FirstEntry ==
  ASSUME TypeOK, queue # <<>>
  PROVE  /\ Head(queue) = queue[1] /\ queue[1] \in 0 .. MaxWrites
         /\ queue[1] \in Writes /\ 1 \in DOMAIN queue
<1>1. queue \in Seq(Writes)  BY DEF TypeOK
<1>2. Head(queue) = queue[1] /\ queue[1] \in Writes /\ 1 \in DOMAIN queue  BY <1>1
<1> QED  BY <1>2, ReplicaSyncAssumption DEF Writes

(* A lock that is not free is held by a process that stands where it is    *)
(* held.                                                                   *)
LEMMA Holder ==
  ASSUME TypeOK, LocksOK, NEW p \in Procs, NEW l \in Locks, ~Free(l),
         ~Holds(proc[p], l)
  PROVE  \E q \in Procs : q # p /\ Holds(proc[q], l)
  BY DEF TypeOK, LocksOK, Free, Locks

(* Another process that holds the drain lock drains, and one that holds    *)
(* the replica lock drains, or will when it lets go of it.                 *)
LEMMA HolderDrains ==
  ASSUME TypeOK, LocksOK, NEW p \in Procs,
         \/ ~Free("drain") /\ proc[p].pc = "drain"
         \/ ~Free("replica") /\ proc[p].pc = "apply"
  PROVE  \E q \in Procs : q # p /\ Drainer(proc[q])
<1>1. CASE ~Free("drain") /\ proc[p].pc = "drain"
  <2>1. ~Holds(proc[p], "drain")  BY <1>1 DEF Holds, Applying
  <2>2. \E q \in Procs : q # p /\ Holds(proc[q], "drain")
    BY <1>1, <2>1, Holder DEF Locks
  <2> QED  BY <2>2 DEF Holds, Applying, Drainer, DrainPlaces
<1>2. CASE ~Free("replica") /\ proc[p].pc = "apply"
  <2>1. ~Holds(proc[p], "replica")  BY <1>2 DEF Holds, Touching
  <2>2. \E q \in Procs : q # p /\ Holds(proc[q], "replica")
    BY <1>2, <2>1, Holder DEF Locks
  <2> QED  BY <2>2 DEF Holds, Touching, Drainer, DrainPlaces
<1> QED  BY <1>1, <1>2

(* Whoever holds the sync lock sends or looks, unless its round trip       *)
(* failed.                                                                 *)
LEMMA SyncHolder ==
  ASSUME TypeOK, LocksOK, BackOK, NEW p \in Procs, ~Free("sync"), proc[p].pc = "lock"
  PROVE  failed \/ \E q \in Procs : q # p /\ (Sends(proc[q]) \/ Looks(proc[q]))
<1>1. ~Holds(proc[p], "sync")  BY DEF Holds, InSync, DrainPlaces
<1>2. PICK q \in Procs : q # p /\ Holds(proc[q], "sync")  BY <1>1, Holder DEF Locks
<1>3. InSync(proc[q])  BY <1>2 DEF Holds
<1>4. proc[q].pc = "unlock" /\ ~proc[q].succeeded => failed  BY DEF BackOK
<1> QED  BY <1>2, <1>3, <1>4 DEF InSync, Sends, Looks

(* One process at a time is in a sync.                                     *)
LEMMA OnlyOneSyncs ==
  ASSUME LocksOK, NEW p \in Procs, InSync(proc[p])
  PROVE  \A q \in Procs : q # p => ~InSync(proc[q])
  BY DEF LocksOK, Holds, Locks

(* What a round trip sends are writes.                                     *)
LEMMA SentAreWrites ==
  ASSUME TypeOK
  PROVE  Range(replica) \subseteq Writes
  BY DEF TypeOK, Range

(* The detached process starts afresh.                                     *)
LEMMA MarkMoves ==
  ASSUME TypeOK, NEW p \in Procs, proc' = [proc EXCEPT ![p] = [Idle EXCEPT !.pc = "check"]]
  PROVE  \E new \in Process : Become(p, new) /\ new.pc = "check"
<1>1. Idle \in Process  BY Domains DEF Idle, Process
<1>2. PICK new : new = [Idle EXCEPT !.pc = "check"]  OBVIOUS
<1>3. new \in Process /\ new.pc = "check"  BY <1>1, <1>2, Domains DEF Process
<1> QED  BY <1>2, <1>3 DEF Become

LEMMA StopHookKeeps ==
  ASSUME IInv, NEW p \in Procs, StopHook(p)
  PROVE  IInv'
<1>a. TypeOK /\ LocksOK /\ BackOK  BY DEF IInv
<1>b. proc[p].pc = "idle" /\ lock' = lock /\ DrainThen(p, "idle")
      /\ UNCHANGED <<queue, failed, pending, crashes, replica, server, stopApplied>>
  BY DEF StopHook, Files, Counters, History, At, GoEntry, GoApplied, GoBackground, GoSucceeded
<1>c. /\ UNCHANGED <<queue, replica, writes, crashes, hooked, stopApplied>>
      /\ server' \subseteq Writes /\ pending' \in BOOLEAN /\ failed' \in BOOLEAN
      /\ runs' \in 0 .. MaxRuns /\ failures' \in 0 .. MaxFailures
  BY <1>a, ReplicaSyncAssumption DEF StopHook, Files, Counters, History, TypeOK
<1>1. PICK new \in Process : Become(p, new) /\ new.pc = "drain" /\ new.back = "idle"
        /\ new.applied = proc[p].applied
  BY <1>b, <1>a, DrainThenMoves, Domains
<1>2. lock' = lock  BY <1>b
<1>3. lock' \in [Locks -> Procs \cup {NoProc}]  BY <1>a, <1>2 DEF TypeOK
<1>4. ASSUME NEW l \in Locks  PROVE LockMove(p, new, l)
  BY <1>a, <1>b, <1>1, <1>2 DEF LockMove, Holds, InSync, Applying, Touching, DrainPlaces, Locks, At, BackOK
<1>5. DrainGoesOn(p, new)
  BY <1>a, <1>b, <1>1 DEF DrainGoesOn, Drainer, DrainPlaces, At, BackOK
<1>6. SendGoesOn(p, new)
  BY <1>a, <1>b, <1>1 DEF SendGoesOn, Sends, Looks, Unsent, DrainPlaces, At, BackOK
<1>7. /\ proc[p].pc # "pop" /\ new.pc # "writing"
      /\ new.pc \in {"apply", "applying", "pop"} => queue # <<>> /\ new.entry = queue[1]
      /\ new.pc \in DrainPlaces => new.back \in {"idle", "mark", "sync", "after"}
  BY <1>a, <1>b, <1>1 DEF At, BackOK, DrainPlaces
<1>8. /\ new.pc = "unlock" /\ ~new.succeeded => failed'
      /\ failed => failed' \/ \A q \in Procs : q # p => proc[q].pc # "unlock"
  BY <1>a, <1>b, <1>1 DEF BackOK, DrainPlaces
<1> QED  BY <1>a, <1>b, <1>c, <1>1, <1>3, <1>4, <1>5, <1>6, <1>7, <1>8, QuietStep DEF TypeOK

LEMMA ForegroundSyncKeeps ==
  ASSUME IInv, NEW p \in Procs, ForegroundSync(p)
  PROVE  IInv'
<1>a. TypeOK /\ LocksOK /\ BackOK  BY DEF IInv
<1>d. PICK b \in BOOLEAN : b = FALSE  OBVIOUS
<1>b. proc[p].pc = "idle" /\ lock' = lock
      /\ GoBackground(p, "lock", b)
      /\ UNCHANGED <<queue, failed, pending, crashes, replica, server, stopApplied>>
  BY <1>d DEF ForegroundSync, Files, Counters, History, At, GoEntry, GoApplied, GoBackground, GoSucceeded
<1>c. /\ UNCHANGED <<queue, replica, writes, crashes, hooked, stopApplied>>
      /\ server' \subseteq Writes /\ pending' \in BOOLEAN /\ failed' \in BOOLEAN
      /\ runs' \in 0 .. MaxRuns /\ failures' \in 0 .. MaxFailures
  BY <1>a, ReplicaSyncAssumption DEF ForegroundSync, Files, Counters, History, TypeOK
<1>1. PICK new \in Process : Become(p, new) /\ new.pc = "lock"
  BY <1>b, <1>a, BackgroundMoves, Domains
<1>2. lock' = lock  BY <1>b
<1>3. lock' \in [Locks -> Procs \cup {NoProc}]  BY <1>a, <1>2 DEF TypeOK
<1>4. ASSUME NEW l \in Locks  PROVE LockMove(p, new, l)
  BY <1>a, <1>b, <1>1, <1>2 DEF LockMove, Holds, InSync, Applying, Touching, DrainPlaces, Locks, At, BackOK
<1>5. DrainGoesOn(p, new)
  BY <1>a, <1>b, <1>1 DEF DrainGoesOn, Drainer, DrainPlaces, At, BackOK
<1>6. SendGoesOn(p, new)
  BY <1>a, <1>b, <1>1 DEF SendGoesOn, Sends, Looks, Unsent, DrainPlaces, At, BackOK
<1>7. /\ proc[p].pc # "pop" /\ new.pc # "writing"
      /\ new.pc \in {"apply", "applying", "pop"} => queue # <<>> /\ new.entry = queue[1]
      /\ new.pc \in DrainPlaces => new.back \in {"idle", "mark", "sync", "after"}
  BY <1>a, <1>b, <1>1 DEF At, BackOK, DrainPlaces
<1>8. /\ new.pc = "unlock" /\ ~new.succeeded => failed'
      /\ failed => failed' \/ \A q \in Procs : q # p => proc[q].pc # "unlock"
  BY <1>a, <1>b, <1>1 DEF BackOK, DrainPlaces
<1> QED  BY <1>a, <1>b, <1>c, <1>1, <1>3, <1>4, <1>5, <1>6, <1>7, <1>8, QuietStep DEF TypeOK

LEMMA TryDrainKeeps ==
  ASSUME IInv, NEW p \in Procs, TryDrain(p)
  PROVE  IInv'
<1>a. TypeOK /\ LocksOK /\ BackOK  BY DEF IInv
<1>b. proc[p].pc = "drain" /\ UNCHANGED <<queue, failed, pending, crashes, replica, server, stopApplied>>
      /\ \/ Free("drain") /\ Take(p, "drain") /\ Go(p, "peek")
         \/ ~Free("drain") /\ Return(p) /\ lock' = lock
  BY DEF TryDrain, Files, Counters, History, At, GoEntry, GoApplied, GoBackground, GoSucceeded
<1>c. /\ UNCHANGED <<queue, replica, writes, crashes, hooked, stopApplied>>
      /\ server' \subseteq Writes /\ pending' \in BOOLEAN /\ failed' \in BOOLEAN
      /\ runs' \in 0 .. MaxRuns /\ failures' \in 0 .. MaxFailures
  BY <1>a, ReplicaSyncAssumption DEF TryDrain, Files, Counters, History, TypeOK
<1>1. CASE Free("drain")
  <2>1. PICK new \in Process : Become(p, new) /\ new.pc = "peek" /\ new.back = proc[p].back /\ new.entry = proc[p].entry
          /\ new.applied = proc[p].applied /\ new.succeeded = proc[p].succeeded
    BY <1>b, <1>1, <1>a, GoMoves, Domains
  <2>2. lock["drain"] = NoProc /\ lock'["drain"] = p
        /\ \A m \in Locks : m # "drain" => lock'[m] = lock[m]
    BY <1>a, <1>b, <1>1, TakeLock DEF Free, Locks
  <2>3. lock' \in [Locks -> Procs \cup {NoProc}]
    BY <1>a, <1>b, <1>1, TakeLock DEF Locks
  <2>4. ASSUME NEW l \in Locks  PROVE LockMove(p, new, l)
    BY <1>a, <1>b, <1>1, <2>1, <2>2 DEF LockMove, Holds, InSync, Applying, Touching, DrainPlaces, Locks, At, BackOK
  <2>5. DrainGoesOn(p, new)
    BY <1>a, <1>b, <1>1, <2>1 DEF DrainGoesOn, Drainer, DrainPlaces, At, BackOK
  <2>6. SendGoesOn(p, new)
    BY <1>a, <1>b, <1>1, <2>1 DEF SendGoesOn, Sends, Looks, Unsent, DrainPlaces, At, BackOK
  <2>7. /\ proc[p].pc # "pop" /\ new.pc # "writing"
        /\ new.pc \in {"apply", "applying", "pop"} => queue # <<>> /\ new.entry = queue[1]
        /\ new.pc \in DrainPlaces => new.back \in {"idle", "mark", "sync", "after"}
    BY <1>a, <1>b, <1>1, <2>1 DEF At, BackOK, DrainPlaces
  <2>8. /\ new.pc = "unlock" /\ ~new.succeeded => failed'
        /\ failed => failed' \/ \A q \in Procs : q # p => proc[q].pc # "unlock"
    BY <1>a, <1>b, <1>1, <2>1 DEF BackOK, DrainPlaces
  <2> QED  BY <1>a, <1>b, <1>c, <1>1, <2>1, <2>3, <2>4, <2>5, <2>6, <2>7, <2>8, QuietStep DEF TypeOK
<1>2. CASE ~Free("drain")
  <2>1. PICK new \in Process : Become(p, new) /\ new.pc = proc[p].back /\ new.back = "idle"
          /\ new.applied = (proc[p].applied /\ proc[p].back = "after")
    BY <1>b, <1>2, <1>a, ReturnMoves, Domains
  <2>2. lock' = lock  BY <1>b, <1>2
  <2>3. lock' \in [Locks -> Procs \cup {NoProc}]  BY <1>a, <2>2 DEF TypeOK
  <2>4. ASSUME NEW l \in Locks  PROVE LockMove(p, new, l)
    BY <1>a, <1>b, <1>2, <2>1, <2>2 DEF LockMove, Holds, InSync, Applying, Touching, DrainPlaces, Locks, At, BackOK
  <2>5. DrainGoesOn(p, new)
    BY <1>a, <1>b, <1>2, <2>1, HolderDrains DEF DrainGoesOn, Drainer, DrainPlaces, At, BackOK
  <2>6. SendGoesOn(p, new)
    BY <1>a, <1>b, <1>2, <2>1 DEF SendGoesOn, Sends, Looks, Unsent, DrainPlaces, At, BackOK
  <2>7. /\ proc[p].pc # "pop" /\ new.pc # "writing"
        /\ new.pc \in {"apply", "applying", "pop"} => queue # <<>> /\ new.entry = queue[1]
        /\ new.pc \in DrainPlaces => new.back \in {"idle", "mark", "sync", "after"}
    BY <1>a, <1>b, <1>2, <2>1 DEF At, BackOK, DrainPlaces
  <2>8. /\ new.pc = "unlock" /\ ~new.succeeded => failed'
        /\ failed => failed' \/ \A q \in Procs : q # p => proc[q].pc # "unlock"
    BY <1>a, <1>b, <1>2, <2>1 DEF BackOK, DrainPlaces
  <2> QED  BY <1>a, <1>b, <1>c, <1>2, <2>1, <2>3, <2>4, <2>5, <2>6, <2>7, <2>8, QuietStep DEF TypeOK
<1> QED  BY <1>b, <1>1, <1>2

LEMMA PeekKeeps ==
  ASSUME IInv, NEW p \in Procs, Peek(p)
  PROVE  IInv'
<1>a. TypeOK /\ LocksOK /\ BackOK  BY DEF IInv
<1>b. proc[p].pc = "peek" /\ lock' = lock /\ UNCHANGED <<queue, failed, pending, crashes, replica, server, stopApplied>>
      /\ \/ queue = <<>> /\ Go(p, "drained")
         \/ queue # <<>> /\ GoEntry(p, "apply", Head(queue))
  BY DEF Peek, Files, Counters, History, At, GoEntry, GoApplied, GoBackground, GoSucceeded
<1>c. /\ UNCHANGED <<queue, replica, writes, crashes, hooked, stopApplied>>
      /\ server' \subseteq Writes /\ pending' \in BOOLEAN /\ failed' \in BOOLEAN
      /\ runs' \in 0 .. MaxRuns /\ failures' \in 0 .. MaxFailures
  BY <1>a, ReplicaSyncAssumption DEF Peek, Files, Counters, History, TypeOK
<1>1. CASE queue = <<>>
  <2>1. PICK new \in Process : Become(p, new) /\ new.pc = "drained" /\ new.back = proc[p].back /\ new.entry = proc[p].entry
          /\ new.applied = proc[p].applied /\ new.succeeded = proc[p].succeeded
    BY <1>b, <1>1, <1>a, GoMoves, Domains
  <2>2. lock' = lock  BY <1>b, <1>1
  <2>3. lock' \in [Locks -> Procs \cup {NoProc}]  BY <1>a, <2>2 DEF TypeOK
  <2>4. ASSUME NEW l \in Locks  PROVE LockMove(p, new, l)
    BY <1>a, <1>b, <1>1, <2>1, <2>2 DEF LockMove, Holds, InSync, Applying, Touching, DrainPlaces, Locks, At, BackOK
  <2>5. DrainGoesOn(p, new)
    BY <1>a, <1>b, <1>1, <2>1 DEF DrainGoesOn, Drainer, DrainPlaces, At, BackOK
  <2>6. SendGoesOn(p, new)
    BY <1>a, <1>b, <1>1, <2>1 DEF SendGoesOn, Sends, Looks, Unsent, DrainPlaces, At, BackOK
  <2>7. /\ proc[p].pc # "pop" /\ new.pc # "writing"
        /\ new.pc \in {"apply", "applying", "pop"} => queue # <<>> /\ new.entry = queue[1]
        /\ new.pc \in DrainPlaces => new.back \in {"idle", "mark", "sync", "after"}
    BY <1>a, <1>b, <1>1, <2>1 DEF At, BackOK, DrainPlaces
  <2>8. /\ new.pc = "unlock" /\ ~new.succeeded => failed'
        /\ failed => failed' \/ \A q \in Procs : q # p => proc[q].pc # "unlock"
    BY <1>a, <1>b, <1>1, <2>1 DEF BackOK, DrainPlaces
  <2> QED  BY <1>a, <1>b, <1>c, <1>1, <2>1, <2>3, <2>4, <2>5, <2>6, <2>7, <2>8, QuietStep DEF TypeOK
<1>2. CASE queue # <<>>
  <2>0. Head(queue) = queue[1] /\ queue[1] \in 0 .. MaxWrites
    BY <1>a, <1>2, FirstEntry
  <2>1. PICK new \in Process : Become(p, new) /\ new.pc = "apply" /\ new.back = proc[p].back /\ new.entry = Head(queue)
          /\ new.applied = proc[p].applied /\ new.succeeded = proc[p].succeeded
    BY <1>b, <1>2, <2>0, <1>a, EntryMoves, Domains
  <2>2. lock' = lock  BY <1>b, <1>2, <2>0
  <2>3. lock' \in [Locks -> Procs \cup {NoProc}]  BY <1>a, <2>2 DEF TypeOK
  <2>4. ASSUME NEW l \in Locks  PROVE LockMove(p, new, l)
    BY <1>a, <1>b, <1>2, <2>0, <2>1, <2>2 DEF LockMove, Holds, InSync, Applying, Touching, DrainPlaces, Locks, At, BackOK
  <2>5. DrainGoesOn(p, new)
    BY <1>a, <1>b, <1>2, <2>0, <2>1 DEF DrainGoesOn, Drainer, DrainPlaces, At, BackOK
  <2>6. SendGoesOn(p, new)
    BY <1>a, <1>b, <1>2, <2>0, <2>1 DEF SendGoesOn, Sends, Looks, Unsent, DrainPlaces, At, BackOK
  <2>7. /\ proc[p].pc # "pop" /\ new.pc # "writing"
        /\ new.pc \in {"apply", "applying", "pop"} => queue # <<>> /\ new.entry = queue[1]
        /\ new.pc \in DrainPlaces => new.back \in {"idle", "mark", "sync", "after"}
    BY <1>a, <1>b, <1>2, <2>0, <2>1 DEF At, BackOK, DrainPlaces
  <2>8. /\ new.pc = "unlock" /\ ~new.succeeded => failed'
        /\ failed => failed' \/ \A q \in Procs : q # p => proc[q].pc # "unlock"
    BY <1>a, <1>b, <1>2, <2>0, <2>1 DEF BackOK, DrainPlaces
  <2> QED  BY <1>a, <1>b, <1>c, <1>2, <2>0, <2>1, <2>3, <2>4, <2>5, <2>6, <2>7, <2>8, QuietStep DEF TypeOK
<1> QED  BY <1>b, <1>1, <1>2

LEMMA BeginApplyKeeps ==
  ASSUME IInv, NEW p \in Procs, BeginApply(p)
  PROVE  IInv'
<1>a. TypeOK /\ LocksOK /\ BackOK  BY DEF IInv
<1>b. proc[p].pc = "apply" /\ Free("replica") /\ Take(p, "replica") /\ Go(p, "applying")
      /\ UNCHANGED <<queue, failed, pending, crashes, replica, server, stopApplied>>
  BY DEF BeginApply, Files, Counters, History, At, GoEntry, GoApplied, GoBackground, GoSucceeded
<1>c. /\ UNCHANGED <<queue, replica, writes, crashes, hooked, stopApplied>>
      /\ server' \subseteq Writes /\ pending' \in BOOLEAN /\ failed' \in BOOLEAN
      /\ runs' \in 0 .. MaxRuns /\ failures' \in 0 .. MaxFailures
  BY <1>a, ReplicaSyncAssumption DEF BeginApply, Files, Counters, History, TypeOK
<1>1. PICK new \in Process : Become(p, new) /\ new.pc = "applying" /\ new.back = proc[p].back /\ new.entry = proc[p].entry
        /\ new.applied = proc[p].applied /\ new.succeeded = proc[p].succeeded
  BY <1>b, <1>a, GoMoves, Domains
<1>2. lock["replica"] = NoProc /\ lock'["replica"] = p
      /\ \A m \in Locks : m # "replica" => lock'[m] = lock[m]
  BY <1>a, <1>b, TakeLock DEF Free, Locks
<1>3. lock' \in [Locks -> Procs \cup {NoProc}]
  BY <1>a, <1>b, TakeLock DEF Locks
<1>4. ASSUME NEW l \in Locks  PROVE LockMove(p, new, l)
  BY <1>a, <1>b, <1>1, <1>2 DEF LockMove, Holds, InSync, Applying, Touching, DrainPlaces, Locks, At, BackOK
<1>5. DrainGoesOn(p, new)
  BY <1>a, <1>b, <1>1 DEF DrainGoesOn, Drainer, DrainPlaces, At, BackOK
<1>6. SendGoesOn(p, new)
  BY <1>a, <1>b, <1>1 DEF SendGoesOn, Sends, Looks, Unsent, DrainPlaces, At, BackOK
<1>e. queue # <<>> /\ proc[p].entry = queue[1]  BY <1>b DEF IInv, QueueOK
<1>7. /\ proc[p].pc # "pop" /\ new.pc # "writing"
      /\ new.pc \in {"apply", "applying", "pop"} => queue # <<>> /\ new.entry = queue[1]
      /\ new.pc \in DrainPlaces => new.back \in {"idle", "mark", "sync", "after"}
  BY <1>a, <1>b, <1>1, <1>e DEF At, BackOK, DrainPlaces
<1>8. /\ new.pc = "unlock" /\ ~new.succeeded => failed'
      /\ failed => failed' \/ \A q \in Procs : q # p => proc[q].pc # "unlock"
  BY <1>a, <1>b, <1>1 DEF BackOK, DrainPlaces
<1> QED  BY <1>a, <1>b, <1>c, <1>1, <1>3, <1>4, <1>5, <1>6, <1>7, <1>8, QuietStep DEF TypeOK

LEMMA RefuseEntryKeeps ==
  ASSUME IInv, NEW p \in Procs, RefuseEntry(p)
  PROVE  IInv'
<1>a. TypeOK /\ LocksOK /\ BackOK  BY DEF IInv
<1>b. proc[p].pc = "applying" /\ Release("replica") /\ Go(p, "pop")
      /\ UNCHANGED <<queue, failed, pending, crashes, replica, server, stopApplied>>
  BY DEF RefuseEntry, Files, Counters, History, At, GoEntry, GoApplied, GoBackground, GoSucceeded
<1>c. /\ UNCHANGED <<queue, replica, writes, crashes, hooked, stopApplied>>
      /\ server' \subseteq Writes /\ pending' \in BOOLEAN /\ failed' \in BOOLEAN
      /\ runs' \in 0 .. MaxRuns /\ failures' \in 0 .. MaxFailures
  BY <1>a, ReplicaSyncAssumption DEF RefuseEntry, Files, Counters, History, TypeOK
<1>1. PICK new \in Process : Become(p, new) /\ new.pc = "pop" /\ new.back = proc[p].back /\ new.entry = proc[p].entry
        /\ new.applied = proc[p].applied /\ new.succeeded = proc[p].succeeded
  BY <1>b, <1>a, GoMoves, Domains
<1>9. Holds(proc[p], "replica")  BY <1>b DEF Holds, InSync, Applying, Touching, DrainPlaces, At
<1>2. lock["replica"] = p /\ lock'["replica"] = NoProc
      /\ \A m \in Locks : m # "replica" => lock'[m] = lock[m]
  BY <1>a, <1>b, <1>9, ReleaseLock DEF LocksOK, Locks
<1>3. lock' \in [Locks -> Procs \cup {NoProc}]
  BY <1>a, <1>b, ReleaseLock DEF Locks
<1>4. ASSUME NEW l \in Locks  PROVE LockMove(p, new, l)
  BY <1>a, <1>b, <1>1, <1>2 DEF LockMove, Holds, InSync, Applying, Touching, DrainPlaces, Locks, At, BackOK
<1>5. DrainGoesOn(p, new)
  BY <1>a, <1>b, <1>1 DEF DrainGoesOn, Drainer, DrainPlaces, At, BackOK
<1>6. SendGoesOn(p, new)
  BY <1>a, <1>b, <1>1 DEF SendGoesOn, Sends, Looks, Unsent, DrainPlaces, At, BackOK
<1>e. queue # <<>> /\ proc[p].entry = queue[1]  BY <1>b DEF IInv, QueueOK
<1>7. /\ proc[p].pc # "pop" /\ new.pc # "writing"
      /\ new.pc \in {"apply", "applying", "pop"} => queue # <<>> /\ new.entry = queue[1]
      /\ new.pc \in DrainPlaces => new.back \in {"idle", "mark", "sync", "after"}
  BY <1>a, <1>b, <1>1, <1>e DEF At, BackOK, DrainPlaces
<1>8. /\ new.pc = "unlock" /\ ~new.succeeded => failed'
      /\ failed => failed' \/ \A q \in Procs : q # p => proc[q].pc # "unlock"
  BY <1>a, <1>b, <1>1 DEF BackOK, DrainPlaces
<1> QED  BY <1>a, <1>b, <1>c, <1>1, <1>3, <1>4, <1>5, <1>6, <1>7, <1>8, QuietStep DEF TypeOK

LEMMA ReplicaBusyKeeps ==
  ASSUME IInv, NEW p \in Procs, ReplicaBusy(p)
  PROVE  IInv'
<1>a. TypeOK /\ LocksOK /\ BackOK  BY DEF IInv
<1>b. proc[p].pc = "apply" /\ ~Free("replica") /\ Release("drain") /\ Return(p)
      /\ UNCHANGED <<queue, failed, pending, crashes, replica, server, stopApplied>>
  BY DEF ReplicaBusy, Files, Counters, History, At, GoEntry, GoApplied, GoBackground, GoSucceeded
<1>c. /\ UNCHANGED <<queue, replica, writes, crashes, hooked, stopApplied>>
      /\ server' \subseteq Writes /\ pending' \in BOOLEAN /\ failed' \in BOOLEAN
      /\ runs' \in 0 .. MaxRuns /\ failures' \in 0 .. MaxFailures
  BY <1>a, ReplicaSyncAssumption DEF ReplicaBusy, Files, Counters, History, TypeOK
<1>1. PICK new \in Process : Become(p, new) /\ new.pc = proc[p].back /\ new.back = "idle"
        /\ new.applied = (proc[p].applied /\ proc[p].back = "after")
  BY <1>b, <1>a, ReturnMoves, Domains
<1>9. Holds(proc[p], "drain")  BY <1>b DEF Holds, InSync, Applying, Touching, DrainPlaces, At
<1>2. lock["drain"] = p /\ lock'["drain"] = NoProc
      /\ \A m \in Locks : m # "drain" => lock'[m] = lock[m]
  BY <1>a, <1>b, <1>9, ReleaseLock DEF LocksOK, Locks
<1>3. lock' \in [Locks -> Procs \cup {NoProc}]
  BY <1>a, <1>b, ReleaseLock DEF Locks
<1>4. ASSUME NEW l \in Locks  PROVE LockMove(p, new, l)
  BY <1>a, <1>b, <1>1, <1>2 DEF LockMove, Holds, InSync, Applying, Touching, DrainPlaces, Locks, At, BackOK
<1>5. DrainGoesOn(p, new)
  BY <1>a, <1>b, <1>1, HolderDrains DEF DrainGoesOn, Drainer, DrainPlaces, At, BackOK
<1>6. SendGoesOn(p, new)
  BY <1>a, <1>b, <1>1 DEF SendGoesOn, Sends, Looks, Unsent, DrainPlaces, At, BackOK
<1>7. /\ proc[p].pc # "pop" /\ new.pc # "writing"
      /\ new.pc \in {"apply", "applying", "pop"} => queue # <<>> /\ new.entry = queue[1]
      /\ new.pc \in DrainPlaces => new.back \in {"idle", "mark", "sync", "after"}
  BY <1>a, <1>b, <1>1 DEF At, BackOK, DrainPlaces
<1>8. /\ new.pc = "unlock" /\ ~new.succeeded => failed'
      /\ failed => failed' \/ \A q \in Procs : q # p => proc[q].pc # "unlock"
  BY <1>a, <1>b, <1>1 DEF BackOK, DrainPlaces
<1> QED  BY <1>a, <1>b, <1>c, <1>1, <1>3, <1>4, <1>5, <1>6, <1>7, <1>8, QuietStep DEF TypeOK

LEMMA EndDrainKeeps ==
  ASSUME IInv, NEW p \in Procs, EndDrain(p)
  PROVE  IInv'
<1>a. TypeOK /\ LocksOK /\ BackOK  BY DEF IInv
<1>b. proc[p].pc = "drained" /\ Release("drain") /\ Go(p, "again")
      /\ UNCHANGED <<queue, failed, pending, crashes, replica, server, stopApplied>>
  BY DEF EndDrain, Files, Counters, History, At, GoEntry, GoApplied, GoBackground, GoSucceeded
<1>c. /\ UNCHANGED <<queue, replica, writes, crashes, hooked, stopApplied>>
      /\ server' \subseteq Writes /\ pending' \in BOOLEAN /\ failed' \in BOOLEAN
      /\ runs' \in 0 .. MaxRuns /\ failures' \in 0 .. MaxFailures
  BY <1>a, ReplicaSyncAssumption DEF EndDrain, Files, Counters, History, TypeOK
<1>1. PICK new \in Process : Become(p, new) /\ new.pc = "again" /\ new.back = proc[p].back /\ new.entry = proc[p].entry
        /\ new.applied = proc[p].applied /\ new.succeeded = proc[p].succeeded
  BY <1>b, <1>a, GoMoves, Domains
<1>9. Holds(proc[p], "drain")  BY <1>b DEF Holds, InSync, Applying, Touching, DrainPlaces, At
<1>2. lock["drain"] = p /\ lock'["drain"] = NoProc
      /\ \A m \in Locks : m # "drain" => lock'[m] = lock[m]
  BY <1>a, <1>b, <1>9, ReleaseLock DEF LocksOK, Locks
<1>3. lock' \in [Locks -> Procs \cup {NoProc}]
  BY <1>a, <1>b, ReleaseLock DEF Locks
<1>4. ASSUME NEW l \in Locks  PROVE LockMove(p, new, l)
  BY <1>a, <1>b, <1>1, <1>2 DEF LockMove, Holds, InSync, Applying, Touching, DrainPlaces, Locks, At, BackOK
<1>5. DrainGoesOn(p, new)
  BY <1>a, <1>b, <1>1 DEF DrainGoesOn, Drainer, DrainPlaces, At, BackOK
<1>6. SendGoesOn(p, new)
  BY <1>a, <1>b, <1>1 DEF SendGoesOn, Sends, Looks, Unsent, DrainPlaces, At, BackOK
<1>7. /\ proc[p].pc # "pop" /\ new.pc # "writing"
      /\ new.pc \in {"apply", "applying", "pop"} => queue # <<>> /\ new.entry = queue[1]
      /\ new.pc \in DrainPlaces => new.back \in {"idle", "mark", "sync", "after"}
  BY <1>a, <1>b, <1>1 DEF At, BackOK, DrainPlaces
<1>8. /\ new.pc = "unlock" /\ ~new.succeeded => failed'
      /\ failed => failed' \/ \A q \in Procs : q # p => proc[q].pc # "unlock"
  BY <1>a, <1>b, <1>1 DEF BackOK, DrainPlaces
<1> QED  BY <1>a, <1>b, <1>c, <1>1, <1>3, <1>4, <1>5, <1>6, <1>7, <1>8, QuietStep DEF TypeOK

LEMMA PeekAgainKeeps ==
  ASSUME IInv, NEW p \in Procs, PeekAgain(p)
  PROVE  IInv'
<1>a. TypeOK /\ LocksOK /\ BackOK  BY DEF IInv
<1>b. proc[p].pc = "again" /\ lock' = lock /\ UNCHANGED <<queue, failed, pending, crashes, replica, server, stopApplied>>
      /\ \/ queue # <<>> /\ Go(p, "drain")
         \/ queue = <<>> /\ Return(p)
  BY DEF PeekAgain, Files, Counters, History, At, GoEntry, GoApplied, GoBackground, GoSucceeded
<1>c. /\ UNCHANGED <<queue, replica, writes, crashes, hooked, stopApplied>>
      /\ server' \subseteq Writes /\ pending' \in BOOLEAN /\ failed' \in BOOLEAN
      /\ runs' \in 0 .. MaxRuns /\ failures' \in 0 .. MaxFailures
  BY <1>a, ReplicaSyncAssumption DEF PeekAgain, Files, Counters, History, TypeOK
<1>1. CASE queue # <<>>
  <2>1. PICK new \in Process : Become(p, new) /\ new.pc = "drain" /\ new.back = proc[p].back /\ new.entry = proc[p].entry
          /\ new.applied = proc[p].applied /\ new.succeeded = proc[p].succeeded
    BY <1>b, <1>1, <1>a, GoMoves, Domains
  <2>2. lock' = lock  BY <1>b, <1>1
  <2>3. lock' \in [Locks -> Procs \cup {NoProc}]  BY <1>a, <2>2 DEF TypeOK
  <2>4. ASSUME NEW l \in Locks  PROVE LockMove(p, new, l)
    BY <1>a, <1>b, <1>1, <2>1, <2>2 DEF LockMove, Holds, InSync, Applying, Touching, DrainPlaces, Locks, At, BackOK
  <2>5. DrainGoesOn(p, new)
    BY <1>a, <1>b, <1>1, <2>1 DEF DrainGoesOn, Drainer, DrainPlaces, At, BackOK
  <2>6. SendGoesOn(p, new)
    BY <1>a, <1>b, <1>1, <2>1 DEF SendGoesOn, Sends, Looks, Unsent, DrainPlaces, At, BackOK
  <2>7. /\ proc[p].pc # "pop" /\ new.pc # "writing"
        /\ new.pc \in {"apply", "applying", "pop"} => queue # <<>> /\ new.entry = queue[1]
        /\ new.pc \in DrainPlaces => new.back \in {"idle", "mark", "sync", "after"}
    BY <1>a, <1>b, <1>1, <2>1 DEF At, BackOK, DrainPlaces
  <2>8. /\ new.pc = "unlock" /\ ~new.succeeded => failed'
        /\ failed => failed' \/ \A q \in Procs : q # p => proc[q].pc # "unlock"
    BY <1>a, <1>b, <1>1, <2>1 DEF BackOK, DrainPlaces
  <2> QED  BY <1>a, <1>b, <1>c, <1>1, <2>1, <2>3, <2>4, <2>5, <2>6, <2>7, <2>8, QuietStep DEF TypeOK
<1>2. CASE queue = <<>>
  <2>1. PICK new \in Process : Become(p, new) /\ new.pc = proc[p].back /\ new.back = "idle"
          /\ new.applied = (proc[p].applied /\ proc[p].back = "after")
    BY <1>b, <1>2, <1>a, ReturnMoves, Domains
  <2>2. lock' = lock  BY <1>b, <1>2
  <2>3. lock' \in [Locks -> Procs \cup {NoProc}]  BY <1>a, <2>2 DEF TypeOK
  <2>4. ASSUME NEW l \in Locks  PROVE LockMove(p, new, l)
    BY <1>a, <1>b, <1>2, <2>1, <2>2 DEF LockMove, Holds, InSync, Applying, Touching, DrainPlaces, Locks, At, BackOK
  <2>5. DrainGoesOn(p, new)
    BY <1>a, <1>b, <1>2, <2>1 DEF DrainGoesOn, Drainer, DrainPlaces, At, BackOK
  <2>6. SendGoesOn(p, new)
    BY <1>a, <1>b, <1>2, <2>1 DEF SendGoesOn, Sends, Looks, Unsent, DrainPlaces, At, BackOK
  <2>7. /\ proc[p].pc # "pop" /\ new.pc # "writing"
        /\ new.pc \in {"apply", "applying", "pop"} => queue # <<>> /\ new.entry = queue[1]
        /\ new.pc \in DrainPlaces => new.back \in {"idle", "mark", "sync", "after"}
    BY <1>a, <1>b, <1>2, <2>1 DEF At, BackOK, DrainPlaces
  <2>8. /\ new.pc = "unlock" /\ ~new.succeeded => failed'
        /\ failed => failed' \/ \A q \in Procs : q # p => proc[q].pc # "unlock"
    BY <1>a, <1>b, <1>2, <2>1 DEF BackOK, DrainPlaces
  <2> QED  BY <1>a, <1>b, <1>c, <1>2, <2>1, <2>3, <2>4, <2>5, <2>6, <2>7, <2>8, QuietStep DEF TypeOK
<1> QED  BY <1>b, <1>1, <1>2

LEMMA MarkPendingKeeps ==
  ASSUME IInv, NEW p \in Procs, MarkPending(p)
  PROVE  IInv'
<1>a. TypeOK /\ LocksOK /\ BackOK  BY DEF IInv
<1>b. proc[p].pc = "mark" /\ lock' = lock /\ pending' = TRUE
      /\ proc' = [proc EXCEPT ![p] = [Idle EXCEPT !.pc = "check"]]
      /\ UNCHANGED <<queue, failed, crashes, replica, server, stopApplied>>
  BY DEF MarkPending, Files, Counters, History, At, GoEntry, GoApplied, GoBackground, GoSucceeded
<1>c. /\ UNCHANGED <<queue, replica, writes, crashes, hooked, stopApplied>>
      /\ server' \subseteq Writes /\ pending' \in BOOLEAN /\ failed' \in BOOLEAN
      /\ runs' \in 0 .. MaxRuns /\ failures' \in 0 .. MaxFailures
  BY <1>a, ReplicaSyncAssumption DEF MarkPending, Files, Counters, History, TypeOK
<1>1. PICK new \in Process : Become(p, new) /\ new.pc = "check"
  BY <1>b, <1>a, MarkMoves, Domains
<1>2. lock' = lock  BY <1>b
<1>3. lock' \in [Locks -> Procs \cup {NoProc}]  BY <1>a, <1>2 DEF TypeOK
<1>4. ASSUME NEW l \in Locks  PROVE LockMove(p, new, l)
  BY <1>a, <1>b, <1>1, <1>2 DEF LockMove, Holds, InSync, Applying, Touching, DrainPlaces, Locks, At, BackOK
<1>5. DrainGoesOn(p, new)
  BY <1>a, <1>b, <1>1 DEF DrainGoesOn, Drainer, DrainPlaces, At, BackOK
<1>6. SendGoesOn(p, new)
  BY <1>a, <1>b, <1>1 DEF SendGoesOn, Sends, Looks, Unsent, DrainPlaces, At, BackOK
<1>7. /\ proc[p].pc # "pop" /\ new.pc # "writing"
      /\ new.pc \in {"apply", "applying", "pop"} => queue # <<>> /\ new.entry = queue[1]
      /\ new.pc \in DrainPlaces => new.back \in {"idle", "mark", "sync", "after"}
  BY <1>a, <1>b, <1>1 DEF At, BackOK, DrainPlaces
<1>8. /\ new.pc = "unlock" /\ ~new.succeeded => failed'
      /\ failed => failed' \/ \A q \in Procs : q # p => proc[q].pc # "unlock"
  BY <1>a, <1>b, <1>1 DEF BackOK, DrainPlaces
<1> QED  BY <1>a, <1>b, <1>c, <1>1, <1>3, <1>4, <1>5, <1>6, <1>7, <1>8, QuietStep DEF TypeOK

LEMMA CheckFailureKeeps ==
  ASSUME IInv, NEW p \in Procs, CheckFailure(p)
  PROVE  IInv'
<1>a. TypeOK /\ LocksOK /\ BackOK  BY DEF IInv
<1>b. proc[p].pc = "check" /\ lock' = lock /\ UNCHANGED <<queue, failed, pending, crashes, replica, server, stopApplied>>
      /\ ((failed /\ Finish(p)) \/ Go(p, "lock"))
  BY DEF CheckFailure, Files, Counters, History, At, GoEntry, GoApplied, GoBackground, GoSucceeded
<1>c. /\ UNCHANGED <<queue, replica, writes, crashes, hooked, stopApplied>>
      /\ server' \subseteq Writes /\ pending' \in BOOLEAN /\ failed' \in BOOLEAN
      /\ runs' \in 0 .. MaxRuns /\ failures' \in 0 .. MaxFailures
  BY <1>a, ReplicaSyncAssumption DEF CheckFailure, Files, Counters, History, TypeOK
<1>1. CASE failed /\ Finish(p)
  <2>1. PICK new \in Process : Become(p, new) /\ new.pc = "idle" /\ new.back = "idle"
    BY <1>b, <1>1, <1>a, FinishMoves, Domains
  <2>2. lock' = lock  BY <1>b, <1>1
  <2>3. lock' \in [Locks -> Procs \cup {NoProc}]  BY <1>a, <2>2 DEF TypeOK
  <2>4. ASSUME NEW l \in Locks  PROVE LockMove(p, new, l)
    BY <1>a, <1>b, <1>1, <2>1, <2>2 DEF LockMove, Holds, InSync, Applying, Touching, DrainPlaces, Locks, At, BackOK
  <2>5. DrainGoesOn(p, new)
    BY <1>a, <1>b, <1>1, <2>1 DEF DrainGoesOn, Drainer, DrainPlaces, At, BackOK
  <2>6. SendGoesOn(p, new)
    BY <1>a, <1>b, <1>1, <2>1 DEF SendGoesOn, Sends, Looks, Unsent, DrainPlaces, At, BackOK
  <2>7. /\ proc[p].pc # "pop" /\ new.pc # "writing"
        /\ new.pc \in {"apply", "applying", "pop"} => queue # <<>> /\ new.entry = queue[1]
        /\ new.pc \in DrainPlaces => new.back \in {"idle", "mark", "sync", "after"}
    BY <1>a, <1>b, <1>1, <2>1 DEF At, BackOK, DrainPlaces
  <2>8. /\ new.pc = "unlock" /\ ~new.succeeded => failed'
        /\ failed => failed' \/ \A q \in Procs : q # p => proc[q].pc # "unlock"
    BY <1>a, <1>b, <1>1, <2>1 DEF BackOK, DrainPlaces
  <2> QED  BY <1>a, <1>b, <1>c, <1>1, <2>1, <2>3, <2>4, <2>5, <2>6, <2>7, <2>8, QuietStep DEF TypeOK
<1>2. CASE Go(p, "lock")
  <2>1. PICK new \in Process : Become(p, new) /\ new.pc = "lock" /\ new.back = proc[p].back /\ new.entry = proc[p].entry
          /\ new.applied = proc[p].applied /\ new.succeeded = proc[p].succeeded
    BY <1>b, <1>2, <1>a, GoMoves, Domains
  <2>2. lock' = lock  BY <1>b, <1>2
  <2>3. lock' \in [Locks -> Procs \cup {NoProc}]  BY <1>a, <2>2 DEF TypeOK
  <2>4. ASSUME NEW l \in Locks  PROVE LockMove(p, new, l)
    BY <1>a, <1>b, <1>2, <2>1, <2>2 DEF LockMove, Holds, InSync, Applying, Touching, DrainPlaces, Locks, At, BackOK
  <2>5. DrainGoesOn(p, new)
    BY <1>a, <1>b, <1>2, <2>1 DEF DrainGoesOn, Drainer, DrainPlaces, At, BackOK
  <2>6. SendGoesOn(p, new)
    BY <1>a, <1>b, <1>2, <2>1 DEF SendGoesOn, Sends, Looks, Unsent, DrainPlaces, At, BackOK
  <2>7. /\ proc[p].pc # "pop" /\ new.pc # "writing"
        /\ new.pc \in {"apply", "applying", "pop"} => queue # <<>> /\ new.entry = queue[1]
        /\ new.pc \in DrainPlaces => new.back \in {"idle", "mark", "sync", "after"}
    BY <1>a, <1>b, <1>2, <2>1 DEF At, BackOK, DrainPlaces
  <2>8. /\ new.pc = "unlock" /\ ~new.succeeded => failed'
        /\ failed => failed' \/ \A q \in Procs : q # p => proc[q].pc # "unlock"
    BY <1>a, <1>b, <1>2, <2>1 DEF BackOK, DrainPlaces
  <2> QED  BY <1>a, <1>b, <1>c, <1>2, <2>1, <2>3, <2>4, <2>5, <2>6, <2>7, <2>8, QuietStep DEF TypeOK
<1> QED  BY <1>b, <1>1, <1>2

LEMMA LockSyncKeeps ==
  ASSUME IInv, NEW p \in Procs, LockSync(p)
  PROVE  IInv'
<1>a. TypeOK /\ LocksOK /\ BackOK  BY DEF IInv
<1>b. proc[p].pc = "lock" /\ UNCHANGED <<queue, failed, pending, crashes, replica, server, stopApplied>>
      /\ \/ Free("sync") /\ Take(p, "sync") /\ Go(p, "clear")
         \/ ~Free("sync") /\ Finish(p) /\ lock' = lock
  BY DEF LockSync, Files, Counters, History, At, GoEntry, GoApplied, GoBackground, GoSucceeded
<1>c. /\ UNCHANGED <<queue, replica, writes, crashes, hooked, stopApplied>>
      /\ server' \subseteq Writes /\ pending' \in BOOLEAN /\ failed' \in BOOLEAN
      /\ runs' \in 0 .. MaxRuns /\ failures' \in 0 .. MaxFailures
  BY <1>a, ReplicaSyncAssumption DEF LockSync, Files, Counters, History, TypeOK
<1>1. CASE Free("sync")
  <2>1. PICK new \in Process : Become(p, new) /\ new.pc = "clear" /\ new.back = proc[p].back /\ new.entry = proc[p].entry
          /\ new.applied = proc[p].applied /\ new.succeeded = proc[p].succeeded
    BY <1>b, <1>1, <1>a, GoMoves, Domains
  <2>2. lock["sync"] = NoProc /\ lock'["sync"] = p
        /\ \A m \in Locks : m # "sync" => lock'[m] = lock[m]
    BY <1>a, <1>b, <1>1, TakeLock DEF Free, Locks
  <2>3. lock' \in [Locks -> Procs \cup {NoProc}]
    BY <1>a, <1>b, <1>1, TakeLock DEF Locks
  <2>4. ASSUME NEW l \in Locks  PROVE LockMove(p, new, l)
    BY <1>a, <1>b, <1>1, <2>1, <2>2 DEF LockMove, Holds, InSync, Applying, Touching, DrainPlaces, Locks, At, BackOK
  <2>5. DrainGoesOn(p, new)
    BY <1>a, <1>b, <1>1, <2>1 DEF DrainGoesOn, Drainer, DrainPlaces, At, BackOK
  <2>6. SendGoesOn(p, new)
    BY <1>a, <1>b, <1>1, <2>1 DEF SendGoesOn, Sends, Looks, Unsent, DrainPlaces, At, BackOK
  <2>7. /\ proc[p].pc # "pop" /\ new.pc # "writing"
        /\ new.pc \in {"apply", "applying", "pop"} => queue # <<>> /\ new.entry = queue[1]
        /\ new.pc \in DrainPlaces => new.back \in {"idle", "mark", "sync", "after"}
    BY <1>a, <1>b, <1>1, <2>1 DEF At, BackOK, DrainPlaces
  <2>8. /\ new.pc = "unlock" /\ ~new.succeeded => failed'
        /\ failed => failed' \/ \A q \in Procs : q # p => proc[q].pc # "unlock"
    BY <1>a, <1>b, <1>1, <2>1 DEF BackOK, DrainPlaces
  <2> QED  BY <1>a, <1>b, <1>c, <1>1, <2>1, <2>3, <2>4, <2>5, <2>6, <2>7, <2>8, QuietStep DEF TypeOK
<1>2. CASE ~Free("sync")
  <2>1. PICK new \in Process : Become(p, new) /\ new.pc = "idle" /\ new.back = "idle"
    BY <1>b, <1>2, <1>a, FinishMoves, Domains
  <2>2. lock' = lock  BY <1>b, <1>2
  <2>3. lock' \in [Locks -> Procs \cup {NoProc}]  BY <1>a, <2>2 DEF TypeOK
  <2>4. ASSUME NEW l \in Locks  PROVE LockMove(p, new, l)
    BY <1>a, <1>b, <1>2, <2>1, <2>2 DEF LockMove, Holds, InSync, Applying, Touching, DrainPlaces, Locks, At, BackOK
  <2>5. DrainGoesOn(p, new)
    BY <1>a, <1>b, <1>2, <2>1 DEF DrainGoesOn, Drainer, DrainPlaces, At, BackOK
  <2>6. SendGoesOn(p, new)
    BY <1>a, <1>b, <1>2, <2>1, SyncHolder DEF SendGoesOn, Sends, Looks, Unsent, DrainPlaces, At, BackOK
  <2>7. /\ proc[p].pc # "pop" /\ new.pc # "writing"
        /\ new.pc \in {"apply", "applying", "pop"} => queue # <<>> /\ new.entry = queue[1]
        /\ new.pc \in DrainPlaces => new.back \in {"idle", "mark", "sync", "after"}
    BY <1>a, <1>b, <1>2, <2>1 DEF At, BackOK, DrainPlaces
  <2>8. /\ new.pc = "unlock" /\ ~new.succeeded => failed'
        /\ failed => failed' \/ \A q \in Procs : q # p => proc[q].pc # "unlock"
    BY <1>a, <1>b, <1>2, <2>1 DEF BackOK, DrainPlaces
  <2> QED  BY <1>a, <1>b, <1>c, <1>2, <2>1, <2>3, <2>4, <2>5, <2>6, <2>7, <2>8, QuietStep DEF TypeOK
<1> QED  BY <1>b, <1>1, <1>2

LEMMA ClearPendingKeeps ==
  ASSUME IInv, NEW p \in Procs, ClearPending(p)
  PROVE  IInv'
<1>a. TypeOK /\ LocksOK /\ BackOK  BY DEF IInv
<1>b. proc[p].pc = "clear" /\ lock' = lock /\ pending' = FALSE /\ DrainThen(p, "sync")
      /\ UNCHANGED <<queue, failed, crashes, replica, server, stopApplied>>
  BY DEF ClearPending, Files, Counters, History, At, GoEntry, GoApplied, GoBackground, GoSucceeded
<1>c. /\ UNCHANGED <<queue, replica, writes, crashes, hooked, stopApplied>>
      /\ server' \subseteq Writes /\ pending' \in BOOLEAN /\ failed' \in BOOLEAN
      /\ runs' \in 0 .. MaxRuns /\ failures' \in 0 .. MaxFailures
  BY <1>a, ReplicaSyncAssumption DEF ClearPending, Files, Counters, History, TypeOK
<1>1. PICK new \in Process : Become(p, new) /\ new.pc = "drain" /\ new.back = "sync"
        /\ new.applied = proc[p].applied
  BY <1>b, <1>a, DrainThenMoves, Domains
<1>2. lock' = lock  BY <1>b
<1>3. lock' \in [Locks -> Procs \cup {NoProc}]  BY <1>a, <1>2 DEF TypeOK
<1>4. ASSUME NEW l \in Locks  PROVE LockMove(p, new, l)
  BY <1>a, <1>b, <1>1, <1>2 DEF LockMove, Holds, InSync, Applying, Touching, DrainPlaces, Locks, At, BackOK
<1>5. DrainGoesOn(p, new)
  BY <1>a, <1>b, <1>1 DEF DrainGoesOn, Drainer, DrainPlaces, At, BackOK
<1>6. SendGoesOn(p, new)
  BY <1>a, <1>b, <1>1 DEF SendGoesOn, Sends, Looks, Unsent, DrainPlaces, At, BackOK
<1>7. /\ proc[p].pc # "pop" /\ new.pc # "writing"
      /\ new.pc \in {"apply", "applying", "pop"} => queue # <<>> /\ new.entry = queue[1]
      /\ new.pc \in DrainPlaces => new.back \in {"idle", "mark", "sync", "after"}
  BY <1>a, <1>b, <1>1 DEF At, BackOK, DrainPlaces
<1>8. /\ new.pc = "unlock" /\ ~new.succeeded => failed'
      /\ failed => failed' \/ \A q \in Procs : q # p => proc[q].pc # "unlock"
  BY <1>a, <1>b, <1>1 DEF BackOK, DrainPlaces
<1> QED  BY <1>a, <1>b, <1>c, <1>1, <1>3, <1>4, <1>5, <1>6, <1>7, <1>8, QuietStep DEF TypeOK

LEMMA BeginSyncKeeps ==
  ASSUME IInv, NEW p \in Procs, BeginSync(p)
  PROVE  IInv'
<1>a. TypeOK /\ LocksOK /\ BackOK  BY DEF IInv
<1>b. proc[p].pc = "sync" /\ Free("replica") /\ Take(p, "replica") /\ Go(p, "syncing")
      /\ UNCHANGED <<queue, failed, pending, crashes, replica, server, stopApplied>>
  BY DEF BeginSync, Files, Counters, History, At, GoEntry, GoApplied, GoBackground, GoSucceeded
<1>c. /\ UNCHANGED <<queue, replica, writes, crashes, hooked, stopApplied>>
      /\ server' \subseteq Writes /\ pending' \in BOOLEAN /\ failed' \in BOOLEAN
      /\ runs' \in 0 .. MaxRuns /\ failures' \in 0 .. MaxFailures
  BY <1>a, ReplicaSyncAssumption DEF BeginSync, Files, Counters, History, TypeOK
<1>1. PICK new \in Process : Become(p, new) /\ new.pc = "syncing" /\ new.back = proc[p].back /\ new.entry = proc[p].entry
        /\ new.applied = proc[p].applied /\ new.succeeded = proc[p].succeeded
  BY <1>b, <1>a, GoMoves, Domains
<1>2. lock["replica"] = NoProc /\ lock'["replica"] = p
      /\ \A m \in Locks : m # "replica" => lock'[m] = lock[m]
  BY <1>a, <1>b, TakeLock DEF Free, Locks
<1>3. lock' \in [Locks -> Procs \cup {NoProc}]
  BY <1>a, <1>b, TakeLock DEF Locks
<1>4. ASSUME NEW l \in Locks  PROVE LockMove(p, new, l)
  BY <1>a, <1>b, <1>1, <1>2 DEF LockMove, Holds, InSync, Applying, Touching, DrainPlaces, Locks, At, BackOK
<1>5. DrainGoesOn(p, new)
  BY <1>a, <1>b, <1>1 DEF DrainGoesOn, Drainer, DrainPlaces, At, BackOK
<1>6. SendGoesOn(p, new)
  BY <1>a, <1>b, <1>1 DEF SendGoesOn, Sends, Looks, Unsent, DrainPlaces, At, BackOK
<1>7. /\ proc[p].pc # "pop" /\ new.pc # "writing"
      /\ new.pc \in {"apply", "applying", "pop"} => queue # <<>> /\ new.entry = queue[1]
      /\ new.pc \in DrainPlaces => new.back \in {"idle", "mark", "sync", "after"}
  BY <1>a, <1>b, <1>1 DEF At, BackOK, DrainPlaces
<1>8. /\ new.pc = "unlock" /\ ~new.succeeded => failed'
      /\ failed => failed' \/ \A q \in Procs : q # p => proc[q].pc # "unlock"
  BY <1>a, <1>b, <1>1 DEF BackOK, DrainPlaces
<1> QED  BY <1>a, <1>b, <1>c, <1>1, <1>3, <1>4, <1>5, <1>6, <1>7, <1>8, QuietStep DEF TypeOK

LEMMA SyncSucceedsKeeps ==
  ASSUME IInv, NEW p \in Procs, SyncSucceeds(p)
  PROVE  IInv'
<1>a. TypeOK /\ LocksOK /\ BackOK  BY DEF IInv
<1>b. proc[p].pc = "syncing" /\ server' = server \cup Range(replica) /\ failed' = FALSE
      /\ Release("replica") /\ DrainThen(p, "after")
      /\ UNCHANGED <<queue, pending, crashes, replica, stopApplied>>
  BY DEF SyncSucceeds, Files, Counters, History, At, GoEntry, GoApplied, GoBackground, GoSucceeded
<1>c. /\ UNCHANGED <<queue, replica, writes, crashes, hooked, stopApplied>>
      /\ server' \subseteq Writes /\ pending' \in BOOLEAN /\ failed' \in BOOLEAN
      /\ runs' \in 0 .. MaxRuns /\ failures' \in 0 .. MaxFailures
  BY <1>a, ReplicaSyncAssumption, SentAreWrites DEF SyncSucceeds, Files, Counters, History, TypeOK
<1>e. \A q \in Procs : q # p => proc[q].pc # "unlock"
  BY <1>a, <1>b, OnlyOneSyncs DEF InSync
<1>f. Range(replica)' = Range(replica)  BY <1>b DEF Range
<1>1. PICK new \in Process : Become(p, new) /\ new.pc = "drain" /\ new.back = "after"
        /\ new.applied = proc[p].applied
  BY <1>b, <1>a, DrainThenMoves, Domains
<1>9. Holds(proc[p], "replica")  BY <1>b DEF Holds, InSync, Applying, Touching, DrainPlaces, At
<1>2. lock["replica"] = p /\ lock'["replica"] = NoProc
      /\ \A m \in Locks : m # "replica" => lock'[m] = lock[m]
  BY <1>a, <1>b, <1>9, ReleaseLock DEF LocksOK, Locks
<1>3. lock' \in [Locks -> Procs \cup {NoProc}]
  BY <1>a, <1>b, ReleaseLock DEF Locks
<1>4. ASSUME NEW l \in Locks  PROVE LockMove(p, new, l)
  BY <1>a, <1>b, <1>1, <1>2 DEF LockMove, Holds, InSync, Applying, Touching, DrainPlaces, Locks, At, BackOK
<1>5. DrainGoesOn(p, new)
  BY <1>a, <1>b, <1>1 DEF DrainGoesOn, Drainer, DrainPlaces, At, BackOK
<1>6. SendGoesOn(p, new)
  BY <1>a, <1>b, <1>1, <1>f DEF SendGoesOn, Sends, Looks, Unsent, DrainPlaces, At, BackOK
<1>7. /\ proc[p].pc # "pop" /\ new.pc # "writing"
      /\ new.pc \in {"apply", "applying", "pop"} => queue # <<>> /\ new.entry = queue[1]
      /\ new.pc \in DrainPlaces => new.back \in {"idle", "mark", "sync", "after"}
  BY <1>a, <1>b, <1>1 DEF At, BackOK, DrainPlaces
<1>8. /\ new.pc = "unlock" /\ ~new.succeeded => failed'
      /\ failed => failed' \/ \A q \in Procs : q # p => proc[q].pc # "unlock"
  BY <1>a, <1>b, <1>1, <1>e DEF BackOK, DrainPlaces
<1> QED  BY <1>a, <1>b, <1>c, <1>1, <1>3, <1>4, <1>5, <1>6, <1>7, <1>8, QuietStep DEF TypeOK

LEMMA AfterSyncKeeps ==
  ASSUME IInv, NEW p \in Procs, AfterSync(p)
  PROVE  IInv'
<1>a. TypeOK /\ LocksOK /\ BackOK  BY DEF IInv
<1>d. PICK b \in BOOLEAN : b = FALSE  OBVIOUS
<1>b. proc[p].pc = "after" /\ lock' = lock /\ GoApplied(p, "look", b)
      /\ pending' = (pending \/ proc[p].applied)
      /\ UNCHANGED <<queue, failed, crashes, replica, server, stopApplied>>
  BY <1>d DEF AfterSync, Files, Counters, History, At, GoEntry, GoApplied, GoBackground, GoSucceeded
<1>c. /\ UNCHANGED <<queue, replica, writes, crashes, hooked, stopApplied>>
      /\ server' \subseteq Writes /\ pending' \in BOOLEAN /\ failed' \in BOOLEAN
      /\ runs' \in 0 .. MaxRuns /\ failures' \in 0 .. MaxFailures
  BY <1>a, ReplicaSyncAssumption DEF AfterSync, Files, Counters, History, TypeOK
<1>1. PICK new \in Process : Become(p, new) /\ new.pc = "look" /\ new.back = proc[p].back
        /\ new.succeeded = proc[p].succeeded
  BY <1>b, <1>a, AppliedMoves, Domains
<1>2. lock' = lock  BY <1>b
<1>3. lock' \in [Locks -> Procs \cup {NoProc}]  BY <1>a, <1>2 DEF TypeOK
<1>4. ASSUME NEW l \in Locks  PROVE LockMove(p, new, l)
  BY <1>a, <1>b, <1>1, <1>2 DEF LockMove, Holds, InSync, Applying, Touching, DrainPlaces, Locks, At, BackOK
<1>5. DrainGoesOn(p, new)
  BY <1>a, <1>b, <1>1 DEF DrainGoesOn, Drainer, DrainPlaces, At, BackOK
<1>6. SendGoesOn(p, new)
  BY <1>a, <1>b, <1>1 DEF SendGoesOn, Sends, Looks, Unsent, DrainPlaces, At, BackOK
<1>7. /\ proc[p].pc # "pop" /\ new.pc # "writing"
      /\ new.pc \in {"apply", "applying", "pop"} => queue # <<>> /\ new.entry = queue[1]
      /\ new.pc \in DrainPlaces => new.back \in {"idle", "mark", "sync", "after"}
  BY <1>a, <1>b, <1>1 DEF At, BackOK, DrainPlaces
<1>8. /\ new.pc = "unlock" /\ ~new.succeeded => failed'
      /\ failed => failed' \/ \A q \in Procs : q # p => proc[q].pc # "unlock"
  BY <1>a, <1>b, <1>1 DEF BackOK, DrainPlaces
<1> QED  BY <1>a, <1>b, <1>c, <1>1, <1>3, <1>4, <1>5, <1>6, <1>7, <1>8, QuietStep DEF TypeOK

LEMMA LookForMoreKeeps ==
  ASSUME IInv, NEW p \in Procs, LookForMore(p)
  PROVE  IInv'
<1>a. TypeOK /\ LocksOK /\ BackOK  BY DEF IInv
<1>d. PICK b \in BOOLEAN : b = TRUE  OBVIOUS
<1>b. proc[p].pc = "look" /\ lock' = lock /\ UNCHANGED <<queue, failed, pending, crashes, replica, server, stopApplied>>
      /\ \/ pending /\ Go(p, "clear")
         \/ ~pending /\ GoSucceeded(p, "unlock", b)
  BY <1>d DEF LookForMore, Files, Counters, History, At, GoEntry, GoApplied, GoBackground, GoSucceeded
<1>c. /\ UNCHANGED <<queue, replica, writes, crashes, hooked, stopApplied>>
      /\ server' \subseteq Writes /\ pending' \in BOOLEAN /\ failed' \in BOOLEAN
      /\ runs' \in 0 .. MaxRuns /\ failures' \in 0 .. MaxFailures
  BY <1>a, ReplicaSyncAssumption DEF LookForMore, Files, Counters, History, TypeOK
<1>1. CASE pending
  <2>1. PICK new \in Process : Become(p, new) /\ new.pc = "clear" /\ new.back = proc[p].back /\ new.entry = proc[p].entry
          /\ new.applied = proc[p].applied /\ new.succeeded = proc[p].succeeded
    BY <1>b, <1>1, <1>a, GoMoves, Domains
  <2>2. lock' = lock  BY <1>b, <1>1
  <2>3. lock' \in [Locks -> Procs \cup {NoProc}]  BY <1>a, <2>2 DEF TypeOK
  <2>4. ASSUME NEW l \in Locks  PROVE LockMove(p, new, l)
    BY <1>a, <1>b, <1>1, <2>1, <2>2 DEF LockMove, Holds, InSync, Applying, Touching, DrainPlaces, Locks, At, BackOK
  <2>5. DrainGoesOn(p, new)
    BY <1>a, <1>b, <1>1, <2>1 DEF DrainGoesOn, Drainer, DrainPlaces, At, BackOK
  <2>6. SendGoesOn(p, new)
    BY <1>a, <1>b, <1>1, <2>1 DEF SendGoesOn, Sends, Looks, Unsent, DrainPlaces, At, BackOK
  <2>7. /\ proc[p].pc # "pop" /\ new.pc # "writing"
        /\ new.pc \in {"apply", "applying", "pop"} => queue # <<>> /\ new.entry = queue[1]
        /\ new.pc \in DrainPlaces => new.back \in {"idle", "mark", "sync", "after"}
    BY <1>a, <1>b, <1>1, <2>1 DEF At, BackOK, DrainPlaces
  <2>8. /\ new.pc = "unlock" /\ ~new.succeeded => failed'
        /\ failed => failed' \/ \A q \in Procs : q # p => proc[q].pc # "unlock"
    BY <1>a, <1>b, <1>1, <2>1 DEF BackOK, DrainPlaces
  <2> QED  BY <1>a, <1>b, <1>c, <1>1, <2>1, <2>3, <2>4, <2>5, <2>6, <2>7, <2>8, QuietStep DEF TypeOK
<1>2. CASE ~pending
  <2>1. PICK new \in Process : Become(p, new) /\ new.pc = "unlock" /\ new.succeeded = b
    BY <1>b, <1>2, <1>a, SucceededMoves, Domains
  <2>2. lock' = lock  BY <1>b, <1>2
  <2>3. lock' \in [Locks -> Procs \cup {NoProc}]  BY <1>a, <2>2 DEF TypeOK
  <2>4. ASSUME NEW l \in Locks  PROVE LockMove(p, new, l)
    BY <1>a, <1>b, <1>2, <2>1, <2>2 DEF LockMove, Holds, InSync, Applying, Touching, DrainPlaces, Locks, At, BackOK
  <2>5. DrainGoesOn(p, new)
    BY <1>a, <1>b, <1>2, <2>1 DEF DrainGoesOn, Drainer, DrainPlaces, At, BackOK
  <2>6. SendGoesOn(p, new)
    BY <1>a, <1>b, <1>2, <2>1 DEF SendGoesOn, Sends, Looks, Unsent, DrainPlaces, At, BackOK
  <2>7. /\ proc[p].pc # "pop" /\ new.pc # "writing"
        /\ new.pc \in {"apply", "applying", "pop"} => queue # <<>> /\ new.entry = queue[1]
        /\ new.pc \in DrainPlaces => new.back \in {"idle", "mark", "sync", "after"}
    BY <1>a, <1>b, <1>2, <2>1 DEF At, BackOK, DrainPlaces
  <2>8. /\ new.pc = "unlock" /\ ~new.succeeded => failed'
        /\ failed => failed' \/ \A q \in Procs : q # p => proc[q].pc # "unlock"
    BY <1>a, <1>b, <1>2, <2>1, <1>d DEF BackOK, DrainPlaces
  <2> QED  BY <1>a, <1>b, <1>c, <1>2, <2>1, <2>3, <2>4, <2>5, <2>6, <2>7, <2>8, QuietStep DEF TypeOK
<1> QED  BY <1>b, <1>1, <1>2

LEMMA UnlockSyncKeeps ==
  ASSUME IInv, NEW p \in Procs, UnlockSync(p)
  PROVE  IInv'
<1>a. TypeOK /\ LocksOK /\ BackOK  BY DEF IInv
<1>b. proc[p].pc = "unlock" /\ Release("sync") /\ Go(p, "recheck")
      /\ UNCHANGED <<queue, failed, pending, crashes, replica, server, stopApplied>>
  BY DEF UnlockSync, Files, Counters, History, At, GoEntry, GoApplied, GoBackground, GoSucceeded
<1>c. /\ UNCHANGED <<queue, replica, writes, crashes, hooked, stopApplied>>
      /\ server' \subseteq Writes /\ pending' \in BOOLEAN /\ failed' \in BOOLEAN
      /\ runs' \in 0 .. MaxRuns /\ failures' \in 0 .. MaxFailures
  BY <1>a, ReplicaSyncAssumption DEF UnlockSync, Files, Counters, History, TypeOK
<1>1. PICK new \in Process : Become(p, new) /\ new.pc = "recheck" /\ new.back = proc[p].back /\ new.entry = proc[p].entry
        /\ new.applied = proc[p].applied /\ new.succeeded = proc[p].succeeded
  BY <1>b, <1>a, GoMoves, Domains
<1>9. Holds(proc[p], "sync")  BY <1>b, <1>a DEF Holds, InSync, Applying, Touching, DrainPlaces, At
<1>2. lock["sync"] = p /\ lock'["sync"] = NoProc
      /\ \A m \in Locks : m # "sync" => lock'[m] = lock[m]
  BY <1>a, <1>b, <1>9, ReleaseLock DEF LocksOK, Locks
<1>3. lock' \in [Locks -> Procs \cup {NoProc}]
  BY <1>a, <1>b, ReleaseLock DEF Locks
<1>4. ASSUME NEW l \in Locks  PROVE LockMove(p, new, l)
  BY <1>a, <1>b, <1>1, <1>2 DEF LockMove, Holds, InSync, Applying, Touching, DrainPlaces, Locks, At, BackOK
<1>5. DrainGoesOn(p, new)
  BY <1>a, <1>b, <1>1 DEF DrainGoesOn, Drainer, DrainPlaces, At, BackOK
<1>6. SendGoesOn(p, new)
  BY <1>a, <1>b, <1>1 DEF SendGoesOn, Sends, Looks, Unsent, DrainPlaces, At, BackOK
<1>7. /\ proc[p].pc # "pop" /\ new.pc # "writing"
      /\ new.pc \in {"apply", "applying", "pop"} => queue # <<>> /\ new.entry = queue[1]
      /\ new.pc \in DrainPlaces => new.back \in {"idle", "mark", "sync", "after"}
  BY <1>a, <1>b, <1>1 DEF At, BackOK, DrainPlaces
<1>8. /\ new.pc = "unlock" /\ ~new.succeeded => failed'
      /\ failed => failed' \/ \A q \in Procs : q # p => proc[q].pc # "unlock"
  BY <1>a, <1>b, <1>1 DEF BackOK, DrainPlaces
<1> QED  BY <1>a, <1>b, <1>c, <1>1, <1>3, <1>4, <1>5, <1>6, <1>7, <1>8, QuietStep DEF TypeOK

LEMMA RecheckKeeps ==
  ASSUME IInv, NEW p \in Procs, Recheck(p)
  PROVE  IInv'
<1>a. TypeOK /\ LocksOK /\ BackOK  BY DEF IInv
<1>d. PICK b \in BOOLEAN : b = FALSE  OBVIOUS
<1>b. proc[p].pc = "recheck" /\ lock' = lock /\ UNCHANGED <<queue, failed, pending, crashes, replica, server, stopApplied>>
      /\ \/ GoSucceeded(p, "lock", b)
         \/ ~(proc[p].succeeded /\ pending) /\ Finish(p)
  BY <1>d DEF Recheck, Files, Counters, History, At, GoEntry, GoApplied, GoBackground, GoSucceeded
<1>c. /\ UNCHANGED <<queue, replica, writes, crashes, hooked, stopApplied>>
      /\ server' \subseteq Writes /\ pending' \in BOOLEAN /\ failed' \in BOOLEAN
      /\ runs' \in 0 .. MaxRuns /\ failures' \in 0 .. MaxFailures
  BY <1>a, ReplicaSyncAssumption DEF Recheck, Files, Counters, History, TypeOK
<1>1. CASE GoSucceeded(p, "lock", b)
  <2>1. PICK new \in Process : Become(p, new) /\ new.pc = "lock" /\ new.succeeded = b
    BY <1>b, <1>1, <1>a, SucceededMoves, Domains
  <2>2. lock' = lock  BY <1>b, <1>1
  <2>3. lock' \in [Locks -> Procs \cup {NoProc}]  BY <1>a, <2>2 DEF TypeOK
  <2>4. ASSUME NEW l \in Locks  PROVE LockMove(p, new, l)
    BY <1>a, <1>b, <1>1, <2>1, <2>2 DEF LockMove, Holds, InSync, Applying, Touching, DrainPlaces, Locks, At, BackOK
  <2>5. DrainGoesOn(p, new)
    BY <1>a, <1>b, <1>1, <2>1 DEF DrainGoesOn, Drainer, DrainPlaces, At, BackOK
  <2>6. SendGoesOn(p, new)
    BY <1>a, <1>b, <1>1, <2>1 DEF SendGoesOn, Sends, Looks, Unsent, DrainPlaces, At, BackOK
  <2>7. /\ proc[p].pc # "pop" /\ new.pc # "writing"
        /\ new.pc \in {"apply", "applying", "pop"} => queue # <<>> /\ new.entry = queue[1]
        /\ new.pc \in DrainPlaces => new.back \in {"idle", "mark", "sync", "after"}
    BY <1>a, <1>b, <1>1, <2>1 DEF At, BackOK, DrainPlaces
  <2>8. /\ new.pc = "unlock" /\ ~new.succeeded => failed'
        /\ failed => failed' \/ \A q \in Procs : q # p => proc[q].pc # "unlock"
    BY <1>a, <1>b, <1>1, <2>1 DEF BackOK, DrainPlaces
  <2> QED  BY <1>a, <1>b, <1>c, <1>1, <2>1, <2>3, <2>4, <2>5, <2>6, <2>7, <2>8, QuietStep DEF TypeOK
<1>2. CASE ~(proc[p].succeeded /\ pending) /\ Finish(p)
  <2>1. PICK new \in Process : Become(p, new) /\ new.pc = "idle" /\ new.back = "idle"
    BY <1>b, <1>2, <1>a, FinishMoves, Domains
  <2>2. lock' = lock  BY <1>b, <1>2
  <2>3. lock' \in [Locks -> Procs \cup {NoProc}]  BY <1>a, <2>2 DEF TypeOK
  <2>4. ASSUME NEW l \in Locks  PROVE LockMove(p, new, l)
    BY <1>a, <1>b, <1>2, <2>1, <2>2 DEF LockMove, Holds, InSync, Applying, Touching, DrainPlaces, Locks, At, BackOK
  <2>5. DrainGoesOn(p, new)
    BY <1>a, <1>b, <1>2, <2>1 DEF DrainGoesOn, Drainer, DrainPlaces, At, BackOK
  <2>6. SendGoesOn(p, new)
    BY <1>a, <1>b, <1>2, <2>1 DEF SendGoesOn, Sends, Looks, Unsent, DrainPlaces, At, BackOK
  <2>7. /\ proc[p].pc # "pop" /\ new.pc # "writing"
        /\ new.pc \in {"apply", "applying", "pop"} => queue # <<>> /\ new.entry = queue[1]
        /\ new.pc \in DrainPlaces => new.back \in {"idle", "mark", "sync", "after"}
    BY <1>a, <1>b, <1>2, <2>1 DEF At, BackOK, DrainPlaces
  <2>8. /\ new.pc = "unlock" /\ ~new.succeeded => failed'
        /\ failed => failed' \/ \A q \in Procs : q # p => proc[q].pc # "unlock"
    BY <1>a, <1>b, <1>2, <2>1 DEF BackOK, DrainPlaces
  <2> QED  BY <1>a, <1>b, <1>c, <1>2, <2>1, <2>3, <2>4, <2>5, <2>6, <2>7, <2>8, QuietStep DEF TypeOK
<1> QED  BY <1>b, <1>1, <1>2

LEMMA SyncFailsKeeps ==
  ASSUME IInv, NEW p \in Procs, SyncFails(p)
  PROVE  IInv'
<1>a. TypeOK /\ LocksOK /\ BackOK  BY DEF IInv
<1>d. PICK b \in BOOLEAN : b = FALSE  OBVIOUS
<1>b. proc[p].pc \in {"sync", "syncing"} /\ failed' = TRUE /\ GoSucceeded(p, "unlock", b)
      /\ \/ proc[p].pc = "syncing" /\ Release("replica")
         \/ proc[p].pc = "sync" /\ lock' = lock
  BY <1>d DEF SyncFails, Files, Counters, History, At, GoEntry, GoApplied, GoBackground, GoSucceeded
<1>c. /\ UNCHANGED <<queue, replica, writes, crashes, hooked, stopApplied>>
      /\ server' \subseteq Writes /\ pending' \in BOOLEAN /\ failed' \in BOOLEAN
      /\ runs' \in 0 .. MaxRuns /\ failures' \in 0 .. MaxFailures
  BY <1>a, ReplicaSyncAssumption DEF SyncFails, Files, Counters, History, TypeOK
<1>1. CASE proc[p].pc = "syncing"
  <2>1. PICK new \in Process : Become(p, new) /\ new.pc = "unlock" /\ new.succeeded = b
    BY <1>b, <1>1, <1>a, SucceededMoves, Domains
  <2>9. Holds(proc[p], "replica")  BY <1>b, <1>1 DEF Holds, InSync, Applying, Touching, DrainPlaces, At
  <2>2. lock["replica"] = p /\ lock'["replica"] = NoProc
        /\ \A m \in Locks : m # "replica" => lock'[m] = lock[m]
    BY <1>a, <1>b, <1>1, <2>9, ReleaseLock DEF LocksOK, Locks
  <2>3. lock' \in [Locks -> Procs \cup {NoProc}]
    BY <1>a, <1>b, <1>1, ReleaseLock DEF Locks
  <2>4. ASSUME NEW l \in Locks  PROVE LockMove(p, new, l)
    BY <1>a, <1>b, <1>1, <2>1, <2>2 DEF LockMove, Holds, InSync, Applying, Touching, DrainPlaces, Locks, At, BackOK
  <2>5. DrainGoesOn(p, new)
    BY <1>a, <1>b, <1>1, <2>1 DEF DrainGoesOn, Drainer, DrainPlaces, At, BackOK
  <2>6. SendGoesOn(p, new)
    BY <1>a, <1>b, <1>1, <2>1 DEF SendGoesOn, Sends, Looks, Unsent, DrainPlaces, At, BackOK
  <2>7. /\ proc[p].pc # "pop" /\ new.pc # "writing"
        /\ new.pc \in {"apply", "applying", "pop"} => queue # <<>> /\ new.entry = queue[1]
        /\ new.pc \in DrainPlaces => new.back \in {"idle", "mark", "sync", "after"}
    BY <1>a, <1>b, <1>1, <2>1 DEF At, BackOK, DrainPlaces
  <2>8. /\ new.pc = "unlock" /\ ~new.succeeded => failed'
        /\ failed => failed' \/ \A q \in Procs : q # p => proc[q].pc # "unlock"
    BY <1>a, <1>b, <1>1, <2>1 DEF BackOK, DrainPlaces
  <2> QED  BY <1>a, <1>b, <1>c, <1>1, <2>1, <2>3, <2>4, <2>5, <2>6, <2>7, <2>8, QuietStep DEF TypeOK
<1>2. CASE proc[p].pc = "sync"
  <2>1. PICK new \in Process : Become(p, new) /\ new.pc = "unlock" /\ new.succeeded = b
    BY <1>b, <1>2, <1>a, SucceededMoves, Domains
  <2>2. lock' = lock  BY <1>b, <1>2
  <2>3. lock' \in [Locks -> Procs \cup {NoProc}]  BY <1>a, <2>2 DEF TypeOK
  <2>4. ASSUME NEW l \in Locks  PROVE LockMove(p, new, l)
    BY <1>a, <1>b, <1>2, <2>1, <2>2 DEF LockMove, Holds, InSync, Applying, Touching, DrainPlaces, Locks, At, BackOK
  <2>5. DrainGoesOn(p, new)
    BY <1>a, <1>b, <1>2, <2>1 DEF DrainGoesOn, Drainer, DrainPlaces, At, BackOK
  <2>6. SendGoesOn(p, new)
    BY <1>a, <1>b, <1>2, <2>1 DEF SendGoesOn, Sends, Looks, Unsent, DrainPlaces, At, BackOK
  <2>7. /\ proc[p].pc # "pop" /\ new.pc # "writing"
        /\ new.pc \in {"apply", "applying", "pop"} => queue # <<>> /\ new.entry = queue[1]
        /\ new.pc \in DrainPlaces => new.back \in {"idle", "mark", "sync", "after"}
    BY <1>a, <1>b, <1>2, <2>1 DEF At, BackOK, DrainPlaces
  <2>8. /\ new.pc = "unlock" /\ ~new.succeeded => failed'
        /\ failed => failed' \/ \A q \in Procs : q # p => proc[q].pc # "unlock"
    BY <1>a, <1>b, <1>2, <2>1 DEF BackOK, DrainPlaces
  <2> QED  BY <1>a, <1>b, <1>c, <1>2, <2>1, <2>3, <2>4, <2>5, <2>6, <2>7, <2>8, QuietStep DEF TypeOK
<1> QED  BY <1>b, <1>1, <1>2
-----------------------------------------------------------------------------
(* The moves that write.                                                   *)

(* What Append does to a sequence of writes.                               *)
LEMMA Appended ==
  ASSUME NEW s \in Seq(Writes), NEW w \in Writes, NEW t, t = Append(s, w)
  PROVE  /\ t \in Seq(Writes) /\ t # <<>>
         /\ \A i \in DOMAIN t : \/ i \in DOMAIN s /\ t[i] = s[i]
                                \/ i = Len(s) + 1 /\ t[i] = w
         /\ \A i \in DOMAIN s : i < Len(s) + 1 /\ i \in Nat /\ i \in DOMAIN t
         /\ s # <<>> => t[1] = s[1]
         /\ s = <<>> => t[1] = w
  OBVIOUS

(* What Tail does to one that is not empty.                                *)
LEMMA Shortened ==
  ASSUME NEW s \in Seq(Writes), s # <<>>, NEW t, t = Tail(s)
  PROVE  /\ t \in Seq(Writes)
         /\ \A i \in DOMAIN t : i + 1 \in DOMAIN s /\ t[i] = s[i + 1] /\ i \in Nat
         /\ t # <<>> => 2 \in DOMAIN s /\ t[1] = s[2] /\ 1 \in DOMAIN s
  OBVIOUS

(* What has landed are numbers.                                            *)
LEMMA LandedAreNumbers ==
  ASSUME TypeOK
  PROVE  \A i \in DOMAIN replica : replica[i] \in Writes /\ replica[i] \in Int
<1>1. \A i \in DOMAIN replica : replica[i] \in Writes  BY DEF TypeOK
<1> QED  BY <1>1 DEF Writes

LEMMA HookPushKeeps ==
  ASSUME IInv, NEW p \in Procs, HookPush(p)
  PROVE  IInv'
<1>a. TypeOK /\ LocksOK /\ BackOK /\ NumbersOK /\ QueueOK /\ LandedOK /\ LandsInOrder
      /\ QueueWatched /\ WritesWatched
  BY DEF IInv
<1>b. /\ proc[p].pc = "idle" /\ DrainThen(p, "mark")
      /\ writes < MaxWrites /\ writes' = writes + 1
      /\ queue' = Append(queue, writes + 1) /\ hooked' = hooked \cup {writes + 1}
      /\ UNCHANGED <<replica, server, pending, failed, lock, runs, failures, crashes, stopApplied>>
  BY DEF HookPush, At
<1>1. PICK new \in Process : Become(p, new) /\ new.pc = "drain" /\ new.back = "mark"
  BY <1>a, <1>b, DrainThenMoves, Domains
<1>2. /\ proc' \in [Procs -> Process] /\ proc'[p] = new
      /\ \A q \in Procs : q # p => proc'[q] = proc[q]
  BY <1>a, <1>1, OnlyOneMoves
<1>3. /\ writes + 1 \in Writes /\ writes \in Nat /\ writes' \in 0 .. MaxWrites
      /\ \A w \in 1 .. writes : w \in Nat /\ w < writes + 1
  BY <1>a, <1>b, ReplicaSyncAssumption DEF TypeOK, Writes
<1>4. queue \in Seq(Writes) /\ replica \in Seq(Writes)  BY <1>a DEF TypeOK
<1>5. /\ queue' \in Seq(Writes) /\ queue' # <<>>
      /\ \A i \in DOMAIN queue' : \/ i \in DOMAIN queue /\ queue'[i] = queue[i]
                                  \/ i = Len(queue) + 1 /\ queue'[i] = writes + 1
      /\ \A i \in DOMAIN queue : i < Len(queue) + 1 /\ i \in Nat
      /\ queue # <<>> => queue'[1] = queue[1]
      /\ queue = <<>> => queue'[1] = writes + 1
  BY <1>b, <1>3, <1>4, Appended
<1>6. \A i \in DOMAIN replica : replica[i] \in hooked' => replica[i] \in hooked
  BY <1>a, <1>b, <1>3, <1>4 DEF NumbersOK, Writes
<1>7. \A i \in DOMAIN queue : queue[i] \in 1 .. writes  BY <1>a DEF QueueOK, NumbersOK
<1>10. TypeOK'
  <2>1. hooked' \subseteq Writes  BY <1>a, <1>b, <1>3 DEF TypeOK
  <2> QED  BY <1>a, <1>b, <1>2, <1>3, <1>5, <2>1 DEF TypeOK, Process
<1>11. LocksOK'
  <2>1. ASSUME NEW l \in Locks  PROVE LockMove(p, new, l)
    BY <1>b, <1>1 DEF LockMove, Holds, InSync, Applying, Touching, DrainPlaces
  <2> QED  BY <1>a, <1>1, <2>1, LocksMove
<1>12. BackOK'  BY <1>a, <1>b, <1>1, BacksMove
<1>13. NumbersOK'
  <2>1. hooked' \subseteq 1 .. writes'  BY <1>a, <1>b, <1>3 DEF NumbersOK
  <2>2. \A i \in DOMAIN replica' : replica'[i] <= writes'
    <3>1. \A i \in DOMAIN replica : replica[i] \in Int  BY <1>a, LandedAreNumbers
    <3> QED  BY <1>a, <1>b, <1>3, <3>1 DEF NumbersOK
  <2>3. ASSUME NEW q \in Procs, proc'[q].pc = "writing"
        PROVE  proc'[q].entry \in 1 .. writes' /\ proc'[q].entry \notin hooked'
    <3>1. q # p /\ proc'[q] = proc[q]  BY <1>1, <1>2, <2>3
    <3>2. proc[q].entry \in 1 .. writes /\ proc[q].entry \notin hooked
      BY <1>a, <2>3, <3>1 DEF NumbersOK
    <3> QED  BY <1>b, <1>3, <3>1, <3>2
  <2> QED  BY <2>1, <2>2, <2>3 DEF NumbersOK
<1>14. QueueOK'
  <2>1. \A i \in DOMAIN queue' : queue'[i] \in hooked'  BY <1>a, <1>b, <1>5 DEF QueueOK
  <2>2. ASSUME NEW i \in DOMAIN queue', NEW j \in DOMAIN queue', i < j
        PROVE  queue'[i] < queue'[j]
    <3>1. i \in DOMAIN queue  BY <1>4, <1>5, <2>2
    <3>2. CASE j \in DOMAIN queue
      <4>1. queue[i] < queue[j]  BY <1>a, <2>2, <3>1, <3>2 DEF QueueOK
      <4>2. i # Len(queue) + 1 /\ j # Len(queue) + 1  BY <1>4, <1>5, <3>1, <3>2
      <4> QED  BY <1>5, <4>1, <4>2
    <3>3. CASE j \notin DOMAIN queue
      <4>1. queue'[j] = writes + 1  BY <1>5, <3>3
      <4>2. queue'[i] = queue[i]  BY <1>4, <1>5, <3>1
      <4> QED  BY <1>3, <1>7, <3>1, <4>1, <4>2
    <3> QED  BY <3>2, <3>3
  <2>3. ASSUME NEW q \in Procs, proc'[q].pc \in {"apply", "applying", "pop"}
        PROVE  queue' # <<>> /\ proc'[q].entry = queue'[1]
    <3>1. q # p /\ proc'[q] = proc[q]  BY <1>1, <1>2, <2>3
    <3> QED  BY <1>a, <1>5, <2>3, <3>1 DEF QueueOK
  <2> QED  BY <2>1, <2>2, <2>3 DEF QueueOK
<1>15. LandedOK'
  <2>1. ASSUME NEW i \in DOMAIN replica, replica[i] \in hooked'
        PROVE  \/ replica[i] < queue'[1]
               \/ replica[i] = queue'[1] /\ (crashes' > 0 \/ \E q \in Procs : proc'[q].pc = "pop")
    <3>1. replica[i] \in hooked  BY <1>6, <2>1
    <3>2. CASE queue = <<>>
      <4>1. replica[i] \in 1 .. writes  BY <1>a, <3>1 DEF NumbersOK
      <4> QED  BY <1>3, <1>5, <3>2, <4>1
    <3>3. CASE queue # <<>>
      <4>1. \/ replica[i] < queue[1]
            \/ replica[i] = queue[1] /\ (crashes > 0 \/ \E q \in Procs : proc[q].pc = "pop")
        BY <1>a, <3>1, <3>3 DEF LandedOK
      <4>2. (\E q \in Procs : proc[q].pc = "pop") => \E q \in Procs : proc'[q].pc = "pop"
        BY <1>b, <1>2
      <4> QED  BY <1>b, <1>5, <3>3, <4>1, <4>2
    <3> QED  BY <3>2, <3>3
  <2> QED  BY <1>b, <2>1 DEF LandedOK
<1>16. LandsInOrder'  BY <1>a, <1>b, <1>6 DEF LandsInOrder
<1>17. QueueWatched'
  <2>1. DrainGoesOn(p, new)  BY <1>1 DEF DrainGoesOn, Drainer, DrainPlaces
  <2> QED  BY <1>a, <1>1, <2>1, QueueStaysWatched
<1>18. WritesWatched'
  <2>1. SendGoesOn(p, new)  BY <1>1 DEF SendGoesOn, Sends, DrainPlaces
  <2> QED  BY <1>a, <1>1, <2>1, WritesStayWatched
<1> QED  BY <1>10, <1>11, <1>12, <1>13, <1>14, <1>15, <1>16, <1>17, <1>18 DEF IInv

LEMMA CommandBeginsKeeps ==
  ASSUME IInv, NEW p \in Procs, CommandBegins(p)
  PROVE  IInv'
<1>a. TypeOK /\ LocksOK /\ BackOK /\ NumbersOK /\ QueueOK /\ LandedOK /\ LandsInOrder
      /\ QueueWatched /\ WritesWatched
  BY DEF IInv
<1>b. /\ proc[p].pc = "idle" /\ GoEntry(p, "writing", writes + 1)
      /\ Free("replica") /\ Take(p, "replica")
      /\ writes < MaxWrites /\ writes' = writes + 1
      /\ UNCHANGED <<queue, replica, server, pending, failed, runs, failures, crashes,
                     hooked, stopApplied>>
  BY DEF CommandBegins, At, GoEntry, Files, History
<1>3. /\ writes + 1 \in 0 .. MaxWrites /\ writes \in Nat /\ writes' \in 0 .. MaxWrites
      /\ writes + 1 \in 1 .. writes' /\ \A w \in 1 .. writes : w \in 1 .. writes'
      /\ writes + 1 \notin 1 .. writes
  BY <1>a, <1>b, ReplicaSyncAssumption DEF TypeOK
<1>1. PICK new \in Process : Become(p, new) /\ new.pc = "writing" /\ new.entry = writes + 1
  BY <1>a, <1>b, <1>3, EntryMoves, Domains
<1>2. /\ proc' \in [Procs -> Process] /\ proc'[p] = new
      /\ \A q \in Procs : q # p => proc'[q] = proc[q]
  BY <1>a, <1>1, OnlyOneMoves
<1>4. /\ lock["replica"] = NoProc /\ lock'["replica"] = p
      /\ \A m \in Locks : m # "replica" => lock'[m] = lock[m]
      /\ lock' \in [Locks -> Procs \cup {NoProc}]
  BY <1>a, <1>b, TakeLock DEF Free, Locks
<1>10. TypeOK'  BY <1>a, <1>b, <1>2, <1>3, <1>4 DEF TypeOK, Process
<1>11. LocksOK'
  <2>1. ASSUME NEW l \in Locks  PROVE LockMove(p, new, l)
    BY <1>b, <1>1, <1>4 DEF LockMove, Holds, InSync, Applying, Touching, DrainPlaces, Locks
  <2> QED  BY <1>a, <1>1, <2>1, LocksMove
<1>12. BackOK'
  <2>1. new.pc \notin DrainPlaces /\ new.pc # "unlock"  BY <1>1 DEF DrainPlaces
  <2> QED  BY <1>a, <1>b, <1>1, <2>1, BacksMove
<1>13. NumbersOK'
  <2>1. hooked' \subseteq 1 .. writes'  BY <1>a, <1>b, <1>3 DEF NumbersOK
  <2>2. \A i \in DOMAIN replica' : replica'[i] <= writes'
    <3>1. \A i \in DOMAIN replica : replica[i] \in Int  BY <1>a, LandedAreNumbers
    <3> QED  BY <1>a, <1>b, <1>3, <3>1 DEF NumbersOK
  <2>3. ASSUME NEW q \in Procs, proc'[q].pc = "writing"
        PROVE  proc'[q].entry \in 1 .. writes' /\ proc'[q].entry \notin hooked'
    <3>1. CASE q = p  BY <1>a, <1>b, <1>1, <1>2, <1>3, <3>1 DEF NumbersOK
    <3>2. CASE q # p  BY <1>a, <1>b, <1>2, <1>3, <2>3, <3>2 DEF NumbersOK
    <3> QED  BY <3>1, <3>2
  <2> QED  BY <2>1, <2>2, <2>3 DEF NumbersOK
<1>14. QueueOK'  BY <1>a, <1>b, <1>1, QueueStands
<1>15. LandedOK'  BY <1>a, <1>b, <1>1, LandedStands
<1>16. LandsInOrder'  BY <1>a, <1>b DEF LandsInOrder
<1>17. QueueWatched'
  <2>1. DrainGoesOn(p, new)  BY <1>1 DEF DrainGoesOn, Drainer
  <2> QED  BY <1>a, <1>1, <2>1, QueueStaysWatched
<1>18. WritesWatched'
  <2>1. SendGoesOn(p, new)
    BY <1>b, <1>1 DEF SendGoesOn, Sends, Looks, Unsent, DrainPlaces
  <2> QED  BY <1>a, <1>1, <2>1, WritesStayWatched
<1> QED  BY <1>10, <1>11, <1>12, <1>13, <1>14, <1>15, <1>16, <1>17, <1>18 DEF IInv

LEMMA CommandWritesKeeps ==
  ASSUME IInv, NEW p \in Procs, CommandWrites(p)
  PROVE  IInv'
<1>a. TypeOK /\ LocksOK /\ BackOK /\ NumbersOK /\ QueueOK /\ LandedOK /\ LandsInOrder
      /\ QueueWatched /\ WritesWatched
  BY DEF IInv
<1>b. /\ proc[p].pc = "writing" /\ DrainThen(p, "mark") /\ Release("replica")
      /\ replica' = Append(replica, proc[p].entry)
      /\ UNCHANGED <<queue, server, pending, failed, writes, runs, failures, crashes,
                     hooked, stopApplied>>
  BY DEF CommandWrites, At, Counters, History
<1>3. proc[p].entry \in 1 .. writes /\ proc[p].entry \notin hooked
  BY <1>a, <1>b DEF NumbersOK
<1>4. proc[p].entry \in Writes /\ proc[p].entry <= writes
  BY <1>a, <1>3, ReplicaSyncAssumption DEF TypeOK, Writes
<1>5. replica \in Seq(Writes)  BY <1>a DEF TypeOK
<1>6. /\ replica' \in Seq(Writes)
      /\ \A i \in DOMAIN replica' : \/ i \in DOMAIN replica /\ replica'[i] = replica[i]
                                    \/ i = Len(replica) + 1 /\ replica'[i] = proc[p].entry
  BY <1>b, <1>4, <1>5, Appended
<1>7. \A i \in DOMAIN replica' : replica'[i] \in hooked =>
        i \in DOMAIN replica /\ replica'[i] = replica[i]
  BY <1>3, <1>6
<1>1. PICK new \in Process : Become(p, new) /\ new.pc = "drain" /\ new.back = "mark"
  BY <1>a, <1>b, DrainThenMoves, Domains
<1>2. /\ proc' \in [Procs -> Process] /\ proc'[p] = new
      /\ \A q \in Procs : q # p => proc'[q] = proc[q]
  BY <1>a, <1>1, OnlyOneMoves
<1>8. /\ lock["replica"] = p /\ lock'["replica"] = NoProc
      /\ \A m \in Locks : m # "replica" => lock'[m] = lock[m]
      /\ lock' \in [Locks -> Procs \cup {NoProc}]
  BY <1>a, <1>b, ReleaseLock DEF LocksOK, Holds, Touching, Locks
<1>10. TypeOK'  BY <1>a, <1>b, <1>2, <1>6, <1>8 DEF TypeOK, Process
<1>11. LocksOK'
  <2>1. ASSUME NEW l \in Locks  PROVE LockMove(p, new, l)
    BY <1>b, <1>1, <1>8 DEF LockMove, Holds, InSync, Applying, Touching, DrainPlaces, Locks
  <2> QED  BY <1>a, <1>1, <2>1, LocksMove
<1>12. BackOK'  BY <1>a, <1>b, <1>1, BacksMove
<1>13. NumbersOK'
  <2>1. \A i \in DOMAIN replica' : replica'[i] <= writes'
    BY <1>a, <1>b, <1>4, <1>6 DEF NumbersOK
  <2>2. \A q \in Procs : proc'[q].pc = "writing" => q # p  BY <1>1, <1>2
  <2> QED  BY <1>a, <1>b, <1>2, <2>1, <2>2 DEF NumbersOK
<1>14. QueueOK'
  <2>1. new.pc \notin {"apply", "applying", "pop"}  BY <1>1
  <2> QED  BY <1>a, <1>b, <1>1, <2>1, QueueStands
<1>15. LandedOK'
  <2>1. (\E q \in Procs : proc[q].pc = "pop") => \E q \in Procs : proc'[q].pc = "pop"
    BY <1>b, <1>2
  <2> QED  BY <1>a, <1>b, <1>7, <2>1 DEF LandedOK
<1>16. LandsInOrder'
  <2>1. ASSUME NEW i \in DOMAIN replica', NEW j \in DOMAIN replica', i < j,
               replica'[i] \in hooked, replica'[j] \in hooked
        PROVE  \/ replica'[i] < replica'[j]
               \/ replica'[i] = replica'[j] /\ crashes > 0
    <3>1. /\ i \in DOMAIN replica /\ replica'[i] = replica[i]
          /\ j \in DOMAIN replica /\ replica'[j] = replica[j]
      BY <1>7, <2>1
    <3>2. {replica[i], replica[j]} \subseteq hooked  BY <2>1, <3>1
    <3> QED  BY <1>a, <2>1, <3>1, <3>2 DEF LandsInOrder
  <2> QED  BY <1>b, <2>1 DEF LandsInOrder
<1>17. QueueWatched'
  <2>1. DrainGoesOn(p, new)  BY <1>1 DEF DrainGoesOn, Drainer, DrainPlaces
  <2> QED  BY <1>a, <1>1, <2>1, QueueStaysWatched
<1>18. WritesWatched'
  <2>1. SendGoesOn(p, new)  BY <1>1 DEF SendGoesOn, Sends, DrainPlaces
  <2> QED  BY <1>a, <1>1, <2>1, WritesStayWatched
<1> QED  BY <1>10, <1>11, <1>12, <1>13, <1>14, <1>15, <1>16, <1>17, <1>18 DEF IInv

(* Only one process applies the queue.                                     *)
LEMMA OnlyOneApplies ==
  ASSUME LocksOK, NEW p \in Procs, proc[p].pc \in Applying
  PROVE  \A q \in Procs : q # p => proc[q].pc \notin Applying
  BY DEF LocksOK, Holds, Locks

LEMMA ApplyEntryKeeps ==
  ASSUME IInv, NEW p \in Procs, ApplyEntry(p)
  PROVE  IInv'
<1>a. TypeOK /\ LocksOK /\ BackOK /\ NumbersOK /\ QueueOK /\ LandedOK /\ LandsInOrder
      /\ QueueWatched /\ WritesWatched
  BY DEF IInv
<1>d. PICK b \in BOOLEAN : b = TRUE  OBVIOUS
<1>b. /\ proc[p].pc = "applying" /\ GoApplied(p, "pop", b) /\ Release("replica")
      /\ replica' = Append(replica, proc[p].entry)
      /\ stopApplied' = IF proc[p].back = "idle" THEN stopApplied \cup {proc[p].entry}
                                                 ELSE stopApplied
      /\ UNCHANGED <<queue, server, pending, failed, writes, runs, failures, crashes,
                     hooked>>
  BY <1>d DEF ApplyEntry, At, Counters, GoApplied
<1>3. queue # <<>> /\ proc[p].entry = queue[1]  BY <1>a, <1>b DEF QueueOK
<1>4. /\ proc[p].entry \in Writes /\ proc[p].entry \in hooked
      /\ proc[p].entry \in 1 .. writes
  <2>1. queue[1] \in Writes /\ queue[1] \in hooked
    BY <1>a, <1>3, FirstEntry DEF QueueOK
  <2> QED  BY <1>a, <1>3, <2>1 DEF NumbersOK
<1>5. replica \in Seq(Writes)  BY <1>a DEF TypeOK
<1>6. /\ replica' \in Seq(Writes)
      /\ \A i \in DOMAIN replica' : \/ i \in DOMAIN replica /\ replica'[i] = replica[i]
                                    \/ i = Len(replica) + 1 /\ replica'[i] = proc[p].entry
      /\ \A i \in DOMAIN replica : i < Len(replica) + 1 /\ i \in Nat
  BY <1>b, <1>4, <1>5, Appended
<1>1. PICK new \in Process :
        /\ Become(p, new) /\ new.pc = "pop" /\ new.applied = b
        /\ new.back = proc[p].back /\ new.entry = proc[p].entry
  BY <1>a, <1>b, AppliedMoves, Domains
<1>2. /\ proc' \in [Procs -> Process] /\ proc'[p] = new
      /\ \A q \in Procs : q # p => proc'[q] = proc[q]
  BY <1>a, <1>1, OnlyOneMoves
<1>8. /\ lock["replica"] = p /\ lock'["replica"] = NoProc
      /\ \A m \in Locks : m # "replica" => lock'[m] = lock[m]
      /\ lock' \in [Locks -> Procs \cup {NoProc}]
  BY <1>a, <1>b, ReleaseLock DEF LocksOK, Holds, Touching, Locks
<1>9. proc[p].back \in {"idle", "mark", "sync", "after"}
  BY <1>a, <1>b DEF BackOK, DrainPlaces
<1>10. TypeOK'
  <2>1. stopApplied' \subseteq Writes  BY <1>a, <1>b, <1>4 DEF TypeOK
  <2> QED  BY <1>a, <1>b, <1>2, <1>6, <1>8, <2>1 DEF TypeOK, Process
<1>11. LocksOK'
  <2>1. ASSUME NEW l \in Locks  PROVE LockMove(p, new, l)
    BY <1>b, <1>1, <1>8 DEF LockMove, Holds, InSync, Applying, Touching, DrainPlaces, Locks
  <2> QED  BY <1>a, <1>1, <2>1, LocksMove
<1>12. BackOK'  BY <1>a, <1>b, <1>1, <1>9, BacksMove
<1>13. NumbersOK'
  <2>1. \A i \in DOMAIN replica' : replica'[i] <= writes'
    <3>1. proc[p].entry <= writes  BY <1>a, <1>4 DEF TypeOK
    <3> QED  BY <1>a, <1>b, <3>1, <1>6 DEF NumbersOK
  <2>2. \A q \in Procs : proc'[q].pc = "writing" => q # p  BY <1>1, <1>2
  <2> QED  BY <1>a, <1>b, <1>2, <2>1, <2>2 DEF NumbersOK
<1>14. QueueOK'  BY <1>a, <1>b, <1>1, <1>3, QueueStands
<1>7. ASSUME NEW i \in DOMAIN replica, replica[i] \in hooked
      PROVE  \/ replica[i] < queue[1]
             \/ replica[i] = queue[1] /\ crashes > 0
  <2>1. \A q \in Procs : proc[q].pc # "pop"
    BY <1>a, <1>b, OnlyOneApplies DEF Applying
  <2> QED  BY <1>a, <1>3, <1>7, <2>1 DEF LandedOK
<1>15. LandedOK'
  <2>1. proc'[p].pc = "pop"  BY <1>1, <1>2
  <2>2. ASSUME NEW i \in DOMAIN replica', replica'[i] \in hooked'
        PROVE  replica'[i] < queue'[1] \/ replica'[i] = queue'[1]
    <3>1. CASE i \in DOMAIN replica /\ replica'[i] = replica[i]
      BY <1>7, <1>b, <2>2, <3>1
    <3>2. CASE replica'[i] = proc[p].entry  BY <1>b, <1>3, <3>2
    <3> QED  BY <1>6, <3>1, <3>2
  <2> QED  BY <2>1, <2>2 DEF LandedOK
<1>16. LandsInOrder'
  <2>1. ASSUME NEW i \in DOMAIN replica', NEW j \in DOMAIN replica', i < j,
               replica'[i] \in hooked, replica'[j] \in hooked
        PROVE  \/ replica'[i] < replica'[j]
               \/ replica'[i] = replica'[j] /\ crashes > 0
    <3>1. i \in DOMAIN replica /\ replica'[i] = replica[i]
      BY <1>5, <1>6, <2>1
    <3>2. CASE j \in DOMAIN replica /\ replica'[j] = replica[j]
      <4>1. {replica[i], replica[j]} \subseteq hooked  BY <2>1, <3>1, <3>2
      <4> QED  BY <1>a, <2>1, <3>1, <3>2, <4>1 DEF LandsInOrder
    <3>3. CASE replica'[j] = proc[p].entry  BY <1>3, <1>7, <2>1, <3>1, <3>3
    <3> QED  BY <1>6, <3>2, <3>3
  <2> QED  BY <1>b, <2>1 DEF LandsInOrder
<1>17. QueueWatched'
  <2>1. DrainGoesOn(p, new)  BY <1>1 DEF DrainGoesOn, Drainer, DrainPlaces
  <2> QED  BY <1>a, <1>1, <2>1, QueueStaysWatched
<1>18. WritesWatched'
  <2>1. CASE proc[p].back # "idle"
    <3>1. SendGoesOn(p, new)
      BY <1>d, <1>1, <1>9, <2>1 DEF SendGoesOn, Sends, DrainPlaces
    <3> QED  BY <1>a, <1>1, <3>1, WritesStayWatched
  <2>2. CASE proc[p].back = "idle"
    <3>1. Range(replica)' \subseteq Range(replica) \cup {proc[p].entry}
      BY <1>6 DEF Range
    <3>2. Unsent' \subseteq Unsent  BY <1>b, <2>2, <3>1 DEF Unsent
    <3>3. ~Sends(proc[p]) /\ ~Looks(proc[p])
      BY <1>b, <2>2 DEF Sends, Looks, DrainPlaces
    <3>4. SendGoesOn(p, new)  BY <1>b, <3>2, <3>3 DEF SendGoesOn
    <3> QED  BY <1>a, <1>1, <3>4, WritesStayWatched
  <2> QED  BY <2>1, <2>2
<1> QED  BY <1>10, <1>11, <1>12, <1>13, <1>14, <1>15, <1>16, <1>17, <1>18 DEF IInv

LEMMA PopKeeps ==
  ASSUME IInv, NEW p \in Procs, Pop(p)
  PROVE  IInv'
<1>a. TypeOK /\ LocksOK /\ BackOK /\ NumbersOK /\ QueueOK /\ LandedOK /\ LandsInOrder
      /\ QueueWatched /\ WritesWatched
  BY DEF IInv
<1>3. proc[p].pc = "pop" /\ queue # <<>> /\ proc[p].entry = queue[1]
  BY <1>a DEF Pop, At, QueueOK
<1>b. /\ GoEntry(p, "peek", 0) /\ queue' = Tail(queue)
      /\ UNCHANGED <<replica, server, pending, failed, lock, writes, runs, failures,
                     crashes, hooked, stopApplied>>
  BY <1>3 DEF Pop, Counters, History, GoEntry
<1>1. PICK new \in Process :
        /\ Become(p, new) /\ new.pc = "peek" /\ new.back = proc[p].back
        /\ new.applied = proc[p].applied
  BY <1>a, <1>b, EntryMoves, Domains
<1>2. /\ proc' \in [Procs -> Process] /\ proc'[p] = new
      /\ \A q \in Procs : q # p => proc'[q] = proc[q]
  BY <1>a, <1>1, OnlyOneMoves
<1>4. queue \in Seq(Writes)  BY <1>a DEF TypeOK
<1>5. /\ queue' \in Seq(Writes)
      /\ \A i \in DOMAIN queue' : i + 1 \in DOMAIN queue /\ queue'[i] = queue[i + 1] /\ i \in Nat
      /\ queue' # <<>> => 2 \in DOMAIN queue /\ queue'[1] = queue[2] /\ 1 \in DOMAIN queue
  BY <1>b, <1>3, <1>4, Shortened
<1>6. queue' # <<>> => queue[1] < queue'[1] /\ queue[1] \in Int /\ queue'[1] \in Int
  <2>1. queue' # <<>> => queue[1] < queue[2] /\ queue[1] \in Writes /\ queue[2] \in Writes
    BY <1>a, <1>4, <1>5 DEF QueueOK
  <2> QED  BY <1>5, <2>1 DEF Writes
<1>10. TypeOK'  BY <1>a, <1>b, <1>2, <1>5 DEF TypeOK, Process
<1>11. LocksOK'
  <2>1. ASSUME NEW l \in Locks  PROVE LockMove(p, new, l)
    BY <1>b, <1>1, <1>3 DEF LockMove, Holds, InSync, Applying, Touching, DrainPlaces
  <2> QED  BY <1>a, <1>1, <2>1, LocksMove
<1>12. BackOK'
  <2>1. proc[p].back \in {"idle", "mark", "sync", "after"}
    BY <1>a, <1>3 DEF BackOK, DrainPlaces
  <2> QED  BY <1>a, <1>b, <1>1, <2>1, BacksMove
<1>13. NumbersOK'  BY <1>a, <1>b, <1>1, NumbersStand
<1>14. QueueOK'
  <2>1. \A i \in DOMAIN queue' : queue'[i] \in hooked'  BY <1>a, <1>b, <1>5 DEF QueueOK
  <2>2. ASSUME NEW i \in DOMAIN queue', NEW j \in DOMAIN queue', i < j
        PROVE  queue'[i] < queue'[j]
    <3>1. i + 1 \in DOMAIN queue /\ j + 1 \in DOMAIN queue /\ i + 1 < j + 1
      BY <1>5, <2>2
    <3> QED  BY <1>a, <1>5, <3>1 DEF QueueOK
  <2>3. \A q \in Procs : proc'[q].pc \notin {"apply", "applying", "pop"}
    <3>1. \A q \in Procs : q # p => proc[q].pc \notin Applying
      BY <1>a, <1>3, OnlyOneApplies DEF Applying
    <3> QED  BY <1>1, <1>2, <3>1 DEF Applying
  <2> QED  BY <2>1, <2>2, <2>3 DEF QueueOK
<1>15. LandedOK'
  <2>1. ASSUME NEW i \in DOMAIN replica, replica[i] \in hooked, queue' # <<>>
        PROVE  replica[i] < queue'[1]
    <3>1. replica[i] < queue[1] \/ replica[i] = queue[1]
      BY <1>a, <1>3, <2>1 DEF LandedOK
    <3>2. replica[i] \in Int  BY <1>a, LandedAreNumbers
    <3> QED  BY <1>6, <2>1, <3>1, <3>2
  <2> QED  BY <1>b, <2>1 DEF LandedOK
<1>16. LandsInOrder'  BY <1>a, <1>b DEF LandsInOrder
<1>17. QueueWatched'
  <2>1. DrainGoesOn(p, new)  BY <1>1 DEF DrainGoesOn, Drainer, DrainPlaces
  <2> QED  BY <1>a, <1>1, <2>1, QueueStaysWatched
<1>18. WritesWatched'
  <2>1. /\ Sends(proc[p]) => Sends(new)
        /\ Looks(proc[p]) => Looks(new)
    BY <1>1, <1>3 DEF Sends, Looks, DrainPlaces
  <2>2. SendGoesOn(p, new)  BY <1>b, <2>1 DEF SendGoesOn, Unsent
  <2> QED  BY <1>a, <1>1, <2>2, WritesStayWatched
<1> QED  BY <1>10, <1>11, <1>12, <1>13, <1>14, <1>15, <1>16, <1>17, <1>18 DEF IInv

LEMMA CrashKeeps ==
  ASSUME IInv, NEW p \in Procs, Crash(p)
  PROVE  IInv'
<1>a. TypeOK /\ LocksOK /\ BackOK /\ NumbersOK /\ QueueOK /\ LandedOK /\ LandsInOrder
      /\ QueueWatched /\ WritesWatched
  BY DEF IInv
<1>b. /\ Finish(p) /\ crashes < MaxCrashes /\ crashes' = crashes + 1
      /\ lock' = [l \in Locks |-> IF lock[l] = p THEN NoProc ELSE lock[l]]
      /\ UNCHANGED <<queue, replica, server, pending, failed, writes, runs, failures,
                     hooked, stopApplied>>
  BY DEF Crash, Files, History
<1>1. PICK new \in Process : Become(p, new) /\ new.pc = "idle"
  BY <1>a, <1>b, FinishMoves
<1>2. /\ proc' \in [Procs -> Process] /\ proc'[p] = new
      /\ \A q \in Procs : q # p => proc'[q] = proc[q]
  BY <1>a, <1>1, OnlyOneMoves
<1>3. crashes' \in 0 .. MaxCrashes /\ crashes' > 0
  BY <1>a, <1>b, ReplicaSyncAssumption DEF TypeOK
<1>10. TypeOK'
  <2>1. lock' \in [Locks -> Procs \cup {NoProc}]  BY <1>a, <1>b DEF TypeOK
  <2> QED  BY <1>a, <1>b, <1>2, <1>3, <2>1 DEF TypeOK, Process
<1>11. LocksOK'
  <2>1. ASSUME NEW l \in Locks  PROVE LockMove(p, new, l)
    <3>1. ~Holds(new, l)  BY <1>1 DEF Holds, InSync, Applying, Touching, DrainPlaces
    <3>2. lock[l] = p <=> Holds(proc[p], l)  BY <1>a DEF LocksOK
    <3> QED  BY <1>b, <3>1, <3>2 DEF LockMove
  <2> QED  BY <1>a, <1>1, <2>1, LocksMove
<1>12. BackOK'
  <2>1. new.pc \notin DrainPlaces /\ new.pc # "unlock"  BY <1>1 DEF DrainPlaces
  <2> QED  BY <1>a, <1>b, <1>1, <2>1, BacksMove
<1>13. NumbersOK'  BY <1>a, <1>b, <1>1, NumbersStand
<1>14. QueueOK'
  <2>1. new.pc \notin {"apply", "applying", "pop"}  BY <1>1
  <2> QED  BY <1>a, <1>b, <1>1, <2>1, QueueStands
<1>15. LandedOK'  BY <1>a, <1>b, <1>3 DEF LandedOK
<1>16. LandsInOrder'
  <2>1. crashes > 0 => crashes' > 0  BY <1>3
  <2> QED  BY <1>a, <1>b, <2>1 DEF LandsInOrder
<1>17. QueueWatched'  BY <1>3 DEF QueueWatched
<1>18. WritesWatched'  BY <1>3 DEF WritesWatched
<1> QED  BY <1>10, <1>11, <1>12, <1>13, <1>14, <1>15, <1>16, <1>17, <1>18 DEF IInv

-----------------------------------------------------------------------------
(* The invariant and what follows.                                         *)

LEMMA InitIInv == Init => IInv
<1> SUFFICES ASSUME Init  PROVE IInv
  OBVIOUS
<1>1. Idle \in Process  BY Domains DEF Idle, Process
<1>2. \A p \in Procs : proc[p] = Idle  BY DEF Init
<1>3. Idle.pc = "idle"  BY DEF Idle
<1>4. DOMAIN queue = {} /\ DOMAIN replica = {}  BY DEF Init
<1>5. TypeOK
  <2>1. proc \in [Procs -> Process]  BY <1>1 DEF Init
  <2>2. queue \in Seq(Writes) /\ replica \in Seq(Writes)  BY DEF Init
  <2>3. lock \in [Locks -> Procs \cup {NoProc}]  BY DEF Init
  <2>4. /\ writes \in 0 .. MaxWrites /\ runs \in 0 .. MaxRuns
        /\ failures \in 0 .. MaxFailures /\ crashes \in 0 .. MaxCrashes
    BY ReplicaSyncAssumption DEF Init
  <2>5. /\ server \subseteq Writes /\ hooked \subseteq Writes /\ stopApplied \subseteq Writes
        /\ pending \in BOOLEAN /\ failed \in BOOLEAN
    BY DEF Init
  <2> QED  BY <2>1, <2>2, <2>3, <2>4, <2>5 DEF TypeOK, Process
<1>6. LocksOK
  <2>1. ASSUME NEW p \in Procs, NEW l \in Locks
        PROVE  lock[l] = p <=> Holds(proc[p], l)
    <3>1. lock[l] # p  BY ReplicaSyncAssumption DEF Init, NoProc
    <3> QED  BY <1>2, <1>3, <3>1 DEF Holds, InSync, Applying, Touching, DrainPlaces
  <2> QED  BY <2>1 DEF LocksOK
<1>7. BackOK  BY <1>2, <1>3 DEF BackOK, DrainPlaces
<1>8. NumbersOK  BY <1>2, <1>3, <1>4 DEF Init, NumbersOK
<1>9. QueueOK  BY <1>2, <1>3, <1>4 DEF QueueOK
<1>10. LandedOK /\ LandsInOrder  BY <1>4 DEF LandedOK, LandsInOrder
<1>11. QueueWatched  BY DEF Init, QueueWatched
<1>12. WritesWatched
  <2>1. Unsent = {}  BY <1>4 DEF Unsent, Range
  <2> QED  BY <2>1 DEF WritesWatched
<1> QED  BY <1>5, <1>6, <1>7, <1>8, <1>9, <1>10, <1>11, <1>12 DEF IInv

LEMMA NextIInv == IInv /\ [Next]_vars => IInv'
<1> SUFFICES ASSUME IInv, [Next]_vars  PROVE IInv'
  OBVIOUS
<1>1. ASSUME NEW p \in Procs,
             HookPush(p) \/ CommandBegins(p) \/ StopHook(p) \/ ForegroundSync(p)
             \/ CommandWrites(p) \/ SyncFails(p) \/ Crash(p)
      PROVE  IInv'
  BY <1>1, HookPushKeeps, CommandBeginsKeeps, StopHookKeeps, ForegroundSyncKeeps,
     CommandWritesKeeps, SyncFailsKeeps, CrashKeeps
<1>2. ASSUME NEW p \in Procs, Drains(p)
      PROVE  IInv'
  BY <1>2, TryDrainKeeps, PeekKeeps, BeginApplyKeeps, ReplicaBusyKeeps, ApplyEntryKeeps,
     RefuseEntryKeeps, PopKeeps, EndDrainKeeps, PeekAgainKeeps
     DEF Drains
<1>3. ASSUME NEW p \in Procs, Syncs(p)
      PROVE  IInv'
  BY <1>3, MarkPendingKeeps, CheckFailureKeeps, LockSyncKeeps, ClearPendingKeeps,
     BeginSyncKeeps, SyncSucceedsKeeps, AfterSyncKeeps, LookForMoreKeeps,
     UnlockSyncKeeps, RecheckKeeps
     DEF Syncs
<1>4. CASE UNCHANGED vars
  BY <1>4 DEF vars, IInv, TypeOK, LocksOK, Holds, InSync, BackOK, NumbersOK, QueueOK,
     LandedOK, LandsInOrder, QueueWatched, Drainer, WritesWatched, Unsent, Range, Sends, Looks
<1> QED  BY <1>1, <1>2, <1>3, <1>4 DEF Next, GoesOn

(* The state is typed in every state; each lock is held by exactly the     *)
(* process that stands where the code holds it.                            *)
THEOREM TypeCorrect == Spec => [](TypeOK /\ LocksOK)
<1>1. IInv => TypeOK /\ LocksOK  BY DEF IInv
<1> QED  BY <1>1, InitIInv, NextIInv, PTL DEF Spec

(* Hook writes land in the order they were made, whoever applies them and  *)
(* wherever processes are killed; one lands twice only after a crash.      *)
THEOREM LandsInOrderHolds == Spec => []LandsInOrder
<1>1. IInv => LandsInOrder  BY DEF IInv
<1> QED  BY <1>1, InitIInv, NextIInv, PTL DEF Spec

(* When everyone is idle, no sync has failed and no one was killed, the    *)
(* queue is empty and the server has all that no stop hook applied: an     *)
(* idle process neither drains, nor sends, nor looks at the marker.        *)
THEOREM NothingLeftBehindHolds == Spec => []NothingLeftBehind
<1>1. IInv => NothingLeftBehind
  <2> SUFFICES ASSUME IInv, Quiet, ~failed, crashes = 0
               PROVE  queue = <<>> /\ Range(replica) \ server \subseteq stopApplied
    BY DEF NothingLeftBehind
  <2>1. \A p \in Procs : ~Drainer(proc[p]) /\ ~Sends(proc[p]) /\ ~Looks(proc[p])
    BY DEF Quiet, At, Drainer, Sends, Looks, DrainPlaces
  <2>2. queue = <<>>  BY <2>1 DEF IInv, QueueWatched
  <2>3. Unsent = {}  BY <2>1 DEF IInv, WritesWatched
  <2> QED  BY <2>2, <2>3 DEF Unsent
<1> QED  BY <1>1, InitIInv, NextIInv, PTL DEF Spec
=============================================================================
