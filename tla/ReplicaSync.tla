---------------------------- MODULE ReplicaSync -----------------------------
(***************************************************************************)
(* Writes to a taskchampion replica and how they reach the server: the     *)
(* queue of hook writes of src/bin/devkit/todo/queue.rs, the sync          *)
(* processes of src/bin/devkit/todo/sync.rs, and the replica lock of       *)
(* crates/devkit-todo-taskchampion/src/store.rs that both contend for.     *)
(*                                                                         *)
(* A process is a hook or a command that writes, and then the background   *)
(* sync it starts: that one is detached, so the same slot goes on as it.   *)
(* Three file locks order them: `sync.lock` held over a whole sync run,    *)
(* the drain lock by whoever applies the queue, and the replica lock over  *)
(* each change of the replica and over each round trip to the server.  A   *)
(* hook gives up on the replica lock after a short wait.                   *)
(***************************************************************************)
EXTENDS Integers, SequencesExt

CONSTANTS
  Procs,        \* process slots
  MaxWrites,    \* bound on the writes of a behaviour
  MaxRuns,      \* bound on stop hooks and foreground syncs
  MaxFailures,  \* bound on round trips that fail
  MaxCrashes    \* bound on processes that are killed

ASSUME ReplicaSyncAssumption ==
  /\ {MaxWrites, MaxRuns, MaxFailures, MaxCrashes} \subseteq Nat
  /\ "nobody" \notin Procs

VARIABLES
  queue,       \* deferred.jsonl: the hook writes not yet applied, oldest first
  replica,     \* the writes the replica holds, in the order they landed
  server,      \* the writes the server holds
  pending,     \* whether sync.pending exists
  failed,      \* whether sync.failed exists
  lock,        \* who holds each lock
  proc,        \* where a process stands
  writes,      \* writes made so far; a write is named by its number
  runs, failures, crashes,
  hooked,      \* history: the writes that went through the queue
  stopApplied  \* history: the queued writes that a stop hook applied

vars == <<queue, replica, server, pending, failed, lock, proc, writes, runs,
          failures, crashes, hooked, stopApplied>>

NoProc == "nobody"
Locks == {"sync", "drain", "replica"}
Writes == 1 .. MaxWrites

(* A process: its place, where it goes on after a drain, the write it      *)
(* makes or applies, whether its drain applied something, whether its sync *)
(* runs in the background and whether the last round trip succeeded.       *)
Idle == [pc |-> "idle", back |-> "idle", entry |-> 0, applied |-> FALSE,
         background |-> TRUE, succeeded |-> FALSE]

DrainPlaces == {"drain", "peek", "apply", "applying", "pop", "drained", "again"}
SyncPlaces == {"mark", "check", "lock", "clear", "sync", "syncing", "after", "look",
               "unlock", "recheck"}
Places == {"idle", "writing"} \cup DrainPlaces \cup SyncPlaces

TypeOK ==
  /\ queue \in Seq(Writes)
  /\ replica \in Seq(Writes)
  /\ server \subseteq Writes
  /\ pending \in BOOLEAN /\ failed \in BOOLEAN
  /\ lock \in [Locks -> Procs \cup {NoProc}]
  /\ proc \in [Procs -> [pc : Places, back : Places, entry : 0 .. MaxWrites,
                         applied : BOOLEAN, background : BOOLEAN, succeeded : BOOLEAN]]
  /\ writes \in 0 .. MaxWrites /\ runs \in 0 .. MaxRuns
  /\ failures \in 0 .. MaxFailures /\ crashes \in 0 .. MaxCrashes
  /\ hooked \subseteq Writes /\ stopApplied \subseteq Writes

Init ==
  /\ queue = <<>>
  /\ replica = <<>>
  /\ server = {}
  /\ pending = FALSE
  /\ failed = FALSE
  /\ lock = [l \in Locks |-> NoProc]
  /\ proc = [p \in Procs |-> Idle]
  /\ writes = 0 /\ runs = 0 /\ failures = 0 /\ crashes = 0
  /\ hooked = {} /\ stopApplied = {}

Files == <<queue, replica, server, pending, failed>>
Counters == <<writes, runs, failures, crashes>>
History == <<hooked, stopApplied>>

Free(l) == lock[l] = NoProc
Take(p, l) == lock' = [lock EXCEPT ![l] = p]
Release(l) == lock' = [lock EXCEPT ![l] = NoProc]

At(p, pc) == proc[p].pc = pc
Go(p, pc) == proc' = [proc EXCEPT ![p].pc = pc]
Finish(p) == proc' = [proc EXCEPT ![p] = Idle]
DrainThen(p, back) ==
  proc' = [proc EXCEPT ![p].pc = "drain", ![p].back = back, ![p].entry = 0]

(* The drain returns; only the pass after a round trip asks what it did.   *)
Return(p) ==
  proc' = [proc EXCEPT ![p].pc = proc[p].back, ![p].back = "idle", ![p].entry = 0,
                       ![p].applied = @ /\ proc[p].back = "after"]

(***************************************************************************)
(* Writes                                                                  *)
(***************************************************************************)

(* record_write: the entry is appended under the queue's own short lock,   *)
(* then the hook applies the queue.                                        *)
HookPush(p) ==
  /\ At(p, "idle")
  /\ writes < MaxWrites
  /\ writes' = writes + 1
  /\ queue' = Append(queue, writes + 1)
  /\ hooked' = hooked \cup {writes + 1}
  /\ DrainThen(p, "mark")
  /\ UNCHANGED <<replica, server, pending, failed, lock, runs, failures, crashes, stopApplied>>

(* A command writes to the replica itself and waits for its lock.          *)
CommandBegins(p) ==
  /\ At(p, "idle")
  /\ writes < MaxWrites
  /\ Free("replica")
  /\ Take(p, "replica")
  /\ writes' = writes + 1
  /\ proc' = [proc EXCEPT ![p].pc = "writing", ![p].entry = writes + 1]
  /\ UNCHANGED <<Files, runs, failures, crashes, History>>

(* after_write: the queue is applied, then a background sync started.      *)
CommandWrites(p) ==
  /\ At(p, "writing")
  /\ replica' = Append(replica, proc[p].entry)
  /\ Release("replica")
  /\ DrainThen(p, "mark")
  /\ UNCHANGED <<queue, server, pending, failed, Counters, History>>

(* hold: a stop hook applies the queue before it reads the list, and       *)
(* starts no sync.                                                         *)
StopHook(p) ==
  /\ At(p, "idle")
  /\ runs < MaxRuns
  /\ runs' = runs + 1
  /\ DrainThen(p, "idle")
  /\ UNCHANGED <<Files, lock, writes, failures, crashes, History>>

(* `devkit todo sync` run by a person, or by a caller that wants fresh     *)
(* lists.                                                                  *)
ForegroundSync(p) ==
  /\ At(p, "idle")
  /\ runs < MaxRuns
  /\ runs' = runs + 1
  /\ proc' = [proc EXCEPT ![p].pc = "lock", ![p].background = FALSE]
  /\ UNCHANGED <<Files, lock, writes, failures, crashes, History>>

(***************************************************************************)
(* Applying the queue                                                      *)
(***************************************************************************)

(* Unless another process is already applying it.                          *)
TryDrain(p) ==
  /\ At(p, "drain")
  /\ IF Free("drain")
     THEN Take(p, "drain") /\ Go(p, "peek")
     ELSE Return(p) /\ UNCHANGED lock
  /\ UNCHANGED <<Files, Counters, History>>

(* The oldest entry.                                                       *)
Peek(p) ==
  /\ At(p, "peek")
  /\ IF queue = <<>> THEN Go(p, "drained")
     ELSE proc' = [proc EXCEPT ![p].pc = "apply", ![p].entry = Head(queue)]
  /\ UNCHANGED <<Files, lock, Counters, History>>

(* An entry is applied under one hold of the replica lock.                 *)
BeginApply(p) ==
  /\ At(p, "apply")
  /\ Free("replica")
  /\ Take(p, "replica")
  /\ Go(p, "applying")
  /\ UNCHANGED <<Files, Counters, History>>

(* LockBusy: the entry stays, the drain ends.                              *)
ReplicaBusy(p) ==
  /\ At(p, "apply")
  /\ ~Free("replica")
  /\ Release("drain")
  /\ Return(p)
  /\ UNCHANGED <<Files, Counters, History>>

ApplyEntry(p) ==
  /\ At(p, "applying")
  /\ replica' = Append(replica, proc[p].entry)
  /\ Release("replica")
  /\ proc' = [proc EXCEPT ![p].pc = "pop", ![p].applied = TRUE]
  /\ stopApplied' = IF proc[p].back = "idle" THEN stopApplied \cup {proc[p].entry}
                                             ELSE stopApplied
  /\ UNCHANGED <<queue, server, pending, failed, Counters, hooked>>

(* Mutant: a write that is refused is tried again.                         *)
RetryEntry(p) ==
  /\ At(p, "applying")
  /\ Release("replica")
  /\ Go(p, "peek")
  /\ UNCHANGED <<Files, Counters, History>>

(* Any other failure, such as a claim that refuses the write: it is        *)
(* reported and the entry dropped.                                         *)
RefuseEntry(p) ==
  /\ At(p, "applying")
  /\ Release("replica")
  /\ Go(p, "pop")
  /\ UNCHANGED <<Files, Counters, History>>

(* Mutant: the newest entry is dropped instead of the one applied.         *)
PopNewest(p) ==
  /\ At(p, "pop")
  /\ queue' = IF queue = <<>> THEN <<>> ELSE Front(queue)
  /\ Go(p, "peek")
  /\ UNCHANGED <<replica, server, pending, failed, lock, Counters, History>>

(* The file is read again: entries pushed meanwhile stay behind the first. *)
Pop(p) ==
  /\ At(p, "pop")
  /\ queue' = IF queue = <<>> THEN <<>> ELSE Tail(queue)
  /\ proc' = [proc EXCEPT ![p].pc = "peek", ![p].entry = 0]
  /\ UNCHANGED <<replica, server, pending, failed, lock, Counters, History>>

EndDrain(p) ==
  /\ At(p, "drained")
  /\ Release("drain")
  /\ Go(p, "again")
  /\ UNCHANGED <<Files, Counters, History>>

(* Mutant: the drain ends without another look.                            *)
NoSecondPeek(p) ==
  /\ At(p, "again")
  /\ Return(p)
  /\ UNCHANGED <<Files, lock, Counters, History>>

(* An entry pushed after the last peek found the drain lock held.          *)
PeekAgain(p) ==
  /\ At(p, "again")
  /\ IF queue # <<>> THEN Go(p, "drain") ELSE Return(p)
  /\ UNCHANGED <<Files, lock, Counters, History>>

(***************************************************************************)
(* Syncing                                                                 *)
(***************************************************************************)

(* spawn: the marker first, then the detached process.                     *)
MarkPending(p) ==
  /\ At(p, "mark")
  /\ pending' = TRUE
  /\ proc' = [proc EXCEPT ![p] = [Idle EXCEPT !.pc = "check"]]
  /\ UNCHANGED <<queue, replica, server, failed, lock, Counters, History>>

(* A background sync gives up while the last failure is recent.            *)
CheckFailure(p) ==
  /\ At(p, "check")
  /\ \/ failed /\ Finish(p)
     \/ Go(p, "lock")
  /\ UNCHANGED <<Files, lock, Counters, History>>

(* A background sync gives up while another one runs; any other waits.     *)
LockSync(p) ==
  /\ At(p, "lock")
  /\ \/ Free("sync") /\ Take(p, "sync") /\ Go(p, "clear")
     \/ ~Free("sync") /\ proc[p].background /\ Finish(p) /\ UNCHANGED lock
  /\ UNCHANGED <<Files, Counters, History>>

(* Each pass clears the marker before it looks at what there is to send.   *)
ClearPending(p) ==
  /\ At(p, "clear")
  /\ pending' = FALSE
  /\ DrainThen(p, "sync")
  /\ UNCHANGED <<queue, replica, server, failed, lock, Counters, History>>

BeginSync(p) ==
  /\ At(p, "sync")
  /\ Free("replica")
  /\ Take(p, "replica")
  /\ Go(p, "syncing")
  /\ UNCHANGED <<Files, Counters, History>>

(* The round trip is one transaction.                                      *)
SyncSucceeds(p) ==
  /\ At(p, "syncing")
  /\ server' = server \cup Range(replica)
  /\ failed' = FALSE
  /\ Release("replica")
  /\ DrainThen(p, "after")
  /\ UNCHANGED <<queue, replica, pending, Counters, History>>

(* The server cannot be reached, or the replica lock stays busy too long.  *)
SyncFails(p) ==
  /\ At(p, "syncing") \/ (At(p, "sync") /\ ~Free("replica"))
  /\ failures < MaxFailures
  /\ failures' = failures + 1
  /\ failed' = TRUE
  /\ IF At(p, "syncing") THEN Release("replica") ELSE UNCHANGED lock
  /\ proc' = [proc EXCEPT ![p].pc = "unlock", ![p].succeeded = FALSE]
  /\ UNCHANGED <<queue, replica, server, pending, writes, runs, crashes, History>>

(* Hook writes queued behind this sync's lock go out on a rerun.           *)
AfterSync(p) ==
  /\ At(p, "after")
  /\ pending' = (pending \/ proc[p].applied)
  /\ proc' = [proc EXCEPT ![p].pc = "look", ![p].applied = FALSE]
  /\ UNCHANGED <<queue, replica, server, failed, lock, Counters, History>>

LookForMore(p) ==
  /\ At(p, "look")
  /\ IF pending THEN Go(p, "clear")
     ELSE proc' = [proc EXCEPT ![p].pc = "unlock", ![p].succeeded = TRUE]
  /\ UNCHANGED <<Files, lock, Counters, History>>

UnlockSync(p) ==
  /\ At(p, "unlock")
  /\ Release("sync")
  /\ Go(p, "recheck")
  /\ UNCHANGED <<Files, Counters, History>>

(* A write that found the lock still held left its marker to this process. *)
Recheck(p) ==
  /\ At(p, "recheck")
  /\ IF proc[p].succeeded /\ pending
     THEN proc' = [proc EXCEPT ![p].pc = "lock", ![p].succeeded = FALSE]
     ELSE Finish(p)
  /\ UNCHANGED <<Files, lock, Counters, History>>

(* A process is killed: the system frees its locks.                        *)
Crash(p) ==
  /\ ~At(p, "idle")
  /\ crashes < MaxCrashes
  /\ crashes' = crashes + 1
  /\ lock' = [l \in Locks |-> IF lock[l] = p THEN NoProc ELSE lock[l]]
  /\ Finish(p)
  /\ UNCHANGED <<Files, writes, runs, failures, History>>

Drains(p) ==
  \/ TryDrain(p) \/ Peek(p) \/ BeginApply(p) \/ ReplicaBusy(p) \/ ApplyEntry(p)
  \/ RefuseEntry(p) \/ Pop(p) \/ EndDrain(p) \/ PeekAgain(p)

Syncs(p) ==
  \/ MarkPending(p) \/ CheckFailure(p) \/ LockSync(p) \/ ClearPending(p)
  \/ BeginSync(p) \/ SyncSucceeds(p) \/ AfterSync(p) \/ LookForMore(p)
  \/ UnlockSync(p) \/ Recheck(p)

(* What a process does once it runs and nothing fails.                     *)
GoesOn(p) == CommandWrites(p) \/ Drains(p) \/ Syncs(p)

Next ==
  \E p \in Procs :
    \/ HookPush(p) \/ CommandBegins(p) \/ StopHook(p) \/ ForegroundSync(p)
    \/ GoesOn(p) \/ SyncFails(p) \/ Crash(p)

Spec == Init /\ [][Next]_vars

(* A running process keeps running: the system schedules it, and a lock it *)
(* waits for is given to it when it is free again and again.               *)
FairSpec == Spec /\ \A p \in Procs : SF_vars(GoesOn(p))

(***************************************************************************)
(* Properties                                                              *)
(***************************************************************************)

Quiet == \A p \in Procs : At(p, "idle")

(* Hook writes land in the order they were made, and one lands again only  *)
(* right after itself, where a process was killed between applying and     *)
(* popping it (queue.rs: a later write never overtakes an earlier one).    *)
LandsInOrder ==
  \A i, j \in DOMAIN replica :
    (i < j /\ {replica[i], replica[j]} \subseteq hooked)
    => \/ replica[i] < replica[j]
       \/ replica[i] = replica[j] /\ crashes > 0

(* Once everyone is done, no sync has failed and no one was killed, the    *)
(* queue is empty and the server holds every write, except those that a    *)
(* stop hook applied (drain's second peek, the marker and its rechecks).   *)
NothingLeftBehind ==
  (Quiet /\ ~failed /\ crashes = 0) =>
    /\ queue = <<>>
    /\ Range(replica) \ server \subseteq stopApplied

(* Every write that stands in the queue or the replica is in the end sent, *)
(* refused, or left to a later write because a sync failed, a process was  *)
(* killed or a stop hook applied it.                                       *)
EveryWriteIsSettled ==
  \A w \in Writes :
    (w \in Range(queue) \cup Range(replica)) ~>
      (w \in server \/ ~(w \in Range(queue) \cup Range(replica))
         \/ failed \/ crashes > 0 \/ w \in stopApplied)
=============================================================================
