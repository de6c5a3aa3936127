--------------------------- MODULE BaselineProofs ---------------------------
(***************************************************************************)
(* Proofs about the baseline worktrees, for any number of worktrees,       *)
(* commits, slots and commands: what a record pins is a finished tree, a   *)
(* tree somebody else's record names is not removed, servers somebody      *)
(* else's baseline is served by are not stopped, and servers are left out  *)
(* of everybody's reach only by a race or a failure.                       *)
(***************************************************************************)
EXTENDS Baseline, WellFoundedInduction, TLAPS

-----------------------------------------------------------------------------
(* The inductive invariant, by parts.                                      *)

TreeStates == Shas \cup {"none", "unmarked", "corrupt", "blocked"}

(* A record that pins names a commit and a slot, any other neither.        *)
Records ==
  [is : {"pin"}, sha : Shas, slot : Slots]
    \cup [is : {"none", "gone", "unreadable"}, sha : {Nobody}, slot : {Nobody}]

Servers == Commands \cup {Earlier}

Stations == {"idle", "done", "ensure", "clear", "create", "build", "pin", "launch",
             "release", "stop", "remove", "snapshot", "dir", "sweep", "wait", "reclaim",
             "adding", "removing"}

Progress ==
  [op : {"none", "up", "end", "down", "prune"}, at : Stations,
   tree : Checkouts \cup {Nobody}, force : BOOLEAN, sha : Shas \cup {Nobody},
   lock : Slots \cup {Nobody}, slot : Slots \cup {Nobody}, prev : Slots \cup {Nobody},
   built : BOOLEAN, rows : SUBSET Servers, held : SUBSET Slots, queue : SUBSET Slots]

BaselineTypeOK ==
  /\ trees \in [Slots -> TreeStates]
  /\ records \in [Checkouts -> Records]
  /\ forks \in [Checkouts -> Shas]
  /\ servers \in [Servers -> Slots \cup {Nobody}]
  /\ dirLock \in Commands \cup {Nobody}
  /\ slotLocks \in [Slots -> Commands \cup {Nobody}]
  /\ cmds \in [Commands -> Progress]
  /\ events \in Nat
  /\ strayed \subseteq Slots
  /\ broken \subseteq Slots

(* Where a command works on the tree of a slot, having resolved it, and    *)
(* where it holds a slot lock.                                             *)
Ensuring == {"clear", "create", "build", "pin"}
Locking == Ensuring \cup {"stop", "reclaim"}

(* Where a command, or what it left behind, owes something.                *)
Owing == Locking \cup {"adding", "removing"}

(* A command that holds a lock is who the lock says, and works on the slot *)
(* it has locked, or the slot counts as strayed.                           *)
Holds(c) ==
  /\ cmds[c].at \in Locking => cmds[c].lock \in Slots /\ slotLocks[cmds[c].lock] = c
  /\ cmds[c].at \in Ensuring => cmds[c].slot = cmds[c].lock \/ cmds[c].slot \in strayed
  /\ cmds[c].at = "reclaim" => cmds[c].slot = cmds[c].lock
  /\ cmds[c].at = "stop" => cmds[c].prev = cmds[c].lock

HoldsLock == \A c \in Commands : Holds(c)

(* What each station relies on.                                            *)
Fit(x) ==
  /\ x.at \in Ensuring => x.slot \in Slots /\ x.sha \in Shas /\ x.tree \in Checkouts
  /\ x.at = "ensure" => x.lock \in Slots /\ x.sha \in Shas /\ x.tree \in Checkouts
  /\ x.at = "launch" => x.slot \in Slots
  /\ x.at = "release" => x.prev \in Slots
  /\ x.at \in {"release", "stop"} => x.op \in {"up", "end", "down"}
  /\ x.at \in {"ensure", "launch"} \cup Ensuring => x.op = "up"
  /\ x.at \in {"release", "stop"} /\ x.op = "up" => x.slot \in Slots
  /\ x.at \in {"remove", "snapshot"} => x.op = "end"
  /\ x.at \in {"release", "stop", "remove"} => x.tree \in Checkouts
  /\ x.at \in {"wait", "reclaim", "adding", "removing"} => x.slot \in Slots
  /\ x.at \in {"snapshot", "dir"} /\ x.op = "end" => x.prev \in Slots
  /\ x.built => x.at \in {"build", "pin"}

Equipped == \A c \in Commands : Fit(cmds[c])

(* What holds of a slot while somebody works on it under its lock: nobody  *)
(* pins what is being removed or built, and what is about to be pinned is  *)
(* finished.  Where the git of a killed command is at work, the slot       *)
(* counts as broken.                                                       *)
Works(c) ==
  /\ cmds[c].at \in {"adding", "removing"} => cmds[c].slot \in broken
  /\ cmds[c].slot \notin strayed =>
       /\ cmds[c].at = "clear" => Naming(cmds[c].slot) \subseteq {cmds[c].tree}
       /\ cmds[c].at = "reclaim" => Naming(cmds[c].slot) = {}
       /\ cmds[c].slot \notin broken =>
            /\ cmds[c].at \in {"clear", "create"} => Naming(cmds[c].slot) = {}
            /\ cmds[c].at = "build" /\ cmds[c].built => Naming(cmds[c].slot) = {}
            /\ cmds[c].at = "build" /\ ~cmds[c].built => trees[cmds[c].slot] = cmds[c].sha
            /\ cmds[c].at = "pin" => trees[cmds[c].slot] = cmds[c].sha

SlotSafe == \A c \in Commands : Works(c)

(* A command that is about to stop servers: nobody else has adopted them,  *)
(* and they are still where they were found, left by commands that ended.  *)
Stops(c) ==
  cmds[c].at = "stop" =>
    /\ cmds[c].prev \notin strayed => Naming(cmds[c].prev) \subseteq {cmds[c].tree}
    /\ \A s \in cmds[c].rows :
         /\ servers[s] \in {cmds[c].prev, Nobody}
         /\ s \in Commands => cmds[s].at = "done"

StopSafe ==
  /\ \A c \in Commands : servers[c] # Nobody => cmds[c].at = "done"
  /\ \A c \in Commands : Stops(c)

IInv ==
  /\ BaselineTypeOK
  /\ HoldsLock
  /\ Equipped
  /\ SlotSafe
  /\ StopSafe
  /\ PinnedIsComplete

-----------------------------------------------------------------------------
(* Slots and candidates.                                                   *)

LEMMA Constants ==
  /\ Nobody \notin Slots /\ Nobody \notin Commands /\ Nobody \notin Shas
  /\ \A s \in Shas : s \notin {"none", "unmarked", "corrupt", "blocked"}
  /\ \A s \in Shas, n \in 1 .. MaxCandidates : <<Short[s], n>> \in Slots
  /\ \A s \in Shas : <<Short[s], 1>> \in Slots
<1>1. \A p \in Slots : p \in {Short[s] : s \in Shas} \X (1 .. MaxCandidates)
  BY DEF Slots
<1>2. \A s \in Shas : s \notin {"none", "unmarked", "corrupt", "blocked"}
  BY BaselineAssumption
<1>. QED
  BY <1>1, <1>2, BaselineAssumption DEF Slots

(* A non-empty set of candidate numbers has a least one.                   *)
LEMMA LeastCandidate ==
  ASSUME NEW S \in SUBSET (1 .. MaxCandidates), S # {}
  PROVE  (CHOOSE n \in S : \A m \in S : n <= m) \in S
<1>1. S \subseteq Nat
  BY BaselineAssumption
<1>2. PICK n \in S : \A m \in S : ~(<<m, n>> \in OpToRel(<, Nat))
  BY <1>1, NatLessThanWellFounded, WFMin
<1>3. \A m \in S : ~(m < n)
  <2> SUFFICES ASSUME NEW m \in S
               PROVE  ~(m < n)
    OBVIOUS
  <2>1. <<m, n>> \in Nat \X Nat /\ <<m, n>>[1] = m /\ <<m, n>>[2] = n
    BY <1>1
  <2>2. <<m, n>> \notin {ss \in Nat \X Nat : ss[1] < ss[2]}
    BY <1>2 DEF OpToRel
  <2>. QED
    BY <2>1, <2>2
<1>4. \A m \in S : n <= m
  BY <1>1, <1>3
<1>. QED
  BY <1>4

(* The candidate is a slot of the commit's short name that no other commit *)
(* has built in.                                                           *)
LEMMA CandidateIsFree ==
  ASSUME NEW sha \in Shas, Candidate(sha) # Nobody
  PROVE  Candidate(sha) \in Slots /\ trees[Candidate(sha)] \notin Shas \ {sha}
<1> DEFINE free == {n \in 1 .. MaxCandidates : trees[<<Short[sha], n>>] \notin Shas \ {sha}}
           least == CHOOSE n \in free : \A m \in free : n <= m
<1>1. free # {} /\ Candidate(sha) = <<Short[sha], least>>
  BY DEF Candidate
<1>2. least \in free
  BY <1>1, LeastCandidate
<1>. QED
  BY <1>1, <1>2, Constants

LEMMA PinFacts ==
  ASSUME BaselineTypeOK, NEW w \in Checkouts
  PROVE  /\ Pinned(w) <=> records[w].slot \in Slots
         /\ Pinned(w) => records[w].sha \in Shas
         /\ ~Pinned(w) => records[w].slot = Nobody
  BY Constants DEF BaselineTypeOK, Records, Pinned

(* A step of one command leaves the others' progress alone.                *)
LEMMA StepMoves ==
  ASSUME BaselineTypeOK, NEW c \in Commands, NEW from, NEW new, Step(c, from, new)
  PROVE  /\ cmds[c].at = from /\ cmds'[c] = new
         /\ \A d \in Commands : d # c => cmds'[d] = cmds[d]
  BY DEF BaselineTypeOK, Step

-----------------------------------------------------------------------------
LEMMA InitIInv == BaselineInit => IInv
<1> SUFFICES ASSUME BaselineInit
             PROVE  IInv
  OBVIOUS
<1>1. Idle \in Progress /\ Unpinned("none") \in Records
      /\ \A s \in Shas, p \in Slots : Pin(s, p) \in Records
  BY DEF Idle, Progress, Unpinned, Records, Pin, Stations
<1>2. ASSUME NEW sha \in Shas, NEW pinned \in SUBSET Checkouts,
             trees = [q \in Slots |-> IF q = <<Short[sha], 1>> THEN sha ELSE "none"],
             records = [w \in Checkouts |-> IF w \in pinned THEN Pin(sha, <<Short[sha], 1>>)
                                            ELSE Unpinned("none")],
             servers = [s \in Servers |-> IF s = Earlier THEN <<Short[sha], 1>> ELSE Nobody]
      PROVE  BaselineTypeOK /\ PinnedIsComplete
  <2>1. <<Short[sha], 1>> \in Slots
    BY Constants
  <2>2. BaselineTypeOK
    BY <1>1, <1>2, <2>1 DEF BaselineInit, BaselineTypeOK, TreeStates
  <2>. QED
    BY <1>2, <2>1, <2>2 DEF PinnedIsComplete, Pinned, Pin, Unpinned
<1>3. ASSUME trees = [p \in Slots |-> "none"],
             records = [w \in Checkouts |-> Unpinned("none")],
             servers = [s \in Servers |-> Nobody]
      PROVE  BaselineTypeOK /\ PinnedIsComplete
  BY <1>1, <1>3 DEF BaselineInit, BaselineTypeOK, TreeStates, PinnedIsComplete, Pinned, Unpinned
<1>4. BaselineTypeOK /\ PinnedIsComplete
  BY <1>2, <1>3 DEF BaselineInit, Servers
<1>5. HoldsLock /\ Equipped /\ SlotSafe
  BY DEF BaselineInit, HoldsLock, Holds, Equipped, Fit, SlotSafe, Works, Idle, Locking, Ensuring
<1>6. StopSafe
  BY BaselineAssumption DEF BaselineInit, StopSafe, Stops, Idle
<1>. QED
  BY <1>4, <1>5, <1>6 DEF IInv

-----------------------------------------------------------------------------
(* Where each step leaves the command that takes it.                       *)

(* The command is at a new station, of its type and fit for it; the others *)
(* have not moved.                                                         *)
Moved(c) ==
  /\ cmds' \in [Commands -> Progress]
  /\ Fit(cmds'[c])
  /\ \A d \in Commands \ {c} : cmds'[d] = cmds[d]

LEMMA MoveTo ==
  ASSUME BaselineTypeOK, NEW c \in Commands, NEW from, NEW new, Step(c, from, new),
         new \in Progress, Fit(new)
  PROVE  Moved(c) /\ cmds[c].at = from /\ cmds'[c] = new
  BY DEF BaselineTypeOK, Step, Moved

LEMMA OverIsFit == Over \in Progress /\ Fit(Over) /\ Idle \in Progress /\ Over.at = "done"
  BY DEF Over, Idle, Progress, Fit, Stations, Ensuring

LEMMA MoveOver ==
  ASSUME BaselineTypeOK, NEW c \in Commands, NEW from, Step(c, from, Over)
  PROVE  Moved(c) /\ cmds[c].at = from /\ cmds'[c].at = "done"
  BY MoveTo, OverIsFit

(* The progress of each command, and what each worktree's record pins.     *)
LEMMA Known ==
  ASSUME BaselineTypeOK, Equipped
  PROVE  /\ \A c \in Commands : cmds[c] \in Progress /\ Fit(cmds[c])
         /\ \A w \in Checkouts : /\ records[w] \in Records
                                 /\ records[w].slot \in Slots \cup {Nobody}
                                 /\ forks[w] \in Shas
  BY DEF BaselineTypeOK, Equipped, Records

LEMMA BeginMoves ==
  ASSUME BaselineTypeOK, Equipped, NEW c \in Commands, Begin(c)
  PROVE  Moved(c) /\ cmds[c].at = "idle" /\ cmds'[c].at \in {"ensure", "release", "remove", "dir"}
<1> USE OverIsFit
<1>1. ASSUME NEW w \in Checkouts, BeginUp(c, w)
      PROVE  Moved(c) /\ cmds[c].at = "idle" /\ cmds'[c].at = "ensure"
  <2>1. PICK new : new = [Idle EXCEPT !.op = "up", !.at = "ensure", !.tree = w,
       !.sha = forks[w], !.lock = Candidate(forks[w]), !.prev = records[w].slot]
    OBVIOUS
  <2>2. /\ w \in Checkouts /\ forks[w] \in Shas /\ Candidate(forks[w]) \in Slots
        /\ records[w].slot \in Slots \cup {Nobody}
    BY <1>1, Known, CandidateIsFree DEF BeginUp
  <2>3. /\ new.op = "up" /\ new.at = "ensure" /\ new.tree = w /\ new.sha = forks[w]
        /\ new.lock = Candidate(forks[w]) /\ new.built = FALSE
    BY <2>1 DEF Idle
  <2>4. new \in Progress
    BY <2>1, <2>2 DEF Progress, Stations
  <2>5. Fit(new)
    BY <2>2, <2>3 DEF Fit, Ensuring
  <2>6. Step(c, "idle", new)
    BY <1>1, <2>1 DEF BeginUp
  <2>. QED
    BY <2>3, <2>4, <2>5, <2>6, MoveTo
<1>2. ASSUME NEW w \in Checkouts, BeginEnd(c, w)
      PROVE  Moved(c) /\ cmds[c].at = "idle" /\ cmds'[c].at \in {"release", "remove"}
  <2>0. PICK at \in {"release", "remove"} : at = IF Pinned(w) THEN "release" ELSE "remove"
    OBVIOUS
  <2>1. PICK new : new = [Idle EXCEPT !.op = "end", !.tree = w, !.at = at,
                                      !.prev = records[w].slot]
    OBVIOUS
  <2>2. records[w].slot \in Slots \cup {Nobody} /\ (Pinned(w) => records[w].slot \in Slots)
    BY Known, PinFacts
  <2>3. /\ new.op = "end" /\ new.tree = w /\ new.prev = records[w].slot /\ new.built = FALSE
        /\ \/ new.at = "remove"
           \/ new.at = "release" /\ Pinned(w)
    BY <2>0, <2>1 DEF Idle
  <2>4. new \in Progress
    BY <2>1, <2>2 DEF Progress, Stations
  <2>5. Fit(new)
    BY <2>2, <2>3 DEF Fit, Ensuring
  <2>6. Step(c, "idle", new)
    BY <1>2, <2>0, <2>1 DEF BeginEnd
  <2>. QED
    BY <2>3, <2>4, <2>5, <2>6, MoveTo
<1>3. ASSUME NEW w \in Checkouts, BeginDown(c, w)
      PROVE  Moved(c) /\ cmds[c].at = "idle" /\ cmds'[c].at = "release"
  <2>1. PICK new : new = [Idle EXCEPT !.op = "down", !.at = "release", !.tree = w,
                                      !.prev = records[w].slot]
    OBVIOUS
  <2>2. records[w].slot \in Slots
    BY <1>3, PinFacts DEF BeginDown
  <2>3. /\ new.op = "down" /\ new.tree = w /\ new.prev = records[w].slot /\ new.built = FALSE
        /\ new.at = "release"
    BY <2>1 DEF Idle
  <2>4. new \in Progress
    BY <2>1, <2>2 DEF Progress, Stations
  <2>5. Fit(new)
    BY <2>2, <2>3 DEF Fit, Ensuring
  <2>6. Step(c, "idle", new)
    BY <1>3, <2>1 DEF BeginDown
  <2>. QED
    BY <2>3, <2>4, <2>5, <2>6, MoveTo
<1>4. ASSUME NEW force \in BOOLEAN, BeginPrune(c, force)
      PROVE  Moved(c) /\ cmds[c].at = "idle" /\ cmds'[c].at = "dir"
  <2>1. PICK new : new = [Idle EXCEPT !.op = "prune", !.at = "dir", !.force = force,
                                      !.rows = RowsNow]
    OBVIOUS
  <2>2. RowsNow \in SUBSET Servers
    BY DEF RowsNow, BaselineTypeOK
  <2>3. new.op = "prune" /\ new.at = "dir" /\ new.built = FALSE
    BY <2>1 DEF Idle
  <2>4. new \in Progress
    <3>1. [Idle EXCEPT !.op = "prune", !.at = "dir"] \in Progress
      BY ZenonT(30) DEF Progress, Stations
    <3>2. PICK x \in Progress : x = [Idle EXCEPT !.op = "prune", !.at = "dir"]
      BY <3>1
    <3>3. PICK y \in Progress : y = [x EXCEPT !.force = force]
      BY ZenonT(30) DEF Progress
    <3>4. new = [y EXCEPT !.rows = RowsNow]
      BY <2>1, <3>2, <3>3
    <3>. QED
      BY <2>2, <3>4 DEF Progress
  <2>5. Fit(new)
    BY <2>3 DEF Fit, Ensuring
  <2>6. Step(c, "idle", new)
    BY <1>4, <2>1 DEF BeginPrune
  <2>. QED
    BY <2>3, <2>4, <2>5, <2>6, MoveTo
<1>. QED
  BY <1>1, <1>2, <1>3, <1>4 DEF Begin

(* Under the lock the slot is a candidate again, and what stands there     *)
(* says what to do about it.                                               *)
LEMMA ResolveMoves ==
  ASSUME BaselineTypeOK, Equipped, NEW c \in Commands, Resolve(c)
  PROVE  /\ Moved(c) /\ cmds[c].at = "ensure"
         /\ cmds[c].lock \in Slots /\ slotLocks[cmds[c].lock] = Nobody
         /\ \/ cmds'[c].at = "done" /\ UNCHANGED <<slotLocks, strayed>>
            \/ /\ cmds[c].sha \in Shas /\ cmds'[c].slot = Candidate(cmds[c].sha)
               /\ cmds'[c].slot \in Slots /\ CanServe(c, cmds'[c].slot)
               /\ cmds'[c].at \in {"build", "create", "clear"}
               /\ cmds'[c].at = "build" <=> trees[cmds'[c].slot] = cmds[c].sha
               /\ cmds'[c].at = "create" => trees[cmds'[c].slot] = "none"
               /\ cmds'[c].at = "clear" => trees[cmds'[c].slot] # "none"
               /\ cmds'[c].lock = cmds[c].lock /\ cmds'[c].tree = cmds[c].tree
               /\ cmds'[c].sha = cmds[c].sha /\ ~cmds'[c].built
               /\ slotLocks' = [slotLocks EXCEPT ![cmds[c].lock] = c]
               /\ strayed' = strayed \cup ({cmds'[c].slot} \ {cmds[c].lock})
<1>1. /\ cmds[c].at = "ensure" /\ cmds[c].sha \in Shas /\ cmds[c].lock \in Slots
      /\ slotLocks[cmds[c].lock] = Nobody /\ cmds[c].tree \in Checkouts /\ cmds[c].op = "up"
      /\ cmds[c] \in Progress /\ ~cmds[c].built
  BY Known DEF Resolve, Fit
<1>2. PICK x \in Progress : x = cmds[c]
  BY <1>1
<1>3. PICK p : p = Candidate(cmds[c].sha)
  OBVIOUS
<1>4. PICK at : at = CASE trees[p] = cmds[c].sha -> "build"
                       [] trees[p] = "none"      -> "create"
                       [] OTHER                  -> "clear"
  OBVIOUS
<1>5. CASE /\ CanServe(c, p) /\ Step(c, "ensure", [x EXCEPT !.slot = p, !.at = at])
           /\ slotLocks' = [slotLocks EXCEPT ![cmds[c].lock] = c]
           /\ strayed' = strayed \cup ({p} \ {cmds[c].lock})
  <2>1. p \in Slots
    BY <1>1, <1>3, <1>5, CandidateIsFree DEF CanServe
  <2>2. /\ at \in {"build", "create", "clear"}
        /\ at = "build" <=> trees[p] = cmds[c].sha
        /\ at = "create" => trees[p] = "none"
        /\ at = "clear" => trees[p] # "none"
    BY <1>1, <1>4, Constants
  <2>3. PICK new : new = [x EXCEPT !.slot = p, !.at = at]
    OBVIOUS
  <2>4. /\ new.at = at /\ new.slot = p /\ new.lock = x.lock /\ new.tree = x.tree
        /\ new.sha = x.sha /\ new.built = x.built /\ new.op = x.op
    BY <2>3 DEF Progress
  <2>5. new \in Progress
    BY <2>1, <2>2, <2>3 DEF Progress, Stations
  <2>6. Fit(new)
    BY <1>1, <1>2, <2>1, <2>2, <2>4 DEF Fit, Ensuring
  <2>7. Moved(c) /\ cmds'[c] = new
    BY <1>5, <2>3, <2>5, <2>6, MoveTo
  <2>. QED
    BY <1>1, <1>2, <1>3, <1>5, <2>1, <2>2, <2>4, <2>7
<1>6. CASE Step(c, "ensure", Over) /\ UNCHANGED <<slotLocks, strayed>>
  BY <1>1, <1>6, MoveOver
<1>. QED
  BY <1>2, <1>3, <1>4, <1>5, <1>6 DEF Resolve

(* Inside the lock the command keeps its slot, its lock and its commit.    *)
LEMMA EnsureMoves ==
  ASSUME BaselineTypeOK, Equipped, NEW c \in Commands,
         \/ Step(c, "clear", [cmds[c] EXCEPT !.at = "create"])
         \/ Step(c, "create", [cmds[c] EXCEPT !.at = "build", !.built = TRUE])
         \/ Step(c, "build", [cmds[c] EXCEPT !.at = "pin"])
  PROVE  /\ Moved(c)
         /\ cmds'[c].lock = cmds[c].lock /\ cmds'[c].tree = cmds[c].tree
         /\ cmds'[c].sha = cmds[c].sha /\ cmds'[c].slot = cmds[c].slot
         /\ \/ cmds[c].at = "clear" /\ cmds'[c].at = "create"
            \/ cmds[c].at = "create" /\ cmds'[c].at = "build" /\ cmds'[c].built
            \/ cmds[c].at = "build" /\ cmds'[c].at = "pin"
<1>1. PICK x \in Progress : x = cmds[c] /\ Fit(x)
  BY Known
<1>2. ASSUME Step(c, "clear", [x EXCEPT !.at = "create"])
      PROVE  /\ Moved(c) /\ x.at = "clear" /\ cmds'[c].at = "create"
             /\ cmds'[c].lock = x.lock /\ cmds'[c].tree = x.tree
             /\ cmds'[c].sha = x.sha /\ cmds'[c].slot = x.slot
  <2>1. PICK new : new = [x EXCEPT !.at = "create"]
    OBVIOUS
  <2>2. /\ new.at = "create" /\ new.slot = x.slot /\ new.lock = x.lock /\ new.tree = x.tree
        /\ new.sha = x.sha /\ new.built = x.built /\ new.op = x.op
    BY <2>1 DEF Progress
  <2>3. new \in Progress
    BY <2>1 DEF Progress, Stations
  <2>4. x.at = "clear"
    BY <1>1, <1>2 DEF Step
  <2>5. Fit(new)
    BY <1>1, <2>2, <2>4 DEF Fit, Ensuring
  <2>6. Moved(c) /\ cmds'[c] = new
    BY <1>2, <2>1, <2>3, <2>5, MoveTo
  <2>. QED
    BY <2>2, <2>4, <2>6
<1>3. ASSUME Step(c, "create", [x EXCEPT !.at = "build", !.built = TRUE])
      PROVE  /\ Moved(c) /\ x.at = "create" /\ cmds'[c].at = "build" /\ cmds'[c].built
             /\ cmds'[c].lock = x.lock /\ cmds'[c].tree = x.tree
             /\ cmds'[c].sha = x.sha /\ cmds'[c].slot = x.slot
  <2>1. PICK new : new = [x EXCEPT !.at = "build", !.built = TRUE]
    OBVIOUS
  <2>2. /\ new.at = "build" /\ new.slot = x.slot /\ new.lock = x.lock /\ new.tree = x.tree
        /\ new.sha = x.sha /\ new.built = TRUE /\ new.op = x.op
    BY <2>1 DEF Progress
  <2>3. new \in Progress
    <3>1. PICK y \in Progress : y = [x EXCEPT !.at = "build"]
      BY DEF Progress, Stations
    <3>2. new = [y EXCEPT !.built = TRUE]
      BY <2>1, <3>1
    <3>. QED
      BY <3>2 DEF Progress
  <2>4. x.at = "create"
    BY <1>1, <1>3 DEF Step
  <2>5. Fit(new)
    BY <1>1, <2>2, <2>4 DEF Fit, Ensuring
  <2>6. Moved(c) /\ cmds'[c] = new
    BY <1>3, <2>1, <2>3, <2>5, MoveTo
  <2>. QED
    BY <2>2, <2>4, <2>6
<1>4. ASSUME Step(c, "build", [x EXCEPT !.at = "pin"])
      PROVE  /\ Moved(c) /\ x.at = "build" /\ cmds'[c].at = "pin"
             /\ cmds'[c].lock = x.lock /\ cmds'[c].tree = x.tree
             /\ cmds'[c].sha = x.sha /\ cmds'[c].slot = x.slot
  <2>1. PICK new : new = [x EXCEPT !.at = "pin"]
    OBVIOUS
  <2>2. /\ new.at = "pin" /\ new.slot = x.slot /\ new.lock = x.lock /\ new.tree = x.tree
        /\ new.sha = x.sha /\ new.built = x.built /\ new.op = x.op
    BY <2>1 DEF Progress
  <2>3. new \in Progress
    BY <2>1 DEF Progress, Stations
  <2>4. x.at = "build"
    BY <1>1, <1>4 DEF Step
  <2>5. Fit(new)
    BY <1>1, <2>2, <2>4 DEF Fit, Ensuring
  <2>6. Moved(c) /\ cmds'[c] = new
    BY <1>4, <2>1, <2>3, <2>5, MoveTo
  <2>. QED
    BY <2>2, <2>4, <2>6
<1>. QED
  BY <1>1, <1>2, <1>3, <1>4

LEMMA PinMoves ==
  ASSUME BaselineTypeOK, Equipped, NEW c \in Commands, cmds[c].at = "pin",
         Step(c, "pin", AfterPin(c))
  PROVE  Moved(c) /\ cmds'[c].at \in {"launch", "release"}
<1>1. PICK x \in Progress : x = cmds[c] /\ Fit(x) /\ x.at = "pin"
  BY Known
<1>2. x.slot \in Slots /\ x.tree \in Checkouts /\ x.op = "up"
  BY <1>1 DEF Fit, Ensuring
<1>3. PICK rest \in Progress : rest = [x EXCEPT !.lock = Nobody, !.sha = Nobody, !.built = FALSE]
  <2>1. PICK y \in Progress : y = [x EXCEPT !.lock = Nobody, !.sha = Nobody]
    BY DEF Progress
  <2>2. [y EXCEPT !.built = FALSE] \in Progress
    BY DEF Progress
  <2>. QED
    BY <2>1, <2>2
<1>4. /\ rest.slot = x.slot /\ rest.tree = x.tree /\ rest.op = "up" /\ rest.built = FALSE
      /\ rest.prev = x.prev
  BY <1>2, <1>3 DEF Progress
<1>5. ASSUME NEW new, new = [rest EXCEPT !.at = "launch", !.prev = Nobody]
      PROVE  new \in Progress /\ Fit(new) /\ new.at = "launch"
  <2>1. /\ new.slot = x.slot /\ new.op = "up" /\ new.built = FALSE /\ new.at = "launch"
    BY <1>4, <1>5 DEF Progress
  <2>2. new \in Progress
    BY <1>5 DEF Progress, Stations
  <2>. QED
    BY <1>2, <2>1, <2>2 DEF Fit, Ensuring
<1>6. ASSUME NEW new, new = [rest EXCEPT !.at = "release"], x.prev \in Slots
      PROVE  new \in Progress /\ Fit(new) /\ new.at = "release"
  <2>1. /\ new.slot = x.slot /\ new.op = "up" /\ new.built = FALSE /\ new.at = "release"
        /\ new.tree = x.tree /\ new.prev = x.prev
    BY <1>4, <1>6 DEF Progress
  <2>2. new \in Progress
    BY <1>6 DEF Progress, Stations
  <2>. QED
    BY <1>2, <1>6, <2>1, <2>2 DEF Fit, Ensuring
<1>7. x.prev \in Slots \cup {Nobody}
  BY DEF Progress
<1>8. \/ AfterPin(c) = [rest EXCEPT !.at = "launch", !.prev = Nobody]
      \/ x.prev \in Slots /\ AfterPin(c) = [rest EXCEPT !.at = "release"]
  BY <1>1, <1>3, <1>7 DEF AfterPin
<1>9. AfterPin(c) \in Progress /\ Fit(AfterPin(c)) /\ AfterPin(c).at \in {"launch", "release"}
  BY <1>5, <1>6, <1>8
<1>. QED
  BY <1>9, MoveTo

LEMMA ReleaseMoves ==
  ASSUME BaselineTypeOK, Equipped, NEW c \in Commands, cmds[c].at \in {"release", "stop"},
         Step(c, cmds[c].at, AfterRelease(c))
  PROVE  Moved(c) /\ cmds'[c].at \in {"launch", "remove", "done"}
<1>1. PICK x \in Progress : x = cmds[c] /\ Fit(x) /\ x.at \in {"release", "stop"}
  BY Known
<1>2. /\ x.op \in {"up", "end", "down"} /\ x.tree \in Checkouts
      /\ x.op = "up" => x.slot \in Slots
      /\ x.built = FALSE
  <2>1. x.built \in BOOLEAN
    BY DEF Progress
  <2>. QED
    BY <1>1, <2>1 DEF Fit
<1>3. PICK rest \in Progress : rest = [x EXCEPT !.lock = Nobody, !.rows = {}]
  BY DEF Progress
<1>4. rest.slot = x.slot /\ rest.tree = x.tree /\ rest.op = x.op /\ rest.built = FALSE
  BY <1>2, <1>3 DEF Progress
<1>5. ASSUME NEW new, new = [rest EXCEPT !.at = "launch", !.prev = Nobody], x.op = "up"
      PROVE  new \in Progress /\ Fit(new) /\ new.at = "launch"
  <2>1. new.slot = x.slot /\ new.op = "up" /\ new.built = FALSE /\ new.at = "launch"
    BY <1>4, <1>5 DEF Progress
  <2>2. new \in Progress
    BY <1>5 DEF Progress, Stations
  <2>. QED
    BY <1>2, <1>5, <2>1, <2>2 DEF Fit, Ensuring
<1>6. ASSUME NEW new, new = [rest EXCEPT !.at = "remove"], x.op = "end"
      PROVE  new \in Progress /\ Fit(new) /\ new.at = "remove"
  <2>1. new.op = "end" /\ new.built = FALSE /\ new.at = "remove" /\ new.tree = x.tree
    BY <1>4, <1>6 DEF Progress
  <2>2. new \in Progress
    BY <1>6 DEF Progress, Stations
  <2>. QED
    BY <1>2, <2>1, <2>2 DEF Fit, Ensuring
<1>7. /\ x.op = "up" => AfterRelease(c) = [rest EXCEPT !.at = "launch", !.prev = Nobody]
      /\ x.op = "end" => AfterRelease(c) = [rest EXCEPT !.at = "remove"]
      /\ x.op = "down" => AfterRelease(c) = Over
  BY <1>1, <1>3 DEF AfterRelease
<1>8. /\ AfterRelease(c) \in Progress /\ Fit(AfterRelease(c))
      /\ AfterRelease(c).at \in {"launch", "remove", "done"}
  BY <1>2, <1>5, <1>6, <1>7, OverIsFit
<1>. QED
  BY <1>8, MoveTo

LEMMA StopMoves ==
  ASSUME BaselineTypeOK, Equipped, NEW c \in Commands, NEW rows \in SUBSET Servers,
         Step(c, "release", [cmds[c] EXCEPT !.at = "stop", !.lock = cmds[c].prev, !.rows = rows])
  PROVE  /\ Moved(c) /\ cmds[c].at = "release" /\ cmds'[c].at = "stop"
         /\ cmds[c].prev \in Slots /\ cmds'[c].lock = cmds[c].prev
         /\ cmds'[c].prev = cmds[c].prev
         /\ cmds'[c].rows = rows /\ cmds'[c].tree = cmds[c].tree
<1>1. PICK x \in Progress : x = cmds[c] /\ Fit(x) /\ x.at = "release"
  BY Known DEF Step
<1>2. /\ x.op \in {"up", "end", "down"} /\ x.tree \in Checkouts /\ x.prev \in Slots
      /\ x.op = "up" => x.slot \in Slots
      /\ x.built = FALSE
  <2>1. x.built \in BOOLEAN
    BY DEF Progress
  <2>. QED
    BY <1>1, <2>1 DEF Fit
<1>3. PICK new : new = [x EXCEPT !.at = "stop", !.lock = x.prev, !.rows = rows]
  OBVIOUS
<1>4. /\ new.at = "stop" /\ new.op = x.op /\ new.tree = x.tree /\ new.slot = x.slot
      /\ new.built = x.built /\ new.lock = x.prev /\ new.prev = x.prev /\ new.rows = rows
  BY <1>3 DEF Progress
<1>5. new \in Progress
  BY <1>2, <1>3 DEF Progress, Stations
<1>6. Fit(new)
  BY <1>2, <1>4 DEF Fit, Ensuring
<1>7. Moved(c) /\ cmds'[c] = new
  BY <1>1, <1>3, <1>5, <1>6, MoveTo
<1>. QED
  BY <1>1, <1>2, <1>4, <1>7

LEMMA RemoveMoves ==
  ASSUME BaselineTypeOK, Equipped, NEW c \in Commands, RemoveCheckout(c)
  PROVE  Moved(c) /\ cmds[c].at = "remove" /\ cmds'[c].at \in {"done", "snapshot"}
<1>1. PICK x \in Progress : x = cmds[c] /\ Fit(x) /\ x.at = "remove"
  BY Known DEF RemoveCheckout
<1>2. x.op = "end" /\ x.built = FALSE /\ x.prev \in Slots \cup {Nobody}
  <2>1. x.built \in BOOLEAN /\ x.prev \in Slots \cup {Nobody}
    BY DEF Progress
  <2>. QED
    BY <1>1, <2>1 DEF Fit
<1>3. ASSUME NEW new, new = [x EXCEPT !.at = "snapshot"], x.prev # Nobody
      PROVE  new \in Progress /\ Fit(new) /\ new.at = "snapshot"
  <2>1. new.op = "end" /\ new.built = FALSE /\ new.prev = x.prev /\ new.at = "snapshot"
    BY <1>2, <1>3 DEF Progress
  <2>2. new \in Progress
    BY <1>3 DEF Progress, Stations
  <2>. QED
    BY <1>2, <1>3, <2>1, <2>2 DEF Fit, Ensuring
<1>4. \/ Step(c, "remove", Over)
      \/ x.prev # Nobody /\ Step(c, "remove", [x EXCEPT !.at = "snapshot"])
  BY <1>1 DEF RemoveCheckout
<1>. QED
  BY <1>1, <1>3, <1>4, MoveTo, MoveOver

LEMMA SweepMoves ==
  ASSUME BaselineTypeOK, Equipped, NEW c \in Commands,
         \/ SnapshotRows(c) \/ SweepLock(c) \/ SweepEnds(c)
         \/ \E p \in Slots : SweepNext(c, p)
  PROVE  /\ Moved(c) /\ cmds[c].at \in {"snapshot", "dir", "sweep"}
         /\ cmds'[c].at \in {"dir", "sweep", "wait", "done"}
<1>1. PICK x \in Progress : x = cmds[c] /\ Fit(x)
  BY Known
<1>2. CASE SnapshotRows(c)
  <2>1. PICK new : new = [x EXCEPT !.at = "dir", !.rows = RowsNow]
    OBVIOUS
  <2>2. RowsNow \in SUBSET Servers
    BY DEF RowsNow, BaselineTypeOK
  <2>3. x.at = "snapshot"
    BY <1>1, <1>2 DEF SnapshotRows, Step
  <2>4. new.at = "dir" /\ new.op = x.op /\ new.prev = x.prev /\ new.built = x.built
    BY <2>1 DEF Progress
  <2>5. new \in Progress
    BY <2>1, <2>2 DEF Progress, Stations
  <2>6. Fit(new)
    BY <1>1, <2>3, <2>4 DEF Fit, Ensuring
  <2>7. Step(c, "snapshot", new)
    BY <1>1, <1>2, <2>1 DEF SnapshotRows
  <2>. QED
    BY <2>4, <2>5, <2>6, <2>7, MoveTo
<1>3. CASE SweepLock(c)
  <2>1. PICK found : found = IF cmds[c].op = "end" THEN {cmds[c].prev}
                             ELSE {p \in Slots : trees[p] # "none"}
    OBVIOUS
  <2>2. PICK held : held = {p \in found : ~Unreferenced(p)}
    OBVIOUS
  <2>3. PICK new : new = [x EXCEPT !.at = "sweep", !.queue = found, !.held = held]
    OBVIOUS
  <2>4. Step(c, "dir", new) /\ x.at = "dir"
    BY <1>1, <1>3, <2>1, <2>2, <2>3 DEF SweepLock, Step
  <2>5. found \in SUBSET Slots /\ held \in SUBSET Slots
    BY <1>1, <2>1, <2>2, <2>4 DEF Fit
  <2>6. new.at = "sweep" /\ new.built = x.built
    BY <2>3 DEF Progress
  <2>7. new \in Progress
    BY <2>3, <2>5 DEF Progress, Stations
  <2>8. Fit(new)
    BY <1>1, <2>4, <2>6 DEF Fit, Ensuring
  <2>. QED
    BY <2>4, <2>6, <2>7, <2>8, MoveTo
<1>4. CASE SweepEnds(c)
  BY <1>4, MoveOver DEF SweepEnds
<1>5. ASSUME NEW p \in Slots, SweepNext(c, p)
      PROVE  /\ Moved(c) /\ cmds[c].at = "sweep" /\ cmds'[c].at \in {"sweep", "wait"}
  <2>1. PICK at \in {"sweep", "wait"}, q \in Slots \cup {Nobody} :
          /\ at = IF SkippedUnmarked(c, p) THEN "sweep" ELSE "wait"
          /\ q = IF SkippedUnmarked(c, p) THEN Nobody ELSE p
    OBVIOUS
  <2>2. PICK new : new = [x EXCEPT !.queue = @ \ {p}, !.at = at, !.slot = q]
    OBVIOUS
  <2>3. Step(c, "sweep", new) /\ x.at = "sweep"
    BY <1>1, <1>5, <2>1, <2>2 DEF SweepNext, Step
  <2>4. new.at = at /\ new.slot = q /\ new.built = x.built
    BY <2>2 DEF Progress
  <2>5. new \in Progress
    <3>1. PICK queue \in SUBSET Slots : queue = x.queue \ {p}
      BY DEF Progress
    <3>2. new = [x EXCEPT !.queue = queue, !.at = at, !.slot = q]
      BY <2>2, <3>1
    <3>. QED
      BY <3>2 DEF Progress, Stations
  <2>6. Fit(new)
    BY <1>1, <2>1, <2>3, <2>4 DEF Fit, Ensuring
  <2>. QED
    BY <2>3, <2>4, <2>5, <2>6, MoveTo
<1>. QED
  BY <1>2, <1>3, <1>4, <1>5

LEMMA SweptMoves ==
  ASSUME BaselineTypeOK, Equipped, NEW c \in Commands, cmds[c].at \in {"wait", "reclaim"},
         Step(c, cmds[c].at, Swept(c))
  PROVE  Moved(c) /\ cmds'[c].at = "sweep"
<1>1. PICK x \in Progress : x = cmds[c] /\ Fit(x)
  BY Known
<1>2. PICK new : new = [x EXCEPT !.at = "sweep", !.slot = Nobody, !.lock = Nobody]
  OBVIOUS
<1>3. new.at = "sweep" /\ new.built = x.built
  BY <1>2 DEF Progress
<1>4. new \in Progress
  BY <1>2 DEF Progress, Stations
<1>5. Fit(new)
  BY <1>1, <1>3 DEF Fit, Ensuring
<1>6. Step(c, cmds[c].at, new)
  BY <1>1, <1>2 DEF Swept
<1>. QED
  BY <1>3, <1>4, <1>5, <1>6, MoveTo

LEMMA DecideMoves ==
  ASSUME BaselineTypeOK, Equipped, NEW c \in Commands, Decide(c)
  PROVE  /\ Moved(c) /\ cmds[c].at = "wait"
         /\ cmds[c].slot \in Slots /\ slotLocks[cmds[c].slot] = Nobody
         /\ \/ /\ cmds'[c].at = "sweep"
               /\ UNCHANGED slotLocks
            \/ /\ cmds'[c].at = "reclaim" /\ Unreferenced(cmds[c].slot)
               /\ cmds'[c].slot = cmds[c].slot /\ cmds'[c].lock = cmds[c].slot
               /\ slotLocks' = [slotLocks EXCEPT ![cmds[c].slot] = c]
<1>1. PICK x \in Progress : x = cmds[c] /\ Fit(x) /\ x.at = "wait"
  BY Known DEF Decide
<1>2. x.slot \in Slots
  BY <1>1 DEF Fit
<1>3. ASSUME Step(c, "wait", [x EXCEPT !.at = "reclaim", !.lock = x.slot])
      PROVE  Moved(c) /\ cmds'[c].at = "reclaim" /\ cmds'[c].slot = x.slot /\ cmds'[c].lock = x.slot
  <2>1. PICK new : new = [x EXCEPT !.at = "reclaim", !.lock = x.slot]
    OBVIOUS
  <2>2. new.at = "reclaim" /\ new.slot = x.slot /\ new.lock = x.slot /\ new.built = x.built
    BY <2>1 DEF Progress
  <2>3. new \in Progress
    BY <1>2, <2>1 DEF Progress, Stations
  <2>4. Fit(new)
    BY <1>1, <1>2, <2>2 DEF Fit, Ensuring
  <2>. QED
    <3>1. Step(c, "wait", new)
      BY <1>3, <2>1
    <3>2. Moved(c) /\ cmds'[c] = new
      BY <2>3, <2>4, <3>1, MoveTo
    <3>. QED
      BY <2>2, <3>2
<1>4. \/ Step(c, "wait", Swept(c)) /\ UNCHANGED slotLocks
      \/ /\ Step(c, "wait", [x EXCEPT !.at = "reclaim", !.lock = x.slot])
         /\ Unreferenced(x.slot) /\ slotLocks' = [slotLocks EXCEPT ![x.slot] = c]
  BY <1>1 DEF Decide, StillUnreferenced
<1>5. slotLocks[x.slot] = Nobody
  BY <1>1 DEF Decide
<1>. QED
  BY <1>1, <1>2, <1>3, <1>4, <1>5, SweptMoves

(* A kill leaves nothing of a command, or the git it was waiting for.      *)
LEMMA KillMoves ==
  ASSUME BaselineTypeOK, Equipped, NEW c \in Commands, Kill(c)
  PROVE  /\ Moved(c) /\ Active(c) /\ cmds[c].at # "done"
         /\ \/ cmds'[c].at = "done" /\ UNCHANGED broken
            \/ /\ \/ cmds[c].at \in {"create", "clear", "reclaim"}
                  \/ cmds[c].at = "build" /\ cmds[c].built
               /\ cmds'[c].at \in {"adding", "removing"}
               /\ cmds'[c].slot = cmds[c].slot /\ cmds[c].slot \in Slots
               /\ broken' = broken \cup {cmds[c].slot}
<1>1. Active(c) /\ cmds[c].at # "done" /\ Fit(cmds[c])
  BY Known DEF Kill, Active
<1>2. CASE cmds' = [cmds EXCEPT ![c] = Over] /\ UNCHANGED broken
  <2>1. Step(c, cmds[c].at, Over)
    BY <1>2 DEF Step
  <2>. QED
    BY <1>1, <1>2, <2>1, MoveOver
<1>3. CASE /\ GitAt(c) \in Outlived
           /\ cmds' = [cmds EXCEPT ![c] = [Over EXCEPT !.at = GitAt(c), !.slot = cmds[c].slot]]
           /\ broken' = broken \cup {cmds[c].slot}
  <2>1. cmds[c].at \in {"create", "clear", "reclaim"} \/ (cmds[c].at = "build" /\ cmds[c].built)
    BY <1>3 DEF GitAt, Outlived
  <2>2. cmds[c].slot \in Slots
    BY <1>1, <2>1 DEF Fit, Ensuring
  <2>3. PICK at \in {"adding", "removing"}, p \in Slots : at = GitAt(c) /\ p = cmds[c].slot
    BY <1>3, <2>2 DEF Outlived
  <2>4. PICK new : new = [Over EXCEPT !.at = at, !.slot = p]
    OBVIOUS
  <2>5. new.at = at /\ new.slot = p /\ new.built = FALSE
    BY <2>4 DEF Over, Idle
  <2>6. new \in Progress
    BY <2>4, OverIsFit DEF Progress, Stations
  <2>7. Fit(new)
    BY <2>5 DEF Fit, Ensuring
  <2>8. Step(c, cmds[c].at, new)
    BY <1>3, <2>3, <2>4 DEF Step
  <2>9. Moved(c) /\ cmds'[c] = new
    BY <2>6, <2>7, <2>8, MoveTo
  <2>. QED
    BY <1>1, <1>3, <2>1, <2>2, <2>3, <2>5, <2>9
<1>. QED
  BY <1>2, <1>3 DEF Kill

(* The git of a killed command goes on, or is done.                        *)
LEMMA GitMoves ==
  ASSUME BaselineTypeOK, Equipped, NEW c \in Commands, GitGoesOn(c)
  PROVE  /\ Moved(c) /\ cmds[c].at \in {"adding", "removing"} /\ cmds[c].slot \in Slots
         /\ cmds'[c] = cmds[c] \/ cmds'[c].at = "done"
<1>1. cmds[c] \in Progress /\ Fit(cmds[c]) /\ cmds[c].at \in {"adding", "removing"}
  BY Known DEF GitGoesOn, Outlived
<1>2. PICK new \in {cmds[c], Over} : Step(c, cmds[c].at, new)
  BY DEF GitGoesOn
<1>3. Moved(c) /\ cmds'[c] = new
  BY <1>1, <1>2, MoveTo, OverIsFit
<1>. QED
  BY <1>1, <1>2, <1>3, OverIsFit DEF Fit

-----------------------------------------------------------------------------
(* Types.                                                                  *)

LEMMA MovedIsEquipped ==
  ASSUME Equipped, NEW c \in Commands, Moved(c)
  PROVE  Equipped'
  BY DEF Equipped, Moved

LEMMA TypeStep ==
  ASSUME BaselineTypeOK, HoldsLock, Equipped, [BaselineNext]_baselineVars
  PROVE  BaselineTypeOK' /\ Equipped'
<1> USE Constants
<1>1. ASSUME NEW c \in Commands, Moved(c), trees' \in [Slots -> TreeStates],
             records' \in [Checkouts -> Records], servers' \in [Servers -> Slots \cup {Nobody}],
             dirLock' \in Commands \cup {Nobody},
             slotLocks' \in [Slots -> Commands \cup {Nobody}],
             UNCHANGED forks, events' \in Nat, strayed' \subseteq Slots, broken' \subseteq Slots
      PROVE  BaselineTypeOK' /\ Equipped'
  BY <1>1, MovedIsEquipped DEF Moved, BaselineTypeOK
<1>2. ASSUME NEW c \in Commands, Moved(c), cmds[c].at \in Locking, Unlock(c)
      PROVE  slotLocks' \in [Slots -> Commands \cup {Nobody}]
  BY <1>2 DEF Unlock, HoldsLock, Holds, BaselineTypeOK
<1>3. ASSUME NEW c \in Commands, Begin(c)
      PROVE  BaselineTypeOK' /\ Equipped'
  <2>1. Moved(c)
    BY <1>3, BeginMoves
  <2>2. UNCHANGED <<trees, records, forks, servers, dirLock, slotLocks, events, strayed, broken>>
    BY <1>3 DEF Begin, BeginUp, BeginEnd, BeginDown, BeginPrune, history
  <2>. QED
    BY <1>1, <2>1, <2>2 DEF BaselineTypeOK
<1>4. ASSUME NEW c \in Commands, Resolve(c)
      PROVE  BaselineTypeOK' /\ Equipped'
  <2>1. UNCHANGED <<trees, records, forks, servers, dirLock, events, broken>>
    BY <1>4 DEF Resolve
  <2>2. slotLocks' \in [Slots -> Commands \cup {Nobody}] /\ strayed' \subseteq Slots /\ Moved(c)
    BY <1>4, ResolveMoves DEF BaselineTypeOK
  <2>. QED
    BY <1>1, <2>1, <2>2 DEF BaselineTypeOK
<1>5. ASSUME NEW c \in Commands, EnsureFails(c), cmds[c].at \in Ensuring,
             \E v \in TreeStates : trees' \in {trees, [trees EXCEPT ![cmds[c].slot] = v]}
      PROVE  BaselineTypeOK' /\ Equipped'
  <2>1. Moved(c)
    BY <1>5, MoveOver DEF EnsureFails
  <2>2. trees' \in [Slots -> TreeStates]
    BY <1>5 DEF BaselineTypeOK
  <2>3. UNCHANGED <<records, forks, servers, dirLock, events, strayed, broken>> /\ Unlock(c)
    BY <1>5 DEF EnsureFails, history
  <2>4. slotLocks' \in [Slots -> Commands \cup {Nobody}]
    BY <1>2, <1>5, <2>1, <2>3 DEF Locking
  <2>. QED
    BY <1>1, <2>1, <2>2, <2>3, <2>4 DEF BaselineTypeOK
<1>6. ASSUME NEW c \in Commands, Clear(c) \/ Create(c) \/ Build(c)
      PROVE  BaselineTypeOK' /\ Equipped'
  <2>1. /\ cmds[c].at \in Ensuring /\ cmds[c].sha \in Shas
        /\ cmds[c].slot \in Slots /\ trees[cmds[c].slot] \in TreeStates
    BY <1>6, Known DEF Clear, Create, Build, Step, Fit, Ensuring, BaselineTypeOK
  <2>2. CASE /\ EnsureFails(c)
             /\ \E v \in TreeStates : trees' \in {trees, [trees EXCEPT ![cmds[c].slot] = v]}
    BY <1>5, <2>1, <2>2
  <2>3. CASE /\ \/ Step(c, "clear", [cmds[c] EXCEPT !.at = "create"])
                \/ Step(c, "create", [cmds[c] EXCEPT !.at = "build", !.built = TRUE])
                \/ Step(c, "build", [cmds[c] EXCEPT !.at = "pin"])
             /\ \E v \in TreeStates : trees' = [trees EXCEPT ![cmds[c].slot] = v]
             /\ UNCHANGED <<records, forks, servers, dirLock, slotLocks, events, strayed>>
             /\ broken' \subseteq broken
    <3>1. Moved(c)
      BY <2>3, EnsureMoves
    <3>2. trees' \in [Slots -> TreeStates]
      BY <2>1, <2>3 DEF BaselineTypeOK
    <3>. QED
      BY <1>1, <2>3, <3>1, <3>2 DEF BaselineTypeOK
  <2>4. /\ {"none", "unmarked", cmds[c].sha} \subseteq TreeStates
        /\ \A doing : Unfinished(doing, trees[cmds[c].slot]) \subseteq TreeStates
    BY <2>1 DEF Unfinished, TreeStates
  <2>5. CASE Clear(c)
    BY <2>3, <2>4, <2>5 DEF Clear, history
  <2>6. CASE Create(c)
    BY <2>2, <2>3, <2>4, <2>6 DEF Create, Heal
  <2>7. CASE Build(c)
    BY <2>2, <2>3, <2>4, <2>7 DEF Build, history
  <2>. QED
    BY <1>6, <2>5, <2>6, <2>7
<1>7. ASSUME NEW c \in Commands, WritePin(c)
      PROVE  BaselineTypeOK' /\ Equipped'
  <2>1. /\ cmds[c].at = "pin" /\ cmds[c].at \in Ensuring /\ cmds[c].at \in Locking
        /\ cmds[c].slot \in Slots /\ cmds[c].sha \in Shas /\ cmds[c].tree \in Checkouts
    BY <1>7, Known DEF WritePin, Fit, Ensuring, Locking
  <2>2. CASE EnsureFails(c) /\ UNCHANGED trees
    BY <1>5, <2>1, <2>2 DEF TreeStates
  <2>3. CASE /\ records' = [records EXCEPT ![cmds[c].tree] = Pin(cmds[c].sha, cmds[c].slot)]
             /\ Step(c, "pin", AfterPin(c)) /\ Unlock(c)
             /\ UNCHANGED <<trees, forks, servers, dirLock, events, history>>
    <3>1. Moved(c)
      BY <2>1, <2>3, PinMoves
    <3>2. Pin(cmds[c].sha, cmds[c].slot) \in Records
      BY <2>1 DEF Pin, Records
    <3>3. records' \in [Checkouts -> Records]
      BY <2>3, <3>2 DEF BaselineTypeOK
    <3>4. slotLocks' \in [Slots -> Commands \cup {Nobody}]
      BY <1>2, <2>1, <2>3, <3>1
    <3>. QED
      BY <1>1, <2>3, <3>1, <3>3, <3>4 DEF BaselineTypeOK, history
  <2>. QED
    BY <1>7, <2>2, <2>3 DEF WritePin
<1>8. ASSUME NEW c \in Commands, ReleaseScan(c)
      PROVE  BaselineTypeOK' /\ Equipped'
  <2>1. /\ cmds[c].at = "release"
        /\ UNCHANGED <<trees, records, forks, servers, dirLock, events, strayed, broken>>
    BY <1>8 DEF ReleaseScan, history
  <2>2. CASE Step(c, "release", AfterRelease(c)) /\ UNCHANGED slotLocks
    BY <1>1, <2>1, <2>2, ReleaseMoves DEF BaselineTypeOK
  <2>3. ASSUME NEW rows \in SUBSET Servers,
               Step(c, "release", [cmds[c] EXCEPT !.at = "stop", !.lock = cmds[c].prev,
                                                  !.rows = rows]),
               slotLocks' = [slotLocks EXCEPT ![cmds[c].prev] = c]
        PROVE  BaselineTypeOK' /\ Equipped'
    <3>1. Moved(c) /\ cmds[c].prev \in Slots
      BY <2>3, StopMoves
    <3>2. slotLocks' \in [Slots -> Commands \cup {Nobody}]
      BY <2>3, <3>1 DEF BaselineTypeOK
    <3>. QED
      BY <1>1, <2>1, <3>1, <3>2 DEF BaselineTypeOK
  <2>4. ServersIn(cmds[c].prev) \in SUBSET Servers
    BY DEF ServersIn, Servers
  <2>. QED
    BY <1>8, <2>2, <2>3, <2>4 DEF ReleaseScan
<1>9. ASSUME NEW c \in Commands, StopServers(c)
      PROVE  BaselineTypeOK' /\ Equipped'
  <2>1. cmds[c].at = "stop" /\ cmds[c].at \in Locking
    BY <1>9 DEF StopServers, Step, Locking
  <2>2. Moved(c)
    BY <1>9, <2>1, ReleaseMoves DEF StopServers
  <2>3. servers' \in [Servers -> Slots \cup {Nobody}]
    BY <1>9 DEF StopServers, BaselineTypeOK
  <2>4. slotLocks' \in [Slots -> Commands \cup {Nobody}]
    BY <1>2, <1>9, <2>1, <2>2 DEF StopServers
  <2>. QED
    BY <1>1, <1>9, <2>2, <2>3, <2>4 DEF StopServers, BaselineTypeOK
<1>10. ASSUME NEW c \in Commands, LaunchServers(c)
       PROVE  BaselineTypeOK' /\ Equipped'
  <2>1. Moved(c) /\ cmds[c].at = "launch"
    BY <1>10, MoveOver DEF LaunchServers
  <2>2. cmds[c].slot \in Slots
    BY <2>1, Known DEF Fit
  <2>3. servers' \in [Servers -> Slots \cup {Nobody}]
    BY <1>10, <2>2 DEF LaunchServers, BaselineTypeOK, Servers
  <2>. QED
    BY <1>1, <1>10, <2>1, <2>3 DEF LaunchServers, BaselineTypeOK, history
<1>11. ASSUME NEW c \in Commands, RemoveCheckout(c)
       PROVE  BaselineTypeOK' /\ Equipped'
  <2>1. Moved(c)
    BY <1>11, RemoveMoves
  <2>2. records' \in [Checkouts -> Records]
    BY <1>11 DEF RemoveCheckout, BaselineTypeOK, Unpinned, Records
  <2>. QED
    BY <1>1, <1>11, <2>1, <2>2 DEF RemoveCheckout, BaselineTypeOK, history
<1>12. ASSUME NEW c \in Commands,
              \/ SnapshotRows(c) \/ SweepLock(c) \/ SweepEnds(c)
              \/ \E p \in Slots : SweepNext(c, p)
       PROVE  BaselineTypeOK' /\ Equipped'
  <2>1. Moved(c)
    BY <1>12, SweepMoves
  <2>2. /\ UNCHANGED <<trees, records, forks, servers, slotLocks, events, strayed, broken>>
        /\ dirLock' \in Commands \cup {Nobody}
    BY <1>12 DEF SnapshotRows, SweepLock, SweepEnds, SweepNext, BaselineTypeOK, history
  <2>. QED
    BY <1>1, <2>1, <2>2 DEF BaselineTypeOK
<1>13. ASSUME NEW c \in Commands, Decide(c)
       PROVE  BaselineTypeOK' /\ Equipped'
  <2>1. Moved(c) /\ slotLocks' \in [Slots -> Commands \cup {Nobody}]
    BY <1>13, DecideMoves DEF BaselineTypeOK
  <2>. QED
    BY <1>1, <1>13, <2>1 DEF Decide, BaselineTypeOK, history
<1>14. ASSUME NEW c \in Commands, Reclaim(c)
       PROVE  BaselineTypeOK' /\ Equipped'
  <2>1. cmds[c].at = "reclaim" /\ cmds[c].at \in Locking
    BY <1>14 DEF Reclaim, Step, Locking
  <2>2. Moved(c)
    BY <1>14, <2>1, SweptMoves DEF Reclaim
  <2>3. /\ cmds[c].slot \in Slots
        /\ \A t \in {"none"} \cup Unfinished("removing", trees[cmds[c].slot]) : t \in TreeStates
    BY <2>1, Known DEF Fit, BaselineTypeOK, Unfinished, TreeStates
  <2>4. /\ trees' \in [Slots -> TreeStates] /\ events' \in Nat /\ broken' \subseteq Slots
    <3>1. trees' = trees \/ \E t \in TreeStates : trees' = [trees EXCEPT ![cmds[c].slot] = t]
      BY <1>14, <2>3 DEF Reclaim
    <3>2. events' \in {events, events + 1} /\ broken' \in {broken, broken \cup {cmds[c].slot}}
      BY <1>14 DEF Reclaim, Happens
    <3>. QED
      BY <2>3, <3>1, <3>2 DEF BaselineTypeOK
  <2>5. slotLocks' \in [Slots -> Commands \cup {Nobody}]
    BY <1>2, <1>14, <2>1, <2>2 DEF Reclaim
  <2>6. UNCHANGED <<records, forks, servers, dirLock, strayed>>
    BY <1>14 DEF Reclaim
  <2>. QED
    BY <1>1, <2>2, <2>4, <2>5, <2>6 DEF BaselineTypeOK
<1>15. ASSUME NEW c \in Commands, Kill(c)
       PROVE  BaselineTypeOK' /\ Equipped'
  <2>1. Moved(c)
    BY <1>15, KillMoves
  <2>2. broken' \subseteq Slots
    BY <1>15, KillMoves DEF Kill, BaselineTypeOK
  <2>. QED
    BY <1>1, <1>15, <2>1, <2>2 DEF Kill, Happens, BaselineTypeOK
<1>16. ASSUME NEW w \in Checkouts, DamageRecord(w) \/ \E s \in Shas : Rebase(w, s)
       PROVE  BaselineTypeOK' /\ Equipped'
  <2>1. Unpinned("unreadable") \in Records
    BY DEF Unpinned, Records
  <2>2. records' \in [Checkouts -> Records] /\ forks' \in [Checkouts -> Shas] /\ events' \in Nat
    <3>1. CASE DamageRecord(w)
      BY <2>1, <3>1 DEF DamageRecord, Happens, BaselineTypeOK
    <3>2. ASSUME NEW s \in Shas, Rebase(w, s)
          PROVE  UNCHANGED records /\ forks' \in [Checkouts -> Shas] /\ events' \in Nat
      BY <3>2 DEF Rebase, Happens, BaselineTypeOK
    <3>. QED
      BY <1>16, <3>1, <3>2 DEF BaselineTypeOK
  <2>3. UNCHANGED <<trees, servers, dirLock, slotLocks, cmds, strayed, broken>>
    BY <1>16 DEF DamageRecord, Rebase, history
  <2>. QED
    BY <2>2, <2>3 DEF BaselineTypeOK, Equipped
<1>17. ASSUME NEW p \in Slots, NEW how \in {"corrupt", "blocked"}, DamageMarker(p, how)
       PROVE  BaselineTypeOK' /\ Equipped'
  BY <1>17 DEF DamageMarker, Happens, BaselineTypeOK, Equipped, TreeStates
<1>18. ASSUME UNCHANGED baselineVars
       PROVE  BaselineTypeOK' /\ Equipped'
  BY <1>18 DEF baselineVars, BaselineTypeOK, Equipped
<1>19. ASSUME NEW c \in Commands, GitGoesOn(c)
       PROVE  BaselineTypeOK' /\ Equipped'
  <2>1. Moved(c) /\ cmds[c].slot \in Slots
    BY <1>19, GitMoves
  <2>2. PICK t \in TreeStates : trees' = [trees EXCEPT ![cmds[c].slot] = t]
    BY <1>19, <2>1 DEF GitGoesOn, Unfinished, TreeStates, BaselineTypeOK
  <2>. QED
    BY <1>1, <1>19, <2>1, <2>2 DEF GitGoesOn, BaselineTypeOK, history
<1>. QED
  BY <1>3, <1>4, <1>6, <1>7, <1>8, <1>9, <1>10, <1>11, <1>12, <1>13, <1>14, <1>15, <1>16,
     <1>17, <1>18, <1>19 DEF BaselineNext, Goes, AllDone

-----------------------------------------------------------------------------
(* Safety.  A slot lock excludes: what a command does to a slot, it does   *)
(* while it holds the slot's lock, or the slot counts as strayed.          *)

(* A step of c leaves alone what others hold.                              *)
Leaves(c) ==
  /\ Moved(c) /\ cmds[c].at # "done"
  /\ \A p \in Slots : slotLocks[p] \in Commands \ {c} => slotLocks'[p] = slotLocks[p]
  /\ strayed \subseteq strayed'
  /\ \A p \in Slots \ strayed' : slotLocks[p] \in Commands \ {c} =>
       trees'[p] = trees[p] /\ (p \in broken' <=> p \in broken)
  /\ \A d \in Commands : cmds[d].at \in {"adding", "removing"} /\ cmds[d].slot \in broken =>
       cmds[d].slot \in broken'
  /\ \A w \in Checkouts :
       \/ records'[w] = records[w]
       \/ records'[w].slot = Nobody
       \/ records'[w].slot \in strayed'
       \/ slotLocks[records'[w].slot] = c
  /\ \A s \in Servers : \/ servers'[s] \in {servers[s], Nobody}
                        \/ s = c

(* What c owes: its own parts of the invariant, and finished trees.        *)
Keeps(c) ==
  /\ Holds(c)' /\ Works(c)' /\ Stops(c)'
  /\ servers'[c] # Nobody => cmds'[c].at = "done"
  /\ PinnedIsComplete'

LEMMA OthersKeep ==
  ASSUME IInv, NEW c \in Commands, Leaves(c), Keeps(c), BaselineTypeOK', Equipped'
  PROVE  IInv'
<1> USE Constants
<1>1. ASSUME NEW d \in Commands, d # c
      PROVE  /\ cmds'[d] = cmds[d] /\ Holds(d) /\ Works(d) /\ Stops(d) /\ Fit(cmds[d])
             /\ \A p \in Slots : slotLocks[p] = d => slotLocks'[p] = d
             /\ \A p \in Slots \ strayed' : slotLocks[p] = d =>
                  /\ trees'[p] = trees[p] /\ Naming(p)' \subseteq Naming(p)
                  /\ p \in broken' <=> p \in broken
  <2>1. cmds'[d] = cmds[d] /\ Holds(d) /\ Works(d) /\ Stops(d) /\ Fit(cmds[d])
    BY <1>1 DEF IInv, HoldsLock, SlotSafe, StopSafe, Equipped, Leaves, Moved
  <2>2. ASSUME NEW p \in Slots \ strayed', slotLocks[p] = d
        PROVE  Naming(p)' \subseteq Naming(p)
    BY <1>1, <2>2 DEF Leaves, Naming
  <2>. QED
    BY <1>1, <2>1, <2>2 DEF Leaves
<1>2. ASSUME NEW d \in Commands, d # c
      PROVE  Holds(d)'
  BY <1>1, <1>2 DEF Holds, Leaves
<1>3. ASSUME NEW d \in Commands, d # c
      PROVE  Works(d)'
  <2>1. CASE cmds[d].at \in Ensuring \cup {"reclaim"} /\ cmds[d].slot \notin strayed'
    <3>1. cmds[d].slot \in Slots \ strayed' /\ slotLocks[cmds[d].slot] = d /\ cmds'[d] = cmds[d]
      BY <1>1, <1>3, <2>1 DEF Holds, Locking, Fit, Leaves, Ensuring
    <3>2. /\ trees'[cmds[d].slot] = trees[cmds[d].slot]
          /\ Naming(cmds[d].slot)' \subseteq Naming(cmds[d].slot)
          /\ cmds[d].slot \in broken' <=> cmds[d].slot \in broken
      BY <1>1, <1>3, <3>1
    <3>3. Works(d) /\ cmds[d].slot \notin strayed
      BY <1>1, <1>3, <3>1 DEF Leaves
    <3>4. cmds'[d].at \notin {"adding", "removing"}
      BY <2>1, <3>1 DEF Ensuring
    <3>. QED
      BY <3>1, <3>2, <3>3, <3>4 DEF Works
  <2>2. CASE ~(cmds[d].at \in Ensuring \cup {"reclaim"} /\ cmds[d].slot \notin strayed')
    <3>1. cmds[d].at \in {"adding", "removing"} => cmds[d].slot \in broken'
      BY <1>1, <1>3 DEF Works, Leaves
    <3>. QED
      BY <1>1, <1>3, <2>2, <3>1 DEF Works, Ensuring
  <2>. QED
    BY <2>1, <2>2
<1>4. ASSUME NEW d \in Commands, d # c
      PROVE  Stops(d)'
  <2>1. CASE cmds[d].at = "stop"
    <3>1. cmds[d].prev \in Slots /\ slotLocks[cmds[d].prev] = d /\ cmds'[d] = cmds[d] /\ Stops(d)
      BY <1>1, <1>4, <2>1 DEF Holds, Locking
    <3>2. cmds[d].prev \notin strayed' => Naming(cmds[d].prev)' \subseteq {cmds[d].tree}
      BY <1>1, <1>4, <2>1, <3>1 DEF Stops, Leaves
    <3>3. cmds[d] \in Progress
      BY DEF IInv, BaselineTypeOK
    <3>4. cmds[d].rows \in SUBSET Servers
      BY <3>3 DEF Progress
    <3>5. ASSUME NEW s \in cmds[d].rows
          PROVE  /\ servers'[s] \in {cmds[d].prev, Nobody}
                 /\ s \in Commands => cmds'[s].at = "done"
      <4>1. servers[s] \in {cmds[d].prev, Nobody} /\ (s \in Commands => cmds[s].at = "done")
        BY <2>1, <3>1, <3>5 DEF Stops
      <4>2. s # c
        BY <4>1 DEF Leaves
      <4>. QED
        BY <3>4, <4>1, <4>2 DEF Leaves, Moved
    <3>. QED
      BY <3>1, <3>2, <3>5 DEF Stops
  <2>2. CASE cmds[d].at # "stop"
    BY <1>1, <1>4, <2>2 DEF Stops
  <2>. QED
    BY <2>1, <2>2
<1>5. ASSUME NEW d \in Commands, d # c
      PROVE  servers'[d] # Nobody => cmds'[d].at = "done"
  BY <1>1, <1>5 DEF IInv, StopSafe, Leaves, Servers
<1>6. HoldsLock' /\ SlotSafe'
  BY <1>2, <1>3 DEF Keeps, HoldsLock, SlotSafe
<1>7. StopSafe'
  BY <1>4, <1>5 DEF Keeps, StopSafe
<1>. QED
  BY <1>6, <1>7 DEF Keeps, IInv

(* At a station outside every lock a command owes nothing.                 *)
LEMMA QuietKeeps ==
  ASSUME NEW c \in Commands, cmds'[c].at \notin Owing, PinnedIsComplete',
         servers'[c] # Nobody => cmds'[c].at = "done"
  PROVE  Keeps(c)
<1>1. Holds(c)'
  BY DEF Holds, Owing, Locking, Ensuring
<1>2. Works(c)'
  BY DEF Works, Owing, Locking, Ensuring
<1>3. Stops(c)'
  BY DEF Stops, Owing, Locking
<1>. QED
  BY <1>1, <1>2, <1>3 DEF Keeps

(* Steps that touch neither a tree nor a record nor a server, and leave    *)
(* the command outside every lock.                                         *)
LEMMA QuietStep ==
  ASSUME IInv, BaselineTypeOK', Equipped', NEW c \in Commands, Moved(c), cmds[c].at # "done",
         cmds'[c].at \notin Owing, UNCHANGED <<trees, records, servers, strayed, broken>>,
         \A p \in Slots : slotLocks[p] \in Commands \ {c} => slotLocks'[p] = slotLocks[p]
  PROVE  IInv'
<1>1. Leaves(c)
  BY DEF Leaves, IInv, BaselineTypeOK
<1>2. PinnedIsComplete' /\ servers'[c] = Nobody
  BY DEF IInv, PinnedIsComplete, Pinned, StopSafe
<1>3. Keeps(c)
  BY <1>2, QuietKeeps
<1>. QED
  BY <1>1, <1>3, OthersKeep

(* Letting go of the lock one holds.                                       *)
LEMMA UnlockLeaves ==
  ASSUME IInv, NEW c \in Commands, cmds[c].at \in Locking, Unlock(c)
  PROVE  \A p \in Slots : slotLocks[p] \in Commands \ {c} => slotLocks'[p] = slotLocks[p]
  BY DEF IInv, HoldsLock, Holds, Unlock, BaselineTypeOK

(* Inside ensure a slot that has not strayed is under the command's lock.  *)
LEMMA EnsureHolds ==
  ASSUME IInv, NEW c \in Commands, cmds[c].at \in Ensuring
  PROVE  /\ cmds[c].slot \in Slots /\ cmds[c].sha \in Shas /\ cmds[c].tree \in Checkouts
         /\ cmds[c].lock \in Slots /\ slotLocks[cmds[c].lock] = c
         /\ cmds[c].slot \notin strayed => cmds[c].slot = cmds[c].lock
  BY DEF IInv, Equipped, Fit, HoldsLock, Holds, Locking

LEMMA ResolveSafe ==
  ASSUME IInv, BaselineTypeOK', Equipped', NEW c \in Commands, Resolve(c)
  PROVE  IInv'
<1>0. BaselineTypeOK /\ Equipped
  BY DEF IInv
<1>1. /\ Moved(c) /\ cmds[c].at = "ensure" /\ cmds[c].lock \in Slots
      /\ slotLocks[cmds[c].lock] = Nobody
      /\ UNCHANGED <<trees, records, servers, broken>>
  BY <1>0, ResolveMoves DEF Resolve
<1>2. CASE cmds'[c].at = "done" /\ UNCHANGED <<slotLocks, strayed>>
  BY <1>1, <1>2, QuietStep DEF Owing, Locking, Ensuring
<1>3. CASE cmds'[c].at # "done"
  <2> DEFINE p == cmds'[c].slot
  <2>1. /\ cmds[c].sha \in Shas /\ p = Candidate(cmds[c].sha)
        /\ p \in Slots /\ CanServe(c, p)
        /\ cmds'[c].at \in {"build", "create", "clear"}
        /\ cmds'[c].at = "build" <=> trees[p] = cmds[c].sha
        /\ cmds'[c].at = "create" => trees[p] = "none"
        /\ cmds'[c].at = "clear" => trees[p] # "none"
        /\ cmds'[c].lock = cmds[c].lock /\ cmds'[c].tree = cmds[c].tree
        /\ cmds'[c].sha = cmds[c].sha /\ ~cmds'[c].built
        /\ slotLocks' = [slotLocks EXCEPT ![cmds[c].lock] = c]
        /\ strayed' = strayed \cup ({p} \ {cmds[c].lock})
    BY <1>0, <1>3, ResolveMoves
  <2>2. Leaves(c)
    BY <1>1, <2>1, Constants DEF Leaves, IInv, BaselineTypeOK
  <2>3. PinnedIsComplete' /\ servers'[c] = Nobody
    BY <1>1, <2>1 DEF IInv, PinnedIsComplete, Pinned, StopSafe
  <2>4. Holds(c)'
    BY <1>0, <1>1, <2>1 DEF Holds, Locking, Ensuring, BaselineTypeOK
  <2>5. ASSUME p \notin strayed'
        PROVE  /\ cmds'[c].at = "clear" => Naming(p) \subseteq {cmds[c].tree}
               /\ p \notin broken /\ cmds'[c].at \in {"clear", "create"} => Naming(p) = {}
    <3>1. cmds'[c].at = "clear" => Naming(p) \subseteq {cmds[c].tree}
      BY <1>0, <2>1 DEF CanServe, Rebuildable
    <3>2. trees[p] \notin Shas \ {cmds[c].sha}
      BY <2>1, CandidateIsFree DEF CanServe
    <3>3. ASSUME p \notin broken, cmds'[c].at \in {"clear", "create"}, NEW w \in Naming(p)
          PROVE  FALSE
      <4>1. w \in Checkouts /\ records[w].slot = p
        BY <3>3 DEF Naming
      <4>2. Pinned(w) /\ records[w].sha \in Shas
        BY <1>0, <2>1, <4>1, PinFacts
      <4>3. trees[p] = records[w].sha
        BY <2>1, <2>5, <3>3, <4>1, <4>2 DEF IInv, PinnedIsComplete
      <4>. QED
        BY <2>1, <3>2, <3>3, <4>2, <4>3
    <3>. QED
      BY <3>1, <3>3
  <2>6. Works(c)'
    BY <1>1, <2>1, <2>5 DEF Works, Naming
  <2>7. Stops(c)'
    BY <2>1 DEF Stops
  <2>8. Keeps(c)
    BY <2>3, <2>4, <2>6, <2>7 DEF Keeps
  <2>. QED
    BY <2>2, <2>8, OthersKeep
<1>. QED
  BY <1>0, <1>2, <1>3, ResolveMoves

(* Of the broken slots a step on the tree at p takes or gives p alone, and *)
(* takes it where nobody names p and no git of a killed command is at it.  *)
Marks(p) ==
  \/ broken' \in {broken, broken \cup {p}}
  \/ /\ broken' = broken \ {p}
     /\ Naming(p) = {}
     /\ \A d \in Commands : cmds[d].at \in {"adding", "removing"} => cmds[d].slot # p

(* A step that changes the tree of the command's own slot.                 *)
LEMMA TreeLeaves ==
  ASSUME IInv, NEW c \in Commands, cmds[c].at \in Ensuring \cup {"reclaim"}, Moved(c), NEW v,
         trees' = [trees EXCEPT ![cmds[c].slot] = v], Marks(cmds[c].slot),
         UNCHANGED <<records, servers, strayed>>,
         \A p \in Slots : slotLocks[p] \in Commands \ {c} => slotLocks'[p] = slotLocks[p]
  PROVE  Leaves(c)
<1>1. cmds[c].slot \in Slots /\ (cmds[c].slot \notin strayed => slotLocks[cmds[c].slot] = c)
  BY DEF IInv, Equipped, Fit, HoldsLock, Holds, Locking, Ensuring
<1>2. \A p \in Slots \ {cmds[c].slot} : trees'[p] = trees[p] /\ (p \in broken' <=> p \in broken)
  BY DEF Marks, IInv, BaselineTypeOK
<1>3. \A d \in Commands : cmds[d].at \in {"adding", "removing"} /\ cmds[d].slot \in broken =>
        cmds[d].slot \in broken'
  BY DEF Marks
<1>4. \A p \in Slots \ strayed : slotLocks[p] \in Commands \ {c} => p # cmds[c].slot
  BY <1>1
<1>5. cmds[c].at # "done"
  BY DEF Ensuring
<1>. QED
  BY <1>2, <1>3, <1>4, <1>5 DEF Leaves

(* A tree may go, or become anything, while nobody pins it.                *)
LEMMA TreeKeepsPins ==
  ASSUME IInv, NEW p \in Slots, NEW v, trees' = [trees EXCEPT ![p] = v],
         UNCHANGED <<records, strayed>>, Marks(p),
         p \notin strayed \cup broken => Naming(p) = {} \/ trees[p] = v
  PROVE  PinnedIsComplete'
<1> SUFFICES ASSUME NEW w \in Checkouts, Pinned(w),
                    records[w].slot \notin strayed \cup broken'
             PROVE  trees'[records[w].slot] = records[w].sha
  BY DEF PinnedIsComplete, Pinned
<1>0. records[w].slot \in Slots /\ (records[w].slot = p => Naming(p) # {})
  BY PinFacts DEF IInv, Naming
<1>1. records[w].slot \notin broken /\ trees[records[w].slot] = records[w].sha
  BY <1>0 DEF Marks, IInv, PinnedIsComplete
<1>2. CASE records[w].slot = p
  BY <1>0, <1>1, <1>2 DEF IInv, BaselineTypeOK
<1>3. CASE records[w].slot # p
  BY <1>0, <1>1, <1>3 DEF IInv, BaselineTypeOK
<1>. QED
  BY <1>2, <1>3

LEMMA EnsureFailsSafe ==
  ASSUME IInv, BaselineTypeOK', Equipped', NEW c \in Commands, EnsureFails(c),
         cmds[c].at \in Ensuring,
         \/ UNCHANGED trees
         \/ /\ cmds[c].at = "create" \/ (cmds[c].at = "build" /\ cmds[c].built)
            /\ \E v : trees' = [trees EXCEPT ![cmds[c].slot] = v]
  PROVE  IInv'
<1>1. /\ Moved(c) /\ cmds'[c].at = "done" /\ Unlock(c)
      /\ UNCHANGED <<records, servers, strayed, broken>>
  BY MoveOver DEF EnsureFails, IInv, history
<1>2. /\ \A p \in Slots : slotLocks[p] \in Commands \ {c} => slotLocks'[p] = slotLocks[p]
      /\ cmds'[c].at \notin Owing /\ cmds[c].at # "done"
  BY <1>1, UnlockLeaves DEF Owing, Locking, Ensuring
<1>3. CASE UNCHANGED trees
  BY <1>1, <1>2, <1>3, QuietStep
<1>4. ASSUME cmds[c].at = "create" \/ (cmds[c].at = "build" /\ cmds[c].built),
             NEW v, trees' = [trees EXCEPT ![cmds[c].slot] = v]
      PROVE  IInv'
  <2>1. cmds[c].slot \in Slots /\ Marks(cmds[c].slot)
    BY <1>1, EnsureHolds DEF Marks
  <2>2. cmds[c].slot \notin strayed \cup broken => Naming(cmds[c].slot) = {}
    BY <1>4 DEF IInv, SlotSafe, Works
  <2>3. PinnedIsComplete'
    BY <1>1, <1>4, <2>1, <2>2, TreeKeepsPins
  <2>4. Leaves(c)
    BY <1>1, <1>2, <1>4, <2>1, TreeLeaves
  <2>5. Keeps(c)
    BY <1>1, <1>2, <2>3, QuietKeeps
  <2>. QED
    BY <2>4, <2>5, OthersKeep
<1>. QED
  BY <1>3, <1>4

LEMMA EnsureSafe ==
  ASSUME IInv, BaselineTypeOK', Equipped', NEW c \in Commands, Clear(c) \/ Create(c) \/ Build(c)
  PROVE  IInv'
<1>0. BaselineTypeOK /\ Equipped
  BY DEF IInv
<1>1. cmds[c].at \in {"clear", "create", "build"} /\ cmds[c].at \in Ensuring
  BY DEF Clear, Create, Build, Step, Ensuring
<1>2. /\ cmds[c].slot \in Slots /\ cmds[c].lock \in Slots /\ slotLocks[cmds[c].lock] = c
      /\ cmds[c].slot \notin strayed => cmds[c].slot = cmds[c].lock
  BY <1>1, EnsureHolds
<1>3. Works(c)
  BY DEF IInv, SlotSafe
<1>4. CASE /\ EnsureFails(c)
           /\ \/ UNCHANGED trees
              \/ /\ cmds[c].at = "create" \/ (cmds[c].at = "build" /\ cmds[c].built)
                 /\ \E v : trees' = [trees EXCEPT ![cmds[c].slot] = v]
  BY <1>1, <1>4, EnsureFailsSafe
<1>5. ASSUME NEW v,
             \/ /\ Step(c, "clear", [cmds[c] EXCEPT !.at = "create"])
                /\ UNCHANGED broken
             \/ /\ Step(c, "create", [cmds[c] EXCEPT !.at = "build", !.built = TRUE])
                /\ Heal(cmds[c].slot)
             \/ /\ Step(c, "build", [cmds[c] EXCEPT !.at = "pin"])
                /\ v = cmds[c].sha /\ UNCHANGED broken,
             trees' = [trees EXCEPT ![cmds[c].slot] = v],
             UNCHANGED <<records, servers, slotLocks, strayed>>
      PROVE  IInv'
  <2>1. /\ Moved(c)
        /\ cmds'[c].lock = cmds[c].lock /\ cmds'[c].tree = cmds[c].tree
        /\ cmds'[c].sha = cmds[c].sha /\ cmds'[c].slot = cmds[c].slot
        /\ \/ cmds[c].at = "clear" /\ cmds'[c].at = "create"
           \/ cmds[c].at = "create" /\ cmds'[c].at = "build" /\ cmds'[c].built
           \/ cmds[c].at = "build" /\ cmds'[c].at = "pin" /\ v = cmds[c].sha
    BY <1>0, <1>5, EnsureMoves DEF Step
  <2>2. Marks(cmds[c].slot)
    BY <1>5 DEF Marks, Heal, Outlived
  <2>3. Leaves(c)
    BY <1>1, <1>5, <2>1, <2>2, TreeLeaves
  <2>4. /\ cmds[c].slot \notin strayed \cup broken /\ cmds[c].at \in {"clear", "create"}
             => Naming(cmds[c].slot) = {}
        /\ cmds[c].slot \notin strayed \cup broken /\ cmds[c].at = "build"
             => Naming(cmds[c].slot) = {} \/ trees[cmds[c].slot] = cmds[c].sha
    BY <1>3 DEF Works
  <2>5. PinnedIsComplete'
    <3>1. cmds[c].slot \notin strayed \cup broken
            => Naming(cmds[c].slot) = {} \/ trees[cmds[c].slot] = v
      BY <2>1, <2>4
    <3>2. /\ UNCHANGED <<records, strayed>>
          /\ trees' = [trees EXCEPT ![cmds[c].slot] = v] /\ cmds[c].slot \in Slots
      BY <1>2, <1>5
    <3>. QED
      BY <2>2, <3>1, <3>2, TreeKeepsPins
  <2>6. Holds(c)'
    BY <1>2, <1>5, <2>1 DEF Holds, Locking, Ensuring
  <2>7. trees'[cmds[c].slot] = v /\ Naming(cmds[c].slot)' = Naming(cmds[c].slot)
    BY <1>0, <1>2, <1>5, <2>1 DEF BaselineTypeOK, Naming
  <2>8. Works(c)'
    <3>1. cmds[c].slot \notin broken' => cmds[c].slot \notin broken \/ Naming(cmds[c].slot) = {}
      BY <2>2 DEF Marks
    <3>2. cmds[c].at = "build" => UNCHANGED broken
      BY <1>5 DEF Step
    <3>3. cmds[c].slot \notin broken' /\ cmds[c].slot \notin strayed
            /\ cmds[c].at \in {"clear", "create"} => Naming(cmds[c].slot) = {}
      BY <2>4, <3>1
    <3>. QED
      BY <1>5, <2>1, <2>7, <3>2, <3>3 DEF Works
  <2>9. Stops(c)' /\ servers'[c] = Nobody
    BY <1>1, <1>5, <2>1 DEF Stops, IInv, StopSafe
  <2>. QED
    BY <2>3, <2>5, <2>6, <2>8, <2>9, OthersKeep DEF Keeps
<1>6. CASE Clear(c)
  BY <1>5, <1>6 DEF Clear, history
<1>7. CASE Create(c)
  BY <1>4, <1>5, <1>7 DEF Create
<1>8. CASE Build(c)
  BY <1>4, <1>5, <1>8 DEF Build, history
<1>. QED
  BY <1>6, <1>7, <1>8

LEMMA WritePinSafe ==
  ASSUME IInv, BaselineTypeOK', Equipped', NEW c \in Commands, WritePin(c)
  PROVE  IInv'
<1>0. BaselineTypeOK /\ Equipped
  BY DEF IInv
<1>1. cmds[c].at = "pin" /\ cmds[c].at \in Ensuring /\ cmds[c].at \in Locking
  BY DEF WritePin, Ensuring, Locking
<1>2. /\ cmds[c].slot \in Slots /\ cmds[c].sha \in Shas /\ cmds[c].tree \in Checkouts
      /\ cmds[c].lock \in Slots /\ slotLocks[cmds[c].lock] = c
      /\ cmds[c].slot \notin strayed => cmds[c].slot = cmds[c].lock
  BY <1>1, EnsureHolds
<1>3. CASE EnsureFails(c) /\ UNCHANGED trees
  BY <1>1, <1>3, EnsureFailsSafe
<1>4. CASE /\ records' = [records EXCEPT ![cmds[c].tree] = Pin(cmds[c].sha, cmds[c].slot)]
           /\ Step(c, "pin", AfterPin(c)) /\ Unlock(c)
           /\ UNCHANGED <<trees, forks, servers, dirLock, events, history>>
  <2>1. Moved(c) /\ cmds'[c].at \in {"launch", "release"} /\ cmds'[c].at \notin Owing
    BY <1>0, <1>1, <1>4, PinMoves DEF Owing, Locking, Ensuring
  <2>2. /\ UNCHANGED <<trees, servers, strayed, broken>>
        /\ \A p \in Slots : slotLocks[p] \in Commands \ {c} => slotLocks'[p] = slotLocks[p]
    BY <1>1, <1>4, UnlockLeaves DEF history
  <2>3. /\ \A w \in Checkouts \ {cmds[c].tree} : records'[w] = records[w]
        /\ records'[cmds[c].tree] = Pin(cmds[c].sha, cmds[c].slot)
        /\ records'[cmds[c].tree].slot = cmds[c].slot
        /\ records'[cmds[c].tree].sha = cmds[c].sha
    BY <1>0, <1>2, <1>4 DEF BaselineTypeOK, Pin
  <2>4. Leaves(c)
    BY <1>1, <1>2, <2>1, <2>2, <2>3 DEF Leaves, IInv, BaselineTypeOK
  <2>5. cmds[c].slot \notin strayed \cup broken => trees[cmds[c].slot] = cmds[c].sha
    BY <1>1 DEF IInv, SlotSafe, Works
  <2>6. PinnedIsComplete'
    BY <2>2, <2>3, <2>5 DEF IInv, PinnedIsComplete, Pinned
  <2>7. servers'[c] = Nobody
    BY <1>1, <2>2 DEF IInv, StopSafe
  <2>. QED
    BY <2>1, <2>4, <2>6, <2>7, QuietKeeps, OthersKeep
<1>. QED
  BY <1>3, <1>4 DEF WritePin

LEMMA ReleaseScanSafe ==
  ASSUME IInv, BaselineTypeOK', Equipped', NEW c \in Commands, ReleaseScan(c)
  PROVE  IInv'
<1>0. BaselineTypeOK /\ Equipped
  BY DEF IInv
<1>1. /\ cmds[c].at = "release" /\ slotLocks[cmds[c].prev] = Nobody
      /\ UNCHANGED <<trees, records, servers, strayed, broken>>
  BY DEF ReleaseScan, history
<1>2. CASE Step(c, "release", AfterRelease(c)) /\ UNCHANGED slotLocks
  <2>1. Moved(c) /\ cmds'[c].at \in {"launch", "remove", "done"}
    BY <1>0, <1>1, <1>2, ReleaseMoves
  <2>. QED
    BY <1>1, <1>2, <2>1, QuietStep DEF Owing, Locking, Ensuring
<1>3. ASSUME NEW rows, rows = ServersIn(cmds[c].prev), Stoppable(c),
             Step(c, "release", [cmds[c] EXCEPT !.at = "stop", !.lock = cmds[c].prev,
                                                !.rows = rows]),
             slotLocks' = [slotLocks EXCEPT ![cmds[c].prev] = c]
      PROVE  IInv'
  <2>1. rows \in SUBSET Servers
    BY <1>3 DEF ServersIn, Servers
  <2>2. /\ Moved(c) /\ cmds'[c].at = "stop"
        /\ cmds[c].prev \in Slots /\ cmds'[c].lock = cmds[c].prev
        /\ cmds'[c].prev = cmds[c].prev
        /\ cmds'[c].rows = rows /\ cmds'[c].tree = cmds[c].tree
    BY <1>0, <1>3, <2>1, StopMoves
  <2>3. Leaves(c)
    BY <1>1, <1>3, <2>2, Constants DEF Leaves, IInv, BaselineTypeOK
  <2>4. Holds(c)'
    BY <1>0, <1>3, <2>2 DEF Holds, Locking, Ensuring, BaselineTypeOK
  <2>5. Works(c)'
    BY <2>2 DEF Works
  <2>6. ASSUME NEW s \in rows
        PROVE  servers'[s] = cmds[c].prev /\ (s \in Commands => cmds'[s].at = "done")
    <3>1. servers[s] = cmds[c].prev /\ servers[s] # Nobody
      BY <1>3, <2>2, <2>6, Constants DEF ServersIn
    <3>2. s \in Commands => cmds[s].at = "done" /\ s # c
      BY <1>1, <3>1 DEF IInv, StopSafe
    <3>. QED
      BY <1>1, <2>2, <3>1, <3>2 DEF Moved
  <2>7. \A w \in Checkouts : records'[w].slot = cmds[c].prev => w = cmds[c].tree
    BY <1>1, <1>3 DEF Stoppable, Naming
  <2>8. Stops(c)'
    BY <2>2, <2>6, <2>7 DEF Stops, Naming
  <2>9. PinnedIsComplete' /\ servers'[c] = Nobody
    BY <1>1 DEF IInv, PinnedIsComplete, Pinned, StopSafe
  <2>. QED
    BY <2>3, <2>4, <2>5, <2>8, <2>9, OthersKeep DEF Keeps
<1>. QED
  BY <1>2, <1>3 DEF ReleaseScan

LEMMA StopServersSafe ==
  ASSUME IInv, BaselineTypeOK', Equipped', NEW c \in Commands, StopServers(c)
  PROVE  IInv'
<1>0. BaselineTypeOK /\ Equipped
  BY DEF IInv
<1>1. /\ cmds[c].at = "stop" /\ cmds[c].at \in Locking
      /\ UNCHANGED <<trees, records, strayed, broken>>
  BY DEF StopServers, Step, Locking
<1>2. Moved(c) /\ cmds'[c].at \in {"launch", "remove", "done"} /\ cmds'[c].at \notin Owing
  BY <1>0, <1>1, ReleaseMoves DEF StopServers, Owing, Locking, Ensuring
<1>3. \A s \in Servers : servers'[s] \in {servers[s], Nobody}
  BY <1>0 DEF StopServers, BaselineTypeOK
<1>4. \A p \in Slots : slotLocks[p] \in Commands \ {c} => slotLocks'[p] = slotLocks[p]
  BY <1>1, UnlockLeaves DEF StopServers
<1>5. Leaves(c)
  BY <1>1, <1>2, <1>3, <1>4 DEF Leaves
<1>6. PinnedIsComplete' /\ servers'[c] = Nobody
  BY <1>1, <1>3 DEF IInv, PinnedIsComplete, Pinned, StopSafe, Servers
<1>. QED
  BY <1>2, <1>5, <1>6, QuietKeeps, OthersKeep

LEMMA LaunchSafe ==
  ASSUME IInv, BaselineTypeOK', Equipped', NEW c \in Commands, LaunchServers(c)
  PROVE  IInv'
<1>0. BaselineTypeOK /\ Equipped
  BY DEF IInv
<1>1. /\ cmds[c].at = "launch" /\ Moved(c) /\ cmds'[c].at = "done"
      /\ UNCHANGED <<trees, records, slotLocks, strayed, broken>>
  BY <1>0, MoveOver DEF LaunchServers, history
<1>2. \A s \in Servers : servers'[s] = servers[s] \/ s = c
  BY <1>0 DEF LaunchServers, BaselineTypeOK
<1>3. Leaves(c)
  BY <1>1, <1>2 DEF Leaves
<1>4. PinnedIsComplete'
  BY <1>1 DEF IInv, PinnedIsComplete, Pinned
<1>. QED
  BY <1>1, <1>3, <1>4, QuietKeeps, OthersKeep DEF Owing, Locking, Ensuring

LEMMA RemoveSafe ==
  ASSUME IInv, BaselineTypeOK', Equipped', NEW c \in Commands, RemoveCheckout(c)
  PROVE  IInv'
<1>0. BaselineTypeOK /\ Equipped
  BY DEF IInv
<1>1. /\ cmds[c].at = "remove" /\ Moved(c) /\ cmds'[c].at \in {"done", "snapshot"}
      /\ UNCHANGED <<trees, servers, slotLocks, strayed, broken>>
  BY <1>0, RemoveMoves DEF RemoveCheckout, history
<1>2. \A w \in Checkouts : \/ records'[w] = records[w]
                           \/ records'[w].slot = Nobody /\ records'[w].is = "gone"
  BY <1>0 DEF RemoveCheckout, BaselineTypeOK, Unpinned
<1>3. Leaves(c)
  BY <1>1, <1>2 DEF Leaves
<1>4. PinnedIsComplete' /\ servers'[c] = Nobody
  BY <1>1, <1>2 DEF IInv, PinnedIsComplete, Pinned, StopSafe
<1>. QED
  BY <1>1, <1>3, <1>4, QuietKeeps, OthersKeep DEF Owing, Locking, Ensuring

LEMMA DecideSafe ==
  ASSUME IInv, BaselineTypeOK', Equipped', NEW c \in Commands, Decide(c)
  PROVE  IInv'
<1>0. BaselineTypeOK /\ Equipped
  BY DEF IInv
<1>1. /\ cmds[c].at = "wait" /\ Moved(c)
      /\ cmds[c].slot \in Slots /\ slotLocks[cmds[c].slot] = Nobody
      /\ UNCHANGED <<trees, records, servers, strayed, broken>>
  BY <1>0, DecideMoves DEF Decide, history
<1>2. CASE cmds'[c].at = "sweep" /\ UNCHANGED slotLocks
  BY <1>1, <1>2, QuietStep DEF Owing, Locking, Ensuring
<1>3. CASE /\ cmds'[c].at = "reclaim" /\ Unreferenced(cmds[c].slot)
           /\ cmds'[c].slot = cmds[c].slot /\ cmds'[c].lock = cmds[c].slot
           /\ slotLocks' = [slotLocks EXCEPT ![cmds[c].slot] = c]
  <2>1. Leaves(c)
    BY <1>1, <1>3, Constants DEF Leaves, IInv, BaselineTypeOK
  <2>2. Holds(c)'
    BY <1>0, <1>1, <1>3 DEF Holds, Locking, Ensuring, BaselineTypeOK
  <2>3. Works(c)'
    BY <1>1, <1>3 DEF Works, Unreferenced, Naming
  <2>4. Stops(c)' /\ PinnedIsComplete' /\ servers'[c] = Nobody
    BY <1>1, <1>3 DEF Stops, IInv, PinnedIsComplete, Pinned, StopSafe
  <2>. QED
    BY <2>1, <2>2, <2>3, <2>4, OthersKeep DEF Keeps
<1>. QED
  BY <1>0, <1>2, <1>3, DecideMoves

LEMMA ReclaimSafe ==
  ASSUME IInv, BaselineTypeOK', Equipped', NEW c \in Commands, Reclaim(c)
  PROVE  IInv'
<1>0. BaselineTypeOK /\ Equipped
  BY DEF IInv
<1>1. /\ cmds[c].at = "reclaim" /\ cmds[c].at \in Locking /\ Unlock(c)
      /\ UNCHANGED <<records, servers, strayed>>
  BY DEF Reclaim, Step, Locking
<1>2. Moved(c) /\ cmds'[c].at = "sweep" /\ cmds'[c].at \notin Owing
  BY <1>0, <1>1, SweptMoves DEF Reclaim, Owing, Locking, Ensuring
<1>3. \A p \in Slots : slotLocks[p] \in Commands \ {c} => slotLocks'[p] = slotLocks[p]
  BY <1>1, UnlockLeaves
<1>4. CASE UNCHANGED <<trees, broken>>
  BY <1>1, <1>2, <1>3, <1>4, QuietStep
<1>5. ASSUME NEW v, trees' = [trees EXCEPT ![cmds[c].slot] = v],
             broken' \in {broken, broken \cup {cmds[c].slot}}
      PROVE  IInv'
  <2>1. /\ cmds[c].slot \in Slots /\ (cmds[c].slot \notin strayed => Naming(cmds[c].slot) = {})
        /\ Marks(cmds[c].slot)
    BY <1>1, <1>5 DEF IInv, SlotSafe, Works, Equipped, Fit, Marks
  <2>2. PinnedIsComplete'
    BY <1>1, <1>5, <2>1, TreeKeepsPins
  <2>3. Leaves(c)
    BY <1>1, <1>2, <1>3, <1>5, <2>1, TreeLeaves
  <2>4. servers'[c] = Nobody
    BY <1>1 DEF IInv, StopSafe
  <2>. QED
    BY <1>2, <2>2, <2>3, <2>4, QuietKeeps, OthersKeep
<1>. QED
  BY <1>4, <1>5 DEF Reclaim

LEMMA KillSafe ==
  ASSUME IInv, BaselineTypeOK', Equipped', NEW c \in Commands, Kill(c)
  PROVE  IInv'
<1>0. BaselineTypeOK /\ Equipped
  BY DEF IInv
<1>1. /\ Moved(c) /\ cmds[c].at # "done"
      /\ UNCHANGED <<trees, records, servers, strayed>>
      /\ \A p \in Slots : slotLocks[p] \in Commands \ {c} => slotLocks'[p] = slotLocks[p]
  BY <1>0, KillMoves DEF Kill
<1>2. CASE cmds'[c].at = "done" /\ UNCHANGED broken
  BY <1>1, <1>2, QuietStep DEF Owing, Locking, Ensuring
<1>3. CASE /\ \/ cmds[c].at \in {"create", "clear", "reclaim"}
              \/ cmds[c].at = "build" /\ cmds[c].built
           /\ cmds'[c].at \in {"adding", "removing"}
           /\ cmds'[c].slot = cmds[c].slot /\ cmds[c].slot \in Slots
           /\ broken' = broken \cup {cmds[c].slot}
  <2>1. PICK v : v = trees[cmds[c].slot] /\ trees' = [trees EXCEPT ![cmds[c].slot] = v]
    BY <1>0, <1>1 DEF BaselineTypeOK
  <2>2. Marks(cmds[c].slot) /\ cmds[c].at \in Ensuring \cup {"reclaim"}
    BY <1>3 DEF Marks, Ensuring
  <2>3. Leaves(c)
    BY <1>1, <2>1, <2>2, TreeLeaves
  <2>4. PinnedIsComplete'
    BY <1>1, <1>3, <2>1, <2>2, TreeKeepsPins
  <2>5. Holds(c)' /\ Works(c)' /\ Stops(c)'
    BY <1>3 DEF Holds, Works, Stops, Locking, Ensuring
  <2>6. servers'[c] = Nobody
    BY <1>1 DEF IInv, StopSafe
  <2>. QED
    BY <2>3, <2>4, <2>5, <2>6, OthersKeep DEF Keeps
<1>. QED
  BY <1>0, <1>2, <1>3, KillMoves

(* What happens to the files from outside: a record that no longer pins,   *)
(* a marker that counts as broken, a commit to fork from, and what a git   *)
(* that no command waits for does to its tree before it is done.           *)
LEMMA OutsideSafe ==
  ASSUME IInv, BaselineTypeOK', Equipped', UNCHANGED <<servers, slotLocks, strayed>>,
         \A d \in Commands : cmds'[d] = cmds[d] \/ cmds'[d].at = "done",
         broken \subseteq broken',
         \A p \in Slots \ broken' : trees'[p] = trees[p],
         \A w \in Checkouts : \/ records'[w] = records[w]
                              \/ records'[w].slot = Nobody /\ records'[w].is # "pin"
  PROVE  IInv'
<1>1. \A p \in Slots : Naming(p)' \subseteq Naming(p)
  BY Constants DEF Naming
<1>2. HoldsLock'
  BY DEF IInv, HoldsLock, Holds, Locking, Ensuring
<1>3. ASSUME NEW c \in Commands
      PROVE  Works(c)'
  <2>0. Works(c) /\ (cmds[c].at \in Ensuring \cup {"reclaim"} => cmds[c].slot \in Slots)
    BY DEF IInv, Equipped, Fit, SlotSafe
  <2>1. CASE cmds'[c] = cmds[c] /\ cmds[c].at \in Ensuring \cup {"reclaim"}
    BY <1>1, <2>0, <2>1 DEF Works
  <2>2. CASE cmds'[c] = cmds[c] /\ cmds[c].at \notin Ensuring \cup {"reclaim"}
    BY <2>0, <2>2 DEF Works, Ensuring
  <2>3. CASE cmds'[c].at = "done"
    BY <2>3 DEF Works
  <2>. QED
    BY <2>1, <2>2, <2>3
<1>4. ASSUME NEW c \in Commands
      PROVE  Stops(c)'
  <2>1. CASE cmds'[c] = cmds[c] /\ cmds[c].at = "stop"
    <3>1. cmds[c].prev \in Slots /\ Stops(c)
      BY <2>1 DEF IInv, StopSafe, HoldsLock, Holds, Locking
    <3>. QED
      BY <1>1, <2>1, <3>1 DEF Stops
  <2>2. CASE cmds'[c].at # "stop"
    BY <2>2 DEF Stops
  <2>. QED
    BY <2>1, <2>2
<1>5. PinnedIsComplete'
  BY PinFacts DEF IInv, PinnedIsComplete, Pinned
<1>. QED
  BY <1>2, <1>3, <1>4, <1>5 DEF IInv, SlotSafe, StopSafe

LEMMA NextIInv == IInv /\ [BaselineNext]_baselineVars => IInv'
<1> SUFFICES ASSUME IInv, [BaselineNext]_baselineVars
             PROVE  IInv'
  OBVIOUS
<1>1. BaselineTypeOK /\ HoldsLock /\ Equipped /\ BaselineTypeOK' /\ Equipped'
  BY TypeStep DEF IInv
<1>2. ASSUME NEW c \in Commands, Begin(c)
      PROVE  IInv'
  <2>1. /\ Moved(c) /\ cmds[c].at = "idle" /\ cmds'[c].at \notin Owing
        /\ UNCHANGED <<trees, records, servers, slotLocks, strayed, broken>>
    <3>1. UNCHANGED <<trees, records, servers, slotLocks, strayed, broken>>
      BY <1>2 DEF Begin, BeginUp, BeginEnd, BeginDown, BeginPrune, history
    <3>. QED
      BY <1>1, <1>2, <3>1, BeginMoves DEF Owing, Locking, Ensuring
  <2>. QED
    BY <1>1, <2>1, QuietStep
<1>3. ASSUME NEW c \in Commands,
             \/ SnapshotRows(c) \/ SweepLock(c) \/ SweepEnds(c)
             \/ \E p \in Slots : SweepNext(c, p)
      PROVE  IInv'
  <2>1. /\ Moved(c) /\ cmds[c].at # "done" /\ cmds'[c].at \notin Owing
    BY <1>1, <1>3, SweepMoves DEF Owing, Locking, Ensuring
  <2>2. UNCHANGED <<trees, records, servers, slotLocks, strayed, broken>>
    BY <1>3 DEF SnapshotRows, SweepLock, SweepEnds, SweepNext, history
  <2>. QED
    BY <1>1, <2>1, <2>2, QuietStep
<1>4. ASSUME NEW w \in Checkouts, DamageRecord(w) \/ \E s \in Shas : Rebase(w, s)
      PROVE  IInv'
  <2>1. UNCHANGED <<trees, servers, slotLocks, cmds, strayed, broken>>
    BY <1>4 DEF DamageRecord, Rebase, history
  <2>2. \A v \in Checkouts : \/ records'[v] = records[v]
                             \/ records'[v].slot = Nobody /\ records'[v].is # "pin"
    <3>1. CASE DamageRecord(w)
      BY <1>1, <3>1 DEF DamageRecord, Unpinned, BaselineTypeOK
    <3>2. CASE UNCHANGED records
      BY <3>2
    <3>. QED
      BY <1>4, <3>1, <3>2 DEF Rebase
  <2>. QED
    BY <1>1, <2>1, <2>2, OutsideSafe
<1>5. ASSUME NEW p \in Slots, NEW how \in {"corrupt", "blocked"}, DamageMarker(p, how)
      PROVE  IInv'
  <2>1. /\ UNCHANGED <<records, servers, slotLocks, cmds, strayed>>
        /\ broken \subseteq broken' /\ \A q \in Slots \ broken' : trees'[q] = trees[q]
    BY <1>1, <1>5 DEF DamageMarker, BaselineTypeOK
  <2>. QED
    BY <1>1, <2>1, OutsideSafe
<1>6. ASSUME UNCHANGED baselineVars
      PROVE  IInv'
  BY <1>1, <1>6, OutsideSafe DEF baselineVars
<1>7. ASSUME NEW c \in Commands, GitGoesOn(c)
      PROVE  IInv'
  <2>1. /\ Moved(c) /\ cmds[c].slot \in broken
        /\ cmds'[c] = cmds[c] \/ cmds'[c].at = "done"
    BY <1>1, <1>7, GitMoves DEF IInv, SlotSafe, Works
  <2>2. /\ UNCHANGED <<records, servers, slotLocks, strayed, broken>>
        /\ \A p \in Slots \ broken : trees'[p] = trees[p]
    BY <1>1, <1>7, <2>1 DEF GitGoesOn, history, BaselineTypeOK
  <2>. QED
    BY <1>1, <2>1, <2>2, OutsideSafe DEF Moved
<1>. QED
  BY <1>1, <1>2, <1>3, <1>4, <1>5, <1>6, <1>7, ResolveSafe, EnsureSafe, WritePinSafe,
     ReleaseScanSafe, StopServersSafe, LaunchSafe, RemoveSafe, DecideSafe, ReclaimSafe, KillSafe
     DEF BaselineNext, Goes, AllDone

LEMMA Invariance == BaselineSpec => []IInv
<1>1. BaselineInit => IInv
  BY InitIInv
<1>2. IInv /\ [BaselineNext]_baselineVars => IInv'
  BY NextIInv
<1>. QED
  BY <1>1, <1>2, PTL DEF BaselineSpec

-----------------------------------------------------------------------------
(* Every command stays where the types put it, with what its station needs *)
(* at hand: no step of up, down, end or prune reads a slot, a lock or a    *)
(* commit it does not have.                                                *)
THEOREM BaselineTypeCorrect == BaselineSpec => [](BaselineTypeOK /\ Equipped)
<1>1. IInv => BaselineTypeOK /\ Equipped
  BY DEF IInv
<1>. QED
  BY <1>1, Invariance, PTL

(* What a readable record pins is a finished tree of the pinned commit,    *)
(* for any number of commands that build, sweep, fail or are killed, with  *)
(* any part of a tree left by a removal that failed or was killed and any  *)
(* git going on after the command that started it.  Not said of a slot     *)
(* whose marker was damaged, whose marker outlasted files of its tree, or  *)
(* that a command was killed at while git added or removed its tree, until *)
(* it is built afresh, nor of a strayed one.                               *)
THEOREM PinnedIsCompleteHolds == BaselineSpec => []PinnedIsComplete
<1>1. IInv => PinnedIsComplete
  BY DEF IInv
<1>. QED
  BY <1>1, Invariance, PTL

(* Who changes trees or breaks a slot, and who changes servers.            *)
LEMMA Changes ==
  ASSUME BaselineNext
  PROVE  /\ \/ UNCHANGED <<trees, broken>>
            \/ \E d \in Commands : \/ Clear(d) \/ Create(d) \/ Build(d) \/ Reclaim(d)
                                  \/ Kill(d) \/ GitGoesOn(d)
            \/ UNCHANGED cmds
         /\ \/ UNCHANGED servers
            \/ \E d \in Commands : StopServers(d) \/ LaunchServers(d)
<1>1. ASSUME NEW d \in Commands, Begin(d)
      PROVE  UNCHANGED <<trees, broken, servers>>
  BY <1>1 DEF Begin, BeginUp, BeginEnd, BeginDown, BeginPrune, history
<1>2. ASSUME NEW d \in Commands,
             \/ Resolve(d) \/ WritePin(d) \/ ReleaseScan(d) \/ RemoveCheckout(d)
             \/ SnapshotRows(d) \/ SweepLock(d) \/ SweepEnds(d) \/ Decide(d)
             \/ \E p \in Slots : SweepNext(d, p)
      PROVE  UNCHANGED <<trees, broken, servers>>
  BY <1>2 DEF Resolve, WritePin, EnsureFails, ReleaseScan, RemoveCheckout, SnapshotRows, SweepLock,
     SweepEnds, Decide, SweepNext, history
<1>3. ASSUME NEW d \in Commands,
             Clear(d) \/ Create(d) \/ Build(d) \/ Reclaim(d) \/ Kill(d) \/ GitGoesOn(d)
      PROVE  UNCHANGED servers
  BY <1>3 DEF Clear, Create, Build, EnsureFails, Reclaim, Kill, GitGoesOn
<1>4. ASSUME NEW d \in Commands, StopServers(d) \/ LaunchServers(d)
      PROVE  UNCHANGED <<trees, broken>>
  BY <1>4 DEF StopServers, LaunchServers, history
<1>5. ASSUME NEW w \in Checkouts, DamageRecord(w) \/ \E s \in Shas : Rebase(w, s)
      PROVE  UNCHANGED <<cmds, servers>>
  BY <1>5 DEF DamageRecord, Rebase
<1>6. ASSUME NEW p \in Slots, NEW how \in {"corrupt", "blocked"}, DamageMarker(p, how)
      PROVE  UNCHANGED <<cmds, servers>>
  BY <1>6 DEF DamageMarker
<1>. QED
  BY <1>1, <1>2, <1>3, <1>4, <1>5, <1>6 DEF BaselineNext, Goes, AllDone, baselineVars

(* Who removes a tree has looked, under the lock an up pins under, whether *)
(* another worktree's record names it.                                     *)
LEMMA KeptStep ==
  ASSUME IInv, BaselineNext, NEW p \in Slots \ strayed, Loses(p),
         NEW c \in Commands, cmds'[c] # cmds[c], ~cmds[c].built, cmds[c].at \notin Outlived
  PROVE  Naming(p) \subseteq {cmds[c].tree}
<1>0. BaselineTypeOK /\ Equipped /\ \A d \in Commands : Works(d) /\ Fit(cmds[d])
  BY DEF IInv, SlotSafe, Equipped
<1>1. PICK d \in Commands : \/ Clear(d) \/ Create(d) \/ Build(d) \/ Reclaim(d)
                           \/ Kill(d) \/ GitGoesOn(d)
  BY Changes DEF Loses
<1>2. d = c
  <2>1. CASE Kill(d) \/ GitGoesOn(d)
    BY <1>0, <2>1, KillMoves, GitMoves DEF Moved
  <2>2. CASE Clear(d) \/ Create(d) \/ Build(d) \/ Reclaim(d)
    <3>1. \E from, new : Step(d, from, new)
      BY <2>2 DEF Clear, Create, Build, EnsureFails, Reclaim
    <3>. QED
      BY <1>0, <3>1, StepMoves
  <2>. QED
    BY <1>1, <2>1, <2>2
<1>3. CASE Clear(c) \/ Reclaim(c)
  <2>1. cmds[c].at \in {"clear", "reclaim"} /\ cmds[c].slot \in Slots
    BY <1>0, <1>3 DEF Clear, Reclaim, Step, Fit, Ensuring
  <2>2. /\ \A q \in Slots \ {cmds[c].slot} : trees'[q] = trees[q]
        /\ broken' \subseteq broken \cup {cmds[c].slot}
    BY <1>0, <1>3 DEF Clear, Reclaim, history, BaselineTypeOK
  <2>3. p = cmds[c].slot
    BY <2>2 DEF Loses
  <2>. QED
    BY <1>0, <2>1, <2>3 DEF Works
<1>4. CASE Create(c)
  <2>1. /\ \A q \in Slots : trees[q] # "none" => trees'[q] = trees[q]
        /\ broken' \subseteq broken
    BY <1>0, <1>4 DEF Create, EnsureFails, Heal, history, BaselineTypeOK
  <2>. QED
    BY <2>1 DEF Loses
<1>5. CASE Build(c)
  <2>1. cmds[c].sha \in Shas /\ cmds[c].at = "build"
    BY <1>0, <1>5 DEF Build, Fit, Ensuring
  <2>2. /\ \A q \in Slots : trees'[q] \in {trees[q], cmds[c].sha}
        /\ broken' \subseteq broken
    BY <1>0, <1>5 DEF Build, EnsureFails, history, BaselineTypeOK
  <2>. QED
    BY <2>1, <2>2, Constants DEF Loses
<1>6. CASE Kill(c)
  <2>1. UNCHANGED trees /\ p \in broken' \ broken
    BY <1>6 DEF Kill, Loses
  <2>2. p = cmds[c].slot /\ cmds[c].at \in {"create", "clear", "reclaim"}
    BY <1>0, <1>6, <2>1, KillMoves
  <2>. QED
    BY <1>0, <2>1, <2>2 DEF Works
<1>. QED
  BY <1>1, <1>2, <1>3, <1>4, <1>5, <1>6 DEF GitGoesOn

(* A tree another worktree's record names is never removed, in whole or in *)
(* part, by a sweep or a rebuild, however many commands are at work and    *)
(* wherever a removal fails or is killed.                                  *)
THEOREM ReferencedIsKeptHolds == BaselineSpec => ReferencedIsKept
<1>1. IInv /\ [BaselineNext]_baselineVars =>
        [\A p \in Slots \ strayed :
           Loses(p) =>
             \A c \in Commands :
               cmds'[c] # cmds[c] /\ ~cmds[c].built /\ cmds[c].at \notin Outlived =>
                 Naming(p) \subseteq {cmds[c].tree}
        ]_baselineVars
  BY KeptStep
<1>. QED
  BY <1>1, Invariance, PTL DEF BaselineSpec, ReferencedIsKept

LEMMA StandStep ==
  ASSUME IInv, BaselineNext, NEW s \in DOMAIN servers, servers'[s] = Nobody,
         servers[s] \in Slots \ strayed, NEW c \in Commands, cmds'[c] # cmds[c]
  PROVE  Naming(servers[s]) \subseteq {cmds[c].tree}
<1>0. BaselineTypeOK /\ Equipped /\ \A d \in Commands : Stops(d) /\ Fit(cmds[d])
  BY DEF IInv, StopSafe, Equipped
<1>1. PICK d \in Commands : StopServers(d) \/ LaunchServers(d)
  BY Changes, Constants
<1>2. d = c
  <2>1. \E from, new : Step(d, from, new)
    BY <1>1 DEF StopServers, LaunchServers
  <2>. QED
    BY <1>0, <2>1, StepMoves
<1>3. CASE StopServers(c)
  <2>1. cmds[c].at = "stop" /\ s \in cmds[c].rows
    BY <1>0, <1>3, Constants DEF StopServers, Step, BaselineTypeOK
  <2>. QED
    BY <1>0, <2>1, Constants DEF Stops
<1>4. CASE LaunchServers(c)
  <2>1. cmds[c].slot \in Slots
    BY <1>0, <1>4 DEF LaunchServers, Step, Fit
  <2>. QED
    BY <1>0, <1>4, <2>1, Constants DEF LaunchServers, BaselineTypeOK
<1>. QED
  BY <1>1, <1>2, <1>3, <1>4

(* Nobody stops servers another worktree's baseline is served by: repin,   *)
(* end and down decide and stop under the lock an adopting up pins under.  *)
THEOREM OthersServersStandHolds == BaselineSpec => OthersServersStand
<1>1. IInv /\ [BaselineNext]_baselineVars =>
        [\A s \in DOMAIN servers :
           servers'[s] = Nobody /\ servers[s] \in Slots \ strayed =>
             \A c \in Commands :
               cmds'[c] # cmds[c] => Naming(servers[s]) \subseteq {cmds[c].tree}
        ]_baselineVars
  BY StandStep
<1>. QED
  BY <1>1, Invariance, PTL DEF BaselineSpec, OthersServersStand

-----------------------------------------------------------------------------
(* Servers nobody reaches.  While nothing has disturbed a leaving, every   *)
(* server runs under a finished tree that a record pins or that an up has  *)
(* just left and is about to see to.                                       *)

Commanding(c) == Active(c) /\ cmds[c].op # "prune"

Healthy ==
  /\ broken = {}
  /\ \A w \in Checkouts : records[w].is # "unreadable"
  /\ \A p \in Slots : trees[p] \notin {"corrupt", "blocked"}

(* One command per worktree, and none but downs beside an end.             *)
Apart ==
  \A c, d \in Commands : c # d /\ Commanding(c) /\ Commanding(d) =>
    /\ cmds[c].tree # cmds[d].tree
    /\ cmds[c].op = "end" => cmds[d].op \notin {"up", "end"}

(* The record of the worktree a command works for says what it said when   *)
(* the command read it, or what the command wrote.                         *)
Recorded(c) ==
  /\ cmds[c].at \in {"ensure"} \cup Ensuring => records[cmds[c].tree].slot = cmds[c].prev
  /\ cmds[c].at \in {"launch", "release", "stop"} /\ cmds[c].op = "up" =>
       cmds[c].tree \in Checkouts /\ records[cmds[c].tree].slot = cmds[c].slot
  /\ cmds[c].at \in {"release", "stop", "remove"} /\ cmds[c].op = "end" =>
       records[cmds[c].tree].slot = cmds[c].prev

(* What a command that is about to stop servers, to remove a worktree or   *)
(* to build a tree knows of the servers there.                             *)
Knows(c) ==
  /\ cmds[c].at = "stop" /\ cmds[c].prev \notin strayed
       => ServersIn(cmds[c].prev) \subseteq cmds[c].rows
  /\ cmds[c].at = "remove" /\ cmds[c].prev \in Slots \ strayed
       => ServersIn(cmds[c].prev) = {} \/ ~(Naming(cmds[c].prev) \subseteq {cmds[c].tree})
  /\ (cmds[c].at \in {"clear", "create"} \/ (cmds[c].at = "build" /\ cmds[c].built))
       /\ cmds[c].slot \notin strayed
       => ServersIn(cmds[c].slot) = {}

(* An up that is still to look at the servers of the slot it left.         *)
Sees(c, p) == cmds[c].at \in {"release", "stop"} /\ cmds[c].op = "up" /\ cmds[c].prev = p

Reached(p) ==
  ServersIn(p) # {} =>
    /\ trees[p] \in Shas
    /\ Naming(p) # {} \/ \E c \in Commands : Sees(c, p)

Calm ==
  /\ Healthy
  /\ Apart
  /\ \A c \in Commands : Recorded(c) /\ Knows(c)
  /\ \A p \in Slots \ strayed : Reached(p)

Settled == ~disturbed => Calm

(* A command under way keeps its worktree and its errand, the slot it left *)
(* until it has seen to it, and the slot it resolved until it launches.    *)
Carries(c) ==
  /\ Moved(c) /\ Active(c)
  /\ cmds'[c].at # "done" => cmds'[c].op = cmds[c].op /\ cmds'[c].tree = cmds[c].tree
  /\ cmds'[c].at \in Ensuring \cup {"release", "stop", "remove"} => cmds'[c].prev = cmds[c].prev
  /\ cmds'[c].at \in {"pin", "launch", "release", "stop"} => cmds'[c].slot = cmds[c].slot

LEMMA CarryOver ==
  ASSUME BaselineTypeOK, NEW c \in Commands, Active(c), NEW from, Step(c, from, Over)
  PROVE  Carries(c) /\ cmds'[c].at = "done"
<1>1. Moved(c) /\ cmds'[c].at = "done"  BY MoveOver
<1>. QED  BY <1>1 DEF Carries, Ensuring

LEMMA ResolveCarries ==
  ASSUME BaselineTypeOK, Equipped, NEW c \in Commands, Resolve(c)
  PROVE  Carries(c)
<1>1. Moved(c) /\ cmds[c].at = "ensure" /\ Active(c)
  BY ResolveMoves DEF Active, Outlived
<1>2. PICK x \in Progress : x = cmds[c]
  BY Known
<1>3. PICK p : p = Candidate(cmds[c].sha)
  OBVIOUS
<1>4. PICK at : at = CASE trees[p] = cmds[c].sha -> "build"
                       [] trees[p] = "none"      -> "create"
                       [] OTHER                  -> "clear"
  OBVIOUS
<1>5. at \in {"build", "create", "clear"}
  BY <1>4
<1>6. CASE Step(c, "ensure", [x EXCEPT !.slot = p, !.at = at])
  <2>1. PICK new : new = [x EXCEPT !.slot = p, !.at = at]
    OBVIOUS
  <2>2. new.at = at /\ new.op = x.op /\ new.tree = x.tree /\ new.prev = x.prev
    BY <2>1 DEF Progress
  <2>3. cmds'[c] = new
    BY <1>6, <2>1, StepMoves
  <2>. QED
    BY <1>1, <1>2, <1>5, <2>2, <2>3 DEF Carries
<1>7. CASE Step(c, "ensure", Over)
  BY <1>1, <1>7, CarryOver
<1>. QED
  BY <1>2, <1>3, <1>4, <1>6, <1>7 DEF Resolve

LEMMA EnsureCarries ==
  ASSUME BaselineTypeOK, Equipped, NEW c \in Commands, Clear(c) \/ Create(c) \/ Build(c)
  PROVE  Carries(c)
<1>1. cmds[c].at \in {"clear", "create", "build"} /\ Active(c)
  BY DEF Clear, Create, Build, Step, Active, Outlived
<1>2. PICK x \in Progress : x = cmds[c]
  BY Known
<1>3. ASSUME NEW new, \/ new = [x EXCEPT !.at = "create"]
                      \/ new = [x EXCEPT !.at = "build", !.built = TRUE]
                      \/ new = [x EXCEPT !.at = "pin"]
      PROVE  new.op = x.op /\ new.tree = x.tree /\ new.prev = x.prev /\ new.slot = x.slot
  BY <1>3 DEF Progress
<1>4. CASE \/ Step(c, "clear", [x EXCEPT !.at = "create"])
           \/ Step(c, "create", [x EXCEPT !.at = "build", !.built = TRUE])
           \/ Step(c, "build", [x EXCEPT !.at = "pin"])
  <2>1. Moved(c)
    BY <1>2, <1>4, EnsureMoves
  <2>2. /\ cmds'[c].op = x.op /\ cmds'[c].tree = x.tree
        /\ cmds'[c].prev = x.prev /\ cmds'[c].slot = x.slot
    BY <1>3, <1>4, StepMoves
  <2>. QED
    BY <1>1, <1>2, <2>1, <2>2 DEF Carries
<1>5. CASE Step(c, cmds[c].at, Over)
  BY <1>1, <1>5, CarryOver
<1>. QED
  BY <1>2, <1>4, <1>5 DEF Clear, Create, Build, EnsureFails

LEMMA PinCarries ==
  ASSUME BaselineTypeOK, Equipped, NEW c \in Commands, cmds[c].at = "pin",
         Step(c, "pin", AfterPin(c))
  PROVE  /\ Carries(c)
         /\ cmds'[c].at = "launch" => cmds[c].prev \in {Nobody, cmds[c].slot}
         /\ cmds'[c].at \in {"launch", "release"}
<1>1. Moved(c) /\ cmds'[c].at \in {"launch", "release"} /\ Active(c) /\ cmds'[c] = AfterPin(c)
  BY PinMoves, StepMoves DEF Active, Outlived
<1>2. PICK x \in Progress : x = cmds[c]
  BY Known
<1>3. PICK rest : rest = [x EXCEPT !.lock = Nobody, !.sha = Nobody, !.built = FALSE]
  OBVIOUS
<1>4. PICK y \in Progress : y = [x EXCEPT !.lock = Nobody, !.sha = Nobody]
  BY DEF Progress
<1>5. rest = [y EXCEPT !.built = FALSE]
  BY <1>3, <1>4
<1>6. /\ rest \in Progress
      /\ rest.op = x.op /\ rest.tree = x.tree /\ rest.prev = x.prev /\ rest.slot = x.slot
  BY <1>4, <1>5, ZenonT(30) DEF Progress
<1>7. CASE x.prev \in {Nobody, x.slot}
  <2>1. cmds'[c] = [rest EXCEPT !.at = "launch", !.prev = Nobody]
    BY <1>1, <1>2, <1>3, <1>7 DEF AfterPin
  <2>2. /\ cmds'[c].at = "launch" /\ cmds'[c].op = x.op /\ cmds'[c].tree = x.tree
        /\ cmds'[c].slot = x.slot
    BY <1>6, <2>1 DEF Progress
  <2>. QED
    BY <1>1, <1>2, <1>7, <2>2 DEF Carries, Ensuring
<1>8. CASE x.prev \notin {Nobody, x.slot}
  <2>1. cmds'[c] = [rest EXCEPT !.at = "release"]
    BY <1>1, <1>2, <1>3, <1>8 DEF AfterPin
  <2>2. /\ cmds'[c].at = "release" /\ cmds'[c].op = x.op /\ cmds'[c].tree = x.tree
        /\ cmds'[c].slot = x.slot /\ cmds'[c].prev = x.prev
    BY <1>6, <2>1 DEF Progress
  <2>. QED
    BY <1>1, <1>2, <2>2 DEF Carries
<1>. QED
  BY <1>7, <1>8

LEMMA ReleaseCarries ==
  ASSUME BaselineTypeOK, Equipped, NEW c \in Commands, cmds[c].at \in {"release", "stop"},
         Step(c, cmds[c].at, AfterRelease(c))
  PROVE  /\ Carries(c)
         /\ cmds[c].op = "up" => cmds'[c].at = "launch"
         /\ cmds[c].op = "end" => cmds'[c].at = "remove"
         /\ cmds[c].op = "down" => cmds'[c].at = "done"
<1>1. Moved(c) /\ Active(c) /\ cmds'[c] = AfterRelease(c)
  BY ReleaseMoves, StepMoves DEF Active, Outlived
<1>2. PICK x \in Progress : x = cmds[c] /\ x.op \in {"up", "end", "down"}
  BY Known DEF Fit
<1>3. PICK rest \in Progress : rest = [x EXCEPT !.lock = Nobody, !.rows = {}]
  BY DEF Progress
<1>4. rest.op = x.op /\ rest.tree = x.tree /\ rest.prev = x.prev /\ rest.slot = x.slot
  BY <1>3 DEF Progress
<1>5. CASE x.op = "up"
  <2>1. cmds'[c] = [rest EXCEPT !.at = "launch", !.prev = Nobody]
    BY <1>1, <1>2, <1>3, <1>5 DEF AfterRelease
  <2>2. /\ cmds'[c].at = "launch" /\ cmds'[c].op = x.op /\ cmds'[c].tree = x.tree
        /\ cmds'[c].slot = x.slot
    BY <1>4, <2>1 DEF Progress
  <2>. QED
    BY <1>1, <1>2, <1>5, <2>2 DEF Carries, Ensuring
<1>6. CASE x.op = "end"
  <2>1. cmds'[c] = [rest EXCEPT !.at = "remove"]
    BY <1>1, <1>2, <1>3, <1>6 DEF AfterRelease
  <2>2. /\ cmds'[c].at = "remove" /\ cmds'[c].op = x.op /\ cmds'[c].tree = x.tree
        /\ cmds'[c].prev = x.prev
    BY <1>4, <2>1 DEF Progress
  <2>. QED
    BY <1>1, <1>2, <1>6, <2>2 DEF Carries
<1>7. CASE x.op = "down"
  <2>1. cmds'[c] = Over
    BY <1>1, <1>2, <1>7 DEF AfterRelease
  <2>. QED
    BY <1>1, <1>2, <1>7, <2>1, OverIsFit DEF Carries, Ensuring
<1>. QED
  BY <1>2, <1>5, <1>6, <1>7

LEMMA StopCarries ==
  ASSUME BaselineTypeOK, Equipped, NEW c \in Commands, NEW rows \in SUBSET Servers,
         Step(c, "release", [cmds[c] EXCEPT !.at = "stop", !.lock = cmds[c].prev, !.rows = rows])
  PROVE  Carries(c)
<1>1. /\ Moved(c) /\ cmds[c].at = "release" /\ Active(c) /\ cmds'[c].at = "stop"
  BY StopMoves DEF Active, Outlived
<1>2. PICK x \in Progress : x = cmds[c]
  BY Known
<1>3. cmds'[c] = [x EXCEPT !.at = "stop", !.lock = x.prev, !.rows = rows]
  BY <1>2, StepMoves
<1>4. /\ cmds'[c].op = x.op /\ cmds'[c].tree = x.tree
      /\ cmds'[c].prev = x.prev /\ cmds'[c].slot = x.slot
  BY <1>3 DEF Progress
<1>. QED
  BY <1>1, <1>2, <1>4 DEF Carries

LEMMA SweepCarries ==
  ASSUME BaselineTypeOK, Equipped, NEW c \in Commands,
         \/ SnapshotRows(c) \/ SweepLock(c) \/ SweepEnds(c) \/ Decide(c) \/ Reclaim(c)
         \/ \E p \in Slots : SweepNext(c, p)
  PROVE  /\ Carries(c) /\ cmds[c].at \in {"snapshot", "dir", "sweep", "wait", "reclaim"}
         /\ cmds'[c].at \in {"dir", "sweep", "wait", "reclaim", "done"}
<1>1. /\ Moved(c) /\ cmds[c].at \in {"snapshot", "dir", "sweep", "wait", "reclaim"} /\ Active(c)
      /\ cmds'[c].at \in {"dir", "sweep", "wait", "reclaim", "done"}
  BY SweepMoves, DecideMoves, SweptMoves DEF Active, Outlived, Reclaim, Step
<1>2. PICK x \in Progress : x = cmds[c]
  BY Known
<1>3. ASSUME cmds'[c].at # "done"
      PROVE  cmds'[c].op = x.op /\ cmds'[c].tree = x.tree
  <2>1. CASE SnapshotRows(c)
    <3>1. cmds'[c] = [x EXCEPT !.at = "dir", !.rows = RowsNow]
      BY <1>2, <2>1, StepMoves DEF SnapshotRows
    <3>. QED  BY <3>1 DEF Progress
  <2>2. CASE SweepLock(c)
    <3>1. PICK found : found = IF cmds[c].op = "end" THEN {cmds[c].prev}
                               ELSE {p \in Slots : trees[p] # "none"}
      OBVIOUS
    <3>2. PICK held : held = {p \in found : ~Unreferenced(p)}
      OBVIOUS
    <3>3. cmds'[c] = [x EXCEPT !.at = "sweep", !.queue = found, !.held = held]
      BY <1>2, <2>2, <3>1, <3>2, StepMoves DEF SweepLock
    <3>. QED  BY <3>3 DEF Progress
  <2>3. CASE SweepEnds(c)
    BY <1>3, <2>3, StepMoves, OverIsFit DEF SweepEnds
  <2>4. CASE Step(c, cmds[c].at, Swept(c))
    <3>1. cmds'[c] = [x EXCEPT !.at = "sweep", !.slot = Nobody, !.lock = Nobody]
      BY <1>2, <2>4, StepMoves DEF Swept
    <3>. QED  BY <3>1 DEF Progress
  <2>5. CASE Step(c, "wait", [x EXCEPT !.at = "reclaim", !.lock = x.slot])
    <3>1. cmds'[c] = [x EXCEPT !.at = "reclaim", !.lock = x.slot]
      BY <2>5, StepMoves
    <3>. QED  BY <3>1 DEF Progress
  <2>6. ASSUME NEW p \in Slots, SweepNext(c, p)
        PROVE  cmds'[c].op = x.op /\ cmds'[c].tree = x.tree
    <3>1. PICK at, s : /\ at = IF SkippedUnmarked(c, p) THEN "sweep" ELSE "wait"
                       /\ s = IF SkippedUnmarked(c, p) THEN Nobody ELSE p
      OBVIOUS
    <3>2. cmds'[c] = [x EXCEPT !.queue = @ \ {p}, !.at = at, !.slot = s]
      BY <1>2, <2>6, <3>1, StepMoves, ZenonT(30) DEF SweepNext
    <3>. QED  BY <3>2 DEF Progress
  <2>. QED
    BY <1>2, <2>1, <2>2, <2>3, <2>4, <2>5, <2>6 DEF Decide, Reclaim, Step
<1>. QED
  BY <1>1, <1>2, <1>3 DEF Carries, Ensuring

LEMMA RemoveCarries ==
  ASSUME BaselineTypeOK, Equipped, NEW c \in Commands, RemoveCheckout(c)
  PROVE  Carries(c)
<1>1. Moved(c) /\ cmds[c].at = "remove" /\ Active(c) /\ cmds'[c].at \in {"done", "snapshot"}
  BY RemoveMoves DEF Active, Outlived
<1>2. PICK x \in Progress : x = cmds[c]
  BY Known
<1>3. CASE Step(c, "remove", [x EXCEPT !.at = "snapshot"])
  <2>1. cmds'[c] = [x EXCEPT !.at = "snapshot"]
    BY <1>3, StepMoves
  <2>2. cmds'[c].op = x.op /\ cmds'[c].tree = x.tree
    BY <2>1 DEF Progress
  <2>. QED
    BY <1>1, <1>2, <2>2 DEF Carries, Ensuring
<1>4. CASE Step(c, "remove", Over)
  BY <1>1, <1>4, CarryOver
<1>. QED
  BY <1>2, <1>3, <1>4 DEF RemoveCheckout

LEMMA GoesCarries ==
  ASSUME BaselineTypeOK, Equipped, NEW c \in Commands, Goes(c)
  PROVE  Carries(c)
<1>1. CASE WritePin(c)
  <2>1. cmds[c].at = "pin" /\ Active(c)
    BY <1>1 DEF WritePin, Active, Outlived
  <2>. QED
    BY <1>1, <2>1, PinCarries, CarryOver DEF WritePin, EnsureFails
<1>2. CASE ReleaseScan(c)
  <2>1. ServersIn(cmds[c].prev) \in SUBSET Servers
    BY DEF ServersIn, Servers
  <2>. QED
    BY <1>2, <2>1, ReleaseCarries, StopCarries DEF ReleaseScan
<1>3. CASE StopServers(c)
  <2>1. cmds[c].at = "stop"
    BY <1>3 DEF StopServers, Step
  <2>. QED
    BY <1>3, <2>1, ReleaseCarries DEF StopServers
<1>4. CASE LaunchServers(c)
  <2>1. Active(c)
    BY <1>4 DEF LaunchServers, Step, Active, Outlived
  <2>. QED
    BY <1>4, <2>1, CarryOver DEF LaunchServers
<1>. QED
  BY <1>1, <1>2, <1>3, <1>4, ResolveCarries, EnsureCarries, RemoveCarries, SweepCarries DEF Goes

-----------------------------------------------------------------------------
(* How the parts of Calm survive a step.                                   *)

(* Nothing but the outside damages a file.                                 *)
LEMMA HealthyStep ==
  ASSUME IInv, Healthy, UNCHANGED broken, NEW p, NEW v, v \notin {"corrupt", "blocked"},
         trees' \in {trees, [trees EXCEPT ![p] = v]},
         NEW w, NEW r, r.is # "unreadable",
         records' \in {records, [records EXCEPT ![w] = r]}
  PROVE  Healthy'
  BY DEF IInv, BaselineTypeOK, Healthy

(* A command that goes on, or ends, stays apart from the others.           *)
LEMMA ApartStep ==
  ASSUME Apart, NEW c \in Commands, Carries(c)
  PROVE  Apart'
<1>1. Commanding(c)' => /\ Commanding(c)
                        /\ cmds'[c].op = cmds[c].op /\ cmds'[c].tree = cmds[c].tree
  BY DEF Commanding, Active, Outlived, Carries
<1>2. \A d \in Commands \ {c} : cmds'[d] = cmds[d] /\ (Commanding(d)' <=> Commanding(d))
  BY DEF Commanding, Active, Outlived, Carries, Moved
<1> SUFFICES ASSUME NEW d \in Commands, NEW e \in Commands, d # e,
                    Commanding(d)', Commanding(e)'
             PROVE  /\ cmds'[d].tree # cmds'[e].tree
                    /\ cmds'[d].op = "end" => cmds'[e].op \notin {"up", "end"}
  BY DEF Apart
<1>3. /\ Commanding(d) /\ cmds'[d].op = cmds[d].op /\ cmds'[d].tree = cmds[d].tree
      /\ Commanding(e) /\ cmds'[e].op = cmds[e].op /\ cmds'[e].tree = cmds[e].tree
  BY <1>1, <1>2
<1>. QED
  BY <1>3 DEF Apart

(* Where a command works for a worktree, it is one of those kept apart.    *)
LEMMA WorksFor ==
  ASSUME Equipped, NEW c \in Commands,
         \/ cmds[c].at \in {"ensure", "launch", "release", "stop", "remove"}
         \/ cmds[c].at \in Ensuring
  PROVE  /\ Commanding(c)
         /\ cmds[c].at # "launch" => cmds[c].tree \in Checkouts
<1>1. Fit(cmds[c])
  BY DEF Equipped
<1>2. Active(c)
  BY DEF Active, Outlived, Ensuring
<1>. QED
  BY <1>1, <1>2 DEF Fit, Commanding, Ensuring

(* The record another command goes by is not this one's to change.         *)
LEMMA OthersRecorded ==
  ASSUME Equipped, Apart, NEW c \in Commands, NEW d \in Commands \ {c}, Recorded(d),
         cmds'[d] = cmds[d],
         \/ UNCHANGED records
         \/ Commanding(c) /\ \A w \in Checkouts \ {cmds[c].tree} : records'[w] = records[w]
  PROVE  Recorded(d)'
<1>1. CASE UNCHANGED records
  BY <1>1 DEF Recorded
<1>2. CASE Commanding(c) /\ \A w \in Checkouts \ {cmds[c].tree} : records'[w] = records[w]
  <2>1. CASE \/ cmds[d].at \in {"ensure", "launch", "release", "stop", "remove"}
             \/ cmds[d].at \in Ensuring
    <3>1. Commanding(d) /\ (cmds[d].at # "launch" => cmds[d].tree \in Checkouts)
      BY <2>1, WorksFor
    <3>2. cmds[d].tree # cmds[c].tree
      BY <1>2, <3>1 DEF Apart
    <3>3. cmds[d].tree \in Checkouts => records'[cmds[d].tree] = records[cmds[d].tree]
      BY <1>2, <3>2
    <3>4. cmds[d].at = "launch" => cmds[d].op = "up"
      BY DEF Equipped, Fit
    <3>. QED
      BY <3>1, <3>3, <3>4 DEF Recorded, Ensuring
  <2>2. CASE /\ cmds[d].at \notin {"ensure", "launch", "release", "stop", "remove"}
             /\ cmds[d].at \notin Ensuring
    BY <2>2 DEF Recorded, Ensuring
  <2>. QED
    BY <2>1, <2>2
<1>. QED
  BY <1>1, <1>2

(* The records stand still: what a command is told by its own stays so.    *)
LEMMA OwnRecorded ==
  ASSUME Equipped, NEW c \in Commands, Recorded(c), Carries(c), UNCHANGED records,
         \/ cmds'[c].at \in {"done", "dir", "sweep", "wait", "reclaim", "snapshot"}
         \/ cmds[c].at \in {"ensure"} \cup Ensuring /\ cmds'[c].at \in Ensuring
         \/ cmds[c].at \in {"release", "stop"} /\ cmds'[c].at \in {"launch", "stop", "remove"}
  PROVE  Recorded(c)'
<1>1. CASE cmds'[c].at \in {"done", "dir", "sweep", "wait", "reclaim", "snapshot"}
  BY <1>1 DEF Recorded, Ensuring
<1>2. CASE cmds[c].at \in {"ensure"} \cup Ensuring /\ cmds'[c].at \in Ensuring
  BY <1>2 DEF Recorded, Carries, Ensuring
<1>3. CASE cmds[c].at \in {"release", "stop"} /\ cmds'[c].at \in {"launch", "stop", "remove"}
  BY <1>3 DEF Recorded, Carries, Ensuring
<1>. QED
  BY <1>1, <1>2, <1>3

(* A step that starts no server and loses no reference leaves what the     *)
(* others know.                                                            *)
LEMMA OthersKnow ==
  ASSUME NEW d \in Commands, Knows(d), cmds'[d] = cmds[d], strayed \subseteq strayed',
         \A p \in Slots \ strayed : ServersIn(p)' \subseteq ServersIn(p),
         cmds[d].at = "stop" => cmds[d].prev \in Slots,
         cmds[d].at \in Ensuring => cmds[d].slot \in Slots,
         \/ \A p \in Slots : Naming(p)' = Naming(p)
         \/ cmds[d].at # "remove"
  PROVE  Knows(d)'
<1>1. cmds[d].at = "stop" /\ cmds[d].prev \notin strayed' =>
        ServersIn(cmds[d].prev)' \subseteq cmds[d].rows
  BY DEF Knows
<1>2. cmds[d].at = "remove" /\ cmds[d].prev \in Slots \ strayed' =>
        ServersIn(cmds[d].prev)' = {} \/ ~(Naming(cmds[d].prev)' \subseteq {cmds[d].tree})
  BY DEF Knows
<1>3. (cmds[d].at \in {"clear", "create"} \/ (cmds[d].at = "build" /\ cmds[d].built))
        /\ cmds[d].slot \notin strayed' => ServersIn(cmds[d].slot)' = {}
  BY DEF Knows, Ensuring
<1>. QED
  BY <1>1, <1>2, <1>3 DEF Knows, ServersIn, Naming

(* What each station needs to be at hand for the lemmas above.             *)
LEMMA Stands ==
  ASSUME IInv, NEW d \in Commands
  PROVE  /\ cmds[d].at = "stop" => cmds[d].prev \in Slots /\ Stops(d)
         /\ cmds[d].at \in Ensuring => cmds[d].slot \in Slots
         /\ cmds[d].at \in Ensuring \cup {"reclaim"} => Works(d)
  BY DEF IInv, HoldsLock, Holds, Locking, Equipped, Fit, StopSafe, SlotSafe

(* Steps that leave trees, records and servers alone.                      *)
LEMMA StillStep ==
  ASSUME IInv, Calm, NEW c \in Commands, Carries(c), strayed \subseteq strayed',
         UNCHANGED <<trees, records, servers, broken>>, Recorded(c)', Knows(c)',
         \A p \in Slots \ strayed :
           Sees(c, p) => Sees(c, p)' \/ Naming(p) # {} \/ ServersIn(p) = {}
  PROVE  Calm'
<1>1. Healthy'
  BY DEF Calm, Healthy
<1>2. Apart'
  BY ApartStep DEF Calm
<1>3. (\A p : ServersIn(p)' = ServersIn(p)) /\ (\A p : Naming(p)' = Naming(p))
  BY DEF ServersIn, Naming
<1>4. \A d \in Commands \ {c} : cmds'[d] = cmds[d] /\ (\A p : Sees(d, p)' <=> Sees(d, p))
  BY DEF Carries, Moved, Sees
<1>5. ASSUME NEW d \in Commands \ {c}
      PROVE  Recorded(d)' /\ Knows(d)'
  <2>1. Recorded(d)'
    BY <1>4, OthersRecorded DEF Calm, IInv
  <2>2. Knows(d)'
    BY <1>3, <1>4, OthersKnow, Stands DEF Calm
  <2>. QED
    BY <2>1, <2>2
<1>6. ASSUME NEW p \in Slots \ strayed'
      PROVE  Reached(p)'
  <2>1. p \in Slots \ strayed /\ Reached(p)
    BY DEF Calm
  <2>. QED
    BY <1>3, <1>4, <2>1 DEF Reached
<1>. QED
  BY <1>1, <1>2, <1>5, <1>6 DEF Calm

(* Steps that change the tree a command works on.                          *)
LEMMA TreeStep ==
  ASSUME IInv, Calm, NEW c \in Commands, Carries(c), cmds[c].at \in Ensuring \cup {"reclaim"},
         NEW v, trees' = [trees EXCEPT ![cmds[c].slot] = v], v \notin {"corrupt", "blocked"},
         v \in Shas \/ (cmds[c].slot \notin strayed => ServersIn(cmds[c].slot) = {}),
         UNCHANGED <<records, servers, strayed, broken>>, Recorded(c)', Knows(c)'
  PROVE  Calm'
<1>1. Healthy'
  BY DEF Calm, Healthy, IInv, BaselineTypeOK
<1>2. Apart'
  BY ApartStep DEF Calm
<1>3. (\A p : ServersIn(p)' = ServersIn(p)) /\ (\A p : Naming(p)' = Naming(p))
  BY DEF ServersIn, Naming
<1>4. \A d \in Commands \ {c} : cmds'[d] = cmds[d] /\ (\A p : Sees(d, p)' <=> Sees(d, p))
  BY DEF Carries, Moved, Sees
<1>5. ASSUME NEW d \in Commands \ {c}
      PROVE  Recorded(d)' /\ Knows(d)'
  <2>1. Recorded(d)'
    BY <1>4, OthersRecorded DEF Calm, IInv
  <2>2. Knows(d)'
    BY <1>3, <1>4, OthersKnow, Stands DEF Calm
  <2>. QED
    BY <2>1, <2>2
<1>6. ASSUME NEW p \in Slots \ strayed', ServersIn(p)' # {}
      PROVE  Reached(p)'
  <2>1. p \in Slots \ strayed /\ Reached(p) /\ ServersIn(p) # {}
    BY <1>3, <1>6 DEF Calm
  <2>2. \A q : ~Sees(c, q)
    BY DEF Sees, Ensuring
  <2>3. trees'[p] \in Shas
    BY <2>1 DEF Reached, IInv, BaselineTypeOK
  <2>. QED
    BY <1>3, <1>4, <2>1, <2>2, <2>3 DEF Reached
<1>7. \A p \in Slots \ strayed' : Reached(p)'
  BY <1>6 DEF Reached
<1>. QED
  BY <1>1, <1>2, <1>5, <1>7 DEF Calm

LEMMA ResolveCalm ==
  ASSUME IInv, Calm, NEW c \in Commands, Resolve(c)
  PROVE  Calm'
<1>0. BaselineTypeOK /\ Equipped
  BY DEF IInv
<1>1. /\ Carries(c) /\ cmds[c].at = "ensure"
      /\ UNCHANGED <<trees, records, servers, broken>>
  BY <1>0, ResolveCarries, ResolveMoves DEF Resolve
<1>2. strayed \subseteq strayed'
  BY <1>0, ResolveMoves
<1>3. Recorded(c)'
  <2>1. cmds'[c].at = "done" \/ cmds'[c].at \in Ensuring
    BY <1>0, ResolveMoves DEF Ensuring
  <2>. QED
    BY <1>0, <1>1, <2>1, OwnRecorded DEF Calm
<1>4. Knows(c)'
  <2>1. CASE cmds'[c].at = "done"
    BY <2>1 DEF Knows
  <2>2. CASE cmds'[c].at # "done"
    <3>0. PICK p : p = cmds'[c].slot
      OBVIOUS
    <3>1. /\ cmds[c].sha \in Shas /\ p = Candidate(cmds[c].sha)
          /\ p \in Slots /\ p # Nobody /\ ~cmds'[c].built
          /\ cmds'[c].at \in {"build", "create", "clear"}
          /\ cmds'[c].at = "build" <=> trees[p] = cmds[c].sha
      BY <1>0, <2>2, <3>0, ResolveMoves, Constants
    <3>2. trees[p] \notin Shas \ {cmds[c].sha}
      BY <3>1, CandidateIsFree
    <3>3. ASSUME cmds'[c].at \in {"clear", "create"}, p \notin strayed'
          PROVE  ServersIn(p)' = {}
      <4>1. trees[p] \notin Shas /\ Reached(p)
        BY <1>2, <3>1, <3>2, <3>3 DEF Calm
      <4>. QED
        BY <1>1, <4>1 DEF Reached, ServersIn
    <3>. QED
      BY <3>0, <3>1, <3>3 DEF Knows, ServersIn
  <2>. QED
    BY <2>1, <2>2
<1>5. \A p : ~Sees(c, p)
  BY <1>1 DEF Sees
<1>. QED
  BY <1>1, <1>2, <1>3, <1>4, <1>5, StillStep

(* An ensure that fails before its pin.                                    *)
LEMMA FailCalm ==
  ASSUME IInv, Calm, NEW c \in Commands, cmds[c].at \in Ensuring, EnsureFails(c), UNCHANGED trees
  PROVE  Calm'
<1>0. BaselineTypeOK /\ Equipped
  BY DEF IInv
<1>1. Active(c)
  BY DEF Active, Outlived, Ensuring
<1>2. /\ Carries(c) /\ cmds'[c].at = "done"
      /\ UNCHANGED <<trees, records, servers, broken, strayed>>
  BY <1>0, <1>1, CarryOver DEF EnsureFails, history
<1>3. Recorded(c)' /\ Knows(c)' /\ \A p : ~Sees(c, p)
  BY <1>2 DEF Recorded, Knows, Sees, Ensuring
<1>. QED
  BY <1>2, <1>3, StillStep

LEMMA EnsureCalm ==
  ASSUME IInv, Calm, NEW c \in Commands, Clear(c) \/ Create(c) \/ Build(c)
  PROVE  Calm'
<1> DEFINE bad == {"corrupt", "blocked"}
<1>0. BaselineTypeOK /\ Equipped /\ Recorded(c) /\ Knows(c) /\ broken = {}
  BY DEF IInv, Calm, Healthy
<1>1. /\ cmds[c].at \in {"clear", "create", "build"} /\ cmds[c].at \in Ensuring
      /\ Carries(c) /\ cmds[c].sha \in Shas /\ cmds[c].slot \in Slots
  BY <1>0, EnsureCarries, EnsureHolds DEF Clear, Create, Build, Step, Ensuring
<1>2. CASE EnsureFails(c) /\ UNCHANGED trees
  BY <1>1, <1>2, FailCalm
<1>3. ASSUME NEW v, v \notin bad, EnsureFails(c),
             cmds[c].at = "create" \/ (cmds[c].at = "build" /\ cmds[c].built),
             trees' = [trees EXCEPT ![cmds[c].slot] = v]
      PROVE  Calm'
  <2>1. cmds'[c].at = "done" /\ UNCHANGED <<records, servers, strayed, broken>>
    BY <1>0, <1>3, MoveOver DEF EnsureFails, history
  <2>2. Recorded(c)' /\ Knows(c)'
    BY <2>1 DEF Recorded, Knows, Ensuring
  <2>3. cmds[c].slot \notin strayed => ServersIn(cmds[c].slot) = {}
    BY <1>0, <1>3 DEF Knows
  <2>. QED
    BY <1>1, <1>3, <2>1, <2>2, <2>3, TreeStep
<1>4. ASSUME NEW v, v \notin bad,
             \/ Step(c, "clear", [cmds[c] EXCEPT !.at = "create"])
             \/ Step(c, "create", [cmds[c] EXCEPT !.at = "build", !.built = TRUE])
             \/ /\ Step(c, "build", [cmds[c] EXCEPT !.at = "pin"])
                /\ v = cmds[c].sha,
             trees' = [trees EXCEPT ![cmds[c].slot] = v],
             UNCHANGED <<records, servers, strayed, broken>>
      PROVE  Calm'
  <2>1. /\ cmds'[c].slot = cmds[c].slot
        /\ \/ cmds[c].at = "clear" /\ cmds'[c].at = "create"
           \/ cmds[c].at = "create" /\ cmds'[c].at = "build"
           \/ cmds[c].at = "build" /\ cmds'[c].at = "pin" /\ v = cmds[c].sha
    BY <1>0, <1>4, EnsureMoves DEF Step
  <2>2. Recorded(c)'
    BY <1>0, <1>1, <1>4, <2>1, OwnRecorded DEF Ensuring
  <2>3. Knows(c)'
    BY <1>0, <1>4, <2>1 DEF Knows, ServersIn
  <2>4. v \in Shas \/ (cmds[c].slot \notin strayed => ServersIn(cmds[c].slot) = {})
    BY <1>0, <1>1, <2>1 DEF Knows
  <2>. QED
    BY <1>1, <1>4, <2>2, <2>3, <2>4, TreeStep
<1>5. \A t \in Unfinished("removing", trees[cmds[c].slot]) : t \notin bad
  BY <1>1 DEF Unfinished, Calm, Healthy
<1>6. CASE Clear(c)
  BY <1>4, <1>5, <1>6 DEF Clear, history
<1>7. CASE Create(c)
  <2>1. Heal(cmds[c].slot) => UNCHANGED broken
    BY <1>0 DEF Heal
  <2>2. "unmarked" \notin bad
    OBVIOUS
  <2>. QED
    BY <1>2, <1>3, <1>4, <1>7, <2>1, <2>2 DEF Create
<1>8. CASE Build(c)
  <2>1. cmds[c].sha \notin bad
    BY <1>1, Constants
  <2>2. CASE /\ Step(c, "build", [cmds[c] EXCEPT !.at = "pin"])
             /\ trees' = [trees EXCEPT ![cmds[c].slot] = cmds[c].sha]
             /\ UNCHANGED <<records, forks, servers, dirLock, slotLocks, events, history>>
    BY <1>4, <2>1, <2>2 DEF history
  <2>3. CASE /\ EnsureFails(c)
             /\ \/ UNCHANGED trees
                \/ /\ cmds[c].built
                   /\ \E t \in Unfinished("removing", trees[cmds[c].slot]) :
                        trees' = [trees EXCEPT ![cmds[c].slot] = t]
    BY <1>2, <1>3, <1>5, <1>8, <2>3 DEF Build
  <2>. QED
    BY <1>8, <2>2, <2>3 DEF Build
<1>. QED
  BY <1>6, <1>7, <1>8

LEMMA WritePinCalm ==
  ASSUME IInv, Calm, NEW c \in Commands, WritePin(c)
  PROVE  Calm'
<1> DEFINE w == cmds[c].tree
<1>0. BaselineTypeOK /\ Equipped /\ Recorded(c) /\ Apart
  BY DEF IInv, Calm
<1>1. /\ cmds[c].at = "pin" /\ cmds[c].at \in Ensuring /\ w \in Checkouts
      /\ cmds[c].slot \in Slots /\ cmds[c].op = "up" /\ Commanding(c)
      /\ records[w].slot = cmds[c].prev
  BY <1>0, EnsureHolds, WorksFor DEF WritePin, Ensuring, Equipped, Fit, Recorded
<1>2. CASE EnsureFails(c) /\ UNCHANGED trees
  BY <1>1, <1>2, FailCalm
<1>3. CASE /\ records' = [records EXCEPT ![w] = Pin(cmds[c].sha, cmds[c].slot)]
           /\ Step(c, "pin", AfterPin(c))
           /\ UNCHANGED <<trees, forks, servers, dirLock, events, history>>
  <2>1. /\ Carries(c) /\ cmds'[c].at \in {"launch", "release"}
        /\ cmds'[c].at = "launch" => cmds[c].prev \in {Nobody, cmds[c].slot}
    BY <1>0, <1>1, <1>3, PinCarries
  <2>2. UNCHANGED <<trees, servers, strayed, broken>>
    BY <1>3 DEF history
  <2>3. /\ records'[w].slot = cmds[c].slot /\ records'[w].is = "pin"
        /\ \A v \in Checkouts \ {w} : records'[v] = records[v]
    BY <1>0, <1>1, <1>3 DEF BaselineTypeOK, Pin
  <2>4. Healthy'
    BY <2>2, <2>3 DEF Calm, Healthy
  <2>5. Apart'
    BY <1>0, <2>1, ApartStep
  <2>6. /\ cmds'[c].slot = cmds[c].slot /\ cmds'[c].tree = w /\ cmds'[c].op = "up"
        /\ cmds'[c].at = "release" => cmds'[c].prev = cmds[c].prev
    BY <1>1, <2>1 DEF Carries
  <2>7. Recorded(c)' /\ Knows(c)'
    BY <1>1, <2>1, <2>3, <2>6 DEF Recorded, Knows, Ensuring
  <2>8. \A d \in Commands \ {c} : cmds'[d] = cmds[d] /\ (\A p : Sees(d, p)' <=> Sees(d, p))
    BY <2>1 DEF Carries, Moved, Sees
  <2>9. \A p : ServersIn(p)' = ServersIn(p)
    BY <2>2 DEF ServersIn
  <2>10. ASSUME NEW d \in Commands \ {c}
         PROVE  Recorded(d)' /\ Knows(d)'
    <3>1. Recorded(d)'
      BY <1>0, <1>1, <2>3, <2>8, OthersRecorded DEF Calm
    <3>2. cmds[d].at # "remove"
      <4> SUFFICES ASSUME cmds[d].at = "remove"
                   PROVE  FALSE
        OBVIOUS
      <4>1. Commanding(d) /\ cmds[d].op = "end"
        BY <1>0, WorksFor DEF Equipped, Fit
      <4>. QED
        BY <1>0, <1>1, <4>1 DEF Apart
    <3>3. Knows(d)'
      BY <2>2, <2>8, <2>9, <3>2, OthersKnow, Stands DEF Calm
    <3>. QED
      BY <3>1, <3>3
  <2>11. ASSUME NEW p \in Slots \ strayed', ServersIn(p)' # {}
         PROVE  Naming(p)' # {} \/ \E d \in Commands : Sees(d, p)'
    <3>1. /\ p \in Slots \ strayed
          /\ Naming(p) # {} \/ \E d \in Commands : Sees(d, p)
      BY <2>2, <2>9, <2>11 DEF Calm, Reached
    <3>2. CASE p = cmds[c].slot
      BY <1>1, <2>3, <3>2 DEF Naming
    <3>3. CASE p # cmds[c].slot /\ p = cmds[c].prev
      <4>1. p # Nobody
        BY <3>1, Constants
      <4>. QED
        BY <2>1, <2>6, <3>3, <4>1 DEF Sees
    <3>4. CASE p # cmds[c].slot /\ p # cmds[c].prev
      <4>1. Naming(p)' = Naming(p)
        BY <1>1, <2>3, <3>4 DEF Naming
      <4>2. ~Sees(c, p)
        BY <1>1 DEF Sees
      <4>. QED
        BY <2>8, <3>1, <4>1, <4>2
    <3>. QED
      BY <3>2, <3>3, <3>4
  <2>12. \A p \in Slots \ strayed' : Reached(p)'
    BY <2>2, <2>9, <2>11 DEF Calm, Reached
  <2>. QED
    BY <2>4, <2>5, <2>7, <2>10, <2>12 DEF Calm
<1>. QED
  BY <1>2, <1>3 DEF WritePin

LEMMA ReleaseScanCalm ==
  ASSUME IInv, Calm, NEW c \in Commands, ReleaseScan(c)
  PROVE  Calm'
<1>0. BaselineTypeOK /\ Equipped /\ Recorded(c) /\ Healthy
  BY DEF IInv, Calm
<1>1. /\ cmds[c].at = "release" /\ cmds[c].prev \in Slots /\ cmds[c].op \in {"up", "end", "down"}
      /\ UNCHANGED <<trees, records, servers, strayed, broken>>
  BY <1>0 DEF ReleaseScan, history, Equipped, Fit
<1>2. PICK p : p = cmds[c].prev
  OBVIOUS
<1>3. PICK rows : rows = IF Stoppable(c) THEN ServersIn(p) ELSE {}
  OBVIOUS
<1>4. CASE /\ rows # {}
           /\ Step(c, "release", [cmds[c] EXCEPT !.at = "stop", !.lock = p, !.rows = rows])
  <2>1. rows = ServersIn(p) /\ rows \in SUBSET Servers
    BY <1>3, <1>4 DEF ServersIn, Servers
  <2>2. /\ Carries(c) /\ cmds'[c].at = "stop" /\ cmds'[c].prev = p /\ cmds'[c].rows = rows
    BY <1>0, <1>2, <1>4, <2>1, StopCarries, StopMoves
  <2>3. Recorded(c)'
    BY <1>0, <1>1, <2>2, OwnRecorded
  <2>4. Knows(c)'
    BY <1>1, <2>1, <2>2 DEF Knows, ServersIn
  <2>5. \A q : Sees(c, q) => Sees(c, q)'
    BY <2>2 DEF Sees, Carries
  <2>. QED
    BY <1>1, <2>2, <2>3, <2>4, <2>5, StillStep
<1>5. CASE rows = {} /\ Step(c, "release", AfterRelease(c))
  <2>1. /\ Carries(c)
        /\ cmds[c].op = "up" => cmds'[c].at = "launch"
        /\ cmds[c].op = "end" => cmds'[c].at = "remove"
        /\ cmds[c].op = "down" => cmds'[c].at = "done"
    BY <1>0, <1>1, <1>5, ReleaseCarries
  <2>2. Recorded(c)'
    BY <1>0, <1>1, <2>1, OwnRecorded
  <2>3. ASSUME p \notin strayed, ServersIn(p) # {}, cmds[c].op # "down"
        PROVE  ~(Naming(p) \subseteq {cmds[c].tree})
    <3>1. ~Stoppable(c)
      BY <1>3, <1>5, <2>3
    <3>2. trees[p] \in Shas
      BY <1>1, <1>2, <2>3 DEF Calm, Reached
    <3>3. ~Blind
      BY <1>0 DEF Healthy, Blind, BlindBut
    <3>. QED
      BY <1>2, <2>3, <3>1, <3>2, <3>3 DEF Stoppable, Marked
  <2>4. Knows(c)'
    <3>1. CASE cmds[c].op = "end"
      <4>1. cmds'[c].at = "remove" /\ cmds'[c].prev = p /\ cmds'[c].tree = cmds[c].tree
        BY <1>2, <2>1, <3>1 DEF Carries
      <4>. QED
        BY <1>1, <2>3, <3>1, <4>1 DEF Knows, ServersIn, Naming
    <3>2. CASE cmds[c].op # "end"
      BY <1>1, <2>1, <3>2 DEF Knows
    <3>. QED
      BY <3>1, <3>2
  <2>5. \A q \in Slots \ strayed : Sees(c, q) => Naming(q) # {} \/ ServersIn(q) = {}
    BY <1>2, <2>3 DEF Sees
  <2>. QED
    BY <1>1, <2>1, <2>2, <2>4, <2>5, StillStep
<1>. QED
  BY <1>2, <1>3, <1>4, <1>5 DEF ReleaseScan

LEMMA StopServersCalm ==
  ASSUME IInv, Calm, NEW c \in Commands, StopServers(c), ~disturbed'
  PROVE  Calm'
<1>0. BaselineTypeOK /\ Equipped /\ Recorded(c) /\ Knows(c)
  BY DEF IInv, Calm
<1>1. /\ cmds[c].at = "stop" /\ cmds[c].prev \in Slots /\ cmds[c].op \in {"up", "end", "down"}
      /\ Step(c, cmds[c].at, AfterRelease(c))
      /\ UNCHANGED <<trees, records, strayed, broken>>
  BY <1>0, Stands DEF StopServers, Step, Equipped, Fit
<1>2. /\ Carries(c)
      /\ cmds[c].op = "up" => cmds'[c].at = "launch"
      /\ cmds[c].op = "end" => cmds'[c].at = "remove"
      /\ cmds[c].op = "down" => cmds'[c].at = "done"
  BY <1>0, <1>1, ReleaseCarries
<1>3. servers' = [s \in DOMAIN servers |-> IF s \in cmds[c].rows THEN Nobody ELSE servers[s]]
  BY DEF StopServers, Disturb
<1>4. PICK left : left = cmds[c].prev
  OBVIOUS
<1>5. /\ \A p \in Slots : ServersIn(p)' \subseteq ServersIn(p)
      /\ left \notin strayed => ServersIn(left)' = {}
  <2>1. \A s \in Servers : servers'[s] = IF s \in cmds[c].rows THEN Nobody ELSE servers[s]
    BY <1>0, <1>3 DEF BaselineTypeOK
  <2>2. left \in Slots /\ (left \notin strayed => ServersIn(left) \subseteq cmds[c].rows)
    BY <1>0, <1>1, <1>4 DEF Knows
  <2>. QED
    BY <2>1, <2>2, Constants DEF ServersIn, Servers
<1>6. \A p : Naming(p)' = Naming(p)
  BY <1>1 DEF Naming
<1>7. \A d \in Commands \ {c} : cmds'[d] = cmds[d] /\ (\A p : Sees(d, p)' <=> Sees(d, p))
  BY <1>2 DEF Carries, Moved, Sees
<1>8. Healthy' /\ Apart'
  BY <1>1, <1>2, ApartStep DEF Calm, Healthy
<1>9. Recorded(c)'
  BY <1>0, <1>1, <1>2, OwnRecorded
<1>10. Knows(c)'
  <2>1. cmds'[c].at = "remove" => cmds'[c].prev = left
    BY <1>2, <1>4 DEF Carries
  <2>. QED
    BY <1>1, <1>2, <1>5, <2>1 DEF Knows, ServersIn
<1>11. ASSUME NEW d \in Commands \ {c}
       PROVE  Recorded(d)' /\ Knows(d)'
  <2>1. Recorded(d)'
    BY <1>0, <1>1, <1>7, OthersRecorded DEF Calm
  <2>2. Knows(d)'
    BY <1>1, <1>5, <1>6, <1>7, OthersKnow, Stands DEF Calm
  <2>. QED
    BY <2>1, <2>2
<1>12. ASSUME NEW p \in Slots \ strayed', ServersIn(p)' # {}
       PROVE  Naming(p)' # {} \/ \E d \in Commands : Sees(d, p)'
  <2>1. p \in Slots \ strayed /\ ServersIn(p) # {} /\ p # left
    BY <1>1, <1>5, <1>12
  <2>2. Naming(p) # {} \/ \E d \in Commands : Sees(d, p)
    BY <2>1 DEF Calm, Reached
  <2>3. ~Sees(c, p)
    BY <1>4, <2>1 DEF Sees
  <2>. QED
    BY <1>6, <1>7, <2>2, <2>3
<1>13. \A p \in Slots \ strayed' : Reached(p)'
  <2> SUFFICES ASSUME NEW p \in Slots \ strayed', ServersIn(p)' # {}
               PROVE  trees'[p] \in Shas
    BY <1>12 DEF Reached
  <2>. QED
    BY <1>1, <1>5 DEF Calm, Reached
<1>. QED
  BY <1>8, <1>9, <1>10, <1>11, <1>13 DEF Calm

LEMMA LaunchCalm ==
  ASSUME IInv, Calm, NEW c \in Commands, LaunchServers(c)
  PROVE  Calm'
<1> DEFINE w == cmds[c].tree
           p == cmds[c].slot
<1>0. BaselineTypeOK /\ Equipped /\ Recorded(c) /\ Apart /\ Healthy
  BY DEF IInv, Calm
<1>1. /\ cmds[c].at = "launch" /\ p \in Slots /\ cmds[c].op = "up" /\ Commanding(c)
      /\ w \in Checkouts /\ records[w].slot = p /\ w \in Naming(p)
      /\ UNCHANGED <<trees, records, strayed, broken>>
  BY <1>0, WorksFor DEF LaunchServers, Step, Equipped, Fit, Recorded, Naming, history
<1>2. Carries(c) /\ cmds'[c].at = "done"
  BY <1>0, <1>1, CarryOver DEF LaunchServers, Commanding
<1>3. Recorded(c)' /\ Knows(c)' /\ \A q : ~Sees(c, q)
  BY <1>1, <1>2 DEF Recorded, Knows, Sees, Ensuring
<1>4. CASE UNCHANGED servers
  BY <1>1, <1>2, <1>3, <1>4, StillStep
<1>5. CASE servers' = [servers EXCEPT ![c] = p]
  <2>1. servers[c] = Nobody
    BY <1>1 DEF IInv, StopSafe
  <2>2. /\ \A q \in Slots \ {p} : ServersIn(q)' = ServersIn(q)
    BY <1>0, <1>5, <2>1, Constants DEF ServersIn, BaselineTypeOK, Servers
  <2>3. \A q : Naming(q)' = Naming(q)
    BY <1>1 DEF Naming
  <2>4. \A d \in Commands \ {c} : cmds'[d] = cmds[d] /\ (\A q : Sees(d, q)' <=> Sees(d, q))
    BY <1>2 DEF Carries, Moved, Sees
  <2>5. Healthy' /\ Apart'
    BY <1>0, <1>1, <1>2, ApartStep DEF Healthy
  <2>6. ASSUME p \notin strayed
        PROVE  trees[p] \in Shas
    BY <1>0, <1>1, <2>6, PinFacts DEF IInv, PinnedIsComplete, Healthy
  <2>7. ASSUME NEW d \in Commands \ {c}
        PROVE  Recorded(d)' /\ Knows(d)'
    <3>1. Recorded(d)'
      BY <1>0, <1>1, <2>4, OthersRecorded DEF Calm
    <3>2. ASSUME cmds[d].at = "stop", cmds[d].prev \notin strayed
          PROVE  cmds[d].prev # p
      <4>1. cmds[d].tree # w
        BY <1>0, <1>1, <3>2, WorksFor DEF Apart
      <4>. QED
        BY <1>1, <3>2, <4>1, Stands DEF Stops
    <3>3. cmds[d].at # "remove"
      <4> SUFFICES ASSUME cmds[d].at = "remove"
                   PROVE  FALSE
        OBVIOUS
      <4>1. Commanding(d) /\ cmds[d].op = "end"
        BY <1>0, WorksFor DEF Equipped, Fit
      <4>. QED
        BY <1>0, <1>1, <4>1 DEF Apart
    <3>4. ASSUME \/ cmds[d].at \in {"clear", "create"}
                 \/ cmds[d].at = "build" /\ cmds[d].built,
                 cmds[d].slot \notin strayed
          PROVE  cmds[d].slot # p
      <4>1. Works(d)
        BY <3>4, Stands DEF Ensuring
      <4>. QED
        BY <1>0, <1>1, <3>4, <4>1 DEF Works, Healthy
    <3>5. Knows(d)
      BY DEF Calm
    <3>6. cmds[d].at = "stop" /\ cmds[d].prev \notin strayed =>
            ServersIn(cmds[d].prev)' \subseteq cmds[d].rows
      BY <2>2, <2>4, <3>2, <3>5, Stands DEF Knows, ServersIn
    <3>7. (cmds[d].at \in {"clear", "create"} \/ (cmds[d].at = "build" /\ cmds[d].built))
            /\ cmds[d].slot \notin strayed => ServersIn(cmds[d].slot)' = {}
      BY <2>2, <2>4, <3>4, <3>5, Stands DEF Knows, Ensuring, ServersIn
    <3>8. Knows(d)'
      BY <1>1, <2>4, <3>3, <3>6, <3>7 DEF Knows, ServersIn
    <3>. QED
      BY <3>1, <3>8
  <2>8. ASSUME NEW q \in Slots \ strayed'
        PROVE  Reached(q)'
    <3>1. CASE q = p
      BY <1>1, <2>3, <2>6, <3>1 DEF Reached
    <3>2. CASE q # p
      BY <1>1, <1>3, <2>2, <2>3, <2>4, <3>2 DEF Reached, Calm
    <3>. QED
      BY <3>1, <3>2
  <2>. QED
    BY <1>3, <2>5, <2>7, <2>8 DEF Calm
<1>. QED
  BY <1>4, <1>5 DEF LaunchServers

LEMMA RemoveCalm ==
  ASSUME IInv, Calm, NEW c \in Commands, RemoveCheckout(c)
  PROVE  Calm'
<1> DEFINE w == cmds[c].tree
<1>0. BaselineTypeOK /\ Equipped /\ Recorded(c) /\ Knows(c) /\ Apart /\ Healthy
  BY DEF IInv, Calm
<1>1. /\ cmds[c].at = "remove" /\ cmds[c].op = "end" /\ Commanding(c)
      /\ w \in Checkouts /\ records[w].slot = cmds[c].prev
      /\ UNCHANGED <<trees, servers, strayed, broken>>
  BY <1>0, WorksFor DEF RemoveCheckout, Equipped, Fit, Recorded, history
<1>2. Carries(c) /\ cmds'[c].at \in {"done", "snapshot"}
  BY <1>0, RemoveCarries, RemoveMoves
<1>3. Recorded(c)' /\ Knows(c)' /\ \A q : ~Sees(c, q)
  BY <1>1, <1>2 DEF Recorded, Knows, Sees, Ensuring
<1>4. CASE UNCHANGED records
  BY <1>1, <1>2, <1>3, <1>4, StillStep
<1>5. CASE records' = [records EXCEPT ![w] = Unpinned("gone")]
  <2>1. /\ records'[w].slot = Nobody /\ records'[w].is = "gone"
        /\ \A v \in Checkouts \ {w} : records'[v] = records[v]
    BY <1>0, <1>1, <1>5 DEF BaselineTypeOK, Unpinned
  <2>2. \A q : ServersIn(q)' = ServersIn(q)
    BY <1>1 DEF ServersIn
  <2>3. \A q \in Slots : Naming(q)' = Naming(q) \ {w}
    BY <1>1, <2>1, Constants DEF Naming
  <2>4. \A d \in Commands \ {c} : cmds'[d] = cmds[d] /\ (\A q : Sees(d, q)' <=> Sees(d, q))
    BY <1>2 DEF Carries, Moved, Sees
  <2>5. Healthy' /\ Apart'
    BY <1>0, <1>1, <1>2, <2>1, ApartStep DEF Healthy
  <2>6. ASSUME NEW d \in Commands \ {c}
        PROVE  Recorded(d)' /\ Knows(d)'
    <3>1. Recorded(d)'
      BY <1>0, <1>1, <2>1, <2>4, OthersRecorded DEF Calm
    <3>2. cmds[d].at # "remove"
      <4> SUFFICES ASSUME cmds[d].at = "remove"
                   PROVE  FALSE
        OBVIOUS
      <4>1. Commanding(d) /\ cmds[d].op = "end"
        BY <1>0, WorksFor DEF Equipped, Fit
      <4>. QED
        BY <1>0, <1>1, <4>1 DEF Apart
    <3>3. Knows(d)'
      BY <1>1, <2>2, <2>4, <3>2, OthersKnow, Stands DEF Calm
    <3>. QED
      BY <3>1, <3>3
  <2>7. ASSUME NEW q \in Slots \ strayed', ServersIn(q)' # {}
        PROVE  Naming(q)' # {} \/ \E d \in Commands : Sees(d, q)'
    <3>1. /\ q \in Slots \ strayed /\ ServersIn(q) # {}
          /\ Naming(q) # {} \/ \E d \in Commands : Sees(d, q)
      BY <1>1, <2>2, <2>7 DEF Calm, Reached
    <3>2. CASE q = cmds[c].prev
      <4>1. ~(Naming(q) \subseteq {w})
        BY <1>0, <1>1, <3>1, <3>2 DEF Knows
      <4>. QED
        BY <2>3, <3>1, <4>1
    <3>3. CASE q # cmds[c].prev
      <4>1. w \notin Naming(q)
        BY <1>1, <3>3 DEF Naming
      <4>. QED
        BY <1>3, <2>3, <2>4, <3>1, <4>1
    <3>. QED
      BY <3>2, <3>3
  <2>8. \A q \in Slots \ strayed' : Reached(q)'
    BY <1>1, <2>2, <2>7 DEF Calm, Reached
  <2>. QED
    BY <1>3, <2>5, <2>6, <2>8 DEF Calm
<1>. QED
  BY <1>4, <1>5 DEF RemoveCheckout

LEMMA SweepCalm ==
  ASSUME IInv, Calm, NEW c \in Commands, ~disturbed',
         \/ SnapshotRows(c) \/ SweepLock(c) \/ SweepEnds(c) \/ Decide(c) \/ Reclaim(c)
         \/ \E p \in Slots : SweepNext(c, p)
  PROVE  Calm'
<1>0. BaselineTypeOK /\ Equipped
  BY DEF IInv
<1>1. /\ Carries(c) /\ cmds[c].at \in {"snapshot", "dir", "sweep", "wait", "reclaim"}
      /\ cmds'[c].at \in {"dir", "sweep", "wait", "reclaim", "done"}
  BY <1>0, SweepCarries
<1>2. Recorded(c)' /\ Knows(c)' /\ \A p : ~Sees(c, p)
  BY <1>1 DEF Recorded, Knows, Sees, Ensuring
<1>3. UNCHANGED <<records, servers, strayed, broken>>
  BY DEF SnapshotRows, SweepLock, SweepEnds, Decide, Reclaim, SweepNext, Disturb, history
<1>4. CASE UNCHANGED trees
  BY <1>1, <1>2, <1>3, <1>4, StillStep
<1>5. CASE Reclaim(c) /\ trees' # trees
  <2>1. PICK v : v = "none"
    OBVIOUS
  <2>2. /\ trees' = [trees EXCEPT ![cmds[c].slot] = v] /\ v \notin {"corrupt", "blocked"}
        /\ ServersIn(cmds[c].slot) = {} /\ cmds[c].at = "reclaim"
    BY <1>5, <2>1 DEF Reclaim, Disturb, Step
  <2>. QED
    BY <1>1, <1>2, <1>3, <2>2, TreeStep
<1>. QED
  BY <1>4, <1>5 DEF SnapshotRows, SweepLock, SweepEnds, Decide, SweepNext

(* A command begins.                                                       *)
LEMMA BeginStep ==
  ASSUME IInv, Calm, NEW c \in Commands, cmds[c].at = "idle", Moved(c),
         UNCHANGED <<trees, records, servers, strayed, broken>>, Recorded(c)', Knows(c)',
         cmds'[c].op # "prune" => ~Overlaps(cmds'[c].op, cmds'[c].tree)
  PROVE  Calm'
<1>1. Healthy'
  BY DEF Calm, Healthy
<1>2. (\A p : ServersIn(p)' = ServersIn(p)) /\ (\A p : Naming(p)' = Naming(p))
  BY DEF ServersIn, Naming
<1>3. /\ \A d \in Commands \ {c} : cmds'[d] = cmds[d] /\ (Commanding(d)' <=> Commanding(d))
      /\ \A d \in Commands : \A p : Sees(d, p) => Sees(d, p)'
  BY DEF Moved, Sees, Commanding, Active, Outlived
<1>4. ASSUME NEW d \in Commands, NEW e \in Commands, d # e, Commanding(d)', Commanding(e)'
      PROVE  /\ cmds'[d].tree # cmds'[e].tree
             /\ cmds'[d].op = "end" => cmds'[e].op \notin {"up", "end"}
  <2>1. CASE d # c /\ e # c
    BY <1>3, <1>4, <2>1 DEF Calm, Apart
  <2>2. ASSUME NEW f \in Commands \ {c}, Commanding(f)', Commanding(c)'
        PROVE  /\ cmds'[f].tree # cmds'[c].tree
               /\ cmds'[f].op = "end" => cmds'[c].op \notin {"up", "end"}
               /\ cmds'[c].op = "end" => cmds'[f].op \notin {"up", "end"}
    BY <1>3, <2>2 DEF Overlaps, Commanding
  <2>. QED
    BY <1>4, <2>1, <2>2
<1>5. ASSUME NEW d \in Commands \ {c}
      PROVE  Recorded(d)' /\ Knows(d)'
  <2>1. Recorded(d)'
    BY <1>3, OthersRecorded DEF Calm, IInv
  <2>2. Knows(d)'
    BY <1>2, <1>3, OthersKnow, Stands DEF Calm
  <2>. QED
    BY <2>1, <2>2
<1>6. ASSUME NEW p \in Slots \ strayed'
      PROVE  Reached(p)'
  BY <1>2, <1>3 DEF Reached, Calm
<1>. QED
  BY <1>1, <1>4, <1>5, <1>6 DEF Calm, Apart

LEMMA BeginCalm ==
  ASSUME IInv, Calm, NEW c \in Commands, Begin(c), ~disturbed'
  PROVE  Calm'
<1>0. BaselineTypeOK /\ Equipped
  BY DEF IInv
<1>1. /\ Moved(c) /\ cmds[c].at = "idle"
      /\ UNCHANGED <<trees, records, servers, strayed, broken>>
  BY <1>0, BeginMoves DEF Begin, BeginUp, BeginEnd, BeginDown, BeginPrune, history
<1>2. ASSUME NEW w \in Checkouts, BeginUp(c, w)
      PROVE  Calm'
  <2>1. cmds'[c] = [Idle EXCEPT !.op = "up", !.at = "ensure", !.tree = w, !.sha = forks[w],
                      !.lock = Candidate(forks[w]), !.prev = records[w].slot]
    BY <1>0, <1>2, StepMoves DEF BeginUp
  <2>2. /\ cmds'[c].op = "up" /\ cmds'[c].at = "ensure" /\ cmds'[c].tree = w
        /\ cmds'[c].prev = records[w].slot
    BY <2>1 DEF Idle
  <2>3. Recorded(c)' /\ Knows(c)'
    BY <1>1, <2>2 DEF Recorded, Knows, Ensuring
  <2>4. ~Overlaps("up", w)
    BY <1>2 DEF BeginUp, Disturb
  <2>. QED
    BY <1>1, <2>2, <2>3, <2>4, BeginStep
<1>3. ASSUME NEW w \in Checkouts, BeginEnd(c, w)
      PROVE  Calm'
  <2>0. PICK at \in {"release", "remove"} : at = IF Pinned(w) THEN "release" ELSE "remove"
    OBVIOUS
  <2>1. cmds'[c] = [Idle EXCEPT !.op = "end", !.tree = w, !.at = at, !.prev = records[w].slot]
    BY <1>0, <1>3, <2>0, StepMoves DEF BeginEnd
  <2>2. /\ cmds'[c].op = "end" /\ cmds'[c].at = at /\ cmds'[c].tree = w
        /\ cmds'[c].prev = records[w].slot
    BY <2>1 DEF Idle
  <2>3. at = "remove" => records[w].slot \notin Slots
    BY <1>0, <2>0, PinFacts
  <2>4. Recorded(c)' /\ Knows(c)'
    BY <1>1, <2>2, <2>3 DEF Recorded, Knows, Ensuring
  <2>5. ~Overlaps("end", w)
    BY <1>3 DEF BeginEnd, Disturb
  <2>. QED
    BY <1>1, <2>2, <2>4, <2>5, BeginStep
<1>4. ASSUME NEW w \in Checkouts, BeginDown(c, w)
      PROVE  Calm'
  <2>1. cmds'[c] = [Idle EXCEPT !.op = "down", !.at = "release", !.tree = w,
                                !.prev = records[w].slot]
    BY <1>0, <1>4, StepMoves DEF BeginDown
  <2>2. /\ cmds'[c].op = "down" /\ cmds'[c].at = "release" /\ cmds'[c].tree = w
    BY <2>1 DEF Idle
  <2>3. Recorded(c)' /\ Knows(c)'
    BY <2>2 DEF Recorded, Knows, Ensuring
  <2>4. ~Overlaps("down", w)
    BY <1>4 DEF BeginDown, Disturb
  <2>. QED
    BY <1>1, <2>2, <2>3, <2>4, BeginStep
<1>5. ASSUME NEW force \in BOOLEAN, BeginPrune(c, force)
      PROVE  Calm'
  <2>1. cmds'[c] = [Idle EXCEPT !.op = "prune", !.at = "dir", !.force = force, !.rows = RowsNow]
    BY <1>0, <1>5, StepMoves DEF BeginPrune
  <2>2. cmds'[c].op = "prune" /\ cmds'[c].at = "dir"
    BY <2>1 DEF Idle
  <2>3. Recorded(c)' /\ Knows(c)'
    BY <2>2 DEF Recorded, Knows, Ensuring
  <2>. QED
    BY <1>1, <2>2, <2>3, BeginStep
<1>. QED
  BY <1>2, <1>3, <1>4, <1>5 DEF Begin

LEMMA InitSettled == BaselineInit => Settled
<1> SUFFICES ASSUME BaselineInit
             PROVE  Calm
  BY DEF Settled
<1>1. \A c \in Commands : cmds[c] = Idle /\ Idle.at = "idle"
  BY DEF BaselineInit, Idle
<1>2. Apart /\ \A c \in Commands : Recorded(c) /\ Knows(c)
  BY <1>1 DEF Apart, Commanding, Active, Outlived, Recorded, Knows, Ensuring
<1>3. Healthy
  BY BaselineAssumption DEF BaselineInit, Healthy, Unpinned, Pin
<1>4. ASSUME NEW p \in Slots, NEW s \in Servers, servers[s] = p
      PROVE  trees[p] \in Shas /\ Naming(p) # {}
  <2>1. PICK sha \in Shas, pinned \in (SUBSET Checkouts) \ {{}} :
          LET q == <<Short[sha], 1>> IN
          /\ trees = [r \in Slots |-> IF r = q THEN sha ELSE "none"]
          /\ records = [w \in Checkouts |-> IF w \in pinned THEN Pin(sha, q)
                                            ELSE Unpinned("none")]
          /\ servers = [t \in Servers |-> IF t = Earlier THEN q ELSE Nobody]
    BY <1>4, Constants DEF BaselineInit, Servers
  <2>2. p = <<Short[sha], 1>> /\ trees[p] = sha
    BY <1>4, <2>1, Constants
  <2>3. PICK w \in pinned : w \in Checkouts
    OBVIOUS
  <2>4. records[w] = Pin(sha, p)
    BY <2>1, <2>2, <2>3
  <2>. QED
    BY <2>2, <2>3, <2>4 DEF Naming, Pin
<1>5. \A p \in Slots \ strayed : Reached(p)
  BY <1>4 DEF Reached, ServersIn, Servers
<1>. QED
  BY <1>2, <1>3, <1>5 DEF Calm

LEMMA NextSettled == IInv /\ Settled /\ [BaselineNext]_baselineVars => Settled'
<1> SUFFICES ASSUME IInv, Settled, [BaselineNext]_baselineVars, ~disturbed'
             PROVE  Calm'
  BY DEF Settled
<1>1. ASSUME NEW c \in Commands, Begin(c)
      PROVE  Calm'
  <2>1. ~disturbed
    BY <1>1 DEF Begin, BeginUp, BeginEnd, BeginDown, BeginPrune, Disturb, history
  <2>. QED
    BY <1>1, <2>1, BeginCalm DEF Settled
<1>2. ASSUME NEW c \in Commands, Goes(c)
      PROVE  Calm'
  <2>1. ~disturbed
    BY <1>2 DEF Goes, Resolve, Clear, Create, Build, WritePin, EnsureFails, ReleaseScan,
       StopServers, LaunchServers, RemoveCheckout, SnapshotRows, SweepLock, SweepEnds, Decide,
       Reclaim, SweepNext, Disturb, history
  <2>2. Calm
    BY <2>1 DEF Settled
  <2>. QED
    BY <1>2, <2>2, ResolveCalm, EnsureCalm, WritePinCalm, ReleaseScanCalm, StopServersCalm,
       LaunchCalm, RemoveCalm, SweepCalm DEF Goes
<1>3. CASE \/ \E c \in Commands : Kill(c)
           \/ \E w \in Checkouts : DamageRecord(w)
           \/ \E p \in Slots, how \in {"corrupt", "blocked"} : DamageMarker(p, how)
  BY <1>3 DEF Kill, DamageRecord, DamageMarker, Disturb
<1>4. CASE UNCHANGED <<trees, records, servers, cmds, strayed, broken, disturbed>>
  <2>1. Calm
    BY <1>4 DEF Settled
  <2>2. (\A p : ServersIn(p)' = ServersIn(p)) /\ (\A p : Naming(p)' = Naming(p))
    BY <1>4 DEF ServersIn, Naming
  <2>3. Healthy' /\ Apart' /\ \A c \in Commands : Recorded(c)' /\ Knows(c)'
    BY <1>4, <2>1 DEF Calm, Healthy, Apart, Commanding, Active, Outlived, Recorded, Knows,
       ServersIn, Naming
  <2>4. \A p \in Slots \ strayed' : Reached(p)'
    BY <1>4, <2>1, <2>2 DEF Calm, Reached, Sees
  <2>. QED
    BY <2>3, <2>4 DEF Calm
<1>5. CASE \E w \in Checkouts, s \in Shas : Rebase(w, s)
  BY <1>4, <1>5 DEF Rebase, history
<1>6. CASE UNCHANGED baselineVars
  BY <1>4, <1>6 DEF baselineVars
<1>7. ASSUME NEW c \in Commands, GitGoesOn(c)
      PROVE  FALSE
  <2>1. cmds[c].at \in Outlived /\ ~disturbed
    BY <1>7 DEF GitGoesOn, history
  <2>2. broken = {}
    BY <2>1 DEF Settled, Calm, Healthy
  <2>3. cmds[c].slot \in broken
    BY <2>1 DEF IInv, SlotSafe, Works, Outlived
  <2>. QED
    BY <2>2, <2>3
<1>. QED
  BY <1>1, <1>2, <1>3, <1>5, <1>6, <1>7 DEF BaselineNext, AllDone

(* Once every command has ended, a server runs under a baseline nobody     *)
(* pins only if something disturbed the last leaving: a kill, a damaged    *)
(* file, a sweep cut short or under a served tree, a stop that failed, two *)
(* commands on one worktree, or an end alongside another up or end.  Any   *)
(* number of ups that move their pins at once, of downs and of prunes      *)
(* leave none behind.                                                      *)
THEOREM StrandedNeedsARaceHolds == BaselineSpec => []StrandedNeedsARace
<1>1. BaselineInit => Settled
  BY InitSettled
<1>2. IInv /\ Settled /\ [BaselineNext]_baselineVars => Settled'
  BY NextSettled
<1>3. BaselineTypeOK /\ Settled => StrandedNeedsARace
  <2> SUFFICES ASSUME BaselineTypeOK, Settled, \A c \in Commands : ~Active(c),
                      NEW s \in Servers, servers[s] \in Slots \ strayed,
                      Naming(servers[s]) = {}, ~disturbed
               PROVE  FALSE
    BY DEF StrandedNeedsARace, BaselineTypeOK
  <2>1. Reached(servers[s]) /\ ServersIn(servers[s]) # {}
    BY DEF Settled, Calm, ServersIn, Servers
  <2>2. PICK c \in Commands : Sees(c, servers[s])
    BY <2>1 DEF Reached
  <2>. QED
    BY <2>2 DEF Sees, Active, Outlived
<1>4. IInv => BaselineTypeOK
  BY DEF IInv
<1>. QED
  BY <1>1, <1>2, <1>3, <1>4, Invariance, PTL DEF BaselineSpec
=============================================================================
