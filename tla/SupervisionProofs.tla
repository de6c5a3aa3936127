-------------------------- MODULE SupervisionProofs -------------------------
(***************************************************************************)
(* The supervisor never mistakes one server for another: what its table,   *)
(* the registry, the threads' locals and the processes say of a pid agree, *)
(* through every interleaving, failed save, kill and daemon restart.       *)
(***************************************************************************)
EXTENDS Supervision, FiniteSetTheorems, WellFoundedInduction, TLAPS

(* What can be in each variable.                                           *)
Whys == {"down", "memory", "probe"}

ProcStates ==
  [st : {"unused", "boot", "serving", "hung", "zombie", "gone"}, port : 0 .. MaxPort,
   key : ServerKeys \cup {None}, by : {None, "request", "respawn"}, own : BOOLEAN,
   sig : SUBSET Whys, answered : BOOLEAN]

Children ==
  [pid : Pids, port : Ports, owned : BOOLEAN, spec : BOOLEAN, restarts : Seq(Nat),
   armed : BOOLEAN, failures : Nat, over : Nat, gaveup : BOOLEAN]

HandlerStates ==
  [req : Requests \cup {None},
   pc : {"idle", "lock", "choose", "grant", "check", "record", "insert",
         "snapshot", "prune", "remove", "release"},
   port : 0 .. MaxPort, dead : SUBSET Ports, keys : SUBSET ServerKeys,
   child : Pids \cup {NoPid}]

ReaperStates ==
  [pc : {"sleep", "each", "launch", "spawn", "record", "setpid"}, dead : SUBSET ServerKeys,
   key : ServerKeys \cup {None}, port : 0 .. MaxPort, child : Pids \cup {NoPid}]

ProberStates ==
  [pc : {"sleep", "probe", "fold", "stop"}, targets : SUBSET (ServerKeys \X Ports),
   key : ServerKeys \cup {None}, ok : BOOLEAN, pid : Pids \cup {NoPid}]

IsTable(s) ==
  /\ s = [k \in DOMAIN s |-> s[k]]
  /\ DOMAIN s \subseteq ServerKeys
  /\ \A k \in DOMAIN s : s[k] \in Children

IsProcs(ps) ==
  /\ ps \in [Pids -> ProcStates]
  /\ \A q \in Pids : ps[q].st = "unused" => ps[q] = NoProc

Shapes ==
  /\ IsPortRegistry(rows)
  /\ IsTable(sup)
  /\ hs \in [Handlers -> HandlerStates]
  /\ reaper \in ReaperStates
  /\ prober \in ProberStates
  /\ IsProcs(procs)
  /\ clock \in Nat

Critical == {"choose", "grant", "check", "record", "insert"}

(* The spawning mutex is held exactly over its section.                    *)
Bracket == \A h \in Handlers : hs[h].pc \in Critical <=> spawning = h

(* Process q was started for `key` on `port`.                              *)
IsServer(q, key, port) == q \in Used /\ procs[q].key = key /\ procs[q].port = port

Launched(key, port) == \E q \in Pids : IsServer(q, key, port)

(* A child a thread has spawned and not yet put in the table: no entry is  *)
(* about it, so the memory path cannot have killed it.                     *)
InHand(q, key, port, by) ==
  /\ IsServer(q, key, port)
  /\ procs[q].by = by
  /\ "memory" \notin procs[q].sig
  /\ \A k \in DOMAIN sup : sup[k].pid # q

HandlerOK(h) ==
  /\ hs[h].pc \in Critical \cup {"lock"} =>
       /\ hs[h].req \in Requests
       /\ hs[h].req.key \in ServerKeys /\ hs[h].req.base \in Ports
  /\ hs[h].pc \in {"grant", "check", "record", "insert"} => hs[h].port \in Ports
  /\ hs[h].pc \in {"record", "insert"} =>
       InHand(hs[h].child, hs[h].req.key, hs[h].port, "request")

ReaperOK ==
  /\ reaper.pc \in {"launch", "spawn", "record", "setpid"} => reaper.key \in ServerKeys
  /\ reaper.pc \in {"spawn", "record", "setpid"} => reaper.port \in Ports
  /\ reaper.pc \in {"record", "setpid"} =>
       InHand(reaper.child, reaper.key, reaper.port, "respawn")
  /\ reaper.pc \notin {"record", "setpid"} => reaper.child = NoPid
  /\ \A k \in reaper.dead \cap DOMAIN sup :
       "memory" \in procs[sup[k].pid].sig => sup[k].pid \notin Up

ProberOK ==
  /\ \A t \in prober.targets : Launched(t[1], t[2])
  /\ prober.pc = "fold" =>
       prober.key \in ServerKeys /\ (prober.ok => Accepted(prober.key))
  /\ prober.pc = "stop" => prober.pid \in Used /\ Accepted(procs[prober.pid].key)

(* An entry of the table is about a server of its key, and one the memory  *)
(* path has killed still has the budget for its restart.                   *)
ChildOK(k) ==
  /\ sup[k].pid \in Used /\ procs[sup[k].pid].key = k
  /\ Launched(k, sup[k].port)
  /\ sup[k].armed => Accepted(k)
  /\ sup[k].spec /\ "memory" \in procs[sup[k].pid].sig => CanRestart(sup[k])

(* A pid in the registry is that of a server of the row's key and port.    *)
RowsOK == \A p \in DOMAIN rows : rows[p].pid # NoPid => IsServer(rows[p].pid, rows[p].key, p)

IInv ==
  /\ Shapes
  /\ Bracket
  /\ \A h \in Handlers : HandlerOK(h)
  /\ ReaperOK
  /\ ProberOK
  /\ \A k \in DOMAIN sup : ChildOK(k)
  /\ RowsOK
  /\ OnlyReadyIsJudged

-----------------------------------------------------------------------------
(* The constants, and the least and the greatest of a set of numbers.      *)

LEMMA Constants ==
  /\ NoPid \notin Pids /\ Pids \subseteq Nat
  /\ MaxPort \in Nat \ {0} /\ Ports \subseteq Nat /\ 0 \notin Ports
  /\ Grace \in Nat \ {0}
  /\ None \notin Handlers
  /\ {MaxRestarts, Window, Threshold, MemTicks} \subseteq Nat
BY PortModelAssumption, SupervisionAssumption DEF Ports

LEMMA LeastOf ==
  ASSUME NEW S \in SUBSET Nat, S # {}
  PROVE  Min(S) \in S /\ \A m \in S : Min(S) <= m
<1>1. PICK n \in S : \A m \in S : ~(<<m, n>> \in OpToRel(<, Nat))
  BY NatLessThanWellFounded, WFMin
<1>2. \A m \in S : ~(m < n)
  <2> SUFFICES ASSUME NEW m \in S
               PROVE  ~(m < n)
    OBVIOUS
  <2>1. <<m, n>> \in Nat \X Nat /\ <<m, n>>[1] = m /\ <<m, n>>[2] = n
    OBVIOUS
  <2>2. <<m, n>> \notin {ss \in Nat \X Nat : ss[1] < ss[2]}
    BY <1>1 DEF OpToRel
  <2>. QED
    BY <2>1, <2>2
<1>3. \A m \in S : n <= m
  BY <1>2
<1>. QED
  BY <1>3 DEF Min

LEMMA HighestPort ==
  ASSUME NEW S \in SUBSET Ports, S # {}
  PROVE  Max(S) \in S
<1> DEFINE T == {n \in Nat : \E p \in S : n = MaxPort - p}
<1>1. T \in SUBSET Nat
  OBVIOUS
<1>2. \A p \in S : p \in Nat /\ MaxPort - p \in T
  BY Constants DEF Ports
<1>3. T # {}
  BY <1>2
<1>4. Min(T) \in T /\ \A m \in T : Min(T) <= m
  BY <1>1, <1>3, LeastOf
<1>5. PICK p \in S : Min(T) = MaxPort - p
  BY <1>4
<1>6. \A q \in S : p >= q
  BY <1>2, <1>4, <1>5, Constants
<1>. QED
  BY <1>6 DEF Max

-----------------------------------------------------------------------------
(* The registry's operations: each gives a registry back, and of its rows  *)
(* only the one the operation is about is new.                             *)

LEMMA RowFields ==
  ASSUME NEW row \in Rows
  PROVE  /\ row.key \in ServerKeys /\ row.pid \in Pids \cup {NoPid} /\ row.ts \in Nat
         /\ row.key.holder \in Worktrees /\ row.key.app \in Apps /\ row.key.role \in Roles
BY DEF Rows, ServerKeys

LEMMA WithRowIsRegistry ==
  ASSUME NEW d, IsPortRegistry(d), NEW p \in Ports, NEW row \in Rows
  PROVE  /\ IsPortRegistry(WithRow(d, p, row))
         /\ DOMAIN WithRow(d, p, row) = DOMAIN d \cup {p}
         /\ WithRow(d, p, row)[p] = row
         /\ \A q \in DOMAIN d \ {p} : WithRow(d, p, row)[q] = d[q]
BY DEF IsPortRegistry, WithRow

LEMMA ReleaseIsRegistry ==
  ASSUME NEW d, IsPortRegistry(d), NEW ports
  PROVE  /\ IsPortRegistry(ReleasePorts(d, ports))
         /\ DOMAIN ReleasePorts(d, ports) = DOMAIN d \ ports
         /\ \A p \in DOMAIN d \ ports : ReleasePorts(d, ports)[p] = d[p]
BY DEF IsPortRegistry, ReleasePorts, Restrict

LEMMA RecordIsRegistry ==
  ASSUME NEW d, IsPortRegistry(d), NEW port \in Ports, NEW key \in ServerKeys,
         NEW pid \in Pids, NEW now \in Nat
  PROVE  /\ IsPortRegistry(RecordPid(d, port, key, pid, now))
         /\ DOMAIN RecordPid(d, port, key, pid, now) = DOMAIN d \cup {port}
         /\ RecordPid(d, port, key, pid, now)[port].key = key
         /\ RecordPid(d, port, key, pid, now)[port].pid = pid
         /\ \A p \in DOMAIN d \ {port} : RecordPid(d, port, key, pid, now)[p] = d[p]
<1> DEFINE row == [key |-> key, pid |-> pid,
                   ts  |-> IF port \in DOMAIN d THEN d[port].ts ELSE now]
<1>1. row \in Rows /\ row.key = key /\ row.pid = pid
  BY DEF Rows, IsPortRegistry
<1>2. RecordPid(d, port, key, pid, now) = WithRow(d, port, row)
  BY DEF RecordPid
<1> HIDE DEF row
<1>. QED
  BY <1>1, <1>2, WithRowIsRegistry

(* An allocation leaves the rows it finds and ends with one for its key,   *)
(* the only new one if there was none.                                     *)
Allocates(d, key, a) ==
  /\ IsPortRegistry(a.rows)
  /\ a.port \in DOMAIN a.rows /\ a.rows[a.port].key = key
  /\ DOMAIN a.rows = DOMAIN d \cup {a.port}
  /\ \A p \in DOMAIN d : a.rows[p] = d[p]
  /\ a.port \notin DOMAIN d => a.rows[a.port].pid = NoPid /\ Holds(d, key) = {}

LEMMA InsertsRow ==
  ASSUME NEW d, IsPortRegistry(d), NEW key \in ServerKeys, NEW p \in Ports \ DOMAIN d,
         NEW now \in Nat, Holds(d, key) = {}
  PROVE  Allocates(d, key, [port |-> p, rows |-> WithRow(d, p, Reservation(key, now))])
<1>a. [key |-> key, pid |-> NoPid, ts |-> now] \in Rows
  BY DEF Rows
<1>1. PICK row \in Rows : row = Reservation(key, now) /\ row.key = key /\ row.pid = NoPid
  BY <1>a DEF Reservation
<1>2. PICK w : w = WithRow(d, p, row)
  OBVIOUS
<1>3. /\ IsPortRegistry(w) /\ DOMAIN w = DOMAIN d \cup {p} /\ w[p] = row
      /\ \A q \in DOMAIN d \ {p} : w[q] = d[q]
  BY <1>2, WithRowIsRegistry
<1>4. PICK a : a = [port |-> p, rows |-> w]
  OBVIOUS
<1>5. a.port = p /\ a.rows = w
  BY <1>4
<1>6. Allocates(d, key, a)
  BY <1>1, <1>3, <1>5 DEF Allocates
<1>. QED
  BY <1>1, <1>2, <1>4, <1>6

LEMMA AllocOneAllocates ==
  ASSUME NEW d, IsPortRegistry(d), NEW key \in ServerKeys, NEW base \in Ports, NEW open,
         NEW now \in Nat,
         \/ Holds(d, key) # {}
         \/ \E p \in base .. MaxPort : p \notin DOMAIN d /\ p \notin open
  PROVE  Allocates(d, key, AllocOne(d, key, base, open, now))
<1>1. CASE Holds(d, key) # {}
  <2>1. Holds(d, key) \in SUBSET Nat /\ Holds(d, key) \subseteq DOMAIN d
    BY Constants DEF Holds, IsPortRegistry
  <2>2. Min(Holds(d, key)) \in Holds(d, key)
    BY <1>1, <2>1, LeastOf
  <2>. QED
    BY <1>1, <2>1, <2>2 DEF AllocOne, Allocates, Holds
<1>2. CASE Holds(d, key) = {}
  <2> DEFINE free == {p \in base .. MaxPort : p \notin DOMAIN d /\ p \notin open}
  <2>1. free \in SUBSET Nat /\ free # {}
    BY <1>2, Constants
  <2>2. Min(free) \in free
    BY <2>1, LeastOf
  <2>3. Min(free) \in Ports \ DOMAIN d
    BY <2>2, Constants DEF Ports
  <2>4. AllocOne(d, key, base, open, now)
          = [port |-> Min(free), rows |-> WithRow(d, Min(free), Reservation(key, now))]
    BY <1>2 DEF AllocOne, NextFree
  <2> HIDE DEF free
  <2>. QED
    BY <1>2, <2>3, <2>4, InsertsRow
<1>. QED
  BY <1>1, <1>2

LEMMA CommitOneAllocates ==
  ASSUME NEW d, IsPortRegistry(d), NEW key \in ServerKeys, NEW base \in Ports,
         NEW port \in Ports, NEW open, NEW now \in Nat,
         \/ Holds(d, key) # {}
         \/ \E p \in base .. MaxPort : p \notin DOMAIN d /\ p \notin open
         \/ port \notin DOMAIN d
  PROVE  Allocates(d, key, CommitOne(d, key, base, port, open, now))
<1>1. CASE Holds(d, key) # {} \/ port \in DOMAIN d
  BY <1>1, AllocOneAllocates DEF CommitOne
<1>2. CASE Holds(d, key) = {} /\ port \notin DOMAIN d
  BY <1>2, InsertsRow DEF CommitOne
<1>. QED
  BY <1>1, <1>2

-----------------------------------------------------------------------------
(* Steps in general.  A process keeps its key, its port and what it has    *)
(* answered, and one that is down stays down.                              *)
Grows ==
  \A q \in Used :
    /\ q \in Pids /\ procs'[q].st # "unused"
    /\ procs'[q].key = procs[q].key /\ procs'[q].port = procs[q].port
    /\ procs'[q].by = procs[q].by
    /\ procs[q].answered => procs'[q].answered
    /\ procs'[q].st \in {"boot", "serving", "hung"} => q \in Up

(* No process is signalled for this reason that was not before.            *)
Quiet(why) == \A q \in Pids : why \in procs'[q].sig => why \in procs[q].sig

(* No entry appears in the table and none changes its pid.                 *)
SamePids == \A k \in DOMAIN sup' : k \in DOMAIN sup /\ sup'[k].pid = sup[k].pid

(* Nor its port or its budget; none is armed.                              *)
SameChild(k) ==
  /\ k \in DOMAIN sup
  /\ sup'[k].pid = sup[k].pid /\ sup'[k].port = sup[k].port
  /\ sup'[k].spec = sup[k].spec /\ sup'[k].restarts = sup[k].restarts
  /\ sup'[k].armed => sup[k].armed

LEMMA SameProcsGrow ==
  ASSUME procs' = procs
  PROVE  Grows /\ Quiet("memory") /\ Quiet("probe")
BY DEF Grows, Quiet, Used, Up

LEMMA SameSupKeeps ==
  ASSUME sup' = sup
  PROVE  SamePids /\ \A k \in DOMAIN sup' : SameChild(k)
BY DEF SamePids, SameChild

LEMMA Persists ==
  ASSUME Grows
  PROVE  /\ \A q, key, port : IsServer(q, key, port) => IsServer(q, key, port)'
         /\ \A key, port : Launched(key, port) => Launched(key, port)'
         /\ \A key : Accepted(key) => Accepted(key)'
<1>1. \A q \in Used : q \in Used' /\ procs'[q].key = procs[q].key /\ procs'[q].port = procs[q].port
  BY DEF Grows, Used
<1>2. \A q, key, port : IsServer(q, key, port) => IsServer(q, key, port)'
  BY <1>1 DEF IsServer
<1>3. \A key, port : Launched(key, port) => Launched(key, port)'
  BY <1>2 DEF Launched
<1>4. \A key : Accepted(key) => Accepted(key)'
  <2> TAKE key
  <2> HAVE Accepted(key)
  <2>1. PICK r \in Used, s \in Used :
          procs[r].answered /\ procs[s].key = key /\ procs[s].port = procs[r].port
    BY DEF Accepted
  <2>2. /\ r \in Used' /\ s \in Used' /\ procs'[r].answered
        /\ procs'[s].key = key /\ procs'[s].port = procs'[r].port
    BY <1>1, <2>1 DEF Grows
  <2>. QED
    BY <2>2 DEF Accepted
<1>. QED
  BY <1>2, <1>3, <1>4

(* A thread that does not move keeps what it knows.                        *)
LEMMA InHandStands ==
  ASSUME Shapes, Grows, NEW q, NEW key, NEW port, NEW by,
         InHand(q, key, port, by),
         "memory" \in procs'[q].sig => "memory" \in procs[q].sig,
         \A k \in DOMAIN sup' : sup'[k].pid # q
  PROVE  InHand(q, key, port, by)'
BY Persists DEF InHand, Grows, IsServer, Used

LEMMA HandlerStands ==
  ASSUME Shapes, Grows, NEW h \in Handlers, HandlerOK(h), hs'[h] = hs[h],
         hs[h].pc \in {"record", "insert"} =>
           /\ \A k \in DOMAIN sup' : sup'[k].pid # hs[h].child
           /\ "memory" \in procs'[hs[h].child].sig => "memory" \in procs[hs[h].child].sig
  PROVE  HandlerOK(h)'
<1>1. PICK x : x = hs[h] /\ x = hs'[h]
  OBVIOUS
<1>2. ASSUME x.pc \in {"record", "insert"}
      PROVE  InHand(x.child, x.req.key, x.port, "request")'
  <2>1. PICK q, key, port : q = x.child /\ key = x.req.key /\ port = x.port
    OBVIOUS
  <2>2. InHand(q, key, port, "request")
    BY <1>1, <1>2, <2>1 DEF HandlerOK
  <2>3. InHand(q, key, port, "request")'
    BY <1>1, <1>2, <2>1, <2>2, InHandStands
  <2>. QED
    BY <2>1, <2>3
<1>. QED
  BY <1>1, <1>2 DEF HandlerOK

LEMMA HandlersStand ==
  ASSUME IInv, Grows, Quiet("memory"), SamePids, NEW h \in Handlers, hs'[h] = hs[h]
  PROVE  HandlerOK(h)'
<1>1. hs[h].pc \in {"record", "insert"} =>
        /\ \A k \in DOMAIN sup' : sup'[k].pid # hs[h].child
        /\ "memory" \in procs'[hs[h].child].sig => "memory" \in procs[hs[h].child].sig
  BY DEF IInv, HandlerOK, InHand, IsServer, Used, SamePids, Quiet
<1>. QED
  BY <1>1, HandlerStands DEF IInv

LEMMA ReaperStands ==
  ASSUME IInv, Grows, Quiet("memory"), reaper' = reaper,
         \A k \in reaper.dead \cap DOMAIN sup' :
           \/ k \in DOMAIN sup /\ sup'[k].pid = sup[k].pid
           \/ "memory" \notin procs'[sup'[k].pid].sig,
         reaper.pc \in {"record", "setpid"} => \A k \in DOMAIN sup' : sup'[k].pid # reaper.child
  PROVE  ReaperOK'
<1>1. PICK x : x = reaper /\ x = reaper'
  OBVIOUS
<1>2. ASSUME x.pc \in {"record", "setpid"}
      PROVE  InHand(x.child, x.key, x.port, "respawn")'
  <2>1. PICK q, key, port : q = x.child /\ key = x.key /\ port = x.port
    OBVIOUS
  <2>2. InHand(q, key, port, "respawn")
    BY <1>1, <1>2, <2>1 DEF ReaperOK, IInv
  <2>3. InHand(q, key, port, "respawn")'
    BY <1>1, <1>2, <2>1, <2>2, InHandStands DEF IInv, Quiet, InHand, IsServer, Used
  <2>. QED
    BY <2>1, <2>3
<1>3. ASSUME NEW k \in x.dead \cap DOMAIN sup', "memory" \in procs'[sup'[k].pid].sig
      PROVE  sup'[k].pid \notin Up'
  <2>1. PICK q : q = sup[k].pid /\ q = sup'[k].pid /\ q \in Used
    BY <1>1, <1>3 DEF IInv, ChildOK
  <2>2. q \notin Up
    BY <1>1, <1>3, <2>1 DEF IInv, ReaperOK, Quiet, Used
  <2>3. q \notin Up'
    BY <2>1, <2>2 DEF Grows, Up
  <2>. QED
    BY <2>1, <2>3
<1>. QED
  BY <1>1, <1>2, <1>3 DEF ReaperOK, IInv

LEMMA ReaperStandsSame ==
  ASSUME IInv, Grows, Quiet("memory"), SamePids, reaper' = reaper
  PROVE  ReaperOK'
<1>1. reaper.pc \in {"record", "setpid"} => \A k \in DOMAIN sup' : sup'[k].pid # reaper.child
  BY DEF IInv, ReaperOK, InHand, SamePids
<1>. QED
  BY <1>1, ReaperStands DEF SamePids

LEMMA ProberStands ==
  ASSUME IInv, Grows, prober' = prober
  PROVE  ProberOK'
<1>1. PICK x : x = prober /\ x = prober'
  OBVIOUS
<1>2. \A t \in x.targets : Launched(t[1], t[2])'
  BY <1>1, Persists DEF IInv, ProberOK
<1>3. x.pc = "fold" => x.key \in ServerKeys /\ (x.ok => Accepted(x.key)')
  BY <1>1, Persists DEF IInv, ProberOK
<1>4. ASSUME x.pc = "stop"
      PROVE  x.pid \in Used' /\ \A key : key = procs'[x.pid].key => Accepted(key)'
  <2>1. PICK key : key = procs[x.pid].key
    OBVIOUS
  <2>2. x.pid \in Used /\ Accepted(key)
    BY <1>1, <1>4, <2>1 DEF IInv, ProberOK
  <2>3. x.pid \in Used' /\ procs'[x.pid].key = key
    BY <2>1, <2>2 DEF Grows, Used
  <2>. QED
    BY <2>2, <2>3, Persists
<1>. QED
  BY <1>1, <1>2, <1>3, <1>4 DEF ProberOK, Accepted

LEMMA RowsStand ==
  ASSUME IInv, Grows, rows' = rows
  PROVE  RowsOK'
BY Persists DEF IInv, RowsOK

LEMMA ChildStands ==
  ASSUME IInv, Grows, NEW k \in DOMAIN sup', SameChild(k), clock' = clock,
         "memory" \in procs'[sup[k].pid].sig =>
           "memory" \in procs[sup[k].pid].sig \/ CanRestart(sup[k])
  PROVE  ChildOK(k)'
<1>1. PICK q, port : q = sup[k].pid /\ port = sup[k].port /\ q = sup'[k].pid /\ port = sup'[k].port
  BY DEF SameChild
<1>2. q \in Used /\ procs[q].key = k /\ Launched(k, port) /\ (sup[k].armed => Accepted(k))
  BY <1>1 DEF IInv, ChildOK, SameChild
<1>3. q \in Used' /\ procs'[q].key = k
  BY <1>2 DEF Grows, Used
<1>4. Launched(k, port)' /\ (sup'[k].armed => Accepted(k)')
  BY <1>2, Persists DEF SameChild
<1>5. sup'[k].spec /\ "memory" \in procs'[q].sig => CanRestart(sup[k])
  BY <1>1 DEF IInv, ChildOK, SameChild
<1>6. PICK restarts : restarts = sup[k].restarts /\ restarts = sup'[k].restarts
  BY DEF SameChild
<1>7. CanRestart(sup[k]) =>
        Cardinality({i \in DOMAIN restarts : clock' - restarts[i] < Window}) < MaxRestarts
  BY <1>6 DEF CanRestart, Recent
<1>. QED
  BY <1>1, <1>3, <1>4, <1>5, <1>6, <1>7
  DEF ChildOK, Launched, Accepted, IsServer, CanRestart, Recent

LEMMA ChildrenStand ==
  ASSUME IInv, Grows, Quiet("memory"), NEW k \in DOMAIN sup', SameChild(k), clock' = clock
  PROVE  ChildOK(k)'
<1>1. sup[k].pid \in Pids
  BY DEF SameChild, IInv, Shapes, IsTable, Children
<1>. QED
  BY <1>1, ChildStands DEF Quiet

LEMMA JudgedStand ==
  ASSUME IInv, Grows, Quiet("probe")
  PROVE  OnlyReadyIsJudged'
<1>1. ASSUME NEW q \in Pids, "probe" \in procs'[q].sig
      PROVE  \A key : key = procs'[q].key => Accepted(key)'
  <2>1. PICK key : key = procs[q].key
    OBVIOUS
  <2>2. "probe" \in procs[q].sig /\ Accepted(key)
    BY <1>1, <2>1 DEF Quiet, IInv, OnlyReadyIsJudged
  <2>3. q \in Used
    BY <2>2 DEF IInv, Shapes, IsProcs, Used, NoProc
  <2>4. procs'[q].key = key
    BY <2>1, <2>3 DEF Grows
  <2>. QED
    BY <2>2, <2>4, Persists
<1>. QED
  BY <1>1 DEF OnlyReadyIsJudged, Accepted

-----------------------------------------------------------------------------
(* Handlers.  Labels and the moves between them.                           *)

Labels == {"idle", "lock", "choose", "grant", "check", "record", "insert",
           "snapshot", "prune", "remove", "release"}

(* Handler h becomes `new`.                                                *)
Turns(h, new) == new \in HandlerStates /\ hs' = [hs EXCEPT ![h] = new]

LEMMA HandlerGoes ==
  ASSUME Shapes, NEW h \in Handlers, NEW label \in Labels, hs' = [hs EXCEPT ![h].pc = label]
  PROVE  \E new : /\ Turns(h, new) /\ new.pc = label /\ new.req = hs[h].req
                  /\ new.port = hs[h].port /\ new.child = hs[h].child
<1>1. PICK x \in HandlerStates : x = hs[h]
  BY DEF Shapes
<1>2. PICK new : new = [x EXCEPT !.pc = label]
  OBVIOUS
<1>3. /\ new \in HandlerStates /\ new.pc = label /\ new.req = x.req
      /\ new.port = x.port /\ new.child = x.child
  BY <1>2 DEF HandlerStates, Labels
<1>4. hs' = [hs EXCEPT ![h] = new]
  BY <1>1, <1>2 DEF Shapes
<1>. QED
  BY <1>1, <1>3, <1>4 DEF Turns

GoesWithPort(h, label, port) == hs' = [hs EXCEPT ![h].pc = label, ![h].port = port]

LEMMA HandlerGetsPort ==
  ASSUME Shapes, NEW h \in Handlers, NEW label \in Labels, NEW port \in Ports,
         GoesWithPort(h, label, port)
  PROVE  \E new : /\ Turns(h, new) /\ new.pc = label /\ new.req = hs[h].req
                  /\ new.port = port /\ new.child = hs[h].child
<1>1. PICK x \in HandlerStates : x = hs[h]
  BY DEF Shapes
<1>2. PICK y : y = [x EXCEPT !.pc = label]
  OBVIOUS
<1>3. y \in HandlerStates /\ y.pc = label /\ y.req = x.req /\ y.child = x.child
  BY <1>2 DEF HandlerStates, Labels
<1>4. PICK new : new = [y EXCEPT !.port = port]
  OBVIOUS
<1>5. port \in 0 .. MaxPort
  BY Constants DEF Ports
<1>6. /\ new \in HandlerStates /\ new.pc = label /\ new.req = x.req
      /\ new.port = port /\ new.child = x.child
  BY <1>3, <1>4, <1>5 DEF HandlerStates
<1>7. hs' = [hs EXCEPT ![h] = new]
  BY <1>1, <1>2, <1>4 DEF Shapes, GoesWithPort
<1>. QED
  BY <1>1, <1>6, <1>7 DEF Turns

GoesWithChild(h, label, child) == hs' = [hs EXCEPT ![h].pc = label, ![h].child = child]

LEMMA HandlerGetsChild ==
  ASSUME Shapes, NEW h \in Handlers, NEW label \in Labels, NEW child \in Pids,
         GoesWithChild(h, label, child)
  PROVE  \E new : /\ Turns(h, new) /\ new.pc = label /\ new.req = hs[h].req
                  /\ new.port = hs[h].port /\ new.child = child
<1>1. PICK x \in HandlerStates : x = hs[h]
  BY DEF Shapes
<1>2. PICK y : y = [x EXCEPT !.pc = label]
  OBVIOUS
<1>3. y \in HandlerStates /\ y.pc = label /\ y.req = x.req /\ y.port = x.port
  BY <1>2 DEF HandlerStates, Labels
<1>4. PICK new : new = [y EXCEPT !.child = child]
  OBVIOUS
<1>6. /\ new \in HandlerStates /\ new.pc = label /\ new.req = x.req
      /\ new.port = x.port /\ new.child = child
  BY <1>3, <1>4 DEF HandlerStates
<1>7. hs' = [hs EXCEPT ![h] = new]
  BY <1>1, <1>2, <1>4 DEF Shapes, GoesWithChild
<1>. QED
  BY <1>1, <1>6, <1>7 DEF Turns

LEMMA HandlerGetsKeys ==
  ASSUME Shapes, NEW h \in Handlers, NEW label \in Labels,
         NEW keys \in SUBSET ServerKeys, NEW dead \in SUBSET Ports,
         \/ hs' = [hs EXCEPT ![h].pc = label, ![h].keys = keys]
         \/ hs' = [hs EXCEPT ![h].pc = label, ![h].dead = dead, ![h].keys = keys]
  PROVE  \E new : Turns(h, new) /\ new.pc = label
<1>1. PICK x \in HandlerStates : x = hs[h]
  BY DEF Shapes
<1>2. PICK y \in HandlerStates : y = [x EXCEPT !.pc = label]
  <2>1. [x EXCEPT !.pc = label] \in HandlerStates
    BY DEF HandlerStates, Labels
  <2>. QED
    BY <2>1
<1>3. PICK z \in HandlerStates : z = [y EXCEPT !.dead = dead]
  <2>1. [y EXCEPT !.dead = dead] \in HandlerStates
    BY DEF HandlerStates
  <2>. QED
    BY <2>1
<1>4. y.pc = label /\ z.pc = label
  BY <1>2, <1>3 DEF HandlerStates
<1>a. \A v \in HandlerStates : /\ [v EXCEPT !.keys = keys] \in HandlerStates
                               /\ [v EXCEPT !.keys = keys].pc = v.pc
  BY DEF HandlerStates
<1>5. \/ hs' = [hs EXCEPT ![h] = [y EXCEPT !.keys = keys]]
      \/ hs' = [hs EXCEPT ![h] = [z EXCEPT !.keys = keys]]
  BY <1>1, <1>2, <1>3 DEF Shapes
<1>. QED
  BY <1>4, <1>a, <1>5 DEF Turns

LEMMA HandlerIdles ==
  ASSUME NEW h \in Handlers, Answer(h)
  PROVE  \E new : Turns(h, new) /\ new.pc = "idle"
<1>1. IdleHandler \in HandlerStates /\ IdleHandler.pc = "idle"
  BY Constants DEF IdleHandler, HandlerStates
<1>. QED
  BY <1>1 DEF Turns, Answer

(* What happens to the mutex when h moves.                                 *)
MutexMoves(h, new) ==
  /\ new.pc \in Critical <=> spawning' = h
  /\ spawning' = spawning \/ {spawning, spawning'} \subseteq {None, h}

LEMMA BracketMoves ==
  ASSUME Shapes, Bracket, NEW h \in Handlers, NEW new, Turns(h, new), MutexMoves(h, new)
  PROVE  Bracket'
BY Constants DEF Bracket, MutexMoves, Turns, Shapes

(* What every handler's step but an insertion does to the shared state.    *)
Harmless ==
  /\ IsTable(sup') /\ IsProcs(procs')
  /\ Grows /\ Quiet("memory") /\ Quiet("probe") /\ SamePids
  /\ (\A k \in DOMAIN sup' : SameChild(k))
  /\ clock' = clock

LEMMA NothingIsHarmless ==
  ASSUME Shapes, UNCHANGED <<sup, procs, clock>>
  PROVE  Harmless
BY SameProcsGrow, SameSupKeeps DEF Harmless, Shapes

LEMMA HandlerStep ==
  ASSUME IInv, NEW h \in Handlers, NEW new, Turns(h, new), MutexMoves(h, new),
         HandlerOK(h)', IsPortRegistry(rows'), RowsOK', Harmless,
         UNCHANGED <<reaper, prober>>
  PROVE  IInv'
<1>1. Grows /\ Quiet("memory") /\ Quiet("probe") /\ SamePids
      /\ (\A k \in DOMAIN sup' : SameChild(k))
      /\ clock' = clock /\ IsTable(sup') /\ IsProcs(procs')
  BY DEF Harmless
<1>2. Shapes'
  BY <1>1 DEF IInv, Shapes, Turns
<1>3. Bracket'
  BY BracketMoves DEF IInv
<1>4. \A g \in Handlers : HandlerOK(g)'
  <2> TAKE g \in Handlers
  <2>1. CASE g = h
    BY <2>1
  <2>2. CASE g # h
    <3>1. hs'[g] = hs[g]
      BY <2>2 DEF Turns, IInv, Shapes
    <3>. QED
      BY <1>1, <3>1, HandlersStand
  <2>. QED
    BY <2>1, <2>2
<1>5. ReaperOK' /\ ProberOK'
  BY <1>1, ReaperStandsSame, ProberStands
<1>6. \A k \in DOMAIN sup' : ChildOK(k)'
  BY <1>1, ChildrenStand
<1>7. OnlyReadyIsJudged'
  BY <1>1, JudgedStand
<1>. QED
  BY <1>2, <1>3, <1>4, <1>5, <1>6, <1>7 DEF IInv

(* The same with the registry as it was.                                   *)
LEMMA HandlerStepOnly ==
  ASSUME IInv, NEW h \in Handlers, NEW new, Turns(h, new), MutexMoves(h, new),
         HandlerOK(h)', Harmless, UNCHANGED <<rows, reaper, prober>>
  PROVE  IInv'
<1>1. Grows
  BY DEF Harmless
<1>2. RowsOK' /\ IsPortRegistry(rows')
  BY <1>1, RowsStand DEF IInv, Shapes
<1>. QED
  BY <1>2, HandlerStep

(* With neither a port nor a child a handler knows nothing but its request.*)
LEMMA EasyHandler ==
  ASSUME IInv, NEW h \in Handlers, NEW new, Turns(h, new),
         new.pc \in {"idle", "snapshot", "prune", "remove", "release"}
           \/ (new.pc \in {"lock", "choose"} /\ new.req = hs[h].req
               /\ hs[h].pc \in Critical \cup {"lock"})
  PROVE  HandlerOK(h)'
<1>1. hs'[h] = new
  BY DEF Turns, IInv, Shapes
<1>. QED
  BY <1>1 DEF HandlerOK, Critical, IInv

-----------------------------------------------------------------------------
(* Starting a process, and signalling some.                                *)

LEMMA NextPid ==
  ASSUME UnusedPids # {}
  PROVE  \E q \in UnusedPids : q = Min(UnusedPids)
BY LeastOf, Constants DEF UnusedPids

LEMMA SpawnFacts ==
  ASSUME Shapes, \A k \in DOMAIN sup : sup[k].pid \in Used,
         NEW q \in UnusedPids, NEW port \in Ports, NEW key \in ServerKeys,
         NEW by \in {"request", "respawn"},
         SpawnAs(q, port, key, by), UNCHANGED <<sup, clock>>
  PROVE  /\ Harmless /\ q \in Pids /\ InHand(q, key, port, by)'
<1>2. q \in Pids \ Used /\ procs[q].st = "unused" /\ procs[q].sig = {}
  BY DEF UnusedPids, Used, Shapes, IsProcs, NoProc
<1>3. PICK new : new = [NoProc EXCEPT !.st = "boot", !.port = port, !.key = key,
                                      !.by = by, !.own = TRUE]
  OBVIOUS
<1>4. /\ new = [st |-> "boot", port |-> port, key |-> key, by |-> by, own |-> TRUE,
                sig |-> {}, answered |-> FALSE]
  BY <1>3 DEF NoProc
<1>5. new \in ProcStates
  BY <1>4, Constants DEF ProcStates, Ports
<1>6. procs' = [procs EXCEPT ![q] = new]
  BY <1>3 DEF SpawnAs
<1>7. procs'[q] = new /\ \A r \in Pids \ {q} : procs'[r] = procs[r]
  BY <1>2, <1>6 DEF Shapes, IsProcs
<1>8. IsProcs(procs')
  BY <1>2, <1>4, <1>5, <1>6, <1>7 DEF Shapes, IsProcs
<1>9. Grows
  BY <1>2, <1>7 DEF Grows, Used, Up
<1>10. Quiet("memory") /\ Quiet("probe")
  BY <1>4, <1>7 DEF Quiet
<1>11. SamePids /\ (\A k \in DOMAIN sup' : SameChild(k)) /\ IsTable(sup')
  BY SameSupKeeps DEF Shapes
<1>12. q \in Used' /\ procs'[q].key = key /\ procs'[q].port = port /\ procs'[q].by = by
       /\ procs'[q].sig = {}
  BY <1>2, <1>4, <1>7 DEF Used
<1>13. \A k \in DOMAIN sup' : sup'[k].pid # q
  BY <1>2
<1>. QED
  BY <1>2, <1>8, <1>9, <1>10, <1>11, <1>12, <1>13 DEF Harmless, InHand, IsServer

LEMMA SignalFacts ==
  ASSUME Shapes, NEW pids, NEW why \in Whys, procs' = Signalled(pids, why)
  PROVE  /\ IsProcs(procs') /\ Grows
         /\ \A q \in Pids : procs'[q].sig # procs[q].sig
              => q \in pids \cap Up /\ procs'[q].sig = procs[q].sig \cup {why}
<1>1. \A q \in Pids \ (pids \cap Up) : procs'[q] = procs[q]
  BY DEF Signalled
<1>2. ASSUME NEW q \in Pids, q \in pids \cap Up
      PROVE  /\ procs'[q] \in ProcStates /\ procs'[q].st = procs[q].st
             /\ procs'[q].key = procs[q].key /\ procs'[q].port = procs[q].port
             /\ procs'[q].by = procs[q].by /\ procs'[q].answered = procs[q].answered
             /\ procs'[q].sig = procs[q].sig \cup {why}
  <2>1. PICK x \in ProcStates : x = procs[q]
    BY DEF Shapes, IsProcs
  <2>2. procs'[q] = [x EXCEPT !.sig = x.sig \cup {why}]
    BY <1>2, <2>1 DEF Signalled
  <2>. QED
    BY <2>1, <2>2 DEF ProcStates
<1>3. procs' \in [Pids -> ProcStates]
  BY <1>1, <1>2 DEF Signalled, Shapes, IsProcs
<1>4. \A q \in Pids : procs'[q].st = "unused" => procs'[q] = NoProc
  BY <1>1, <1>2 DEF Shapes, IsProcs, Up
<1>5. Grows
  BY <1>1, <1>2 DEF Grows, Used, Up
<1>. QED
  BY <1>1, <1>2, <1>3, <1>4, <1>5 DEF IsProcs

-----------------------------------------------------------------------------
(* Handlers, action by action.                                             *)

LEMMA ReceiveStep ==
  ASSUME IInv, NEW h \in Handlers, NEW r \in Requests, Receive(h, r)
  PROVE  IInv'
<1>1. PICK new : new = [IdleHandler EXCEPT !.req = r, !.pc = FirstLabel[r.op]]
  OBVIOUS
<1>2. r \in RequestKinds
  BY SupervisionAssumption
<1>3. /\ FirstLabel[r.op] \in {"lock", "snapshot"}
      /\ FirstLabel[r.op] = "lock" => r.key \in ServerKeys /\ r.base \in Ports
  BY <1>2 DEF RequestKinds, FirstLabel
<1>4. new = [req |-> r, pc |-> FirstLabel[r.op], port |-> 0, dead |-> {}, keys |-> {},
             child |-> NoPid]
  BY <1>1 DEF IdleHandler
<1>a. new \in HandlerStates
  BY <1>3, <1>4, Constants DEF HandlerStates
<1>5. Turns(h, new)
  BY <1>1, <1>a DEF Turns, Receive
<1>6. HandlerOK(h)'
  <2>1. hs'[h] = new
    BY <1>5 DEF Turns, IInv, Shapes
  <2>. QED
    BY <1>3, <1>4, <2>1 DEF HandlerOK, Critical
<1>7. MutexMoves(h, new)
  BY <1>3, <1>4 DEF Receive, At, IInv, Bracket, MutexMoves, Critical
<1>8. Harmless
  BY NothingIsHarmless DEF Receive, IInv
<1>. QED
  BY <1>5, <1>6, <1>7, <1>8, HandlerStepOnly DEF Receive

LEMMA TakeSpawningStep ==
  ASSUME IInv, NEW h \in Handlers, TakeSpawning(h)
  PROVE  IInv'
<1>1. PICK new : Turns(h, new) /\ new.pc = "choose" /\ new.req = hs[h].req
  <2>1. PICK label \in Labels : label = "choose"
    BY DEF Labels
  <2>2. Shapes /\ hs' = [hs EXCEPT ![h].pc = label]
    BY <2>1 DEF TakeSpawning, IInv
  <2>3. PICK new : /\ Turns(h, new) /\ new.pc = label /\ new.req = hs[h].req
                   /\ new.port = hs[h].port /\ new.child = hs[h].child
    BY <2>2, HandlerGoes
  <2>. QED
    BY <2>1, <2>3
<1>2. HandlerOK(h)'
  BY <1>1, EasyHandler DEF TakeSpawning, At
<1>3. MutexMoves(h, new)
  BY <1>1 DEF TakeSpawning, MutexMoves, Critical
<1>4. Harmless
  BY NothingIsHarmless DEF TakeSpawning, IInv
<1>. QED
  BY <1>1, <1>2, <1>3, <1>4, HandlerStepOnly DEF TakeSpawning

LEMMA ChooseStep ==
  ASSUME IInv, NEW h \in Handlers, Choose(h)
  PROVE  IInv'
<1>1. hs[h].pc = "choose" /\ hs[h].req.key \in ServerKeys /\ hs[h].req.base \in Ports
  BY DEF Choose, At, IInv, HandlerOK, Critical
<1>2. PICK a : a = AllocOne(rows, hs[h].req.key, hs[h].req.base, Open, clock)
  OBVIOUS
<1>3. Allocates(rows, hs[h].req.key, a)
  BY <1>1, <1>2, AllocOneAllocates DEF IInv, Shapes, Choose, HasPort
<1>4. a.port \in Ports
  BY <1>3 DEF Allocates, IsPortRegistry
<1>5. PICK new : Turns(h, new) /\ new.pc = "grant" /\ new.req = hs[h].req /\ new.port \in Ports
  <2>1. PICK port \in Ports : port = a.port
    BY <1>4
  <2>2. PICK label \in Labels : label = "grant"
    BY DEF Labels
  <2>3. Shapes /\ GoesWithPort(h, label, port)
    BY <1>2, <2>1, <2>2 DEF Choose, IInv, GoesWithPort
  <2>4. PICK new : /\ Turns(h, new) /\ new.pc = label /\ new.req = hs[h].req
                   /\ new.port = port /\ new.child = hs[h].child
    BY <2>3, HandlerGetsPort
  <2>. QED
    BY <2>2, <2>4
<1>6. HandlerOK(h)'
  <2>1. hs'[h] = new
    BY <1>5 DEF Turns, IInv, Shapes
  <2>. QED
    BY <1>1, <1>5, <2>1 DEF HandlerOK, IInv, Critical
<1>7. MutexMoves(h, new)
  BY <1>1, <1>5 DEF Choose, IInv, Bracket, MutexMoves, Critical
<1>8. Harmless
  BY NothingIsHarmless DEF Choose, IInv
<1>. QED
  BY <1>5, <1>6, <1>7, <1>8, HandlerStepOnly DEF Choose

LEMMA GrantStep ==
  ASSUME IInv, NEW h \in Handlers, Grant(h)
  PROVE  IInv'
<1>1. /\ hs[h].pc = "grant" /\ hs[h].req.key \in ServerKeys /\ hs[h].req.base \in Ports
      /\ hs[h].port \in Ports
  BY DEF Grant, At, IInv, HandlerOK, Critical
<1>2. PICK g : g = CommitOne(rows, hs[h].req.key, hs[h].req.base, hs[h].port, Open, clock)
  OBVIOUS
<1>3. Allocates(rows, hs[h].req.key, g)
  BY <1>1, <1>2, CommitOneAllocates DEF IInv, Shapes, Grant, HasPort
<1>4. g.port \in Ports /\ rows' = g.rows
  BY <1>2, <1>3 DEF Allocates, IsPortRegistry, Grant
<1>5. PICK new : Turns(h, new) /\ new.pc = "check" /\ new.req = hs[h].req /\ new.port \in Ports
  <2>1. PICK port \in Ports : port = g.port
    BY <1>4
  <2>2. PICK label \in Labels : label = "check"
    BY DEF Labels
  <2>3. Shapes /\ GoesWithPort(h, label, port)
    BY <1>2, <2>1, <2>2 DEF Grant, IInv, GoesWithPort
  <2>4. PICK new : /\ Turns(h, new) /\ new.pc = label /\ new.req = hs[h].req
                   /\ new.port = port /\ new.child = hs[h].child
    BY <2>3, HandlerGetsPort
  <2>. QED
    BY <2>2, <2>4
<1>6. HandlerOK(h)'
  <2>1. hs'[h] = new
    BY <1>5 DEF Turns, IInv, Shapes
  <2>. QED
    BY <1>1, <1>5, <2>1 DEF HandlerOK, IInv, Critical
<1>7. MutexMoves(h, new)
  BY <1>1, <1>5 DEF Grant, IInv, Bracket, MutexMoves, Critical
<1>8. Harmless
  BY NothingIsHarmless DEF Grant, IInv
<1>9. IsPortRegistry(rows') /\ RowsOK'
  <2>1. \A p \in DOMAIN rows' : rows'[p].pid # NoPid => p \in DOMAIN rows /\ rows'[p] = rows[p]
    BY <1>3, <1>4 DEF Allocates
  <2>2. \A q, key, port : IsServer(q, key, port) => IsServer(q, key, port)'
    BY <1>8, Persists DEF Harmless
  <2>. QED
    BY <1>3, <1>4, <2>1, <2>2 DEF Allocates, RowsOK, IInv, IsServer
<1>. QED
  BY <1>5, <1>6, <1>7, <1>8, <1>9, HandlerStep DEF Grant

LEMMA ReportExistingStep ==
  ASSUME IInv, NEW h \in Handlers, ReportExisting(h) \/ SuperviseFails(h)
  PROVE  IInv'
<1>1. PICK new : Turns(h, new) /\ new.pc = "idle"
  BY HandlerIdles DEF ReportExisting, SuperviseFails
<1>2. hs[h].pc \in Critical /\ spawning = h
  BY DEF ReportExisting, SuperviseFails, At, IInv, Bracket, Critical
<1>3. HandlerOK(h)'
  BY <1>1, EasyHandler
<1>4. MutexMoves(h, new)
  BY <1>1, <1>2, Constants DEF ReportExisting, SuperviseFails, MutexMoves, Critical
<1>5. Harmless
  BY NothingIsHarmless DEF ReportExisting, SuperviseFails, IInv
<1>. QED
  BY <1>1, <1>3, <1>4, <1>5, HandlerStepOnly DEF ReportExisting, SuperviseFails

LEMMA SpawnChildStep ==
  ASSUME IInv, NEW h \in Handlers, SpawnChild(h)
  PROVE  IInv'
<1>1. /\ hs[h].pc = "check" /\ hs[h].req.key \in ServerKeys /\ hs[h].req.base \in Ports
      /\ hs[h].req \in Requests /\ hs[h].port \in Ports
  BY DEF SpawnChild, At, IInv, HandlerOK, Critical
<1>2. PICK q \in UnusedPids : q = Min(UnusedPids)
  BY NextPid DEF SpawnChild
<1>3. PICK key, port : key = hs[h].req.key /\ port = hs[h].port
  OBVIOUS
<1>4. Harmless /\ q \in Pids /\ InHand(q, key, port, "request")'
  <2>1. PICK by \in {"request", "respawn"} : by = "request"
    OBVIOUS
  <2>2. SpawnAs(q, port, key, by) /\ \A k \in DOMAIN sup : sup[k].pid \in Used
    BY <1>2, <1>3, <2>1 DEF SpawnChild, IInv, ChildOK
  <2>. QED
    BY <1>1, <1>3, <2>1, <2>2, SpawnFacts DEF SpawnChild, IInv
<1>5. PICK new : Turns(h, new) /\ new.pc = "record" /\ new.req = hs[h].req
                 /\ new.port = port /\ new.child = q
  <2>1. PICK label \in Labels : label = "record"
    BY DEF Labels
  <2>2. Shapes /\ GoesWithChild(h, label, q)
    BY <1>2, <2>1 DEF SpawnChild, IInv, GoesWithChild
  <2>3. PICK new : /\ Turns(h, new) /\ new.pc = label /\ new.req = hs[h].req
                   /\ new.port = hs[h].port /\ new.child = q
    BY <1>4, <2>2, HandlerGetsChild
  <2>. QED
    BY <1>3, <2>1, <2>3
<1>6. HandlerOK(h)'
  <2>1. hs'[h] = new
    BY <1>5 DEF Turns, IInv, Shapes
  <2>. QED
    BY <1>1, <1>3, <1>4, <1>5, <2>1 DEF HandlerOK, InHand, IsServer, Critical
<1>7. MutexMoves(h, new)
  BY <1>1, <1>5 DEF SpawnChild, IInv, Bracket, MutexMoves, Critical
<1>. QED
  BY <1>4, <1>5, <1>6, <1>7, HandlerStepOnly DEF SpawnChild

LEMMA RecordChildStep ==
  ASSUME IInv, NEW h \in Handlers, RecordChild(h)
  PROVE  IInv'
<1>1. /\ hs[h].pc = "record" /\ hs[h].req.key \in ServerKeys /\ hs[h].req.base \in Ports
      /\ hs[h].req \in Requests /\ hs[h].port \in Ports
      /\ InHand(hs[h].child, hs[h].req.key, hs[h].port, "request")
  BY DEF RecordChild, At, IInv, HandlerOK, Critical
<1>2. PICK key, port, q : key = hs[h].req.key /\ port = hs[h].port /\ q = hs[h].child
  OBVIOUS
<1>3. q \in Pids /\ IsServer(q, key, port)
  BY <1>1, <1>2 DEF InHand, IsServer, Used
<1>4. PICK new : Turns(h, new) /\ new.pc = "insert" /\ new.req = hs[h].req
                 /\ new.port = port /\ new.child = q
  <2>1. PICK label \in Labels : label = "insert"
    BY DEF Labels
  <2>2. Shapes /\ hs' = [hs EXCEPT ![h].pc = label]
    BY <2>1 DEF RecordChild, IInv
  <2>3. PICK new : /\ Turns(h, new) /\ new.pc = label /\ new.req = hs[h].req
                   /\ new.port = hs[h].port /\ new.child = hs[h].child
    BY <2>2, HandlerGoes
  <2>. QED
    BY <1>2, <2>1, <2>3
<1>5. Harmless
  BY NothingIsHarmless DEF RecordChild, IInv
<1>6. HandlerOK(h)'
  <2>1. hs'[h] = new
    BY <1>4 DEF Turns, IInv, Shapes
  <2>2. InHand(q, key, port, "request")'
    BY <1>1, <1>2 DEF RecordChild, InHand, IsServer, Used
  <2>. QED
    BY <1>1, <1>2, <1>4, <2>1, <2>2 DEF HandlerOK, InHand, IsServer, Critical
<1>7. MutexMoves(h, new)
  BY <1>1, <1>4 DEF RecordChild, IInv, Bracket, MutexMoves, Critical
<1>8. IsPortRegistry(rows') /\ RowsOK'
  <2>1. rows' = RecordPid(rows, port, key, q, clock)
    BY <1>2 DEF RecordChild
  <2>2. /\ IsPortRegistry(rows') /\ DOMAIN rows' = DOMAIN rows \cup {port}
        /\ rows'[port].key = key /\ rows'[port].pid = q
        /\ \A p \in DOMAIN rows \ {port} : rows'[p] = rows[p]
    BY <1>1, <1>2, <1>3, <2>1, RecordIsRegistry, SMTT(30) DEF IInv, Shapes
  <2>3. \A r, j, p : IsServer(r, j, p) => IsServer(r, j, p)'
    BY <1>5, Persists DEF Harmless
  <2>. QED
    BY <1>3, <2>2, <2>3 DEF RowsOK, IInv, IsServer
<1>. QED
  BY <1>4, <1>5, <1>6, <1>7, <1>8, HandlerStep DEF RecordChild

LEMMA KeysAreServers ==
  ASSUME NEW d, IsPortRegistry(d), NEW r
  PROVE  KeysOf(r, d) \in SUBSET ServerKeys
BY RowFields DEF KeysOf, Scope, IsPortRegistry

(* A request that reads ends; a down goes on with its keys.                *)
LEMMA AfterSnapshotTurns ==
  ASSUME Shapes, NEW h \in Handlers, NEW d, IsPortRegistry(d), AfterSnapshot(h, d)
  PROVE  \E new : Turns(h, new) /\ new.pc \in {"idle", "remove"}
<1>1. CASE hs[h].req.op = "snapshot"
  BY <1>1, HandlerIdles DEF AfterSnapshot
<1>2. CASE hs[h].req.op # "snapshot"
  <2>1. PICK label \in Labels : label = "remove"
    BY DEF Labels
  <2>2. PICK keys \in SUBSET ServerKeys, dead \in SUBSET Ports :
          keys = KeysOf(hs[h].req, d) /\ dead = {}
    BY KeysAreServers
  <2>3. hs' = [hs EXCEPT ![h].pc = label, ![h].keys = keys]
    BY <1>2, <2>1, <2>2 DEF AfterSnapshot
  <2>. QED
    BY <2>1, <2>3, HandlerGetsKeys
<1>. QED
  BY <1>1, <1>2

(* A handler that does not hold the mutex moves and does not get it.       *)
LEMMA MutexRests ==
  ASSUME IInv, NEW h \in Handlers, hs[h].pc \notin Critical, spawning' = spawning,
         NEW new, new.pc \notin Critical
  PROVE  MutexMoves(h, new)
BY DEF IInv, Bracket, MutexMoves

(* Such a move, to a label where nothing is known of the request.          *)
LEMMA EasyStep ==
  ASSUME IInv, NEW h \in Handlers, hs[h].pc \notin Critical,
         NEW new, Turns(h, new), new.pc \in {"idle", "snapshot", "prune", "remove", "release"},
         IsPortRegistry(rows'), RowsOK', Harmless, UNCHANGED <<spawning, reaper, prober>>
  PROVE  IInv'
<1>1. HandlerOK(h)'
  BY EasyHandler
<1>2. MutexMoves(h, new)
  BY MutexRests DEF Critical
<1>. QED
  BY <1>1, <1>2, HandlerStep

LEMMA RowsRemain ==
  ASSUME IInv, Harmless, rows' = rows \/ \E ports : rows' = ReleasePorts(rows, ports)
  PROVE  IsPortRegistry(rows') /\ RowsOK'
<1>1. CASE rows' = rows
  BY <1>1, RowsStand DEF Harmless, IInv, Shapes
<1>2. ASSUME NEW ports, rows' = ReleasePorts(rows, ports)
      PROVE  IsPortRegistry(rows') /\ RowsOK'
  <2>1. /\ IsPortRegistry(rows') /\ DOMAIN rows' \subseteq DOMAIN rows
        /\ \A p \in DOMAIN rows' : rows'[p] = rows[p]
    <3>1. PICK d : d = rows /\ IsPortRegistry(d)
      BY DEF IInv, Shapes
    <3>2. /\ IsPortRegistry(ReleasePorts(d, ports))
          /\ DOMAIN ReleasePorts(d, ports) = DOMAIN d \ ports
          /\ \A p \in DOMAIN d \ ports : ReleasePorts(d, ports)[p] = d[p]
      BY <3>1 DEF IsPortRegistry, ReleasePorts, Restrict
    <3>. QED
      BY <1>2, <3>1, <3>2
  <2>2. \A q, key, port : IsServer(q, key, port) => IsServer(q, key, port)'
    BY Persists DEF Harmless
  <2>. QED
    BY <2>1, <2>2 DEF RowsOK, IInv
<1>. QED
  BY <1>1, <1>2

LEMMA SnapshotProbeTurns ==
  ASSUME IInv, NEW h \in Handlers, SnapshotProbe(h)
  PROVE  \E new : Turns(h, new) /\ new.pc \in {"idle", "remove", "prune"}
<1> DEFINE found == DeadPorts(rows, clock, Worktrees, Alive, Open)
<1>1. CASE found = {}
  BY <1>1, AfterSnapshotTurns DEF SnapshotProbe, IInv, Shapes
<1>2. CASE found # {}
  <2>1. PICK label \in Labels : label = "prune"
    BY DEF Labels
  <2>2. found \in SUBSET Ports
    BY DEF DeadPorts, IInv, Shapes, IsPortRegistry
  <2>3. KeysOf(hs[h].req, ReleasePorts(rows, found)) \in SUBSET ServerKeys
    BY KeysAreServers, ReleaseIsRegistry DEF IInv, Shapes
  <2>4. PICK keys \in SUBSET ServerKeys, dead \in SUBSET Ports :
          keys = KeysOf(hs[h].req, ReleasePorts(rows, found)) /\ dead = found
    BY <2>2, <2>3
  <2>5. hs' = [hs EXCEPT ![h].pc = label, ![h].dead = dead, ![h].keys = keys]
    BY <1>2, <2>1, <2>4 DEF SnapshotProbe
  <2>. QED
    BY <2>1, <2>5, HandlerGetsKeys DEF IInv
<1>. QED
  BY <1>1, <1>2

LEMMA SnapshotProbeStep ==
  ASSUME IInv, NEW h \in Handlers, SnapshotProbe(h)
  PROVE  IInv'
<1>1. PICK new : Turns(h, new) /\ new.pc \in {"idle", "remove", "prune"}
  BY SnapshotProbeTurns
<1>2. Harmless
  BY NothingIsHarmless DEF SnapshotProbe, IInv
<1>3. IsPortRegistry(rows') /\ RowsOK'
  BY <1>2, RowsRemain DEF SnapshotProbe
<1>. QED
  BY <1>1, <1>2, <1>3, EasyStep DEF SnapshotProbe, At, Critical

LEMMA SnapshotPruneTurns ==
  ASSUME IInv, NEW h \in Handlers, SnapshotPrune(h)
  PROVE  /\ IsPortRegistry(rows') /\ RowsOK'
         /\ \E new : Turns(h, new) /\ new.pc \in {"idle", "remove"}
<1>1. Harmless
  BY NothingIsHarmless DEF SnapshotPrune, IInv
<1>2. PICK ports : ports = hs[h].dead
  OBVIOUS
<1>3. IsPortRegistry(rows') /\ RowsOK'
  BY <1>1, <1>2, RowsRemain DEF SnapshotPrune
<1>4. PICK d : d = rows' /\ IsPortRegistry(d) /\ AfterSnapshot(h, d)
  BY <1>3 DEF SnapshotPrune
<1>. QED
  BY <1>3, <1>4, AfterSnapshotTurns DEF IInv

LEMMA SnapshotPruneStep ==
  ASSUME IInv, NEW h \in Handlers, SnapshotPrune(h)
  PROVE  IInv'
<1>1. Harmless
  BY NothingIsHarmless DEF SnapshotPrune, IInv
<1>. QED
  BY <1>1, SnapshotPruneTurns, EasyStep DEF SnapshotPrune, At, Critical

LEMMA SnapshotUnsavedTurns ==
  ASSUME IInv, NEW h \in Handlers, SnapshotUnsaved(h) \/ ReleaseFails(h)
  PROVE  \E new : Turns(h, new) /\ new.pc \in {"idle", "remove"}
<1>1. CASE Answer(h)
  BY <1>1, HandlerIdles
<1>2. CASE hs' = [hs EXCEPT ![h].pc = "remove"]
  <2>1. PICK label \in Labels : label = "remove"
    BY DEF Labels
  <2>2. hs' = [hs EXCEPT ![h].pc = label]
    BY <1>2, <2>1
  <2>. QED
    BY <2>1, <2>2, HandlerGoes, ZenonT(30) DEF IInv
<1>. QED
  BY <1>1, <1>2 DEF SnapshotUnsaved, ReleaseFails

LEMMA SnapshotUnsavedStep ==
  ASSUME IInv, NEW h \in Handlers, SnapshotUnsaved(h) \/ ReleaseFails(h)
  PROVE  IInv'
<1>1. PICK new : Turns(h, new) /\ new.pc \in {"idle", "remove"}
  BY SnapshotUnsavedTurns
<1>2. Harmless
  BY NothingIsHarmless DEF SnapshotUnsaved, ReleaseFails, IInv
<1>3. IsPortRegistry(rows') /\ RowsOK'
  BY <1>2, RowsRemain DEF SnapshotUnsaved, ReleaseFails
<1>. QED
  BY <1>1, <1>2, <1>3, EasyStep DEF SnapshotUnsaved, ReleaseFails, At, Critical

LEMMA ReleaseScopeStep ==
  ASSUME IInv, NEW h \in Handlers, ReleaseScope(h)
  PROVE  IInv'
<1>1. PICK new : Turns(h, new) /\ new.pc = "idle"
  BY HandlerIdles DEF ReleaseScope
<1>2. Harmless
  BY NothingIsHarmless DEF ReleaseScope, IInv
<1>3. IsPortRegistry(rows') /\ RowsOK'
  BY <1>2, RowsRemain DEF ReleaseScope
<1>. QED
  BY <1>1, <1>2, <1>3, EasyStep DEF ReleaseScope, At, Critical

LEMMA WithoutKeeps ==
  ASSUME Shapes, NEW keys, sup' = Without(keys)
  PROVE  IsTable(sup') /\ SamePids /\ (\A k \in DOMAIN sup' : SameChild(k))
<1>1. DOMAIN sup' \subseteq DOMAIN sup /\ \A k \in DOMAIN sup' : sup'[k] = sup[k]
  BY DEF Without, Restrict
<1>2. sup' = [k \in DOMAIN sup' |-> sup'[k]]
  BY DEF Without, Restrict
<1>. QED
  BY <1>1, <1>2 DEF Shapes, IsTable, SamePids, SameChild

LEMMA RemoveAndStopTurns ==
  ASSUME IInv, NEW h \in Handlers, RemoveAndStop(h)
  PROVE  \E new : Turns(h, new) /\ new.pc = "release"
<1>1. PICK label \in Labels : label = "release"
  BY DEF Labels
<1>2. hs' = [hs EXCEPT ![h].pc = label]
  BY <1>1 DEF RemoveAndStop
<1>. QED
  BY <1>1, <1>2, HandlerGoes DEF IInv

LEMMA RemovalIsHarmless ==
  ASSUME IInv, NEW h \in Handlers, RemoveAndStop(h)
  PROVE  Harmless
<1>1. PICK keys, pids, why : /\ why \in Whys /\ why = "down" /\ keys = hs[h].keys \cap DOMAIN sup
                             /\ sup' = Without(keys) /\ procs' = Signalled(pids, why)
  BY DEF RemoveAndStop, Whys
<1>2. /\ IsProcs(procs') /\ Grows
      /\ \A q \in Pids : procs'[q].sig # procs[q].sig
           => procs'[q].sig = procs[q].sig \cup {why}
  BY <1>1, SignalFacts DEF IInv
<1>3. Quiet("memory") /\ Quiet("probe")
  BY <1>1, <1>2 DEF Quiet
<1>4. IsTable(sup') /\ SamePids /\ (\A k \in DOMAIN sup' : SameChild(k))
  BY <1>1, WithoutKeeps DEF IInv
<1>. QED
  BY <1>2, <1>3, <1>4 DEF Harmless, RemoveAndStop

LEMMA RemoveAndStopStep ==
  ASSUME IInv, NEW h \in Handlers, RemoveAndStop(h)
  PROVE  IInv'
<1>1. PICK new : Turns(h, new) /\ new.pc = "release"
  BY RemoveAndStopTurns
<1>2. Harmless
  BY RemovalIsHarmless
<1>3. IsPortRegistry(rows') /\ RowsOK'
  BY <1>2, RowsRemain DEF RemoveAndStop
<1>. QED
  BY <1>1, <1>2, <1>3, EasyStep DEF RemoveAndStop, At, Critical

(* The table gets a new entry, about a child nobody else has.              *)
LEMMA EntryAppears ==
  ASSUME Shapes, NEW k \in ServerKeys, NEW c \in Children, sup' = WithChild(k, c)
  PROVE  /\ IsTable(sup') /\ DOMAIN sup' = DOMAIN sup \cup {k} /\ sup'[k] = c
         /\ \A j \in DOMAIN sup \ {k} : sup'[j] = sup[j]
BY DEF WithChild, Shapes, IsTable

LEMMA InsertOwnedStep ==
  ASSUME IInv, NEW h \in Handlers, InsertOwned(h)
  PROVE  IInv'
<1>1. /\ hs[h].pc = "insert" /\ hs[h].req.key \in ServerKeys /\ hs[h].port \in Ports
      /\ InHand(hs[h].child, hs[h].req.key, hs[h].port, "request")
  BY DEF InsertOwned, At, IInv, HandlerOK, Critical
<1>2. PICK key, port, q : key = hs[h].req.key /\ port = hs[h].port /\ q = hs[h].child
  OBVIOUS
<1>3. /\ q \in Used /\ q \in Pids /\ procs[q].key = key /\ procs[q].port = port
      /\ procs[q].by = "request" /\ "memory" \notin procs[q].sig
      /\ key \in ServerKeys /\ port \in Ports
  BY <1>1, <1>2 DEF InHand, IsServer, Used
<1>4. PICK c \in Children : /\ c.pid = q /\ c.port = port /\ ~c.armed
                            /\ c = NewChild(q, port, TRUE)
  <2>1. /\ NewChild(q, port, TRUE) \in Children
        /\ NewChild(q, port, TRUE).pid = q /\ NewChild(q, port, TRUE).port = port
        /\ ~NewChild(q, port, TRUE).armed
    BY <1>3 DEF NewChild, Children
  <2>. QED
    BY <2>1
<1>5. /\ IsTable(sup') /\ DOMAIN sup' = DOMAIN sup \cup {key} /\ sup'[key] = c
      /\ \A j \in DOMAIN sup \ {key} : sup'[j] = sup[j]
  <2>1. sup' = WithChild(key, c)
    BY <1>2, <1>4 DEF InsertOwned
  <2>. QED
    BY <1>3, <2>1, EntryAppears DEF IInv
<1>6. PICK new : Turns(h, new) /\ new.pc = "idle"
  BY HandlerIdles DEF InsertOwned
<1>7. Grows /\ Quiet("memory") /\ Quiet("probe")
  BY SameProcsGrow DEF InsertOwned
<1>8. Shapes'
  BY <1>5, <1>6 DEF IInv, Shapes, Turns, InsertOwned
<1>9. Bracket'
  <2>1. MutexMoves(h, new)
    BY <1>1, <1>6, Constants DEF InsertOwned, IInv, Bracket, MutexMoves, Critical
  <2>. QED
    BY <1>6, <2>1, BracketMoves DEF IInv
<1>10. \A g \in Handlers : HandlerOK(g)'
  <2> TAKE g \in Handlers
  <2>1. CASE g = h
    BY <1>6, <2>1, EasyHandler
  <2>2. CASE g # h
    <3>1. hs'[g] = hs[g]
      BY <1>6, <2>2 DEF Turns, IInv, Shapes
    <3>2. hs[g].pc \notin {"record", "insert"}
      BY <1>1, <2>2 DEF IInv, Bracket, Critical
    <3>. QED
      BY <1>7, <3>1, <3>2, HandlerStands DEF IInv
  <2>. QED
    BY <2>1, <2>2
<1>11. ReaperOK'
  <2>1. reaper.pc \in {"record", "setpid"} => \A k \in DOMAIN sup' : sup'[k].pid # reaper.child
    BY <1>3, <1>4, <1>5 DEF IInv, ReaperOK, InHand
  <2>2. \A k \in DOMAIN sup' :
          \/ k \in DOMAIN sup /\ sup'[k].pid = sup[k].pid
          \/ "memory" \notin procs'[sup'[k].pid].sig
    BY <1>3, <1>4, <1>5, <1>7 DEF Quiet
  <2>. QED
    BY <1>7, <2>1, <2>2, ReaperStands DEF InsertOwned
<1>12. ProberOK'
  BY <1>7, ProberStands DEF InsertOwned
<1>13. \A k \in DOMAIN sup' : ChildOK(k)'
  <2> TAKE k \in DOMAIN sup'
  <2>1. CASE k = key
    BY <1>3, <1>4, <1>5, <2>1 DEF ChildOK, Launched, IsServer, InsertOwned, Used
  <2>2. CASE k # key
    <3>1. SameChild(k)
      BY <1>5, <2>2 DEF SameChild
    <3>. QED
      BY <1>7, <3>1, ChildrenStand DEF InsertOwned
  <2>. QED
    BY <2>1, <2>2
<1>14. RowsOK' /\ OnlyReadyIsJudged'
  BY <1>7, RowsStand, JudgedStand DEF InsertOwned
<1>. QED
  BY <1>8, <1>9, <1>10, <1>11, <1>12, <1>13, <1>14 DEF IInv

LEMMA ServeStep ==
  ASSUME IInv, NEW h \in Handlers, Serve(h)
  PROVE  IInv'
BY TakeSpawningStep, ChooseStep, GrantStep, ReportExistingStep, SpawnChildStep,
   RecordChildStep, InsertOwnedStep, SnapshotProbeStep, SnapshotPruneStep,
   SnapshotUnsavedStep, RemoveAndStopStep, ReleaseScopeStep DEF Serve

-----------------------------------------------------------------------------
(* The supervision thread.                                                 *)

LEMMA ReaperStep ==
  ASSUME IInv, reaper' \in ReaperStates, ReaperOK', UNCHANGED <<hs, spawning, prober, clock>>,
         IsTable(sup'), IsProcs(procs'), IsPortRegistry(rows'), RowsOK',
         Grows, Quiet("memory"), Quiet("probe"),
         \A k \in DOMAIN sup' : ChildOK(k)',
         \A k \in DOMAIN sup' :
           \/ k \in DOMAIN sup /\ sup'[k].pid = sup[k].pid
           \/ reaper.pc = "setpid" /\ sup'[k].pid = reaper.child
  PROVE  IInv'
<1>1. Shapes'
  BY DEF IInv, Shapes
<1>2. Bracket'
  BY DEF IInv, Bracket
<1>3. \A h \in Handlers : HandlerOK(h)'
  <2> TAKE h \in Handlers
  <2>1. ASSUME hs[h].pc \in {"record", "insert"}, NEW k \in DOMAIN sup'
        PROVE  sup'[k].pid # hs[h].child
    <3>1. InHand(hs[h].child, hs[h].req.key, hs[h].port, "request")
      BY <2>1 DEF IInv, HandlerOK
    <3>2. reaper.pc = "setpid" => procs[reaper.child].by = "respawn"
      BY DEF IInv, ReaperOK, InHand
    <3>. QED
      BY <3>1, <3>2 DEF InHand
  <2>2. hs[h].pc \in {"record", "insert"} => "memory" \notin procs'[hs[h].child].sig
    BY DEF IInv, HandlerOK, InHand, IsServer, Used, Quiet
  <2>. QED
    BY <2>1, <2>2, HandlerStands DEF IInv
<1>4. ProberOK' /\ OnlyReadyIsJudged'
  BY ProberStands, JudgedStand
<1>. QED
  BY <1>1, <1>2, <1>3, <1>4 DEF IInv

(* A step that takes nothing from the table but entries.                   *)
LEMMA ReaperStepOnly ==
  ASSUME IInv, reaper' \in ReaperStates, ReaperOK', UNCHANGED <<hs, spawning, prober, rows>>,
         Harmless
  PROVE  IInv'
<1>1. \A k \in DOMAIN sup' : ChildOK(k)'
  BY ChildrenStand DEF Harmless
<1>2. IsPortRegistry(rows') /\ RowsOK'
  BY RowsRemain
<1>. QED
  BY <1>1, <1>2, ReaperStep DEF Harmless, SamePids

(* Entries the thread has still to look at do not get worse meanwhile.     *)
StillDead(dead) ==
  \A k \in dead \cap DOMAIN sup' : "memory" \in procs'[sup'[k].pid].sig => sup'[k].pid \notin Up'

LEMMA DeadStayDead ==
  ASSUME IInv, Grows, Quiet("memory"), SamePids
  PROVE  StillDead(reaper.dead)
<1> SUFFICES ASSUME NEW k \in reaper.dead \cap DOMAIN sup', "memory" \in procs'[sup'[k].pid].sig
             PROVE  sup'[k].pid \notin Up'
  BY DEF StillDead
<1>1. PICK q : q = sup[k].pid /\ q = sup'[k].pid /\ q \in Used /\ q \in Pids
  BY DEF SamePids, IInv, ChildOK, Used
<1>2. q \notin Up
  BY <1>1 DEF IInv, ReaperOK, Quiet, SamePids
<1>. QED
  BY <1>1, <1>2 DEF Grows, Up

LEMMA BackToEachFacts ==
  ASSUME IInv
  PROVE  /\ BackToEach \in ReaperStates /\ BackToEach.pc = "each"
         /\ BackToEach.dead = reaper.dead /\ BackToEach.child = NoPid
<1>1. PICK x \in ReaperStates : x = reaper
  BY DEF IInv, Shapes
<1>2. PICK y : y = [x EXCEPT !.pc = "each", !.key = None]
  OBVIOUS
<1>3. y \in ReaperStates /\ y.pc = "each" /\ y.dead = x.dead
  BY <1>2 DEF ReaperStates
<1>4. PICK z : z = [y EXCEPT !.port = 0, !.child = NoPid]
  OBVIOUS
<1>a. 0 \in 0 .. MaxPort
  BY Constants
<1>5. z \in ReaperStates /\ z.pc = "each" /\ z.dead = x.dead /\ z.child = NoPid
  BY <1>3, <1>4, <1>a DEF ReaperStates
<1>6. BackToEach = z
  BY <1>1, <1>2, <1>4 DEF BackToEach
<1>. QED
  BY <1>1, <1>5, <1>6

LEMMA BackStep ==
  ASSUME IInv, Harmless, reaper' = BackToEach, UNCHANGED <<hs, spawning, prober, rows>>
  PROVE  IInv'
<1>1. /\ reaper' \in ReaperStates /\ reaper'.pc = "each"
      /\ reaper'.dead = reaper.dead /\ reaper'.child = NoPid
  BY BackToEachFacts
<1>2. ReaperOK'
  BY <1>1, DeadStayDead DEF ReaperOK, StillDead, Harmless
<1>. QED
  BY <1>1, <1>2, ReaperStepOnly

(* A dead key is taken off the thread's list.                              *)
LEMMA NextDead ==
  ASSUME IInv, NEW k, reaper.pc = "each",
         reaper' = [reaper EXCEPT !.dead = @ \ {k}], Harmless
  PROVE  reaper' \in ReaperStates /\ ReaperOK'
<1>1. PICK x \in ReaperStates : x = reaper
  BY DEF IInv, Shapes
<1>2. /\ reaper' \in ReaperStates /\ reaper'.pc = "each" /\ reaper'.child = x.child
      /\ reaper'.dead = x.dead \ {k}
  BY <1>1 DEF ReaperStates
<1>3. x.child = NoPid
  BY <1>1 DEF IInv, ReaperOK
<1>. QED
  BY <1>1, <1>2, <1>3, DeadStayDead DEF ReaperOK, StillDead, Harmless

LEMMA RestartSkipsStep ==
  ASSUME IInv, NEW k \in ServerKeys, RestartSkips(k)
  PROVE  IInv'
<1>1. Harmless
  BY NothingIsHarmless DEF RestartSkips, IInv
<1>2. reaper' \in ReaperStates /\ ReaperOK'
  BY <1>1, NextDead DEF RestartSkips, ReaperAt
<1>. QED
  BY <1>1, <1>2, ReaperStepOnly DEF RestartSkips

LEMMA RestartDropsStep ==
  ASSUME IInv, NEW k \in ServerKeys, RestartDrops(k)
  PROVE  IInv'
<1>1. Harmless
  <2>1. PICK keys : keys = {k} /\ sup' = Without(keys)
    BY DEF RestartDrops
  <2>2. IsTable(sup') /\ SamePids /\ (\A j \in DOMAIN sup' : SameChild(j))
    BY <2>1, WithoutKeeps DEF IInv
  <2>. QED
    BY <2>2, SameProcsGrow DEF Harmless, RestartDrops, IInv, Shapes
<1>2. reaper' \in ReaperStates /\ ReaperOK'
  BY <1>1, NextDead DEF RestartDrops, ReaperAt
<1>. QED
  BY <1>1, <1>2, ReaperStepOnly DEF RestartDrops

LEMMA LaunchOfStep ==
  ASSUME IInv, LaunchOf
  PROVE  IInv'
<1>1. Harmless
  BY NothingIsHarmless DEF LaunchOf, IInv
<1>2. CASE reaper.key \in DOMAIN sup /\ sup[reaper.key].spec
  <2>1. PICK x \in ReaperStates : x = reaper
    BY DEF IInv, Shapes
  <2>2. PICK port : port = sup[reaper.key].port
    OBVIOUS
  <2>3. port \in Ports /\ port \in 0 .. MaxPort
    BY <1>2, <2>2, Constants DEF IInv, Shapes, IsTable, Children, Ports
  <2>4. reaper' = [x EXCEPT !.pc = "spawn", !.port = port]
    BY <1>2, <2>1, <2>2 DEF LaunchOf
  <2>5. /\ reaper' \in ReaperStates /\ reaper'.pc = "spawn" /\ reaper'.port = port
        /\ reaper'.key = x.key /\ reaper'.child = x.child /\ reaper'.dead = x.dead
    BY <2>3, <2>4 DEF ReaperStates
  <2>6. x.child = NoPid /\ x.key \in ServerKeys
    BY <2>1 DEF LaunchOf, ReaperAt, IInv, ReaperOK
  <2>7. ReaperOK'
    BY <1>1, <2>1, <2>3, <2>5, <2>6, DeadStayDead DEF ReaperOK, StillDead, Harmless
  <2>. QED
    BY <1>1, <2>5, <2>7, ReaperStepOnly DEF LaunchOf
<1>3. CASE ~(reaper.key \in DOMAIN sup /\ sup[reaper.key].spec)
  BY <1>1, <1>3, BackStep DEF LaunchOf
<1>. QED
  BY <1>2, <1>3

LEMMA RespawnFailsStep ==
  ASSUME IInv, RespawnFails
  PROVE  IInv'
<1>1. Harmless
  BY NothingIsHarmless DEF RespawnFails, IInv
<1>. QED
  BY <1>1, BackStep DEF RespawnFails

LEMMA RespawnStep ==
  ASSUME IInv, Respawn
  PROVE  IInv'
<1>1. PICK x \in ReaperStates : x = reaper
  BY DEF IInv, Shapes
<1>2. x.pc = "spawn" /\ x.key \in ServerKeys /\ x.port \in Ports
  BY <1>1 DEF Respawn, ReaperAt, IInv, ReaperOK
<1>3. PICK q \in UnusedPids : q = Min(UnusedPids)
  BY NextPid DEF Respawn
<1>4. PICK key, port : key = x.key /\ port = x.port
  OBVIOUS
<1>5. Harmless /\ q \in Pids /\ InHand(q, key, port, "respawn")'
  <2>1. PICK by \in {"request", "respawn"} : by = "respawn"
    OBVIOUS
  <2>2. SpawnAs(q, port, key, by) /\ \A k \in DOMAIN sup : sup[k].pid \in Used
    BY <1>1, <1>3, <1>4, <2>1 DEF Respawn, IInv, ChildOK
  <2>. QED
    BY <1>2, <1>4, <2>1, <2>2, SpawnFacts DEF Respawn, IInv
<1>6. reaper' = [x EXCEPT !.pc = "record", !.child = q]
  BY <1>1, <1>3 DEF Respawn
<1>7. /\ reaper' \in ReaperStates /\ reaper'.pc = "record" /\ reaper'.port = port
      /\ reaper'.key = key /\ reaper'.child = q /\ reaper'.dead = x.dead
  BY <1>4, <1>5, <1>6 DEF ReaperStates
<1>8. ReaperOK'
  BY <1>1, <1>2, <1>4, <1>5, <1>7, DeadStayDead DEF ReaperOK, StillDead, Harmless, InHand, IsServer
<1>. QED
  BY <1>5, <1>7, <1>8, ReaperStepOnly DEF Respawn

LEMMA RespawnRecordStep ==
  ASSUME IInv, RespawnRecord
  PROVE  IInv'
<1>1. PICK x \in ReaperStates : x = reaper
  BY DEF IInv, Shapes
<1>2. /\ x.pc = "record" /\ x.key \in ServerKeys /\ x.port \in Ports
      /\ InHand(x.child, x.key, x.port, "respawn")
  BY <1>1 DEF RespawnRecord, ReaperAt, IInv, ReaperOK
<1>3. PICK key, port, q : key = x.key /\ port = x.port /\ q = x.child
  OBVIOUS
<1>4. q \in Pids /\ IsServer(q, key, port)
  BY <1>2, <1>3 DEF InHand, IsServer, Used
<1>5. Harmless
  BY NothingIsHarmless DEF RespawnRecord, IInv
<1>6. reaper' = [x EXCEPT !.pc = "setpid"]
  BY <1>1 DEF RespawnRecord
<1>7. /\ reaper' \in ReaperStates /\ reaper'.pc = "setpid" /\ reaper'.port = port
      /\ reaper'.key = key /\ reaper'.child = q /\ reaper'.dead = x.dead
  BY <1>3, <1>6 DEF ReaperStates
<1>8. ReaperOK'
  <2>1. InHand(q, key, port, "respawn")'
    BY <1>2, <1>3 DEF RespawnRecord, InHand, IsServer, Used
  <2>. QED
    BY <1>1, <1>2, <1>3, <1>5, <1>7, <2>1, DeadStayDead
       DEF ReaperOK, StillDead, Harmless, InHand, IsServer
<1>9. IsPortRegistry(rows') /\ RowsOK'
  <2>1. CASE rows' = rows
    BY <1>5, <2>1, RowsRemain
  <2>2. CASE rows' = RecordPid(rows, port, key, q, clock)
    <3>1. /\ IsPortRegistry(rows') /\ DOMAIN rows' = DOMAIN rows \cup {port}
          /\ rows'[port].key = key /\ rows'[port].pid = q
          /\ \A p \in DOMAIN rows \ {port} : rows'[p] = rows[p]
      BY <1>2, <1>3, <1>4, <2>2, RecordIsRegistry DEF IInv, Shapes
    <3>2. \A r, j, p : IsServer(r, j, p) => IsServer(r, j, p)'
      BY <1>5, Persists DEF Harmless
    <3>. QED
      BY <1>4, <3>1, <3>2 DEF RowsOK, IInv, IsServer
  <2>. QED
    BY <1>1, <1>3, <2>1, <2>2 DEF RespawnRecord
<1>10. \A k \in DOMAIN sup' : ChildOK(k)'
  BY <1>5, ChildrenStand DEF Harmless
<1>. QED
  BY <1>5, <1>7, <1>8, <1>9, <1>10, ReaperStep DEF RespawnRecord, Harmless, SamePids

LEMMA RespawnedIsChild ==
  ASSUME NEW c \in Children, NEW q \in Pids
  PROVE  /\ Respawned(c, q) \in Children
         /\ Respawned(c, q).pid = q /\ Respawned(c, q).port = c.port /\ ~Respawned(c, q).armed
         /\ Respawned(c, q).spec = c.spec /\ Respawned(c, q).restarts = c.restarts
<1>1. PICK y : y = [c EXCEPT !.pid = q, !.owned = TRUE, !.armed = FALSE]
  OBVIOUS
<1>2. y \in Children /\ y.pid = q /\ y.port = c.port /\ y.armed = FALSE
      /\ y.spec = c.spec /\ y.restarts = c.restarts
  BY <1>1 DEF Children
<1>3. PICK z : z = [y EXCEPT !.failures = 0, !.over = 0, !.gaveup = FALSE]
  OBVIOUS
<1>4. z \in Children /\ z.pid = q /\ z.port = c.port /\ z.armed = FALSE
      /\ z.spec = c.spec /\ z.restarts = c.restarts
  BY <1>2, <1>3 DEF Children
<1>5. Respawned(c, q) = z
  BY <1>1, <1>3 DEF Respawned
<1>. QED
  BY <1>4, <1>5

LEMMA SetPidStep ==
  ASSUME IInv, SetPid
  PROVE  IInv'
<1>1. PICK x \in ReaperStates : x = reaper
  BY DEF IInv, Shapes
<1>2. PICK k, q : k = x.key /\ q = x.child
  OBVIOUS
<1>3. /\ x.pc = "setpid" /\ k \in ServerKeys /\ q \in Used /\ q \in Pids
      /\ procs[q].key = k /\ "memory" \notin procs[q].sig
  BY <1>1, <1>2 DEF SetPid, ReaperAt, IInv, ReaperOK, InHand, IsServer, Used
<1>4. CASE k \notin DOMAIN sup
  <2>1. Harmless
    BY <1>1, <1>2, <1>4, NothingIsHarmless DEF SetPid, IInv
  <2>. QED
    BY <2>1, BackStep DEF SetPid
<1>5. CASE k \in DOMAIN sup
  <2>1. PICK old \in Children : old = sup[k]
    BY <1>5 DEF IInv, Shapes, IsTable
  <2>2. PICK c \in Children : c = Respawned(old, q) /\ c.pid = q /\ c.port = old.port /\ ~c.armed
    BY <1>3, RespawnedIsChild
  <2>3. sup' = WithChild(k, c)
    BY <1>1, <1>2, <1>5, <2>1, <2>2 DEF SetPid
  <2>4. /\ IsTable(sup') /\ DOMAIN sup' = DOMAIN sup \cup {k} /\ sup'[k] = c
        /\ \A j \in DOMAIN sup \ {k} : sup'[j] = sup[j]
    BY <1>3, <2>3, EntryAppears DEF IInv
  <2>5. /\ reaper' \in ReaperStates /\ reaper'.pc = "each"
        /\ reaper'.dead = reaper.dead /\ reaper'.child = NoPid
    BY BackToEachFacts DEF SetPid
  <2>6. Grows /\ Quiet("memory") /\ Quiet("probe")
    BY SameProcsGrow DEF SetPid
  <2>7. ASSUME NEW j \in reaper.dead \cap DOMAIN sup', "memory" \in procs'[sup'[j].pid].sig
        PROVE  sup'[j].pid \notin Up'
    <3>1. j # k /\ j \in DOMAIN sup /\ sup'[j] = sup[j]
      BY <1>3, <2>2, <2>4, <2>7 DEF SetPid
    <3>. QED
      BY <2>7, <3>1 DEF SetPid, IInv, ReaperOK, Up
  <2>8. ReaperOK'
    BY <2>5, <2>7 DEF ReaperOK
  <2>9. \A j \in DOMAIN sup' : ChildOK(j)'
    <3> TAKE j \in DOMAIN sup'
    <3>1. CASE j = k
      BY <1>3, <1>5, <2>1, <2>2, <2>4, <3>1
      DEF ChildOK, IInv, Launched, IsServer, SetPid, Used
    <3>2. CASE j # k
      <4>1. SameChild(j)
        BY <2>4, <3>2 DEF SameChild
      <4>. QED
        BY <2>6, <4>1, ChildrenStand DEF SetPid
    <3>. QED
      BY <3>1, <3>2
  <2>10. IsPortRegistry(rows') /\ RowsOK'
    BY <2>6, RowsStand DEF SetPid, IInv, Shapes
  <2>11. IsProcs(procs')
    BY DEF SetPid, IInv, Shapes
  <2>12. \A j \in DOMAIN sup' :
           \/ j \in DOMAIN sup /\ sup'[j].pid = sup[j].pid
           \/ reaper.pc = "setpid" /\ sup'[j].pid = reaper.child
    BY <1>1, <1>2, <1>3, <2>2, <2>4
  <2>. QED
    BY <2>4, <2>5, <2>6, <2>8, <2>9, <2>10, <2>11, <2>12, ReaperStep DEF SetPid
<1>. QED
  BY <1>4, <1>5

(* Taking a reason back from one process.                                  *)
LEMMA UnsignalFacts ==
  ASSUME Shapes, NEW q \in Used, procs' = [procs EXCEPT ![q].sig = @ \ {"memory"}]
  PROVE  /\ IsProcs(procs') /\ Grows /\ Quiet("memory") /\ Quiet("probe")
         /\ "memory" \notin procs'[q].sig
<1>1. PICK x \in ProcStates : x = procs[q] /\ x.st # "unused" /\ q \in Pids
  BY DEF Shapes, IsProcs, Used
<1>2. PICK new : new = [x EXCEPT !.sig = x.sig \ {"memory"}]
  OBVIOUS
<1>3. /\ new \in ProcStates /\ new.st = x.st /\ new.key = x.key /\ new.port = x.port
      /\ new.by = x.by /\ new.answered = x.answered /\ new.sig = x.sig \ {"memory"}
  BY <1>2 DEF ProcStates
<1>4. procs' = [procs EXCEPT ![q] = new]
  BY <1>1, <1>2
<1>5. procs'[q] = new /\ \A r \in Pids \ {q} : procs'[r] = procs[r]
  BY <1>1, <1>4 DEF Shapes, IsProcs
<1>6. IsProcs(procs')
  BY <1>1, <1>3, <1>4, <1>5 DEF Shapes, IsProcs
<1>7. Grows
  BY <1>1, <1>3, <1>5 DEF Grows, Used, Up
<1>8. Quiet("memory") /\ Quiet("probe")
  BY <1>1, <1>3, <1>5 DEF Quiet
<1>. QED
  BY <1>3, <1>5, <1>6, <1>7, <1>8

LEMMA RestartAllowedStep ==
  ASSUME IInv, NEW k \in ServerKeys, RestartAllowed(k)
  PROVE  IInv'
<1>1. PICK old \in Children : old = sup[k] /\ k \in DOMAIN sup
  BY DEF RestartAllowed, IInv, Shapes, IsTable
<1>2. PICK q : q = old.pid /\ q \in Used /\ procs[q].key = k
  BY <1>1 DEF IInv, ChildOK
<1>a. PICK restarts \in Seq(Nat) : restarts = Append(old.restarts, clock)
  <2>1. old.restarts \in Seq(Nat) /\ clock \in Nat
    BY DEF Children, IInv, Shapes
  <2>2. Append(old.restarts, clock) \in Seq(Nat)
    BY <2>1
  <2>. QED
    BY <2>2
<1>3. PICK c : c = [old EXCEPT !.restarts = restarts]
  OBVIOUS
<1>4. /\ c \in Children /\ c.pid = q /\ c.port = old.port
      /\ c.spec = old.spec /\ c.armed = old.armed
  BY <1>2, <1>3 DEF Children
<1>5. sup' = WithChild(k, c)
  BY <1>1, <1>a, <1>3 DEF RestartAllowed, Charged
<1>6. /\ IsTable(sup') /\ DOMAIN sup' = DOMAIN sup /\ sup'[k] = c
      /\ \A j \in DOMAIN sup \ {k} : sup'[j] = sup[j]
  BY <1>1, <1>4, <1>5, EntryAppears DEF IInv
<1>7. /\ IsProcs(procs') /\ Grows /\ Quiet("memory") /\ Quiet("probe")
      /\ "memory" \notin procs'[q].sig
  <2>1. procs' = [procs EXCEPT ![q].sig = @ \ {"memory"}]
    BY <1>1, <1>2 DEF RestartAllowed
  <2>. QED
    BY <1>2, <2>1, UnsignalFacts DEF IInv
<1>8. SamePids
  BY <1>1, <1>2, <1>4, <1>6 DEF SamePids
<1>9. /\ reaper' \in ReaperStates /\ reaper'.pc = "launch" /\ reaper'.key = k
      /\ reaper'.child = reaper.child /\ reaper'.dead = reaper.dead \ {k}
  <2>1. PICK x \in ReaperStates : x = reaper
    BY DEF IInv, Shapes
  <2>2. PICK y : y = [x EXCEPT !.dead = x.dead \ {k}]
    OBVIOUS
  <2>3. y \in ReaperStates /\ y.child = x.child /\ y.dead = x.dead \ {k}
    BY <2>2 DEF ReaperStates
  <2>4. PICK z : z = [y EXCEPT !.pc = "launch", !.key = k]
    OBVIOUS
  <2>5. z \in ReaperStates /\ z.child = x.child /\ z.dead = x.dead \ {k}
        /\ z.pc = "launch" /\ z.key = k
    BY <2>3, <2>4 DEF ReaperStates
  <2>6. reaper' = z
    BY <2>1, <2>2, <2>4 DEF RestartAllowed
  <2>. QED
    BY <2>1, <2>5, <2>6
<1>10. ReaperOK'
  <2>1. reaper.child = NoPid
    BY DEF RestartAllowed, ReaperAt, IInv, ReaperOK
  <2>2. StillDead(reaper.dead)
    BY <1>7, <1>8, DeadStayDead
  <2>. QED
    BY <1>9, <2>1, <2>2 DEF ReaperOK, StillDead
<1>11. \A j \in DOMAIN sup' : ChildOK(j)'
  <2> TAKE j \in DOMAIN sup'
  <2>1. CASE j = k
    <3>1. PICK port : port = old.port
      OBVIOUS
    <3>2. Launched(k, port) /\ (old.armed => Accepted(k))
      BY <1>1, <3>1 DEF IInv, ChildOK
    <3>3. Launched(k, port)' /\ (old.armed => Accepted(k)')
      BY <1>7, <3>2, Persists
    <3>4. q \in Used' /\ procs'[q].key = k
      BY <1>2, <1>7 DEF Grows, Used
    <3>. QED
      BY <1>4, <1>6, <1>7, <2>1, <3>1, <3>3, <3>4 DEF ChildOK, Launched, Accepted, IsServer
  <2>2. CASE j # k
    <3>1. SameChild(j)
      BY <1>6, <2>2 DEF SameChild
    <3>. QED
      BY <1>7, <3>1, ChildrenStand DEF RestartAllowed
  <2>. QED
    BY <2>1, <2>2
<1>12. IsPortRegistry(rows') /\ RowsOK'
  BY <1>7, RowsStand DEF RestartAllowed, IInv, Shapes
<1>. QED
  BY <1>6, <1>7, <1>8, <1>9, <1>10, <1>11, <1>12, ReaperStep DEF RestartAllowed, SamePids

LEMMA ReapOnceStep ==
  ASSUME IInv, ReapOnce
  PROVE  IInv'
<1> DEFINE gone == {k \in DOMAIN sup : ChildGone(sup[k])}
           pids == {sup[k].pid : k \in {k \in gone : sup[k].owned}}
<1>1. pids \subseteq Used /\ gone \subseteq ServerKeys
  BY DEF IInv, ChildOK, Shapes, IsTable
<1>2. ASSUME NEW q \in pids
      PROVE  /\ q \in Pids /\ procs[q].st # "unused" /\ procs'[q] \in ProcStates
             /\ procs'[q].st = "gone"
             /\ procs'[q].key = procs[q].key /\ procs'[q].port = procs[q].port
             /\ procs'[q].by = procs[q].by /\ procs'[q].answered = procs[q].answered
             /\ procs'[q].sig = procs[q].sig
  <2>1. PICK x \in ProcStates : x = procs[q] /\ q \in Pids /\ x.st # "unused"
    BY <1>1, <1>2 DEF IInv, Shapes, IsProcs, Used
  <2>2. procs'[q] = [x EXCEPT !.st = "gone"]
    BY <1>2, <2>1 DEF ReapOnce
  <2>. QED
    BY <2>1, <2>2 DEF ProcStates
<1>3. \A q \in Pids \ pids : procs'[q] = procs[q]
  BY DEF ReapOnce
<1>4. IsProcs(procs')
  <2>1. procs' = [q \in Pids |-> procs'[q]]
    BY DEF ReapOnce
  <2>2. \A q \in Pids : procs'[q] \in ProcStates
    BY <1>2, <1>3 DEF IInv, Shapes, IsProcs
  <2>3. \A q \in Pids : procs'[q].st = "unused" => procs'[q] = NoProc
    BY <1>2, <1>3 DEF IInv, Shapes, IsProcs
  <2> HIDE DEF pids
  <2>. QED
    BY <2>1, <2>2, <2>3 DEF IsProcs
<1>5. Grows /\ Quiet("memory") /\ Quiet("probe")
  BY <1>2, <1>3 DEF Grows, Quiet, Used, Up
<1>6. SamePids /\ (\A k \in DOMAIN sup' : SameChild(k)) /\ IsTable(sup')
  BY SameSupKeeps DEF ReapOnce, IInv, Shapes
<1>7. Harmless
  BY <1>4, <1>5, <1>6 DEF Harmless, ReapOnce
<1>8. reaper' \in ReaperStates /\ reaper'.pc = "each" /\ reaper'.dead = gone /\ reaper'.child = NoPid
  <2>1. reaper' = [IdleReaper EXCEPT !.pc = "each", !.dead = gone]
    BY DEF ReapOnce
  <2>2. reaper' = [pc |-> "each", dead |-> gone, key |-> None, port |-> 0, child |-> NoPid]
    BY <2>1 DEF IdleReaper
  <2>3. 0 \in 0 .. MaxPort
    BY Constants
  <2> HIDE DEF gone
  <2>. QED
    BY <1>1, <2>2, <2>3 DEF ReaperStates
<1>9. \A k \in gone : sup'[k].pid \notin Up'
  <2> TAKE k \in gone
  <2>1. PICK q : q = sup[k].pid /\ q = sup'[k].pid /\ q \in Used /\ q \notin Up
    BY DEF ReapOnce, ChildGone, Alive, IInv, ChildOK
  <2>. QED
    BY <1>5, <2>1 DEF Grows, Up
<1>10. ReaperOK'
  BY <1>8, <1>9 DEF ReaperOK
<1>. QED
  BY <1>7, <1>8, <1>10, ReaperStepOnly DEF ReapOnce

(* What a memory check does to a child's counters it does to nothing else. *)
LEMMA WeighedIsChild ==
  ASSUME IInv, NEW k \in DOMAIN sup, NEW big
  PROVE  /\ Weighed(k, big) \in Children
         /\ Weighed(k, big).pid = sup[k].pid /\ Weighed(k, big).port = sup[k].port
         /\ Weighed(k, big).spec = sup[k].spec /\ Weighed(k, big).armed = sup[k].armed
         /\ Weighed(k, big).restarts = sup[k].restarts
<1>1. PICK c \in Children : c = sup[k]
  BY DEF IInv, Shapes, IsTable
<1>2. c.over \in Nat /\ c.gaveup \in BOOLEAN
  BY DEF Children
<1>3. \A n \in Nat, b \in BOOLEAN :
        \A d : d = [c EXCEPT !.over = n, !.gaveup = b] =>
          /\ d \in Children /\ d.pid = c.pid /\ d.port = c.port
          /\ d.spec = c.spec /\ d.armed = c.armed /\ d.restarts = c.restarts
  <2> TAKE n \in Nat, b \in BOOLEAN
  <2> TAKE d
  <2> HAVE d = [c EXCEPT !.over = n, !.gaveup = b]
  <2>1. PICK y : y = [c EXCEPT !.over = n]
    OBVIOUS
  <2>2. /\ y \in Children /\ y.pid = c.pid /\ y.port = c.port
        /\ y.spec = c.spec /\ y.armed = c.armed /\ y.restarts = c.restarts
    BY <2>1 DEF Children
  <2>3. d = [y EXCEPT !.gaveup = b]
    BY <2>1
  <2>. QED
    BY <2>2, <2>3 DEF Children
<1>4. CASE ~c.spec
  BY <1>1, <1>4 DEF Weighed
<1>5. CASE c.spec /\ k \notin big
  <2>1. PICK n \in Nat, b \in BOOLEAN : n = 0 /\ b = FALSE
    OBVIOUS
  <2>2. PICK d : d = [c EXCEPT !.over = n, !.gaveup = b]
    OBVIOUS
  <2>3. Weighed(k, big) = d
    BY <1>1, <1>5, <2>1, <2>2 DEF Weighed
  <2>4. /\ d \in Children /\ d.pid = c.pid /\ d.port = c.port
        /\ d.spec = c.spec /\ d.armed = c.armed /\ d.restarts = c.restarts
    BY <1>3, <2>2
  <2>. QED
    BY <1>1, <2>3, <2>4
<1>6. CASE c.spec /\ k \in big
  <2>1. PICK n \in Nat : n = IF c.over + 1 >= MemTicks THEN 0 ELSE c.over + 1
    BY <1>2, Constants
  <2>2. PICK b \in BOOLEAN : b = (c.gaveup \/ (c.over + 1 >= MemTicks /\ ~CanRestart(c)))
    OBVIOUS
  <2>3. PICK d : d = [c EXCEPT !.over = n, !.gaveup = b]
    OBVIOUS
  <2>4. Weighed(k, big) = d
    BY <1>1, <1>6, <2>1, <2>2, <2>3 DEF Weighed
  <2>5. /\ d \in Children /\ d.pid = c.pid /\ d.port = c.port
        /\ d.spec = c.spec /\ d.armed = c.armed /\ d.restarts = c.restarts
    BY <1>3, <2>3
  <2>. QED
    BY <1>1, <2>4, <2>5
<1>. QED
  BY <1>4, <1>5, <1>6

LEMMA IdleReaperFacts ==
  /\ IdleReaper \in ReaperStates /\ IdleReaper.pc = "sleep"
  /\ IdleReaper.dead = {} /\ IdleReaper.child = NoPid
<1>1. 0 \in 0 .. MaxPort
  BY Constants
<1>. QED
  BY <1>1 DEF IdleReaper, ReaperStates

LEMMA MemoryTickStep ==
  ASSUME IInv, NEW big, MemoryTick(big)
  PROVE  IInv'
<1>1. reaper' \in ReaperStates /\ reaper'.pc = "sleep" /\ reaper'.dead = {} /\ reaper'.child = NoPid
  BY IdleReaperFacts DEF MemoryTick
<1>2. ReaperOK'
  BY <1>1 DEF ReaperOK
<1>3. CASE ~MemRestart
  <2>1. Harmless
    BY <1>3, NothingIsHarmless DEF MemoryTick, IInv
  <2>. QED
    BY <1>1, <1>2, <2>1, ReaperStepOnly DEF MemoryTick
<1>4. CASE MemRestart
  <2>1. /\ sup' = [k \in DOMAIN sup |-> Weighed(k, big)]
        /\ procs' = Signalled({sup[k].pid : k \in MemKills(big)}, "memory")
    BY <1>4 DEF MemoryTick
  <2>2. IsTable(sup') /\ DOMAIN sup' = DOMAIN sup /\ \A k \in DOMAIN sup' : SameChild(k)
    BY <2>1, WeighedIsChild DEF IsTable, IInv, Shapes, SameChild
  <2>3. /\ IsProcs(procs') /\ Grows
        /\ \A q \in Pids : procs'[q].sig # procs[q].sig
             => /\ q \in {sup[k].pid : k \in MemKills(big)}
                /\ procs'[q].sig = procs[q].sig \cup {"memory"}
    <3>1. PICK pids, why : /\ pids = {sup[k].pid : k \in MemKills(big)}
                           /\ why = "memory" /\ why \in Whys
      BY DEF Whys
    <3>2. procs' = Signalled(pids, why)
      BY <2>1, <3>1
    <3>3. /\ IsProcs(procs') /\ Grows
          /\ \A q \in Pids : procs'[q].sig # procs[q].sig
               => q \in pids \cap Up /\ procs'[q].sig = procs[q].sig \cup {why}
      BY <3>1, <3>2, SignalFacts DEF IInv
    <3>. QED
      BY <3>1, <3>3
  <2>4. Quiet("probe")
    BY <2>3 DEF Quiet
  <2>5. \A k \in DOMAIN sup' : ChildOK(k)'
    <3> TAKE k \in DOMAIN sup'
    <3>1. ASSUME "memory" \in procs'[sup[k].pid].sig
          PROVE  "memory" \in procs[sup[k].pid].sig \/ CanRestart(sup[k])
      <4>1. k \in DOMAIN sup /\ sup[k].pid \in Pids /\ procs[sup[k].pid].key = k
        BY <2>2 DEF IInv, ChildOK, Used
      <4>2. CASE procs'[sup[k].pid].sig = procs[sup[k].pid].sig
        BY <3>1, <4>2
      <4>3. CASE procs'[sup[k].pid].sig # procs[sup[k].pid].sig
        <5>1. PICK j \in MemKills(big) : sup[k].pid = sup[j].pid
          BY <2>3, <4>1, <4>3
        <5>2. j \in DOMAIN sup /\ procs[sup[j].pid].key = j /\ CanRestart(sup[j])
          BY DEF MemKills, IInv, ChildOK
        <5>3. j = k
          BY <4>1, <5>1, <5>2
        <5>. QED
          BY <5>2, <5>3
      <4>. QED
        BY <4>2, <4>3
    <3>2. SameChild(k)
      BY <2>2
    <3>. QED
      BY <2>3, <3>1, <3>2, ChildStands DEF MemoryTick
  <2>6. \A h \in Handlers : HandlerOK(h)'
    <3> TAKE h \in Handlers
    <3>1. ASSUME hs[h].pc \in {"record", "insert"}
          PROVE  /\ \A k \in DOMAIN sup' : sup'[k].pid # hs[h].child
                 /\ "memory" \in procs'[hs[h].child].sig => "memory" \in procs[hs[h].child].sig
      <4>1. hs[h].child \in Pids /\ \A k \in DOMAIN sup : sup[k].pid # hs[h].child
        BY <3>1 DEF IInv, HandlerOK, InHand, IsServer, Used
      <4>2. hs[h].child \notin {sup[k].pid : k \in MemKills(big)}
        BY <4>1 DEF MemKills
      <4>. QED
        BY <2>2, <2>3, <4>1, <4>2 DEF SameChild
    <3>. QED
      BY <2>3, <3>1, HandlerStands DEF MemoryTick, IInv
  <2>7. Shapes'
    BY <1>1, <2>2, <2>3 DEF IInv, Shapes, MemoryTick
  <2>8. Bracket'
    BY DEF IInv, Bracket, MemoryTick
  <2>9. ProberOK' /\ OnlyReadyIsJudged' /\ RowsOK'
    BY <2>3, <2>4, ProberStands, JudgedStand, RowsStand DEF MemoryTick
  <2>. QED
    BY <1>2, <2>5, <2>6, <2>7, <2>8, <2>9 DEF IInv
<1>. QED
  BY <1>3, <1>4

LEMMA ReapStep ==
  ASSUME IInv, Reap
  PROVE  IInv'
BY RestartSkipsStep, RestartDropsStep, RestartAllowedStep, LaunchOfStep, RespawnStep,
   RespawnFailsStep, RespawnRecordStep, SetPidStep, ReapOnceStep, MemoryTickStep DEF Reap

-----------------------------------------------------------------------------
(* The health-probe thread.                                                *)

LEMMA ProberStep ==
  ASSUME IInv, prober' \in ProberStates, ProberOK', OnlyReadyIsJudged',
         UNCHANGED <<hs, spawning, reaper, rows>>,
         IsTable(sup'), IsProcs(procs'), clock' = clock,
         Grows, Quiet("memory"), SamePids,
         \A k \in DOMAIN sup' : ChildOK(k)'
  PROVE  IInv'
<1>1. Shapes' /\ Bracket'
  BY DEF IInv, Shapes, Bracket
<1>2. \A h \in Handlers : HandlerOK(h)'
  BY HandlersStand
<1>3. ReaperOK' /\ RowsOK'
  BY ReaperStandsSame, RowsStand
<1>. QED
  BY <1>1, <1>2, <1>3 DEF IInv

LEMMA ProberStepOnly ==
  ASSUME IInv, prober' \in ProberStates, ProberOK',
         UNCHANGED <<hs, spawning, reaper, rows, sup, procs, clock>>
  PROVE  IInv'
<1>1. Harmless
  BY NothingIsHarmless DEF IInv
<1>2. \A k \in DOMAIN sup' : ChildOK(k)'
  BY <1>1, ChildrenStand DEF Harmless
<1>3. OnlyReadyIsJudged'
  BY <1>1, JudgedStand DEF Harmless
<1>. QED
  BY <1>1, <1>2, <1>3, ProberStep DEF Harmless

(* The thread between two targets, or asleep.                              *)
LEMMA Probes ==
  ASSUME NEW targets \in SUBSET (ServerKeys \X Ports), NEW pc \in {"sleep", "probe"},
         prober' = [pc |-> pc, targets |-> targets, key |-> None, ok |-> FALSE, pid |-> NoPid],
         \A t \in targets : Launched(t[1], t[2])'
  PROVE  prober' \in ProberStates /\ ProberOK'
BY DEF ProberStates, ProberOK, Launched, IsServer

LEMMA ProbeTargetsStep ==
  ASSUME IInv, ProbeTargets
  PROVE  IInv'
<1>1. PICK targets : targets = {<<k, sup[k].port>> : k \in {k \in DOMAIN sup : sup[k].spec}}
  OBVIOUS
<1>2. targets \in SUBSET (ServerKeys \X Ports)
  BY <1>1 DEF IInv, Shapes, IsTable, Children
<1>3. \A t \in targets : Launched(t[1], t[2])'
  BY <1>1 DEF IInv, ChildOK, Launched, IsServer, Used, ProbeTargets
<1>4. PICK pc \in {"sleep", "probe"} : pc = "probe"
  OBVIOUS
<1>5. prober' = [pc |-> pc, targets |-> targets, key |-> None, ok |-> FALSE, pid |-> NoPid]
  BY <1>1, <1>4 DEF ProbeTargets, IdleProber
<1>6. prober' \in ProberStates /\ ProberOK'
  BY <1>2, <1>3, <1>5, Probes
<1>. QED
  BY <1>6, ProberStepOnly DEF ProbeTargets

LEMMA ProbeDoneStep ==
  ASSUME IInv, ProbeDone
  PROVE  IInv'
<1>1. PICK pc \in {"sleep", "probe"}, targets \in SUBSET (ServerKeys \X Ports) :
        pc = "sleep" /\ targets = {}
  OBVIOUS
<1>2. prober' = [pc |-> pc, targets |-> targets, key |-> None, ok |-> FALSE, pid |-> NoPid]
  BY <1>1 DEF ProbeDone, IdleProber
<1>3. prober' \in ProberStates /\ ProberOK'
  BY <1>1, <1>2, Probes
<1>. QED
  BY <1>3, ProberStepOnly DEF ProbeDone

LEMMA ProbeConnectStep ==
  ASSUME IInv, NEW t \in prober.targets, ProbeConnect(t)
  PROVE  IInv'
<1>1. PICK x \in ProberStates : x = prober
  BY DEF IInv, Shapes
<1>2. PICK k \in ServerKeys, port \in Ports : k = t[1] /\ port = t[2]
  BY <1>1 DEF ProberStates
<1>3. PICK s \in Used : procs[s].key = k /\ procs[s].port = port /\ s \in Pids
  BY <1>2 DEF IInv, ProberOK, Launched, IsServer, Used
<1> DEFINE hit == {q \in Serving : procs[q].port = port}
<1>4. hit \subseteq Used /\ hit \subseteq Pids
  BY DEF Serving, Used
<1>5. ASSUME NEW q \in hit
      PROVE  /\ procs'[q] \in ProcStates /\ procs'[q].st = procs[q].st
             /\ procs'[q].key = procs[q].key /\ procs'[q].port = procs[q].port
             /\ procs'[q].by = procs[q].by /\ procs'[q].answered
             /\ procs'[q].sig = procs[q].sig
  <2>1. PICK y \in ProcStates : y = procs[q]
    BY <1>4, <1>5 DEF IInv, Shapes, IsProcs
  <2>2. procs'[q] = [y EXCEPT !.answered = TRUE]
    BY <1>2, <1>4, <1>5, <2>1 DEF ProbeConnect
  <2>. QED
    BY <2>1, <2>2 DEF ProcStates
<1>6. \A q \in Pids \ hit : procs'[q] = procs[q]
  BY <1>2 DEF ProbeConnect
<1>7. procs' = [q \in Pids |-> procs'[q]]
  BY DEF ProbeConnect
<1>8. Open = {procs[q].port : q \in Serving}
  BY DEF Open
<1>9. port \in Open => \E r \in hit : procs[r].port = port
  BY <1>8
<1> HIDE DEF hit
<1>10. IsProcs(procs')
  <2>1. \A q \in Pids : procs'[q] \in ProcStates
    BY <1>4, <1>5, <1>6 DEF IInv, Shapes, IsProcs
  <2>2. \A q \in Pids : procs'[q].st = "unused" => procs'[q] = NoProc
    BY <1>4, <1>5, <1>6 DEF IInv, Shapes, IsProcs, Used
  <2>. QED
    BY <1>7, <2>1, <2>2 DEF IsProcs
<1>11. Grows /\ Quiet("memory") /\ Quiet("probe")
  BY <1>4, <1>5, <1>6 DEF Grows, Quiet, Used, Up
<1>12. SamePids /\ (\A j \in DOMAIN sup' : SameChild(j)) /\ IsTable(sup')
  BY SameSupKeeps DEF ProbeConnect, IInv, Shapes
<1>13. \A j \in DOMAIN sup' : ChildOK(j)'
  BY <1>11, <1>12, ChildrenStand DEF ProbeConnect
<1>14. OnlyReadyIsJudged'
  BY <1>11, JudgedStand
<1>15. port \in Open => Accepted(k)'
  <2> HAVE port \in Open
  <2>1. PICK r \in hit : procs[r].port = port
    BY <1>9
  <2>2. /\ r \in Used' /\ procs'[r].answered /\ procs'[r].port = port
        /\ s \in Used' /\ procs'[s].key = k /\ procs'[s].port = port
    BY <1>3, <1>4, <1>5, <1>11, <2>1 DEF Grows, Used
  <2>. QED
    BY <2>2 DEF Accepted
<1>16. /\ prober' \in ProberStates /\ prober'.pc = "fold" /\ prober'.key = k
       /\ prober'.ok = (port \in Open) /\ prober'.targets \subseteq x.targets
  <2>1. PICK y : y = [x EXCEPT !.pc = "fold", !.targets = x.targets \ {t}]
    OBVIOUS
  <2>2. y \in ProberStates /\ y.pc = "fold" /\ y.targets = x.targets \ {t}
    BY <2>1 DEF ProberStates
  <2>3. PICK ok \in BOOLEAN : ok = (port \in Open)
    <3>1. (port \in Open) \in BOOLEAN
      OBVIOUS
    <3>. QED
      BY <3>1, Zenon
  <2>4. PICK z : z = [y EXCEPT !.key = k, !.ok = ok]
    OBVIOUS
  <2>5. z \in ProberStates /\ z.pc = "fold" /\ z.targets = x.targets \ {t}
        /\ z.key = k /\ z.ok = ok
    BY <2>2, <2>4 DEF ProberStates
  <2>6. prober' = z
    BY <1>1, <1>2, <2>1, <2>3, <2>4 DEF ProbeConnect
  <2>. QED
    BY <2>3, <2>5, <2>6
<1>17. ProberOK'
  <2>1. \A u \in x.targets : Launched(u[1], u[2])'
    BY <1>1, <1>11, Persists DEF IInv, ProberOK
  <2>. QED
    BY <1>15, <1>16, <2>1 DEF ProberOK, Accepted
<1>. QED
  BY <1>10, <1>11, <1>12, <1>13, <1>14, <1>16, <1>17, ProberStep DEF ProbeConnect


(* A probe's answer moves a child's failures, and arms it if it is one.    *)
LEMMA ProbedIsChild ==
  ASSUME NEW c \in Children, NEW ok \in BOOLEAN
  PROVE  \E d \in Children :
           /\ d = Probed(c, ok)
           /\ d.pid = c.pid /\ d.port = c.port /\ d.spec = c.spec /\ d.restarts = c.restarts
           /\ d.armed => c.armed \/ ok
<1>1. CASE ok
  <2>1. PICK y : y = [c EXCEPT !.armed = TRUE]
    OBVIOUS
  <2>2. /\ y \in Children /\ y.pid = c.pid /\ y.port = c.port /\ y.spec = c.spec
        /\ y.restarts = c.restarts
    BY <2>1 DEF Children
  <2>3. PICK d : d = [y EXCEPT !.failures = 0]
    OBVIOUS
  <2>4. /\ d \in Children /\ d.pid = y.pid /\ d.port = y.port /\ d.spec = y.spec
        /\ d.restarts = y.restarts
    BY <2>2, <2>3 DEF Children
  <2>5. d = Probed(c, ok)
    BY <1>1, <2>1, <2>3 DEF Probed
  <2>. QED
    BY <1>1, <2>2, <2>4, <2>5
<1>2. CASE ~ok /\ ~c.armed
  BY <1>2 DEF Probed
<1>3. CASE ~ok /\ c.armed
  <2>1. c.failures \in Nat
    BY DEF Children
  <2>2. PICK n \in Nat : n = IF c.failures + 1 >= Threshold THEN 0 ELSE c.failures + 1
    BY <2>1, Constants
  <2>3. PICK d : d = [c EXCEPT !.failures = n]
    OBVIOUS
  <2>4. /\ d \in Children /\ d.pid = c.pid /\ d.port = c.port /\ d.spec = c.spec
        /\ d.restarts = c.restarts
    BY <2>3 DEF Children
  <2>5. d = Probed(c, ok)
    BY <1>3, <2>2, <2>3 DEF Probed
  <2>. QED
    BY <1>3, <2>4, <2>5
<1>. QED
  BY <1>1, <1>2, <1>3

(* The thread turns to the next target, or has judged a server hung.       *)
LEMMA ProberNext ==
  ASSUME IInv, Grows, prober' = [IdleProber EXCEPT !.pc = "probe", !.targets = prober.targets]
  PROVE  prober' \in ProberStates /\ ProberOK'
<1>1. PICK targets \in SUBSET (ServerKeys \X Ports) : targets = prober.targets
  BY DEF IInv, Shapes, ProberStates
<1>2. PICK pc \in {"sleep", "probe"} : pc = "probe"
  OBVIOUS
<1>3. prober' = [pc |-> pc, targets |-> targets, key |-> None, ok |-> FALSE, pid |-> NoPid]
  BY <1>1, <1>2 DEF IdleProber
<1>4. \A t \in targets : Launched(t[1], t[2])'
  BY <1>1, Persists DEF IInv, ProberOK
<1>. QED
  BY <1>3, <1>4, Probes

LEMMA ProberStops ==
  ASSUME IInv, Grows, NEW q \in Used, NEW key, procs[q].key = key, Accepted(key),
         prober' = [prober EXCEPT !.pc = "stop", !.pid = q]
  PROVE  prober' \in ProberStates /\ ProberOK'
<1>1. PICK x \in ProberStates : x = prober
  BY DEF IInv, Shapes
<1>2. q \in Pids /\ q \in Used' /\ procs'[q].key = key
  BY DEF Grows, Used
<1>3. PICK y : y = [x EXCEPT !.pc = "stop"]
  OBVIOUS
<1>4. y \in ProberStates /\ y.pc = "stop" /\ y.targets = x.targets
  BY <1>3 DEF ProberStates
<1>5. PICK z : z = [y EXCEPT !.pid = q]
  OBVIOUS
<1>6. z \in ProberStates /\ z.pc = "stop" /\ z.targets = x.targets /\ z.pid = q
  BY <1>2, <1>4, <1>5 DEF ProberStates
<1>7. prober' = z
  BY <1>1, <1>3, <1>5
<1>8. (\A t \in x.targets : Launched(t[1], t[2])') /\ Accepted(key)'
  BY <1>1, Persists DEF IInv, ProberOK
<1>. QED
  BY <1>2, <1>6, <1>7, <1>8 DEF ProberOK, Accepted

LEMMA ProbeFoldStep ==
  ASSUME IInv, ProbeFold
  PROVE  IInv'
<1>1. PICK k \in ServerKeys, ok \in BOOLEAN :
        k = prober.key /\ ok = prober.ok /\ (ok => Accepted(k))
  <2>1. prober.key \in ServerKeys /\ prober.ok \in BOOLEAN /\ (prober.ok => Accepted(prober.key))
    BY DEF ProbeFold, ProberAt, IInv, ProberOK, Shapes, ProberStates
  <2>. QED
    BY <2>1
<1>2. Grows /\ Quiet("memory") /\ Quiet("probe") /\ OnlyReadyIsJudged' /\ IsProcs(procs')
  BY SameProcsGrow, JudgedStand DEF ProbeFold, IInv, Shapes
<1>3. CASE k \notin DOMAIN sup
  <2>1. prober' = [IdleProber EXCEPT !.pc = "probe", !.targets = prober.targets] /\ sup' = sup
    BY <1>1, <1>3 DEF ProbeFold
  <2>. QED
    BY <1>2, <2>1, ProberNext, ProberStepOnly DEF ProbeFold
<1>4. CASE k \in DOMAIN sup
  <2>1. PICK c \in Children : c = sup[k]
    BY <1>4 DEF IInv, Shapes, IsTable
  <2>2. PICK d \in Children :
           /\ d = Probed(c, ok)
           /\ d.pid = c.pid /\ d.port = c.port /\ d.spec = c.spec /\ d.restarts = c.restarts
           /\ d.armed => c.armed \/ ok
    BY ProbedIsChild
  <2>3. sup' = WithChild(k, d)
    BY <1>1, <1>4, <2>1, <2>2 DEF ProbeFold
  <2>4. /\ IsTable(sup') /\ DOMAIN sup' = DOMAIN sup /\ sup'[k] = d
        /\ \A j \in DOMAIN sup \ {k} : sup'[j] = sup[j]
    BY <1>4, <2>3, EntryAppears DEF IInv
  <2>5. SamePids
    BY <2>1, <2>2, <2>4 DEF SamePids
  <2>6. \A j \in DOMAIN sup' : ChildOK(j)'
    <3> TAKE j \in DOMAIN sup'
    <3>1. CASE j # k
      <4>1. SameChild(j)
        BY <2>4, <3>1 DEF SameChild
      <4>. QED
        BY <1>2, <4>1, ChildrenStand DEF ProbeFold
    <3>2. CASE j = k
      <4>1. PICK q, port : q = c.pid /\ port = c.port
        OBVIOUS
      <4>2. /\ q \in Used /\ procs[q].key = k /\ Launched(k, port) /\ (c.armed => Accepted(k))
            /\ (c.spec /\ "memory" \in procs[q].sig => CanRestart(c))
        BY <1>4, <2>1, <4>1 DEF IInv, ChildOK
      <4>3. q \in Used' /\ procs'[q].key = k
        BY <1>2, <4>2 DEF Grows, Used
      <4>4. Launched(k, port)' /\ (c.armed \/ ok => Accepted(k)')
        BY <1>1, <1>2, <4>2, Persists
      <4>5. d.spec /\ "memory" \in procs'[q].sig => CanRestart(c)
        BY <2>2, <4>2 DEF ProbeFold
      <4>6. CanRestart(c) => CanRestart(d)'
        BY <2>2 DEF CanRestart, Recent, ProbeFold
      <4>. QED
        BY <2>2, <2>4, <3>2, <4>1, <4>3, <4>4, <4>5, <4>6 DEF ChildOK
    <3>. QED
      BY <3>1, <3>2
  <2>7. prober' \in ProberStates /\ ProberOK'
    <3>1. CASE prober' = [IdleProber EXCEPT !.pc = "probe", !.targets = prober.targets]
      BY <1>2, <3>1, ProberNext
    <3>2. CASE JudgedHung(c, ok) /\ prober' = [prober EXCEPT !.pc = "stop", !.pid = c.pid]
      <4>1. c.pid \in Used /\ procs[c.pid].key = k /\ Accepted(k)
        BY <1>4, <2>1, <3>2 DEF IInv, ChildOK, JudgedHung
      <4>. QED
        BY <1>2, <3>2, <4>1, ProberStops
    <3>. QED
      BY <1>1, <1>4, <2>1, <3>1, <3>2 DEF ProbeFold
  <2>. QED
    BY <1>2, <2>4, <2>5, <2>6, <2>7, ProberStep DEF ProbeFold
<1>. QED
  BY <1>3, <1>4

LEMMA ProbeStopStep ==
  ASSUME IInv, ProbeStop
  PROVE  IInv'
<1>1. PICK q \in Used : q = prober.pid /\ q \in Pids /\ Accepted(procs[q].key)
  BY DEF ProbeStop, ProberAt, IInv, ProberOK, Used
<1>0. PICK key : key = procs[q].key /\ Accepted(key)
  BY <1>1
<1>2. PICK why \in Whys : why = "probe"
  BY DEF Whys
<1>3. procs' = Signalled({q}, why)
  BY <1>1, <1>2 DEF ProbeStop
<1>4. /\ IsProcs(procs') /\ Grows
      /\ \A r \in Pids : procs'[r].sig # procs[r].sig
           => r \in {q} \cap Up /\ procs'[r].sig = procs[r].sig \cup {why}
  BY <1>3, SignalFacts DEF IInv
<1>5. Quiet("memory")
  BY <1>2, <1>4 DEF Quiet
<1>6. SamePids /\ (\A k \in DOMAIN sup' : SameChild(k)) /\ IsTable(sup')
  BY SameSupKeeps DEF ProbeStop, IInv, Shapes
<1>7. \A k \in DOMAIN sup' : ChildOK(k)'
  BY <1>4, <1>5, <1>6, ChildrenStand DEF ProbeStop
<1>8. prober' \in ProberStates /\ ProberOK'
  BY <1>4, ProberNext DEF ProbeStop
<1>9. ASSUME NEW r \in Pids, "probe" \in procs'[r].sig
      PROVE  \A k : k = procs'[r].key => Accepted(k)'
  <2>1. PICK k : k = procs[r].key
    OBVIOUS
  <2>2. r \in Used /\ Accepted(k)
    BY <1>0, <1>1, <1>2, <1>4, <1>9, <2>1
    DEF IInv, OnlyReadyIsJudged, Shapes, IsProcs, Used, NoProc
  <2>3. procs'[r].key = k
    BY <1>4, <2>1, <2>2 DEF Grows
  <2>. QED
    BY <1>4, <2>2, <2>3, Persists
<1>10. OnlyReadyIsJudged'
  BY <1>9 DEF OnlyReadyIsJudged, Accepted
<1>. QED
  BY <1>4, <1>5, <1>6, <1>7, <1>8, <1>10, ProberStep DEF ProbeStop

LEMMA ProbeStep ==
  ASSUME IInv, Probe
  PROVE  IInv'
BY ProbeTargetsStep, ProbeConnectStep, ProbeFoldStep, ProbeStopStep, ProbeDoneStep DEF Probe

-----------------------------------------------------------------------------
(* The servers, the daemon's life and time.                                *)

LEMMA ProcsStep ==
  ASSUME IInv, UNCHANGED <<rows, sup, spawning, hs, reaper, prober, clock>>,
         IsProcs(procs'), Grows, Quiet("memory"), Quiet("probe")
  PROVE  IInv'
<1>1. SamePids /\ (\A k \in DOMAIN sup' : SameChild(k)) /\ IsTable(sup')
  BY SameSupKeeps DEF IInv, Shapes
<1>2. \A k \in DOMAIN sup' : ChildOK(k)'
  BY <1>1, ChildrenStand
<1>3. prober' \in ProberStates /\ ProberOK' /\ OnlyReadyIsJudged'
  BY ProberStands, JudgedStand DEF IInv, Shapes
<1>. QED
  BY <1>1, <1>2, <1>3, ProberStep

LEMMA ServerMoves ==
  ASSUME IInv, NEW q \in Used, NEW st \in {"serving", "hung", "zombie", "gone"},
         st \in {"serving", "hung"} => q \in Up,
         procs' = [procs EXCEPT ![q].st = st],
         UNCHANGED <<rows, sup, spawning, hs, reaper, prober, clock>>
  PROVE  IInv'
<1>1. PICK x \in ProcStates : x = procs[q] /\ q \in Pids
  BY DEF IInv, Shapes, IsProcs, Used
<1>2. PICK y : y = [x EXCEPT !.st = st]
  OBVIOUS
<1>3. /\ y \in ProcStates /\ y.st = st /\ y.key = x.key /\ y.port = x.port /\ y.by = x.by
      /\ y.sig = x.sig /\ y.answered = x.answered
  BY <1>2 DEF ProcStates
<1>4. procs' = [procs EXCEPT ![q] = y]
  BY <1>1, <1>2 DEF IInv, Shapes, IsProcs
<1>5. procs'[q] = y /\ \A r \in Pids \ {q} : procs'[r] = procs[r]
  BY <1>1, <1>4 DEF IInv, Shapes, IsProcs
<1>6. IsProcs(procs')
  <2>1. procs' \in [Pids -> ProcStates]
    BY <1>3, <1>4 DEF IInv, Shapes, IsProcs
  <2>2. \A r \in Pids : procs'[r].st = "unused" => procs'[r] = NoProc
    BY <1>3, <1>5 DEF IInv, Shapes, IsProcs
  <2>. QED
    BY <2>1, <2>2 DEF IsProcs
<1>7. Grows
  BY <1>1, <1>3, <1>5 DEF Grows, Used, Up
<1>8. Quiet("memory") /\ Quiet("probe")
  BY <1>1, <1>3, <1>5 DEF Quiet
<1>. QED
  BY <1>6, <1>7, <1>8, ProcsStep

LEMMA ServersStep ==
  ASSUME IInv, NEW q \in Pids, Bind(q) \/ Hang(q) \/ Exit(q)
  PROVE  IInv'
<1>1. q \in Used /\ q \in Up
  BY DEF Bind, Hang, Exit, Used, Up
<1>2. PICK st \in {"serving", "hung", "zombie", "gone"} : procs' = [procs EXCEPT ![q].st = st]
  BY DEF Bind, Hang, Exit
<1>. QED
  BY <1>1, <1>2, ServerMoves DEF Bind, Hang, Exit

(* The budget of a child only grows as time passes.                        *)
LEMMA BudgetGrows ==
  ASSUME clock \in Nat, clock' = clock + 1, NEW c \in Children, CanRestart(c)
  PROVE  CanRestart(c)'
<1>1. PICK n \in Nat : DOMAIN c.restarts = 1 .. n /\ \A i \in 1 .. n : c.restarts[i] \in Nat
  BY DEF Children
<1>2. PICK now \in Nat, before \in Nat : now = clock + 1 /\ before = clock
  OBVIOUS
<1>3. PICK S, T : /\ S = {i \in 1 .. n : before - c.restarts[i] < Window}
                  /\ T = {i \in 1 .. n : now - c.restarts[i] < Window}
  OBVIOUS
<1>4. T \subseteq S
  BY <1>1, <1>2, <1>3, Constants
<1>5. IsFiniteSet(1 .. n)
  BY FS_Interval
<1>6. IsFiniteSet(S)
  BY <1>3, <1>5, FS_Subset
<1>7. Cardinality(T) <= Cardinality(S) /\ IsFiniteSet(T)
  BY <1>4, <1>6, FS_Subset
<1>8. Cardinality(T) \in Nat /\ Cardinality(S) \in Nat
  BY <1>6, <1>7, FS_CardinalityType
<1>9. S = Recent(c)
  BY <1>1, <1>2, <1>3 DEF Recent
<1>10. T = Recent(c)'
  BY <1>1, <1>2, <1>3 DEF Recent
<1>. QED
  BY <1>7, <1>8, <1>9, <1>10, Constants DEF CanRestart

LEMMA TickStep ==
  ASSUME IInv, Tick
  PROVE  IInv'
<1>1. UNCHANGED <<rows, sup, spawning, hs, reaper, prober, procs>> /\ clock' = clock + 1
  BY DEF Tick
<1>2. Grows /\ Quiet("memory") /\ Quiet("probe")
  BY <1>1, SameProcsGrow
<1>3. SamePids
  BY <1>1, SameSupKeeps
<1>4. Shapes' /\ Bracket' /\ OnlyReadyIsJudged' /\ RowsOK' /\ ReaperOK' /\ ProberOK'
  BY <1>1, <1>2, <1>3, JudgedStand, RowsStand, ReaperStandsSame, ProberStands
  DEF IInv, Shapes, Bracket
<1>5. \A h \in Handlers : HandlerOK(h)'
  BY <1>1, <1>2, <1>3, HandlersStand
<1>6. \A k \in DOMAIN sup' : ChildOK(k)'
  <2> TAKE k \in DOMAIN sup'
  <2>1. PICK c \in Children : c = sup[k] /\ c = sup'[k] /\ k \in DOMAIN sup
    BY <1>1 DEF IInv, Shapes, IsTable
  <2>2. PICK q, port : q = c.pid /\ port = c.port
    OBVIOUS
  <2>3. /\ q \in Used /\ procs[q].key = k /\ Launched(k, port) /\ (c.armed => Accepted(k))
        /\ (c.spec /\ "memory" \in procs[q].sig => CanRestart(c))
    BY <2>1, <2>2 DEF IInv, ChildOK
  <2>4. c.spec /\ "memory" \in procs'[q].sig => CanRestart(c)'
    BY <1>1, <2>3, BudgetGrows DEF IInv, Shapes
  <2>5. q \in Used' /\ procs'[q].key = k /\ Launched(k, port)' /\ (c.armed => Accepted(k)')
    BY <1>1, <1>2, <2>3, Persists DEF Used
  <2>. QED
    BY <2>1, <2>2, <2>4, <2>5 DEF ChildOK
<1>. QED
  BY <1>4, <1>5, <1>6 DEF IInv

(* Every thread at rest.                                                   *)
Resting ==
  /\ spawning = None
  /\ \A h \in Handlers : hs[h] = IdleHandler
  /\ reaper = IdleReaper

(* No thread of a daemon that is down is in the middle of anything.        *)
Halted == ~running => Resting

LEMMA HaltedStep ==
  ASSUME Halted, [Next]_vars
  PROVE  Halted'
<1>1. CASE UNCHANGED vars
  BY <1>1 DEF Halted, Resting, vars
<1>2. CASE DaemonDies \/ DaemonBoots
  BY <1>2 DEF Halted, Resting, DaemonDies, DaemonBoots
<1>3. CASE \E q \in Pids : Bind(q) \/ Hang(q) \/ Exit(q)
  BY <1>3 DEF Halted, Resting, Bind, Hang, Exit
<1>4. CASE Tick
  BY <1>4 DEF Halted, Resting, Tick
<1>5. CASE Reap
  <2>1. ReapOnce => running /\ running' = running
    BY DEF ReapOnce, ReaperAt
  <2>2. \A k : RestartSkips(k) => running /\ running' = running
    BY DEF RestartSkips, ReaperAt
  <2>3. \A k : RestartDrops(k) => running /\ running' = running
    BY DEF RestartDrops, ReaperAt
  <2>4. \A k : RestartAllowed(k) => running /\ running' = running
    BY DEF RestartAllowed, ReaperAt
  <2>5. LaunchOf \/ Respawn \/ RespawnFails \/ RespawnRecord => running /\ running' = running
    BY DEF LaunchOf, Respawn, RespawnFails, RespawnRecord, ReaperAt
  <2>6. SetPid => running /\ running' = running
    BY DEF SetPid, ReaperAt
  <2>7. \A big : MemoryTick(big) => running /\ running' = running
    BY DEF MemoryTick, ReaperAt
  <2>. QED
    BY <1>5, <2>1, <2>2, <2>3, <2>4, <2>5, <2>6, <2>7 DEF Reap, Halted
<1>6. CASE Probe
  <2>1. ProbeTargets \/ ProbeStop \/ ProbeDone => running /\ running' = running
    BY DEF ProbeTargets, ProbeStop, ProbeDone, ProberAt
  <2>2. \A t : ProbeConnect(t) => running /\ running' = running
    BY DEF ProbeConnect, ProberAt
  <2>3. ProbeFold => running /\ running' = running
    BY DEF ProbeFold, ProberAt
  <2>. QED
    BY <1>6, <2>1, <2>2, <2>3 DEF Probe, Halted
<1>7. ASSUME NEW h \in Handlers, Serve(h)
      PROVE  Halted'
  <2>1. hs[h].pc # "idle" /\ running' = running
    BY <1>7 DEF Serve, At, TakeSpawning, Choose, Grant, ReportExisting, SpawnChild,
       SuperviseFails, RecordChild, InsertOwned, SnapshotProbe, SnapshotPrune,
       SnapshotUnsaved, RemoveAndStop, ReleaseScope, ReleaseFails
  <2>. QED
    BY <2>1 DEF Halted, Resting, IdleHandler
<1>8. ASSUME NEW h \in Handlers, NEW r \in Requests, Receive(h, r)
      PROVE  Halted'
  BY <1>8 DEF Halted, Receive
<1>. QED
  BY <1>1, <1>2, <1>3, <1>4, <1>5, <1>6, <1>7, <1>8 DEF Next

LEMMA OrphanFacts ==
  ASSUME IInv, DaemonDies, NEW q \in Pids
  PROVE  /\ procs'[q] \in ProcStates
         /\ procs'[q].st = IF procs[q].st = "zombie" THEN "gone" ELSE procs[q].st
         /\ procs'[q].key = procs[q].key /\ procs'[q].port = procs[q].port
         /\ procs'[q].by = procs[q].by /\ procs'[q].answered = procs[q].answered
         /\ procs'[q].sig = procs[q].sig
         /\ procs[q] = NoProc => procs'[q] = NoProc
<1>1. PICK x \in ProcStates : x = procs[q]
  BY DEF IInv, Shapes, IsProcs
<1>2. PICK st \in {"unused", "boot", "serving", "hung", "zombie", "gone"} :
        st = IF x.st = "zombie" THEN "gone" ELSE x.st
  BY DEF ProcStates
<1>3. PICK y : y = [x EXCEPT !.own = FALSE]
  OBVIOUS
<1>4. /\ y \in ProcStates /\ y.st = x.st /\ y.key = x.key /\ y.port = x.port /\ y.by = x.by
      /\ y.sig = x.sig /\ y.answered = x.answered /\ y.own = FALSE
  BY <1>3 DEF ProcStates
<1>5. PICK z : z = [y EXCEPT !.st = st]
  OBVIOUS
<1>6. /\ z \in ProcStates /\ z.st = st /\ z.key = y.key /\ z.port = y.port /\ z.by = y.by
      /\ z.sig = y.sig /\ z.answered = y.answered /\ z.own = y.own
  BY <1>4, <1>5 DEF ProcStates
<1>7. procs'[q] = z
  BY <1>1, <1>2, <1>3, <1>4, <1>5 DEF DaemonDies
<1>8. x = NoProc => z = NoProc
  <2> HAVE x = NoProc
  <2>1. y = NoProc
    BY <1>3 DEF NoProc
  <2>2. st = "unused"
    BY <1>2 DEF NoProc
  <2>. QED
    BY <1>5, <2>1, <2>2 DEF NoProc
<1>. QED
  BY <1>1, <1>2, <1>4, <1>6, <1>7, <1>8

LEMMA DaemonDiesStep ==
  ASSUME IInv, DaemonDies
  PROVE  IInv'
<1>1. \A q \in Pids :
        /\ procs'[q] \in ProcStates
        /\ procs'[q].st = IF procs[q].st = "zombie" THEN "gone" ELSE procs[q].st
        /\ procs'[q].key = procs[q].key /\ procs'[q].port = procs[q].port
        /\ procs'[q].by = procs[q].by /\ procs'[q].answered = procs[q].answered
        /\ procs'[q].sig = procs[q].sig
        /\ procs[q] = NoProc => procs'[q] = NoProc
  BY OrphanFacts
<1>2. IsProcs(procs')
  <2>1. procs' = [q \in Pids |-> procs'[q]]
    BY DEF DaemonDies
  <2>2. \A q \in Pids : procs'[q].st = "unused" => procs'[q] = NoProc
    BY <1>1 DEF IInv, Shapes, IsProcs
  <2>. QED
    BY <1>1, <2>1, <2>2 DEF IsProcs
<1>3. Grows
  BY <1>1 DEF Grows, Used, Up
<1>4. Quiet("probe")
  BY <1>1 DEF Quiet
<1>5. sup' = [k \in {} |-> 0] /\ DOMAIN sup' = {}
  BY DEF DaemonDies
<1>6. IsTable(sup')
  BY <1>5 DEF IsTable
<1>7. IdleHandler \in HandlerStates /\ IdleHandler.pc = "idle"
  BY Constants DEF IdleHandler, HandlerStates
<1>8. /\ IdleProber \in ProberStates /\ IdleProber.pc = "sleep" /\ IdleProber.targets = {}
  BY DEF IdleProber, ProberStates
<1>9. Shapes'
  BY <1>2, <1>6, <1>7, <1>8, IdleReaperFacts DEF DaemonDies, IInv, Shapes
<1>10. Bracket' /\ \A h \in Handlers : HandlerOK(h)'
  BY <1>7, Constants DEF DaemonDies, Bracket, HandlerOK, Critical
<1>11. ReaperOK' /\ ProberOK'
  BY <1>8, IdleReaperFacts DEF DaemonDies, ReaperOK, ProberOK
<1>12. RowsOK' /\ OnlyReadyIsJudged'
  BY <1>3, <1>4, RowsStand, JudgedStand DEF DaemonDies
<1>. QED
  BY <1>5, <1>9, <1>10, <1>11, <1>12 DEF IInv

LEMMA DaemonBootsStep ==
  ASSUME IInv, Halted, DaemonBoots
  PROVE  IInv'
<1> DEFINE live == {p \in DOMAIN rows : rows[p].pid \in Alive}
           of(k) == {p \in live : rows[p].key = k}
<1>1. /\ DOMAIN sup' = {rows[p].key : p \in live}
      /\ \A k \in DOMAIN sup' : sup'[k] = NewChild(rows[Max(of(k))].pid, Max(of(k)), FALSE)
      /\ sup' = [k \in DOMAIN sup' |-> sup'[k]]
  BY DEF DaemonBoots
<1>2. ASSUME NEW k \in DOMAIN sup'
      PROVE  /\ k \in ServerKeys /\ sup'[k] \in Children
             /\ IsServer(sup'[k].pid, k, sup'[k].port)
             /\ ~sup'[k].armed /\ ~sup'[k].spec
  <2>1. of(k) # {} /\ of(k) \subseteq Ports
    BY <1>1 DEF IInv, Shapes, IsPortRegistry
  <2>2. PICK p : p = Max(of(k))
    OBVIOUS
  <2>3. p \in of(k)
    BY <2>1, <2>2, HighestPort
  <2>4. p \in DOMAIN rows /\ p \in Ports /\ rows[p].key = k /\ rows[p].pid \in Alive
    BY <2>1, <2>3
  <2>5. PICK q : q = rows[p].pid /\ q \in Pids /\ q # NoPid
    BY <2>4, Constants DEF Alive, Up
  <2>6. IsServer(q, k, p)
    BY <2>4, <2>5 DEF IInv, RowsOK
  <2>7. k \in ServerKeys
    BY <2>4, RowFields DEF IInv, Shapes, IsPortRegistry
  <2>8. sup'[k] = NewChild(q, p, FALSE)
    BY <1>1, <2>2, <2>5
  <2>9. PICK c : /\ c = [pid |-> q, port |-> p, owned |-> FALSE, spec |-> FALSE,
                         restarts |-> <<>>, armed |-> FALSE, failures |-> 0, over |-> 0,
                         gaveup |-> FALSE]
                 /\ c = sup'[k]
    BY <2>8 DEF NewChild
  <2>10. c \in Children
    BY <2>4, <2>5, <2>9 DEF Children
  <2>11. c.pid = q /\ c.port = p /\ ~c.armed /\ ~c.spec
    BY <2>9
  <2>. QED
    BY <2>6, <2>7, <2>9, <2>10, <2>11
<1> HIDE DEF live, of
<1>3. UNCHANGED <<rows, spawning, hs, reaper, prober, procs, clock>>
  BY DEF DaemonBoots
<1>4. Grows /\ Quiet("probe")
  BY <1>3, SameProcsGrow
<1>5. /\ spawning = None /\ (\A h \in Handlers : hs[h].pc = "idle")
      /\ reaper.pc = "sleep" /\ reaper.dead = {} /\ reaper.child = NoPid
  BY IdleReaperFacts DEF Halted, Resting, DaemonBoots, IdleHandler
<1>6. Shapes'
  BY <1>1, <1>2, <1>3 DEF IInv, Shapes, IsTable
<1>7. Bracket' /\ \A h \in Handlers : HandlerOK(h)'
  BY <1>3, <1>5 DEF IInv, Bracket, HandlerOK, Critical
<1>8. ReaperOK'
  BY <1>3, <1>5 DEF ReaperOK
<1>9. ProberOK' /\ RowsOK' /\ OnlyReadyIsJudged'
  BY <1>3, <1>4, ProberStands, RowsStand, JudgedStand
<1>10. \A k \in DOMAIN sup' : ChildOK(k)'
  <2> TAKE k \in DOMAIN sup'
  <2>1. PICK c : c = sup'[k] /\ IsServer(c.pid, k, c.port) /\ ~c.armed /\ ~c.spec
    BY <1>2
  <2>2. c.pid \in Used' /\ procs'[c.pid].key = k /\ Launched(k, c.port)'
    BY <1>3, <2>1 DEF IsServer, Launched, Used
  <2>. QED
    BY <2>1, <2>2 DEF ChildOK
<1>. QED
  BY <1>6, <1>7, <1>8, <1>9, <1>10 DEF IInv

LEMMA InitOK == Init => IInv /\ Halted
<1> SUFFICES ASSUME Init
             PROVE  IInv /\ Halted
  OBVIOUS
<1>1. IsPortRegistry(rows) /\ DOMAIN rows = {}
  BY DEF Init, NoRows, IsPortRegistry
<1>2. IsTable(sup) /\ DOMAIN sup = {}
  BY DEF Init, IsTable
<1>3. IdleHandler \in HandlerStates /\ IdleHandler.pc = "idle"
  BY Constants DEF IdleHandler, HandlerStates
<1>4. IdleProber \in ProberStates /\ IdleProber.pc = "sleep" /\ IdleProber.targets = {}
  BY DEF IdleProber, ProberStates
<1>5. NoProc \in ProcStates /\ NoProc.sig = {}
  BY Constants DEF NoProc, ProcStates
<1>6. IsProcs(procs) /\ \A q \in Pids : procs[q].sig = {}
  BY <1>5 DEF Init, IsProcs
<1>7. Shapes
  BY <1>1, <1>2, <1>3, <1>4, <1>6, IdleReaperFacts DEF Init, Shapes
<1>8. Bracket /\ \A h \in Handlers : HandlerOK(h)
  BY <1>3, Constants DEF Init, Bracket, HandlerOK, Critical
<1>9. ReaperOK /\ ProberOK
  BY <1>4, IdleReaperFacts DEF Init, ReaperOK, ProberOK
<1>10. RowsOK /\ OnlyReadyIsJudged /\ Halted
  BY <1>1, <1>6 DEF Init, RowsOK, OnlyReadyIsJudged, Halted
<1>. QED
  BY <1>2, <1>7, <1>8, <1>9, <1>10 DEF IInv

LEMMA NextStep ==
  ASSUME IInv, Halted, [Next]_vars
  PROVE  IInv'
<1>1. CASE UNCHANGED vars
  <2>1. UNCHANGED <<rows, sup, spawning, hs, reaper, prober, procs, clock>>
    BY <1>1 DEF vars
  <2>2. IsProcs(procs') /\ Grows /\ Quiet("memory") /\ Quiet("probe")
    BY <2>1, SameProcsGrow DEF IInv, Shapes
  <2>. QED
    BY <2>1, <2>2, ProcsStep
<1>2. CASE Next
  BY <1>2, ServeStep, ReceiveStep, ReapStep, ProbeStep, DaemonDiesStep, DaemonBootsStep,
     ServersStep, TickStep DEF Next
<1>. QED
  BY <1>1, <1>2

LEMMA InvariantHolds == Spec => [](IInv /\ Halted)
<1>1. IInv /\ Halted /\ [Next]_vars => (IInv /\ Halted)'
  BY NextStep, HaltedStep
<1>. QED
  BY <1>1, InitOK, PTL DEF Spec

-----------------------------------------------------------------------------
(* What follows                                                            *)

(* The table, the registry and the threads keep their shapes, an entry is  *)
(* about a process that was started, and the spawning mutex is held by a   *)
(* request exactly from its lock to its answer, whichever of the early     *)
(* answers and failures of supervise_app it takes.                         *)
THEOREM SupervisionTypeCorrect == Spec => []TypeOK
<1>1. IInv => TypeOK
  <2> SUFFICES ASSUME IInv
               PROVE  TypeOK
    OBVIOUS
  <2>1. IsPortRegistry(rows) /\ DOMAIN sup \subseteq ServerKeys /\ reaper.dead \subseteq ServerKeys
    BY DEF IInv, Shapes, IsTable, ReaperStates
  <2>2. \A k \in DOMAIN sup : sup[k].pid \in Used /\ sup[k].port \in Ports
    BY DEF IInv, ChildOK, Shapes, IsTable, Children
  <2>3. \A h \in Handlers :
          hs[h].pc \in {"choose", "grant", "check", "record", "insert"} <=> spawning = h
    BY DEF IInv, Bracket, Critical
  <2>4. reaper.pc \in {"record", "setpid"} <=> reaper.child \in Pids
    BY Constants DEF IInv, ReaperOK, InHand, IsServer, Used
  <2>5. \A q \in UnusedPids : procs[q] = NoProc
    BY DEF IInv, Shapes, IsProcs, UnusedPids, Used
  <2>. QED
    BY <2>1, <2>2, <2>3, <2>4, <2>5 DEF TypeOK
<1>. QED
  BY <1>1, InvariantHolds, PTL

(* record_probe judges hung only a child that a probe has armed, and the   *)
(* probe that armed it reached a port of its key: so the health probe      *)
(* stops no server of a key that never accepted a connection, whatever is  *)
(* stopped, restarted or replaced between a probe and its answer.          *)
THEOREM OnlyReadyIsJudgedHolds == Spec => []OnlyReadyIsJudged
<1>1. IInv => OnlyReadyIsJudged
  BY DEF IInv
<1>. QED
  BY <1>1, InvariantHolds, PTL

(* mem_limit_actions kills only a child that can_restart allows, and until *)
(* restart looks at the budget again nothing charges it and time can only  *)
(* free some of it: a child the memory path killed is never given up on.   *)
THEOREM MemoryKillIsRespawnedHolds == Spec => MemoryKillIsRespawned
<1>1. IInv => (\A k \in DOMAIN sup : RestartDrops(k) /\ sup[k].spec
                                       => "memory" \notin procs[sup[k].pid].sig)
  <2> SUFFICES ASSUME IInv, NEW k \in DOMAIN sup, RestartDrops(k), sup[k].spec
               PROVE  "memory" \notin procs[sup[k].pid].sig
    OBVIOUS
  <2>1. ~CanRestart(sup[k])
    BY DEF RestartDrops, MayRestart, CanRestart
  <2>. QED
    BY <2>1 DEF IInv, ChildOK
<1>. QED
  BY <1>1, InvariantHolds, PTL DEF MemoryKillIsRespawned

-----------------------------------------------------------------------------
(* One server per key, where nothing but Supervise requests come and every *)
(* write of the registry succeeds.                                         *)
StartsOnly == ~SavesFail /\ \A r \in Requests : r.op = "supervise"

OnlyStarts == \A h \in Handlers : hs[h].pc \in Critical \cup {"idle", "lock"}

Row(key, port) == port \in DOMAIN rows /\ rows[port].key = key

(* A key has one row, the one every thread and the table go by.            *)
OneRow ==
  /\ \A p, q \in DOMAIN rows : rows[p].key = rows[q].key => p = q
  /\ \A h \in Handlers : hs[h].pc \in {"check", "record", "insert"} => Row(hs[h].req.key, hs[h].port)
  /\ \A k \in DOMAIN sup : Row(k, sup[k].port)
  /\ reaper.pc \in {"spawn", "record", "setpid"} => Row(reaper.key, reaper.port)

Unstopped(k) == {q \in Up : procs[q].key = k /\ procs[q].sig = {}}

(* Requests alone have started servers of k.                               *)
Asked(k) == \A q \in Used : procs[q].key = k => procs[q].by = "request"

Recording(h, k) == hs[h].pc = "record" /\ hs[h].req.key = k

(* A server nobody told to stop is in its key's row, unless a request has  *)
(* just started it, and then it is the only one.                           *)
Tracked(k) ==
  /\ \A h \in Handlers : Recording(h, k) => Unstopped(k) \subseteq {hs[h].child}
  /\ \A q \in Unstopped(k) :
       \/ \E h \in Handlers : Recording(h, k)
       \/ \E p \in DOMAIN rows : rows[p].key = k /\ rows[p].pid = q

OneInv ==
  /\ OnlyStarts
  /\ OneRow
  /\ deaths \in Nat
  /\ deaths = 0 => \A k \in ServerKeys : Asked(k) => Tracked(k)

(* No row goes, and every row keeps its key and what it says of k.         *)
RowsKept(k) ==
  \A p \in DOMAIN rows :
    /\ p \in DOMAIN rows' /\ rows'[p].key = rows[p].key
    /\ rows[p].key = k => rows'[p].pid = rows[p].pid

(* No server of k appears, and none has its signal taken back.             *)
NoneFreed(k) ==
  \A q \in Up' : /\ procs'[q].key = k => q \in Up /\ procs[q].key = k
                 /\ procs'[q].sig = {} => procs[q].sig = {}

(* A start is recorded as it was.                                          *)
SameRecording(k) ==
  \A h \in Handlers : /\ Recording(h, k)' <=> Recording(h, k)
                      /\ Recording(h, k) => hs'[h].child = hs[h].child

LEMMA AskedBefore ==
  ASSUME Grows, NEW k, Asked(k)'
  PROVE  Asked(k)
BY DEF Asked, Grows, Used

LEMMA TrackedStands ==
  ASSUME Grows, NEW k, RowsKept(k), NoneFreed(k), SameRecording(k), Tracked(k)
  PROVE  Tracked(k)'
<1>1. \A q \in Unstopped(k)' : q \in Unstopped(k)
  BY DEF Unstopped, NoneFreed
<1>2. ASSUME NEW h \in Handlers, Recording(h, k)'
      PROVE  Unstopped(k)' \subseteq {hs'[h].child}
  BY <1>1, <1>2 DEF Tracked, SameRecording
<1>3. ASSUME NEW q \in Unstopped(k)'
      PROVE  \/ \E h \in Handlers : Recording(h, k)'
             \/ \E p \in DOMAIN rows' : rows'[p].key = k /\ rows'[p].pid = q
  <2>1. CASE \E h \in Handlers : Recording(h, k)
    BY <2>1 DEF SameRecording
  <2>2. CASE \E p \in DOMAIN rows : rows[p].key = k /\ rows[p].pid = q
    BY <2>2 DEF RowsKept
  <2>. QED
    BY <1>1, <1>3, <2>1, <2>2 DEF Tracked
<1>. QED
  BY <1>2, <1>3 DEF Tracked

LEMMA TrackedHeld ==
  ASSUME OneInv, Grows, deaths' = deaths,
         \A k \in ServerKeys :
           Asked(k)' => RowsKept(k) /\ NoneFreed(k) /\ SameRecording(k)
  PROVE  deaths' = 0 => \A k \in ServerKeys : Asked(k)' => Tracked(k)'
<1> SUFFICES ASSUME deaths' = 0, NEW k \in ServerKeys, Asked(k)'
             PROVE  Tracked(k)'
  OBVIOUS
<1>1. Asked(k)
  BY AskedBefore
<1>2. Tracked(k)
  BY <1>1 DEF OneInv
<1>. QED
  BY <1>2, TrackedStands

(* Processes that start none and take no signal back free none.            *)
LEMMA NothingFreed ==
  ASSUME Grows, \A q \in Up' : q \in Used /\ procs[q].sig \subseteq procs'[q].sig
  PROVE  \A k : NoneFreed(k)
BY DEF NoneFreed, Grows, Up

LEMMA SameProcsFree ==
  ASSUME procs' = procs
  PROVE  Grows /\ \A k : NoneFreed(k)
BY SameProcsGrow DEF NoneFreed, Up

LEMMA SameRowsKept ==
  ASSUME rows' = rows
  PROVE  \A k : RowsKept(k)
BY DEF RowsKept

LEMMA SameRecorded ==
  ASSUME hs' = hs
  PROVE  \A k : SameRecording(k)
BY DEF SameRecording, Recording

(* A step of another thread, or of the servers.                            *)
LEMMA OthersStep ==
  ASSUME OneInv, UNCHANGED <<rows, hs, deaths>>, Grows, \A k : NoneFreed(k),
         \A k \in DOMAIN sup' : Row(k, sup'[k].port),
         reaper'.pc \in {"spawn", "record", "setpid"} => Row(reaper'.key, reaper'.port)
  PROVE  OneInv'
<1>1. OnlyStarts' /\ OneRow'
  BY DEF OneInv, OnlyStarts, OneRow, Row
<1>2. deaths' = 0 => \A k \in ServerKeys : Asked(k)' => Tracked(k)'
  BY TrackedHeld, SameRowsKept, SameRecorded
<1>. QED
  BY <1>1, <1>2 DEF OneInv

(* A handler's step over the registry as it was, with the same servers.    *)
LEMMA HandlerOnly ==
  ASSUME IInv, OneInv, NEW h \in Handlers, NEW new, Turns(h, new),
         UNCHANGED <<rows, sup, reaper, procs, deaths>>,
         hs[h].pc # "record", new.pc \in (Critical \cup {"idle", "lock"}) \ {"record"},
         new.pc \in {"check", "insert"} => Row(new.req.key, new.port)
  PROVE  OneInv'
<1>1. hs'[h] = new /\ \A g \in Handlers \ {h} : hs'[g] = hs[g]
  BY DEF Turns, IInv, Shapes
<1>2. OnlyStarts'
  BY <1>1 DEF OneInv, OnlyStarts
<1>3. OneRow'
  BY <1>1 DEF OneInv, OneRow, Row
<1>4. \A k : SameRecording(k)
  BY <1>1 DEF SameRecording, Recording
<1>5. deaths' = 0 => \A k \in ServerKeys : Asked(k)' => Tracked(k)'
  BY <1>4, TrackedHeld, SameRowsKept, SameProcsFree
<1>. QED
  BY <1>2, <1>3, <1>5 DEF OneInv

LEMMA CriticalAlone ==
  ASSUME IInv, NEW h \in Handlers, NEW g \in Handlers, g # h, hs[h].pc \in Critical
  PROVE  hs[g].pc \notin Critical
BY DEF IInv, Bracket

LEMMA OneReceive ==
  ASSUME IInv, OneInv, StartsOnly, NEW h \in Handlers, NEW r \in Requests, Receive(h, r)
  PROVE  OneInv'
<1>1. r.op = "supervise" /\ r \in Requests /\ hs[h].pc = "idle"
  BY DEF StartsOnly, Receive, At
<1>2. PICK new : new = [IdleHandler EXCEPT !.req = r, !.pc = FirstLabel[r.op]]
  OBVIOUS
<1>3. new = [req |-> r, pc |-> FirstLabel[r.op], port |-> 0, dead |-> {}, keys |-> {},
             child |-> NoPid]
  BY <1>2 DEF IdleHandler
<1>4. FirstLabel[r.op] = "lock"
  BY <1>1 DEF FirstLabel
<1>5. new \in HandlerStates /\ new.pc = "lock"
  BY <1>1, <1>3, <1>4, Constants DEF HandlerStates
<1>6. Turns(h, new)
  BY <1>2, <1>5 DEF Turns, Receive
<1>. QED
  BY <1>1, <1>5, <1>6, HandlerOnly DEF Receive

LEMMA OneTakeSpawning ==
  ASSUME IInv, OneInv, NEW h \in Handlers, TakeSpawning(h)
  PROVE  OneInv'
<1>1. PICK label \in Labels : label = "choose"
  BY DEF Labels
<1>2. hs' = [hs EXCEPT ![h].pc = label] /\ hs[h].pc # "record"
  BY <1>1 DEF TakeSpawning, At
<1>3. PICK new : /\ Turns(h, new) /\ new.pc = label /\ new.req = hs[h].req
                 /\ new.port = hs[h].port /\ new.child = hs[h].child
  BY <1>2, HandlerGoes DEF IInv
<1>. QED
  BY <1>1, <1>2, <1>3, HandlerOnly DEF TakeSpawning, Critical

LEMMA OneChoose ==
  ASSUME IInv, OneInv, NEW h \in Handlers, Choose(h)
  PROVE  OneInv'
<1>1. hs[h].pc = "choose" /\ hs[h].req.key \in ServerKeys /\ hs[h].req.base \in Ports
  BY DEF Choose, At, IInv, HandlerOK, Critical
<1>2. PICK a : a = AllocOne(rows, hs[h].req.key, hs[h].req.base, Open, clock)
  OBVIOUS
<1>3. Allocates(rows, hs[h].req.key, a)
  BY <1>1, <1>2, AllocOneAllocates DEF IInv, Shapes, Choose, HasPort
<1>4. PICK port \in Ports : port = a.port
  BY <1>3 DEF Allocates, IsPortRegistry
<1>5. PICK label \in Labels : label = "grant"
  BY DEF Labels
<1>6. GoesWithPort(h, label, port)
  BY <1>2, <1>4, <1>5 DEF Choose, GoesWithPort
<1>7. PICK new : /\ Turns(h, new) /\ new.pc = label /\ new.req = hs[h].req
                 /\ new.port = port /\ new.child = hs[h].child
  BY <1>6, HandlerGetsPort DEF IInv
<1>. QED
  BY <1>1, <1>5, <1>7, HandlerOnly DEF Choose, Critical

LEMMA OneReport ==
  ASSUME IInv, OneInv, StartsOnly, NEW h \in Handlers, ReportExisting(h) \/ SuperviseFails(h)
  PROVE  OneInv'
<1>1. PICK new : Turns(h, new) /\ new.pc = "idle"
  BY HandlerIdles DEF ReportExisting, SuperviseFails
<1>2. hs[h].pc # "record"
  BY DEF ReportExisting, SuperviseFails, At, StartsOnly
<1>. QED
  BY <1>1, <1>2, HandlerOnly DEF ReportExisting, SuperviseFails

LEMMA OneRowStays ==
  ASSUME \A p, q \in DOMAIN rows' : rows'[p].key = rows'[q].key => p = q,
         \A h \in Handlers : \A x : x = hs'[h] /\ x.pc \in {"check", "record", "insert"}
                                   => Row(x.req.key, x.port)',
         \A k \in DOMAIN sup' : \A port : port = sup'[k].port => Row(k, port)',
         \A x : x = reaper' /\ x.pc \in {"spawn", "record", "setpid"} => Row(x.key, x.port)'
  PROVE  OneRow'
BY DEF OneRow, Row

(* A grant is a row the key had, or the first of the key.                  *)
LEMMA OneGrant ==
  ASSUME IInv, OneInv, NEW h \in Handlers, Grant(h)
  PROVE  OneInv'
<1>1. /\ hs[h].pc = "grant" /\ hs[h].req.key \in ServerKeys /\ hs[h].req.base \in Ports
      /\ hs[h].port \in Ports
  BY DEF Grant, At, IInv, HandlerOK, Critical
<1>2. PICK g : g = CommitOne(rows, hs[h].req.key, hs[h].req.base, hs[h].port, Open, clock)
  OBVIOUS
<1>3. Allocates(rows, hs[h].req.key, g)
  BY <1>1, <1>2, CommitOneAllocates DEF IInv, Shapes, Grant, HasPort
<1>4. PICK port \in Ports : port = g.port
  BY <1>3 DEF Allocates, IsPortRegistry
<1>5. PICK label \in Labels : label = "check"
  BY DEF Labels
<1>6. GoesWithPort(h, label, port) /\ rows' = g.rows
  BY <1>2, <1>4, <1>5 DEF Grant, GoesWithPort
<1>7. PICK new : /\ Turns(h, new) /\ new.pc = label /\ new.req = hs[h].req
                 /\ new.port = port /\ new.child = hs[h].child
  BY <1>6, HandlerGetsPort DEF IInv
<1>8. hs'[h] = new /\ \A f \in Handlers \ {h} : hs'[f] = hs[f]
  BY <1>7 DEF Turns, IInv, Shapes
<1>9. UNCHANGED <<sup, reaper, procs, deaths>>
  BY DEF Grant
<1>10. PICK key : key = hs[h].req.key
  OBVIOUS
<1>11. /\ DOMAIN rows' = DOMAIN rows \cup {port} /\ rows'[port].key = key
       /\ \A p \in DOMAIN rows : rows'[p] = rows[p]
       /\ port \notin DOMAIN rows => \A p \in DOMAIN rows : rows[p].key # key
  BY <1>3, <1>4, <1>6, <1>10 DEF Allocates, Holds
<1>12. \A k, p : Row(k, p) => Row(k, p)'
  BY <1>11 DEF Row
<1>13. Row(key, port)'
  BY <1>11 DEF Row
<1>14. OnlyStarts'
  BY <1>5, <1>7, <1>8 DEF OneInv, OnlyStarts, Critical
<1>15. OneRow'
  <2>1. \A p, q \in DOMAIN rows' : rows'[p].key = rows'[q].key => p = q
    BY <1>11 DEF OneInv, OneRow
  <2>2. \A f \in Handlers : \A x : x = hs'[f] /\ x.pc \in {"check", "record", "insert"}
                                 => Row(x.req.key, x.port)'
    <3> TAKE f \in Handlers
    <3> TAKE x
    <3> HAVE x = hs'[f] /\ x.pc \in {"check", "record", "insert"}
    <3>1. CASE f = h
      BY <1>7, <1>8, <1>10, <1>13, <3>1
    <3>2. CASE f # h
      BY <1>8, <1>12, <3>2 DEF OneInv, OneRow
    <3>. QED
      BY <3>1, <3>2
  <2>3. \A k \in DOMAIN sup' : \A c : c = sup'[k].port => Row(k, c)'
    BY <1>9, <1>12 DEF OneInv, OneRow
  <2>4. \A x : x = reaper' /\ x.pc \in {"spawn", "record", "setpid"} => Row(x.key, x.port)'
    BY <1>9, <1>12 DEF OneInv, OneRow
  <2>. QED
    BY <2>1, <2>2, <2>3, <2>4, OneRowStays
<1>16. \A k : RowsKept(k) /\ SameRecording(k)
  BY <1>1, <1>5, <1>7, <1>8, <1>11 DEF RowsKept, SameRecording, Recording
<1>17. deaths' = 0 => \A k \in ServerKeys : Asked(k)' => Tracked(k)'
  BY <1>9, <1>16, TrackedHeld, SameProcsFree
<1>. QED
  BY <1>9, <1>14, <1>15, <1>17 DEF OneInv

(* A server is spawned where none that counts is left: a live one would be *)
(* in the key's row, and reported.                                         *)
LEMMA OneSpawn ==
  ASSUME IInv, OneInv, NEW h \in Handlers, SpawnChild(h)
  PROVE  OneInv'
<1>1. hs[h].pc = "check" /\ hs[h].req.key \in ServerKeys /\ hs[h].port \in Ports
  BY DEF SpawnChild, At, IInv, HandlerOK, Critical
<1>2. PICK q \in UnusedPids : q = Min(UnusedPids)
  BY NextPid DEF SpawnChild
<1>3. PICK key, port : key = hs[h].req.key /\ port = hs[h].port
  OBVIOUS
<1>4. Grows /\ q \in Pids
  <2>1. PICK by \in {"request", "respawn"} : by = "request"
    OBVIOUS
  <2>2. SpawnAs(q, port, key, by) /\ \A k \in DOMAIN sup : sup[k].pid \in Used
    BY <1>2, <1>3, <2>1 DEF SpawnChild, IInv, ChildOK
  <2>. QED
    BY <1>1, <1>3, <2>1, <2>2, SpawnFacts DEF SpawnChild, IInv, Harmless
<1>5. PICK label \in Labels : label = "record"
  BY DEF Labels
<1>6. Shapes /\ GoesWithChild(h, label, q)
  BY <1>2, <1>5 DEF SpawnChild, IInv, GoesWithChild
<1>7. PICK new : /\ Turns(h, new) /\ new.pc = label /\ new.req = hs[h].req
                 /\ new.port = hs[h].port /\ new.child = q
  BY <1>4, <1>6, HandlerGetsChild
<1>8. hs'[h] = new /\ \A g \in Handlers \ {h} : hs'[g] = hs[g]
  BY <1>7 DEF Turns, IInv, Shapes
<1>9. UNCHANGED <<rows, sup, reaper, deaths>>
  BY DEF SpawnChild
<1>10. /\ \A r \in Pids \ {q} : procs'[r] = procs[r]
       /\ procs'[q].key = key /\ procs[q].sig = {}
  <2>1. procs' = [procs EXCEPT ![q] = [NoProc EXCEPT !.st = "boot", !.port = port, !.key = key,
                                                     !.by = "request", !.own = TRUE]]
    BY <1>2, <1>3 DEF SpawnChild, SpawnAs
  <2>. QED
    BY <1>4, <2>1 DEF IInv, Shapes, IsProcs, NoProc, UnusedPids, Used
<1>11. OnlyStarts'
  BY <1>5, <1>7, <1>8 DEF OneInv, OnlyStarts, Critical
<1>12. OneRow'
  BY <1>1, <1>5, <1>7, <1>8, <1>9 DEF OneInv, OneRow, Row
<1>13. \A g \in Handlers : hs[g].pc # "record"
  BY <1>1, CriticalAlone DEF Critical
<1>14. ASSUME NEW k \in ServerKeys, k # key, Asked(k)', deaths' = 0
       PROVE  Tracked(k)'
  <2>1. RowsKept(k) /\ NoneFreed(k)
    BY <1>9, <1>10, <1>14 DEF RowsKept, NoneFreed, Up
  <2>3. SameRecording(k)
    BY <1>3, <1>7, <1>8, <1>13, <1>14 DEF SameRecording, Recording
  <2>2. Tracked(k)
    BY <1>4, <1>9, <1>14, AskedBefore DEF OneInv
  <2>. QED
    BY <1>4, <2>1, <2>2, <2>3, TrackedStands
<1>15. ASSUME Asked(key)', deaths' = 0
       PROVE  Tracked(key)'
  <2>1. Tracked(key)
    BY <1>1, <1>3, <1>4, <1>9, <1>15, AskedBefore DEF OneInv
  <2>2. Unstopped(key) = {}
    <3> SUFFICES ASSUME NEW r \in Unstopped(key)
                 PROVE  FALSE
      OBVIOUS
    <3>1. PICK p \in DOMAIN rows : rows[p].key = key /\ rows[p].pid = r
      BY <1>13, <2>1 DEF Tracked, Recording
    <3>2. Row(key, port)
      BY <1>1, <1>3 DEF OneInv, OneRow
    <3>3. p = port
      BY <3>1, <3>2 DEF OneInv, OneRow, Row
    <3>4. r \in Alive
      BY DEF Unstopped, Alive
    <3>5. ExistingServer(rows, hs[h].port, hs[h].req.key, Alive)
      BY <1>3, <3>1, <3>3, <3>4 DEF ExistingServer
    <3>. QED
      BY <3>5 DEF SpawnChild
  <2>3. Unstopped(key)' \subseteq {q}
    BY <1>10, <2>2 DEF Unstopped, Up
  <2>4. Recording(h, key)' /\ \A g \in Handlers : Recording(g, key)' => g = h
    BY <1>3, <1>5, <1>7, <1>8, <1>13 DEF Recording
  <2>. QED
    BY <1>7, <1>8, <2>3, <2>4 DEF Tracked
<1>16. deaths' = 0 => \A k \in ServerKeys : Asked(k)' => Tracked(k)'
  BY <1>14, <1>15
<1>. QED
  BY <1>9, <1>11, <1>12, <1>16 DEF OneInv

LEMMA RecordedRow ==
  ASSUME IInv, NEW key, NEW port, NEW q, key \in ServerKeys, port \in Ports, q \in Pids,
         rows' = RecordPid(rows, port, key, q, clock)
  PROVE  /\ IsPortRegistry(rows') /\ DOMAIN rows' = DOMAIN rows \cup {port}
         /\ rows'[port].key = key /\ rows'[port].pid = q
         /\ \A p \in DOMAIN rows \ {port} : rows'[p] = rows[p]
BY RecordIsRegistry DEF IInv, Shapes

(* Recording a pid in the row of its key.                                  *)
LEMMA RecordInRow ==
  ASSUME IInv, OneInv, NEW key, NEW port, NEW q,
         key \in ServerKeys, port \in Ports, q \in Pids, Row(key, port),
         rows' = RecordPid(rows, port, key, q, clock)
  PROVE  /\ DOMAIN rows' = DOMAIN rows
         /\ \A p \in DOMAIN rows : rows'[p].key = rows[p].key
         /\ \A p \in DOMAIN rows : rows[p].key # key => rows'[p].pid = rows[p].pid
         /\ rows'[port].pid = q
         /\ \A k, p : Row(k, p) => Row(k, p)'
         /\ \A k : k # key => RowsKept(k)
<1>1. /\ DOMAIN rows' = DOMAIN rows \cup {port}
      /\ rows'[port].key = key /\ rows'[port].pid = q
      /\ \A p \in DOMAIN rows \ {port} : rows'[p] = rows[p]
  BY RecordedRow
<1>2. /\ DOMAIN rows' = DOMAIN rows
      /\ \A p \in DOMAIN rows : rows'[p].key = rows[p].key
      /\ \A p \in DOMAIN rows : rows[p].key # key => rows'[p].pid = rows[p].pid
  BY <1>1 DEF Row
<1>. QED
  BY <1>1, <1>2 DEF Row, RowsKept

LEMMA OneRecord ==
  ASSUME IInv, OneInv, NEW h \in Handlers, RecordChild(h)
  PROVE  OneInv'
<1>1. /\ hs[h].pc = "record" /\ hs[h].req.key \in ServerKeys /\ hs[h].port \in Ports
      /\ InHand(hs[h].child, hs[h].req.key, hs[h].port, "request")
  BY DEF RecordChild, At, IInv, HandlerOK, Critical
<1>2. PICK key \in ServerKeys, port \in Ports : key = hs[h].req.key /\ port = hs[h].port
  BY <1>1
<1>3. PICK q \in Pids : q = hs[h].child
  BY <1>1 DEF InHand, IsServer, Used
<1>4. Row(key, port)
  BY <1>1, <1>2 DEF OneInv, OneRow
<1>5. rows' = RecordPid(rows, port, key, q, clock)
  BY <1>2, <1>3 DEF RecordChild
<1>6. /\ DOMAIN rows' = DOMAIN rows
      /\ \A p \in DOMAIN rows : rows'[p].key = rows[p].key
      /\ \A p \in DOMAIN rows : rows[p].key # key => rows'[p].pid = rows[p].pid
      /\ rows'[port].pid = q
      /\ \A k, p : Row(k, p) => Row(k, p)'
      /\ \A k : k # key => RowsKept(k)
  BY <1>4, <1>5, RecordInRow
<1>7. PICK label \in Labels : label = "insert"
  BY DEF Labels
<1>8. hs' = [hs EXCEPT ![h].pc = label]
  BY <1>7 DEF RecordChild
<1>9. PICK new : /\ Turns(h, new) /\ new.pc = label /\ new.req = hs[h].req
                 /\ new.port = hs[h].port /\ new.child = hs[h].child
  BY <1>8, HandlerGoes DEF IInv
<1>10. hs'[h] = new /\ \A g \in Handlers \ {h} : hs'[g] = hs[g]
  BY <1>9 DEF Turns, IInv, Shapes
<1>11. UNCHANGED <<sup, reaper, procs, deaths>>
  BY DEF RecordChild
<1>12. OnlyStarts'
  BY <1>7, <1>9, <1>10 DEF OneInv, OnlyStarts, Critical
<1>13. OneRow'
  <2>1. \A p, r \in DOMAIN rows' : rows'[p].key = rows'[r].key => p = r
    BY <1>6 DEF OneInv, OneRow
  <2>2. \A f \in Handlers : \A x : x = hs'[f] /\ x.pc \in {"check", "record", "insert"}
                                 => Row(x.req.key, x.port)'
    <3> TAKE f \in Handlers
    <3> TAKE x
    <3> HAVE x = hs'[f] /\ x.pc \in {"check", "record", "insert"}
    <3>1. CASE f = h
      BY <1>2, <1>4, <1>6, <1>9, <1>10, <3>1
    <3>2. CASE f # h
      BY <1>6, <1>10, <3>2 DEF OneInv, OneRow
    <3>. QED
      BY <3>1, <3>2
  <2>3. \A k \in DOMAIN sup' : \A c : c = sup'[k].port => Row(k, c)'
    BY <1>6, <1>11 DEF OneInv, OneRow
  <2>4. \A x : x = reaper' /\ x.pc \in {"spawn", "record", "setpid"} => Row(x.key, x.port)'
    BY <1>6, <1>11 DEF OneInv, OneRow
  <2>. QED
    BY <2>1, <2>2, <2>3, <2>4, OneRowStays
<1>14. Grows /\ \A k : NoneFreed(k)
  BY <1>11, SameProcsFree
<1>15. \A g \in Handlers \ {h} : hs[g].pc # "record"
  BY <1>1, CriticalAlone DEF Critical
<1>16. ASSUME NEW k \in ServerKeys, Asked(k)', deaths' = 0
       PROVE  Tracked(k)'
  <2>1. Tracked(k)
    BY <1>11, <1>14, <1>16, AskedBefore DEF OneInv
  <2>2. CASE k # key
    <3>1. SameRecording(k)
      BY <1>2, <1>7, <1>9, <1>10, <2>2 DEF SameRecording, Recording
    <3>. QED
      BY <1>6, <1>14, <2>1, <2>2, <3>1, TrackedStands
  <2>3. CASE k = key
    <3>1. Unstopped(k)' \subseteq {q}
      BY <1>1, <1>2, <1>3, <1>11, <2>1, <2>3 DEF Tracked, Recording, Unstopped, Up
    <3>2. \A g \in Handlers : ~Recording(g, k)'
      BY <1>7, <1>9, <1>10, <1>15 DEF Recording
    <3>3. port \in DOMAIN rows' /\ rows'[port].key = k /\ rows'[port].pid = q
      BY <1>4, <1>6, <2>3 DEF Row
    <3>. QED
      BY <3>1, <3>2, <3>3 DEF Tracked
  <2>. QED
    BY <2>2, <2>3
<1>. QED
  BY <1>11, <1>12, <1>13, <1>16 DEF OneInv

LEMMA OneInsert ==
  ASSUME IInv, OneInv, NEW h \in Handlers, InsertOwned(h)
  PROVE  OneInv'
<1>1. hs[h].pc = "insert" /\ hs[h].req.key \in ServerKeys
  BY DEF InsertOwned, At, IInv, HandlerOK, Critical
<1>2. PICK key, port : key = hs[h].req.key /\ port = hs[h].port /\ Row(key, port)
  BY <1>1 DEF OneInv, OneRow
<1>3. \A k \in DOMAIN sup' : Row(k, sup'[k].port)
  BY <1>2 DEF InsertOwned, WithChild, NewChild, OneInv, OneRow
<1>4. PICK new : Turns(h, new) /\ new.pc = "idle"
  BY HandlerIdles DEF InsertOwned
<1>5. hs'[h] = new /\ \A g \in Handlers \ {h} : hs'[g] = hs[g]
  BY <1>4 DEF Turns, IInv, Shapes
<1>6. UNCHANGED <<rows, reaper, procs, deaths>>
  BY DEF InsertOwned
<1>7. OnlyStarts'
  BY <1>4, <1>5 DEF OneInv, OnlyStarts
<1>8. OneRow'
  BY <1>3, <1>4, <1>5, <1>6 DEF OneInv, OneRow, Row
<1>9. \A k : SameRecording(k)
  BY <1>1, <1>4, <1>5 DEF SameRecording, Recording
<1>10. deaths' = 0 => \A k \in ServerKeys : Asked(k)' => Tracked(k)'
  BY <1>6, <1>9, TrackedHeld, SameRowsKept, SameProcsFree
<1>. QED
  BY <1>6, <1>7, <1>8, <1>10 DEF OneInv

LEMMA OneServe ==
  ASSUME IInv, OneInv, StartsOnly, NEW h \in Handlers, Serve(h)
  PROVE  OneInv'
<1>1. hs[h].pc \notin {"snapshot", "prune", "remove", "release"}
  BY DEF OneInv, OnlyStarts, Critical
<1>2. \/ TakeSpawning(h) \/ Choose(h) \/ Grant(h) \/ ReportExisting(h) \/ SpawnChild(h)
      \/ SuperviseFails(h) \/ RecordChild(h) \/ InsertOwned(h)
  BY <1>1 DEF Serve, At, SnapshotProbe, SnapshotPrune, SnapshotUnsaved, RemoveAndStop,
     ReleaseScope, ReleaseFails
<1>. QED
  BY <1>2, OneTakeSpawning, OneChoose, OneGrant, OneReport, OneSpawn, OneRecord, OneInsert

(* The supervision thread goes by rows that stay; what it spawns is no     *)
(* server a request asked for.                                             *)
LEMMA TableShrinks ==
  ASSUME OneInv, \A k \in DOMAIN sup' : k \in DOMAIN sup /\ sup'[k].port = sup[k].port
  PROVE  \A k \in DOMAIN sup' : Row(k, sup'[k].port)
BY DEF OneInv, OneRow

LEMMA OneReapQuiet ==
  ASSUME IInv, OneInv,
         \/ \E k : RestartSkips(k) \/ RestartDrops(k)
         \/ LaunchOf \/ RespawnFails
  PROVE  OneInv'
<1>1. UNCHANGED <<rows, hs, deaths, procs>>
  BY DEF RestartSkips, RestartDrops, LaunchOf, RespawnFails
<1>2. \A k \in DOMAIN sup' : k \in DOMAIN sup /\ sup'[k].port = sup[k].port
  BY DEF RestartSkips, RestartDrops, LaunchOf, RespawnFails, Without, Restrict
<1>3. \A x : x = reaper' /\ x.pc \in {"spawn", "record", "setpid"} => Row(x.key, x.port)
  <2>1. CASE LaunchOf
    <3>1. PICK x \in ReaperStates : x = reaper
      BY DEF IInv, Shapes
    <3>2. CASE x.key \in DOMAIN sup /\ sup[x.key].spec
      <4>1. PICK label, port : label = "spawn" /\ port = sup[x.key].port
        OBVIOUS
      <4>2. PICK y : y = [x EXCEPT !.pc = label, !.port = port]
        OBVIOUS
      <4>3. y.key = x.key /\ y.port = port
        BY <3>1, <4>2 DEF ReaperStates
      <4>4. reaper' = y
        BY <2>1, <3>1, <3>2, <4>1, <4>2 DEF LaunchOf
      <4>. QED
        BY <3>2, <4>1, <4>3, <4>4 DEF OneInv, OneRow
    <3>3. CASE ~(x.key \in DOMAIN sup /\ sup[x.key].spec)
      BY <2>1, <3>1, <3>3, BackToEachFacts DEF LaunchOf, IInv
    <3>. QED
      BY <3>2, <3>3
  <2>2. CASE RespawnFails
    BY <2>2, BackToEachFacts DEF RespawnFails, IInv
  <2>3. ASSUME NEW k, RestartSkips(k) \/ RestartDrops(k)
        PROVE  \A x : x = reaper' => x.pc = "each"
    <3>1. PICK x \in ReaperStates : x = reaper /\ x.pc = "each"
      BY <2>3 DEF IInv, Shapes, RestartSkips, RestartDrops, ReaperAt
    <3>2. PICK y : y = [x EXCEPT !.dead = x.dead \ {k}]
      OBVIOUS
    <3>3. reaper' = y
      BY <2>3, <3>1, <3>2 DEF RestartSkips, RestartDrops
    <3>. QED
      BY <3>1, <3>2, <3>3 DEF ReaperStates
  <2>. QED
    BY <2>1, <2>2, <2>3
<1>4. \A k \in DOMAIN sup' : Row(k, sup'[k].port)
  BY <1>2, TableShrinks
<1>. QED
  BY <1>1, <1>3, <1>4, SameProcsFree, OthersStep

LEMMA OneReapOnce ==
  ASSUME IInv, OneInv, ReapOnce
  PROVE  OneInv'
<1>1. PICK pids : procs' = [q \in Pids |-> IF q \in pids THEN [procs[q] EXCEPT !.st = "gone"]
                                           ELSE procs[q]]
  BY DEF ReapOnce
<1>2. ASSUME NEW q \in Pids
      PROVE  /\ procs'[q].key = procs[q].key /\ procs'[q].port = procs[q].port
             /\ procs'[q].by = procs[q].by /\ procs'[q].answered = procs[q].answered
             /\ procs'[q].sig = procs[q].sig
             /\ procs'[q] = procs[q] \/ procs'[q].st = "gone"
  <2>1. PICK x \in ProcStates : x = procs[q]
    BY DEF IInv, Shapes, IsProcs
  <2>2. procs'[q] = [x EXCEPT !.st = "gone"] \/ procs'[q] = x
    BY <1>1, <2>1
  <2>. QED
    BY <2>1, <2>2 DEF ProcStates
<1>3. Grows
  BY <1>2 DEF Grows, Used, Up
<1>4. \A k : NoneFreed(k)
  BY <1>2 DEF NoneFreed, Up
<1>5. PICK gone : reaper' = [IdleReaper EXCEPT !.pc = "each", !.dead = gone]
  BY DEF ReapOnce
<1>6. reaper'.pc = "each"
  BY <1>5 DEF IdleReaper
<1>7. \A k \in DOMAIN sup' : Row(k, sup'[k].port)
  BY TableShrinks DEF ReapOnce
<1>. QED
  BY <1>3, <1>4, <1>6, <1>7, OthersStep DEF ReapOnce

(* What restart takes back from a process that is down is no reason to     *)
(* count it again.                                                         *)
LEMMA OneRestartAllowed ==
  ASSUME IInv, OneInv, NEW k \in ServerKeys, RestartAllowed(k)
  PROVE  OneInv'
<1>1. PICK old \in Children : old = sup[k] /\ k \in DOMAIN sup /\ k \in reaper.dead
  BY DEF RestartAllowed, IInv, Shapes, IsTable
<1>2. PICK q : q = old.pid /\ q \in Used /\ ("memory" \in procs[q].sig => q \notin Up)
  BY <1>1 DEF IInv, ChildOK, ReaperOK
<1>3. procs' = [procs EXCEPT ![q].sig = @ \ {"memory"}]
  BY <1>1, <1>2 DEF RestartAllowed
<1>4. Grows
  BY <1>2, <1>3, UnsignalFacts DEF IInv
<1>5. /\ \A r \in Pids \ {q} : procs'[r] = procs[r]
      /\ procs'[q].sig = procs[q].sig \ {"memory"}
  <2>1. PICK x \in ProcStates : x = procs[q] /\ q \in Pids
    BY <1>2 DEF IInv, Shapes, IsProcs, Used
  <2>2. PICK y : y = [x EXCEPT !.sig = x.sig \ {"memory"}]
    OBVIOUS
  <2>3. procs' = [procs EXCEPT ![q] = y]
    BY <1>3, <2>1, <2>2
  <2>. QED
    BY <2>1, <2>2, <2>3 DEF IInv, Shapes, IsProcs, ProcStates
<1>6. \A r \in Up' : r \in Used /\ procs[r].sig \subseteq procs'[r].sig
  BY <1>2, <1>4, <1>5 DEF Grows, Up, Used
<1>7. \A j : NoneFreed(j)
  BY <1>4, <1>6, NothingFreed
<1>8. PICK restarts : restarts = Append(old.restarts, clock)
  OBVIOUS
<1>9. PICK c : c = [old EXCEPT !.restarts = restarts]
  OBVIOUS
<1>10. c.port = old.port /\ sup' = WithChild(k, c)
  BY <1>1, <1>8, <1>9 DEF RestartAllowed, Charged, Children
<1>11. \A j \in DOMAIN sup' : j \in DOMAIN sup /\ sup'[j].port = sup[j].port
  BY <1>1, <1>10 DEF WithChild
<1>12. \A j \in DOMAIN sup' : Row(j, sup'[j].port)
  BY <1>11, TableShrinks
<1>13. reaper'.pc = "launch"
  <2>1. PICK x \in ReaperStates : x = reaper
    BY DEF IInv, Shapes
  <2>2. PICK y : y = [x EXCEPT !.dead = x.dead \ {k}]
    OBVIOUS
  <2>3. PICK z : z = [y EXCEPT !.pc = "launch", !.key = k]
    OBVIOUS
  <2>4. reaper' = z
    BY <2>1, <2>2, <2>3 DEF RestartAllowed
  <2>. QED
    BY <2>2, <2>3, <2>4 DEF ReaperStates
<1>. QED
  BY <1>4, <1>7, <1>12, <1>13, OthersStep DEF RestartAllowed

LEMMA ReaperOnly ==
  ASSUME OneInv, UNCHANGED <<hs, deaths>>, Grows, OneRow',
         \A k \in ServerKeys : Asked(k)' => RowsKept(k) /\ NoneFreed(k)
  PROVE  OneInv'
<1>1. OnlyStarts'
  BY DEF OneInv, OnlyStarts
<1>2. deaths' = 0 => \A k \in ServerKeys : Asked(k)' => Tracked(k)'
  BY TrackedHeld, SameRecorded
<1>. QED
  BY <1>1, <1>2 DEF OneInv

LEMMA OneRespawn ==
  ASSUME IInv, OneInv, Respawn
  PROVE  OneInv'
<1>1. PICK x \in ReaperStates : x = reaper
  BY DEF IInv, Shapes
<1>2. x.pc = "spawn" /\ x.key \in ServerKeys /\ x.port \in Ports
  BY <1>1 DEF Respawn, ReaperAt, IInv, ReaperOK
<1>3. PICK q \in UnusedPids : q = Min(UnusedPids)
  BY NextPid DEF Respawn
<1>4. PICK key, port : key = x.key /\ port = x.port
  OBVIOUS
<1>5. Grows /\ q \in Pids /\ InHand(q, key, port, "respawn")'
  <2>1. PICK by \in {"request", "respawn"} : by = "respawn"
    OBVIOUS
  <2>2. SpawnAs(q, port, key, by) /\ \A k \in DOMAIN sup : sup[k].pid \in Used
    BY <1>1, <1>3, <1>4, <2>1 DEF Respawn, IInv, ChildOK
  <2>. QED
    BY <1>2, <1>4, <2>1, <2>2, SpawnFacts DEF Respawn, IInv, Harmless
<1>6. procs[q].sig = {} /\ \A r \in Pids \ {q} : procs'[r] = procs[r]
  <2>1. PICK new : procs' = [procs EXCEPT ![q] = new]
    BY <1>3 DEF Respawn, SpawnAs
  <2>. QED
    BY <2>1 DEF IInv, Shapes, IsProcs, NoProc, UnusedPids, Used
<1>7. reaper' = [x EXCEPT !.pc = "record", !.child = q]
  BY <1>1, <1>3 DEF Respawn
<1>8. reaper'.pc = "record" /\ reaper'.port = port /\ reaper'.key = key
  BY <1>4, <1>5, <1>7 DEF ReaperStates
<1>9. Row(key, port)
  BY <1>1, <1>2, <1>4 DEF OneInv, OneRow
<1>10. OneRow'
  BY <1>8, <1>9 DEF Respawn, OneInv, OneRow, Row
<1>11. \A k : RowsKept(k)
  BY SameRowsKept DEF Respawn
<1>12. ASSUME NEW k \in ServerKeys, Asked(k)'
       PROVE  NoneFreed(k)
  <2>1. procs'[q].key = key /\ procs'[q].by = "respawn" /\ q \in Used'
    BY <1>5 DEF InHand, IsServer
  <2>2. key # k
    BY <1>12, <2>1 DEF Asked
  <2>. QED
    BY <1>6, <2>1, <2>2 DEF NoneFreed, Up
<1>. QED
  BY <1>5, <1>10, <1>11, <1>12, ReaperOnly DEF Respawn

LEMMA OneRespawnRecord ==
  ASSUME IInv, OneInv, RespawnRecord
  PROVE  OneInv'
<1>1. PICK x \in ReaperStates : x = reaper
  BY DEF IInv, Shapes
<1>2. /\ x.pc = "record" /\ x.key \in ServerKeys /\ x.port \in Ports
      /\ InHand(x.child, x.key, x.port, "respawn")
  BY <1>1 DEF RespawnRecord, ReaperAt, IInv, ReaperOK
<1>3. PICK key \in ServerKeys, port \in Ports : key = x.key /\ port = x.port
  BY <1>2
<1>4. PICK q \in Pids : q = x.child /\ q \in Used /\ procs[q].key = key /\ procs[q].by = "respawn"
  BY <1>2, <1>3 DEF InHand, IsServer, Used
<1>5. Row(key, port)
  BY <1>1, <1>2, <1>3 DEF OneInv, OneRow
<1>6. /\ DOMAIN rows' = DOMAIN rows
      /\ \A p \in DOMAIN rows : rows'[p].key = rows[p].key
      /\ \A k : k # key => RowsKept(k)
  <2>1. CASE rows' = rows
    BY <2>1, SameRowsKept
  <2>2. CASE rows' = RecordPid(rows, port, key, q, clock)
    <3>1. /\ DOMAIN rows' = DOMAIN rows
          /\ \A p \in DOMAIN rows : rows'[p].key = rows[p].key
          /\ \A p \in DOMAIN rows : rows[p].key # key => rows'[p].pid = rows[p].pid
          /\ rows'[port].pid = q
          /\ \A k, p : Row(k, p) => Row(k, p)'
          /\ \A k : k # key => RowsKept(k)
      BY <1>5, <2>2, RecordInRow
    <3>. QED
      BY <3>1
  <2>. QED
    BY <1>1, <1>3, <1>4, <2>1, <2>2 DEF RespawnRecord
<1>7. reaper' = [x EXCEPT !.pc = "setpid"]
  BY <1>1 DEF RespawnRecord
<1>8. reaper'.port = port /\ reaper'.key = key
  BY <1>3, <1>7 DEF ReaperStates
<1>9. OneRow'
  BY <1>5, <1>6, <1>8 DEF RespawnRecord, OneInv, OneRow, Row
<1>10. Grows /\ \A k : NoneFreed(k)
  BY SameProcsFree DEF RespawnRecord
<1>11. \A k \in ServerKeys : Asked(k)' => k # key
  BY <1>4 DEF RespawnRecord, Asked, Used
<1>. QED
  BY <1>6, <1>9, <1>10, <1>11, ReaperOnly DEF RespawnRecord

LEMMA OneSetPid ==
  ASSUME IInv, OneInv, SetPid
  PROVE  OneInv'
<1>1. reaper'.pc = "each"
  BY BackToEachFacts DEF SetPid
<1>2. Grows /\ \A k : NoneFreed(k)
  BY SameProcsFree DEF SetPid
<1>3. PICK x \in ReaperStates : x = reaper
  BY DEF IInv, Shapes
<1>4. PICK k, q : k = x.key /\ q = x.child
  OBVIOUS
<1>5. q \in Pids
  BY <1>3, <1>4 DEF SetPid, ReaperAt, IInv, ReaperOK, InHand, IsServer, Used
<1>6. \A j \in DOMAIN sup' : j \in DOMAIN sup /\ sup'[j].port = sup[j].port
  <2>1. CASE k \notin DOMAIN sup
    BY <1>3, <1>4, <2>1 DEF SetPid
  <2>2. CASE k \in DOMAIN sup
    <3>1. PICK old \in Children : old = sup[k]
      BY <2>2 DEF IInv, Shapes, IsTable
    <3>2. PICK c : c = Respawned(old, q) /\ c.port = old.port
      BY <1>5, RespawnedIsChild
    <3>3. sup' = WithChild(k, c)
      BY <1>3, <1>4, <2>2, <3>1, <3>2 DEF SetPid
    <3>. QED
      BY <2>2, <3>1, <3>2, <3>3 DEF WithChild
  <2>. QED
    BY <2>1, <2>2
<1>7. \A j \in DOMAIN sup' : Row(j, sup'[j].port)
  BY <1>6, TableShrinks
<1>. QED
  BY <1>1, <1>2, <1>7, OthersStep DEF SetPid

(* A signal frees nothing.                                                 *)
LEMMA SignalFreesNone ==
  ASSUME Shapes, NEW pids, NEW why \in Whys, procs' = Signalled(pids, why)
  PROVE  Grows /\ \A k : NoneFreed(k)
<1>1. /\ Grows
      /\ \A q \in Pids : procs'[q].sig # procs[q].sig
           => q \in pids \cap Up /\ procs'[q].sig = procs[q].sig \cup {why}
  BY SignalFacts
<1>2. \A q \in Up' : q \in Used /\ procs[q].sig \subseteq procs'[q].sig
  <2> TAKE q \in Up'
  <2>1. q \in Pids /\ procs[q].sig \subseteq procs'[q].sig
    BY <1>1 DEF Up
  <2>2. CASE q \in pids \cap Up
    BY <2>1, <2>2 DEF Up, Used
  <2>3. CASE q \notin pids \cap Up
    <3>1. procs'[q] = procs[q]
      BY <2>1, <2>3 DEF Signalled
    <3>. QED
      BY <2>1, <3>1 DEF Up, Used
  <2>. QED
    BY <2>2, <2>3
<1>. QED
  BY <1>1, <1>2, NothingFreed

LEMMA OneMemoryTick ==
  ASSUME IInv, OneInv, NEW big, MemoryTick(big)
  PROVE  OneInv'
<1>1. reaper'.pc = "sleep"
  BY IdleReaperFacts DEF MemoryTick
<1>2. Grows /\ \A k : NoneFreed(k)
  <2>1. CASE MemRestart
    <3>1. PICK pids, why : /\ pids = {sup[k].pid : k \in MemKills(big)}
                           /\ why = "memory" /\ why \in Whys
      BY DEF Whys
    <3>2. procs' = Signalled(pids, why)
      BY <2>1, <3>1 DEF MemoryTick
    <3>. QED
      BY <3>1, <3>2, SignalFreesNone DEF IInv
  <2>2. CASE ~MemRestart
    BY <2>2, SameProcsFree DEF MemoryTick
  <2>. QED
    BY <2>1, <2>2
<1>3. \A k \in DOMAIN sup' : k \in DOMAIN sup /\ sup'[k].port = sup[k].port
  <2>1. CASE MemRestart
    <3>1. sup' = [k \in DOMAIN sup |-> Weighed(k, big)]
      BY <2>1 DEF MemoryTick
    <3>. QED
      BY <3>1, WeighedIsChild
  <2>2. CASE ~MemRestart
    BY <2>2 DEF MemoryTick
  <2>. QED
    BY <2>1, <2>2
<1>4. \A k \in DOMAIN sup' : Row(k, sup'[k].port)
  BY <1>3, TableShrinks
<1>. QED
  BY <1>1, <1>2, <1>4, OthersStep DEF MemoryTick

LEMMA OneReap ==
  ASSUME IInv, OneInv, Reap
  PROVE  OneInv'
BY OneReapQuiet, OneReapOnce, OneRestartAllowed, OneRespawn, OneRespawnRecord, OneSetPid,
   OneMemoryTick DEF Reap

(* The health probe, the servers and the daemon's life.                    *)
LEMMA QuietStep ==
  ASSUME OneInv, UNCHANGED <<rows, hs, deaths, reaper>>, Grows, \A k : NoneFreed(k),
         \A k \in DOMAIN sup' : k \in DOMAIN sup /\ sup'[k].port = sup[k].port
  PROVE  OneInv'
<1>1. \A k \in DOMAIN sup' : Row(k, sup'[k].port)
  BY TableShrinks
<1>2. reaper'.pc \in {"spawn", "record", "setpid"} => Row(reaper'.key, reaper'.port)
  BY DEF OneInv, OneRow
<1>. QED
  BY <1>1, <1>2, OthersStep

LEMMA OneProbeConnect ==
  ASSUME IInv, OneInv, NEW t \in prober.targets, ProbeConnect(t)
  PROVE  OneInv'
<1>1. PICK pids : procs' = [q \in Pids |-> IF q \in pids THEN [procs[q] EXCEPT !.answered = TRUE]
                                           ELSE procs[q]]
  <2>1. PICK pids : pids = {q \in Serving : procs[q].port = t[2]}
    OBVIOUS
  <2>2. procs' = [q \in Pids |-> IF q \in pids THEN [procs[q] EXCEPT !.answered = TRUE]
                                 ELSE procs[q]]
    BY <2>1 DEF ProbeConnect
  <2>. QED
    BY <2>2
<1>2. ASSUME NEW q \in Pids
      PROVE  /\ procs'[q].key = procs[q].key /\ procs'[q].port = procs[q].port
             /\ procs'[q].by = procs[q].by /\ procs'[q].sig = procs[q].sig
             /\ procs'[q].st = procs[q].st
             /\ procs[q].answered => procs'[q].answered
  <2>1. PICK x \in ProcStates : x = procs[q]
    BY DEF IInv, Shapes, IsProcs
  <2>2. procs'[q] = [x EXCEPT !.answered = TRUE] \/ procs'[q] = x
    BY <1>1, <2>1
  <2>. QED
    BY <2>1, <2>2 DEF ProcStates
<1>3. Grows
  BY <1>2 DEF Grows, Used, Up
<1>4. \A k : NoneFreed(k)
  BY <1>2 DEF NoneFreed, Up
<1>. QED
  BY <1>3, <1>4, QuietStep DEF ProbeConnect

LEMMA OneProbeFold ==
  ASSUME IInv, OneInv, ProbeFold
  PROVE  OneInv'
<1>1. PICK k, ok : k = prober.key /\ ok = prober.ok /\ ok \in BOOLEAN
  BY DEF IInv, Shapes, ProberStates
<1>2. \A j \in DOMAIN sup' : j \in DOMAIN sup /\ sup'[j].port = sup[j].port
  <2>1. CASE k \notin DOMAIN sup
    BY <1>1, <2>1 DEF ProbeFold
  <2>2. CASE k \in DOMAIN sup
    <3>1. PICK c \in Children : c = sup[k]
      BY <2>2 DEF IInv, Shapes, IsTable
    <3>2. PICK d \in Children :
             /\ d = Probed(c, ok)
             /\ d.pid = c.pid /\ d.port = c.port /\ d.spec = c.spec /\ d.restarts = c.restarts
             /\ d.armed => c.armed \/ ok
      BY <1>1, ProbedIsChild
    <3>3. sup' = WithChild(k, d)
      BY <1>1, <2>2, <3>1, <3>2 DEF ProbeFold
    <3>. QED
      BY <2>2, <3>1, <3>2, <3>3 DEF WithChild
  <2>. QED
    BY <2>1, <2>2
<1>3. Grows /\ \A j : NoneFreed(j)
  BY SameProcsFree DEF ProbeFold
<1>. QED
  BY <1>2, <1>3, QuietStep DEF ProbeFold

LEMMA OneProbe ==
  ASSUME IInv, OneInv, Probe
  PROVE  OneInv'
<1>1. CASE ProbeTargets \/ ProbeDone
  BY <1>1, SameProcsFree, QuietStep DEF ProbeTargets, ProbeDone
<1>2. CASE ProbeStop
  <2>1. PICK pids, why : pids = {prober.pid} /\ why = "probe" /\ why \in Whys
    BY DEF Whys
  <2>2. procs' = Signalled(pids, why)
    BY <1>2, <2>1 DEF ProbeStop
  <2>3. Grows /\ \A k : NoneFreed(k)
    BY <2>1, <2>2, SignalFreesNone DEF IInv
  <2>. QED
    BY <1>2, <2>3, QuietStep DEF ProbeStop
<1>. QED
  BY <1>1, <1>2, OneProbeConnect, OneProbeFold DEF Probe

LEMMA OneServers ==
  ASSUME IInv, OneInv, NEW q \in Pids, Bind(q) \/ Hang(q) \/ Exit(q)
  PROVE  OneInv'
<1>1. q \in Up
  BY DEF Bind, Hang, Exit, Up
<1>2. PICK st \in {"serving", "hung", "zombie", "gone"} : procs' = [procs EXCEPT ![q].st = st]
  BY DEF Bind, Hang, Exit
<1>3. PICK x \in ProcStates : x = procs[q]
  BY DEF IInv, Shapes, IsProcs
<1>4. PICK y : y = [x EXCEPT !.st = st]
  OBVIOUS
<1>5. /\ y.st = st /\ y.key = x.key /\ y.port = x.port /\ y.by = x.by
      /\ y.sig = x.sig /\ y.answered = x.answered
  BY <1>4 DEF ProcStates
<1>6. procs'[q] = y /\ \A r \in Pids \ {q} : procs'[r] = procs[r]
  BY <1>2, <1>3, <1>4 DEF IInv, Shapes, IsProcs
<1>7. Grows
  BY <1>1, <1>3, <1>5, <1>6 DEF Grows, Used, Up
<1>8. \A k : NoneFreed(k)
  BY <1>1, <1>3, <1>5, <1>6 DEF NoneFreed, Up
<1>. QED
  BY <1>7, <1>8, QuietStep DEF Bind, Hang, Exit

LEMMA OneDaemonDies ==
  ASSUME OneInv, DaemonDies
  PROVE  OneInv'
<1>1. hs' = [h \in Handlers |-> IdleHandler] /\ IdleHandler.pc = "idle"
  BY DEF DaemonDies, IdleHandler
<1>2. OnlyStarts'
  BY <1>1 DEF OnlyStarts
<1>3. DOMAIN sup' = {} /\ reaper'.pc = "sleep" /\ rows' = rows
  BY IdleReaperFacts DEF DaemonDies
<1>4. OneRow'
  BY <1>1, <1>3 DEF OneInv, OneRow
<1>5. deaths' \in Nat /\ deaths' # 0
  <2>1. deaths \in Nat
    BY DEF OneInv
  <2>2. deaths' = deaths + 1
    BY DEF DaemonDies
  <2>. QED
    BY <2>1, <2>2
<1>. QED
  BY <1>2, <1>4, <1>5 DEF OneInv

LEMMA OneDaemonBoots ==
  ASSUME IInv, OneInv, DaemonBoots
  PROVE  OneInv'
<1> DEFINE live == {p \in DOMAIN rows : rows[p].pid \in Alive}
           of(k) == {p \in live : rows[p].key = k}
<1>1. /\ DOMAIN sup' = {rows[p].key : p \in live}
      /\ \A k \in DOMAIN sup' : sup'[k] = NewChild(rows[Max(of(k))].pid, Max(of(k)), FALSE)
  BY DEF DaemonBoots
<1>2. ASSUME NEW k \in DOMAIN sup'
      PROVE  Row(k, sup'[k].port)
  <2>1. of(k) # {} /\ of(k) \subseteq Ports
    BY <1>1 DEF IInv, Shapes, IsPortRegistry
  <2>2. PICK p : p = Max(of(k))
    OBVIOUS
  <2>3. p \in of(k)
    BY <2>1, <2>2, HighestPort
  <2>4. sup'[k].port = p
    <3>1. PICK q : sup'[k] = NewChild(q, p, FALSE)
      BY <1>1, <2>2
    <3>. QED
      BY <3>1 DEF NewChild
  <2>. QED
    BY <2>3, <2>4 DEF Row
<1> HIDE DEF live, of
<1>3. reaper'.pc \in {"spawn", "record", "setpid"} => Row(reaper'.key, reaper'.port)
  BY DEF DaemonBoots, OneInv, OneRow
<1>4. Grows /\ \A k : NoneFreed(k)
  BY SameProcsFree DEF DaemonBoots
<1>. QED
  BY <1>2, <1>3, <1>4, OthersStep DEF DaemonBoots

LEMMA OneNext ==
  ASSUME IInv, OneInv, StartsOnly, [Next]_vars
  PROVE  OneInv'
<1>1. CASE UNCHANGED vars
  <2>1. UNCHANGED <<rows, sup, hs, reaper, procs, deaths>>
    BY <1>1 DEF vars
  <2>. QED
    BY <2>1, SameProcsFree, QuietStep
<1>2. CASE Tick
  BY <1>2, SameProcsFree, QuietStep DEF Tick
<1>3. CASE Next
  BY <1>2, <1>3, OneServe, OneReceive, OneReap, OneProbe, OneDaemonDies, OneDaemonBoots,
     OneServers DEF Next
<1>. QED
  BY <1>1, <1>3

LEMMA OneInit == Init => OneInv
<1> SUFFICES ASSUME Init
             PROVE  OneInv
  OBVIOUS
<1>1. \A h \in Handlers : hs[h].pc = "idle"
  BY DEF Init, IdleHandler
<1>2. DOMAIN rows = {} /\ DOMAIN sup = {} /\ reaper.pc = "sleep"
  BY DEF Init, NoRows, IdleReaper
<1>3. OnlyStarts /\ OneRow
  BY <1>1, <1>2 DEF OnlyStarts, OneRow
<1>4. \A k : Unstopped(k) = {}
  BY DEF Unstopped, Up, Init, NoProc
<1>5. \A k : Tracked(k)
  BY <1>1, <1>4 DEF Tracked, Recording
<1>. QED
  BY <1>3, <1>5 DEF Init, OneInv

(* Where the key of a server has one row, and every server that counts is  *)
(* in it, at most one counts.                                              *)
LEMMA AtMostOne ==
  ASSUME OneInv, deaths = 0, NEW k \in ServerKeys, Asked(k)
  PROVE  Cardinality(Unstopped(k)) <= 1
<1>1. Tracked(k)
  BY DEF OneInv
<1>2. \A q, r \in Unstopped(k) : q = r
  <2>1. CASE \E h \in Handlers : Recording(h, k)
    <3>1. PICK h \in Handlers : Recording(h, k)
      BY <2>1
    <3>. QED
      BY <1>1, <3>1 DEF Tracked
  <2>2. CASE \A h \in Handlers : ~Recording(h, k)
    <3>1. \A q \in Unstopped(k) : \E p \in DOMAIN rows : rows[p].key = k /\ rows[p].pid = q
      BY <1>1, <2>2 DEF Tracked
    <3>. QED
      BY <3>1 DEF OneInv, OneRow
  <2>. QED
    BY <2>1, <2>2
<1>3. CASE Unstopped(k) = {}
  <2>1. Cardinality(Unstopped(k)) = 0
    BY <1>3, FS_EmptySet
  <2>. QED
    BY <2>1
<1>4. CASE Unstopped(k) # {}
  <2>1. PICK q : Unstopped(k) = {q}
    BY <1>2, <1>4
  <2>2. Cardinality(Unstopped(k)) = 1
    BY <2>1, FS_Singleton, Zenon
  <2>. QED
    BY <2>2
<1>. QED
  BY <1>3, <1>4

(* supervise_app holds the `spawning` mutex from its look at the registry  *)
(* to the entry in the table, and registers a pid in the one row of its    *)
(* key: where clients only start servers and the registry can be written,  *)
(* requests for a key, however many and however they interleave with       *)
(* probes, memory kills, exits and daemon deaths, start one server.        *)
THEOREM OneServerPerKeyHolds == StartsOnly => (Spec => []OneServerPerKey)
<1> SUFFICES ASSUME StartsOnly
             PROVE  Spec => []OneServerPerKey
  OBVIOUS
<1>1. IInv /\ OneInv /\ [Next]_vars => OneInv'
  BY OneNext
<1>2. OneInv => OneServerPerKey
  <2> SUFFICES ASSUME OneInv, NEW k \in ServerKeys, deaths = 0,
                      \A q \in {q \in Used : procs[q].key = k} : procs[q].by = "request"
               PROVE  Cardinality({q \in {q \in Used : procs[q].key = k} \cap Up :
                                     procs[q].sig = {}}) <= 1
    BY DEF OneServerPerKey
  <2>1. Asked(k)
    BY DEF Asked
  <2>2. {q \in {q \in Used : procs[q].key = k} \cap Up : procs[q].sig = {}} = Unstopped(k)
    BY DEF Unstopped, Used, Up
  <2>. QED
    BY <2>1, <2>2, AtMostOne
<1>. QED
  BY <1>1, <1>2, OneInit, InvariantHolds, PTL DEF Spec

-----------------------------------------------------------------------------
(* What a flapping server costs.  Each request that started a server is    *)
(* good for Cost respawns: one whose server is in the table pays by the    *)
(* child's own restarts, the others are taken to have spent theirs.        *)

StartedFor(k, by) == {q \in Used : procs[q].key = k /\ procs[q].by = by}

Cost == MaxRestarts * (1 + clock \div Window)

Restartable(k) == k \in DOMAIN sup /\ sup[k].spec

(* A request has started a server of k that is not yet in the table.       *)
Held(k) == \E h \in Handlers : hs[h].pc \in {"record", "insert"} /\ hs[h].req.key = k

(* A restart of k is charged and its server not yet started.               *)
Owed(k) == reaper.pc \in {"launch", "spawn"} /\ reaper.key = k

Live(k) == (IF Restartable(k) THEN 1 ELSE 0) + (IF Held(k) THEN 1 ELSE 0)

Charges(k) == IF Restartable(k) THEN Len(sup[k].restarts) ELSE 0

Respawns(k) == Cardinality(StartedFor(k, "respawn")) + (IF Owed(k) THEN 1 ELSE 0)

(* The requests for k that started a server and have it no longer.         *)
Spent(k) == Cardinality(StartedFor(k, "request")) - Live(k)

Account(k) == Spent(k) >= 0 /\ Respawns(k) <= Cost * Spent(k) + Charges(k)

(* The restarts of a child are in order, and one that comes after          *)
(* a * MaxRestarts others comes after a windows.                           *)
Spaced(r, now) ==
  /\ \A i, j \in 1 .. Len(r) : i <= j => r[i] <= r[j]
  /\ \A i \in 1 .. Len(r) : r[i] <= now
  /\ \A a \in Nat : \A i \in 1 .. Len(r) : a * MaxRestarts < i => a * Window <= r[i]

BudgetInv ==
  /\ IsFiniteSet(Used)
  /\ \A k \in DOMAIN sup : Spaced(sup[k].restarts, clock)
  /\ \A k \in ServerKeys : Account(k)

LEMMA Limits == MaxRestarts \in Nat /\ Window \in Nat \ {0}
BY SupervisionAssumption

LEMMA Division ==
  ASSUME NEW n \in Nat, NEW w \in Nat \ {0}
  PROVE  /\ n \div w \in Nat /\ n < (1 + n \div w) * w
         /\ \A m \in Nat : n <= m => n \div w <= m \div w
OBVIOUS

LEMMA Products ==
  ASSUME NEW x \in Nat, NEW a \in Nat, NEW b \in Nat, a <= b
  PROVE  x * a <= x * b
OBVIOUS

(* What the clock allows one child never shrinks.                          *)
LEMMA CostIsNatural ==
  ASSUME clock \in Nat
  PROVE  Cost \in Nat
<1>1. PICK a \in Nat : a = clock \div Window
  BY Division, Limits
<1>2. MaxRestarts * (1 + a) \in Nat
  BY Limits
<1>. QED
  BY <1>1, <1>2 DEF Cost

LEMMA CostGrows ==
  ASSUME clock \in Nat, clock' \in Nat, clock <= clock'
  PROVE  Cost <= Cost'
<1>1. PICK a \in Nat, b \in Nat : a = clock \div Window /\ b = clock' \div Window /\ a <= b
  BY Division, Limits
<1>2. PICK x \in Nat, y \in Nat : x = 1 + a /\ y = 1 + b /\ x <= y
  BY <1>1
<1>3. MaxRestarts * x <= MaxRestarts * y
  BY <1>2, Limits, Products
<1>4. Cost = MaxRestarts * x /\ Cost' = MaxRestarts * y
  BY <1>1, <1>2 DEF Cost
<1>. QED
  BY <1>3, <1>4

(* An account stays covered when it grows by no more than it is given.     *)
LEMMA Covered ==
  ASSUME NEW r \in Nat, NEW b \in Nat, NEW u \in Nat, NEW c \in Nat,
         NEW s \in Nat, NEW d \in Nat, NEW v \in Nat, NEW e \in Nat,
         r <= b * u + c, s <= r, b <= d, u <= v, c <= e \/ (u < v /\ c <= b)
  PROVE  s <= d * v + e
<1>1. b * v <= d * v /\ b * u <= b * v /\ b * u \in Nat /\ b * v \in Nat /\ d * v \in Nat
  OBVIOUS
<1>2. CASE c <= e
  BY <1>1, <1>2
<1>3. CASE u < v /\ c <= b
  <2>1. b * (u + 1) <= b * v /\ b * (u + 1) = b * u + b
    BY <1>3
  <2>. QED
    BY <1>1, <1>3, <2>1
<1>. QED
  BY <1>2, <1>3

(* A child in the table has been restarted no more often than Cost.        *)
LEMMA FewRestarts ==
  ASSUME clock \in Nat, NEW r \in Seq(Nat), Spaced(r, clock)
  PROVE  Len(r) \in Nat /\ Len(r) <= Cost
<1>1. PICK n \in Nat : n = Len(r)
  OBVIOUS
<1>2. PICK a \in Nat : a = 1 + clock \div Window /\ clock < a * Window
  <2>1. PICK t \in Nat, w \in Nat \ {0} : t = clock /\ w = Window
    BY Limits
  <2>2. t \div w \in Nat /\ t < (1 + t \div w) * w
    BY Division
  <2>. QED
    BY <2>1, <2>2
<1>4. a * MaxRestarts = Cost /\ Cost \in Nat
  <2>1. a * MaxRestarts = MaxRestarts * a
    BY Limits
  <2>. QED
    BY <1>2, <2>1, CostIsNatural DEF Cost
<1>5. ASSUME n > a * MaxRestarts
      PROVE  FALSE
  <2>1. n \in 1 .. Len(r)
    BY <1>1, <1>4, <1>5
  <2>2. a * Window <= r[n] /\ r[n] <= clock /\ r[n] \in Nat
    BY <1>5, <2>1 DEF Spaced
  <2>. QED
    BY <1>2, <2>2, Limits
<1>. QED
  BY <1>1, <1>4, <1>5

(* may_restart looks at the window before it charges: the restart that     *)
(* MaxRestarts ago came is out of it.                                      *)
LEMMA ChargedIsSpaced ==
  ASSUME clock \in Nat, NEW c \in Children, Spaced(c.restarts, clock), MayRestart(c)
  PROVE  Spaced(Append(c.restarts, clock), clock)
<1>1. PICK r \in Seq(Nat), n \in Nat : r = c.restarts /\ n = Len(r) /\ Spaced(r, clock)
  BY DEF Children
<1>2. PICK e : e = Append(r, clock)
  OBVIOUS
<1>3. /\ Len(e) = n + 1 /\ e[n + 1] = clock
      /\ \A i \in 1 .. n : e[i] = r[i] /\ r[i] \in Nat
  BY <1>1, <1>2
<1>a. /\ \A i, j \in 1 .. n : i <= j => r[i] <= r[j]
      /\ \A i \in 1 .. n : r[i] <= clock
  BY <1>1 DEF Spaced
<1>4. \A i, j \in 1 .. n + 1 : i <= j => e[i] <= e[j]
  <2> TAKE i, j \in 1 .. n + 1
  <2> HAVE i <= j
  <2>1. CASE j = n + 1
    BY <1>3, <1>a, <2>1
  <2>2. CASE j # n + 1
    BY <1>3, <1>a, <2>2
  <2>. QED
    BY <2>1, <2>2
<1>5. \A i \in 1 .. n + 1 : e[i] <= clock
  BY <1>3, <1>a
<1>6. ASSUME n >= MaxRestarts
      PROVE  MaxRestarts > 0 /\ r[n + 1 - MaxRestarts] <= clock - Window
  <2>1. PICK S : S = {i \in 1 .. n : clock - r[i] < Window}
    OBVIOUS
  <2>2. IsFiniteSet(S) /\ Cardinality(S) \in Nat /\ Cardinality(S) < MaxRestarts
    <3>1. IsFiniteSet(1 .. n)
      BY FS_Interval
    <3>2. IsFiniteSet(S)
      BY <2>1, <3>1, FS_Subset
    <3>3. S = Recent(c)
      BY <1>1, <2>1 DEF Recent
    <3>. QED
      BY <3>2, <3>3, FS_CardinalityType DEF MayRestart
  <2>3. MaxRestarts > 0
    BY <2>2, Limits
  <2>4. PICK m \in 1 .. n : m = n + 1 - MaxRestarts
    BY <1>6, <2>3, Limits
  <2>5. ASSUME r[m] > clock - Window
        PROVE  FALSE
    <3>1. m .. n \subseteq S
      BY <1>3, <1>a, <2>1, <2>4, <2>5, Limits
    <3>2. Cardinality(m .. n) <= Cardinality(S) /\ IsFiniteSet(m .. n)
      BY <2>2, <3>1, FS_Subset
    <3>3. Cardinality(m .. n) = n - m + 1
      BY <2>4, FS_Interval
    <3>. QED
      BY <2>2, <2>4, <3>2, <3>3, Limits
  <2>. QED
    BY <1>3, <2>3, <2>4, <2>5, Limits
<1>7. \A a \in Nat : \A i \in 1 .. n + 1 : a * MaxRestarts < i => a * Window <= e[i]
  <2> TAKE a \in Nat
  <2> TAKE i \in 1 .. n + 1
  <2> HAVE a * MaxRestarts < i
  <2>1. CASE i \in 1 .. n
    BY <1>1, <1>3, <2>1 DEF Spaced
  <2>2. CASE i = n + 1 /\ a = 0
    BY <1>3, <2>2, Limits
  <2>3. CASE i = n + 1 /\ a # 0
    <3>1. PICK b \in Nat : a = b + 1
      BY <2>3
    <3>2. /\ a * MaxRestarts = b * MaxRestarts + MaxRestarts
          /\ a * Window = b * Window + Window
          /\ b * MaxRestarts \in Nat /\ b * Window \in Nat
      BY <3>1, Limits
    <3>3. n >= MaxRestarts
      BY <2>3, <3>2, Limits
    <3>4. MaxRestarts > 0 /\ r[n + 1 - MaxRestarts] <= clock - Window
      BY <1>6, <3>3
    <3>5. PICK m \in 1 .. n : m = n + 1 - MaxRestarts
      BY <3>3, <3>4, Limits
    <3>6. b * MaxRestarts < m
      BY <2>3, <3>2, <3>5, Limits
    <3>7. b * Window <= r[m] /\ r[m] \in Nat
      BY <1>1, <1>3, <3>5, <3>6 DEF Spaced
    <3>8. b * Window + Window <= clock
      BY <3>2, <3>4, <3>5, <3>7, Limits
    <3>. QED
      BY <1>3, <2>3, <3>2, <3>8
  <2>. QED
    BY <2>1, <2>2, <2>3
<1>. QED
  BY <1>1, <1>2, <1>3, <1>4, <1>5, <1>7 DEF Spaced

(* The books of one key balance in a step that adds no respawn and takes   *)
(* no restart off a child it leaves in the table.                          *)
LEMMA StartedFinite ==
  ASSUME IsFiniteSet(Used), NEW k, NEW by
  PROVE  IsFiniteSet(StartedFor(k, by)) /\ Cardinality(StartedFor(k, by)) \in Nat
<1>1. StartedFor(k, by) \subseteq Used
  BY DEF StartedFor
<1>. QED
  BY <1>1, FS_Subset, FS_CardinalityType

LEMMA Numbers ==
  ASSUME IInv, BudgetInv, NEW k
  PROVE  /\ Respawns(k) \in Nat /\ Live(k) \in Nat /\ Spent(k) \in Int
         /\ Charges(k) \in Nat /\ Charges(k) <= Cost /\ Cost \in Nat
<1>1. clock \in Nat /\ IsFiniteSet(Used)
  BY DEF IInv, Shapes, BudgetInv
<1>2. Respawns(k) \in Nat /\ Live(k) \in Nat
  BY <1>1, StartedFinite DEF Respawns, Live
<1>3. Spent(k) \in Int
  BY <1>1, <1>2, StartedFinite DEF Spent
<1>4. Cost \in Nat
  BY <1>1, CostIsNatural
<1>5. CASE ~Restartable(k)
  BY <1>2, <1>3, <1>4, <1>5 DEF Charges
<1>6. CASE Restartable(k)
  <2>1. PICK r \in Seq(Nat) : r = sup[k].restarts /\ Spaced(r, clock)
    BY <1>6 DEF Restartable, IInv, Shapes, IsTable, Children, BudgetInv
  <2>2. Len(r) \in Nat /\ Len(r) <= Cost
    BY <1>1, <2>1, FewRestarts
  <2>. QED
    BY <1>2, <1>3, <1>4, <1>6, <2>1, <2>2 DEF Charges
<1>. QED
  BY <1>5, <1>6

LEMMA Settles ==
  ASSUME IInv, BudgetInv, clock' \in Nat, clock <= clock', NEW k \in ServerKeys,
         Respawns(k)' \in Nat, Respawns(k)' <= Respawns(k),
         Spent(k)' \in Int, Spent(k) <= Spent(k)',
         Charges(k)' \in Nat, Charges(k) <= Charges(k)' \/ Spent(k) < Spent(k)'
  PROVE  Account(k)'
<1>1. /\ Respawns(k) \in Nat /\ Spent(k) \in Int
      /\ Charges(k) \in Nat /\ Charges(k) <= Cost /\ Cost \in Nat
  BY Numbers
<1>2. Account(k) /\ clock \in Nat
  BY DEF BudgetInv, IInv, Shapes
<1>3. Cost <= Cost' /\ Cost' \in Nat
  <2>1. Cost <= Cost'
    BY <1>2, CostGrows
  <2>2. Cost' \in Nat
    <3>1. PICK a \in Nat : a = clock' \div Window
      BY Division, Limits
    <3>2. MaxRestarts * (1 + a) \in Nat
      BY Limits
    <3>. QED
      BY <3>1, <3>2 DEF Cost
  <2>. QED
    BY <2>1, <2>2
<1>4. PICK r, b, u, c : r = Respawns(k) /\ b = Cost /\ u = Spent(k) /\ c = Charges(k)
  OBVIOUS
<1>5. PICK s, d, v, e : s = Respawns(k)' /\ d = Cost' /\ v = Spent(k)' /\ e = Charges(k)'
  OBVIOUS
<1>a. {r, b, u, c, s, d, v, e} \subseteq Nat /\ r <= b * u + c
  <2>1. u >= 0 /\ r <= b * u + c
    BY <1>2, <1>4 DEF Account
  <2>. QED
    BY <1>1, <1>3, <1>4, <1>5, <2>1
<1>6. s <= r /\ b <= d /\ u <= v /\ (c <= e \/ (u < v /\ c <= b))
  BY <1>1, <1>3, <1>4, <1>5
<1>7. s <= d * v + e
  BY <1>a, <1>6, Covered
<1>8. v >= 0
  BY <1>a
<1>. QED
  BY <1>5, <1>7, <1>8 DEF Account

LEMMA StartsKept ==
  ASSUME Grows, Used' \subseteq Used
  PROVE  Used' = Used /\ \A k, by : StartedFor(k, by)' = StartedFor(k, by)
<1>1. \A q \in Used : q \in Used' /\ procs'[q].key = procs[q].key /\ procs'[q].by = procs[q].by
  BY DEF Grows, Used
<1>. QED
  BY <1>1 DEF StartedFor

LEMMA SpacedStays ==
  ASSUME NEW r \in Seq(Nat), NEW t \in Nat, NEW u \in Nat, t <= u, Spaced(r, t)
  PROVE  Spaced(r, u)
<1>1. \A i \in 1 .. Len(r) : r[i] \in Nat /\ r[i] <= t
  BY DEF Spaced
<1>2. \A i \in 1 .. Len(r) : r[i] <= u
  BY <1>1
<1>. QED
  BY <1>2 DEF Spaced

(* Entries stay as they were or go; new ones are not restarted.            *)
TableKept ==
  \A k \in DOMAIN sup' :
    \/ k \in DOMAIN sup /\ sup'[k].spec = sup[k].spec /\ sup'[k].restarts = sup[k].restarts
    \/ ~sup'[k].spec /\ sup'[k].restarts = <<>>

LEMMA TableSpaced ==
  ASSUME IInv, BudgetInv, clock' \in Nat, clock <= clock', NEW k \in DOMAIN sup',
         \/ k \in DOMAIN sup /\ sup'[k].restarts = sup[k].restarts
         \/ sup'[k].restarts = <<>>
  PROVE  Spaced(sup'[k].restarts, clock')
<1>1. CASE k \in DOMAIN sup /\ sup'[k].restarts = sup[k].restarts
  <2>1. PICK r \in Seq(Nat) : r = sup[k].restarts
    BY <1>1 DEF IInv, Shapes, IsTable, Children
  <2>2. Spaced(r, clock) /\ clock \in Nat
    BY <1>1, <2>1 DEF BudgetInv, IInv, Shapes
  <2>3. Spaced(r, clock')
    BY <2>2, SpacedStays
  <2>. QED
    BY <1>1, <2>1, <2>3
<1>2. CASE sup'[k].restarts = <<>>
  BY <1>2 DEF Spaced
<1>. QED
  BY <1>1, <1>2

LEMMA EasyBudget ==
  ASSUME IInv, BudgetInv, Grows, Used' \subseteq Used, TableKept,
         clock' \in Nat, clock <= clock',
         \A k \in ServerKeys : (Held(k)' => Held(k)) /\ (Owed(k)' => Owed(k))
  PROVE  BudgetInv'
<1>1. Used' = Used /\ \A k, by : StartedFor(k, by)' = StartedFor(k, by)
  BY StartsKept
<1>2. IsFiniteSet(Used)'
  BY <1>1 DEF BudgetInv
<1>3. \A k \in DOMAIN sup' : Spaced(sup'[k].restarts, clock')
  BY TableSpaced DEF TableKept
<1>4. ASSUME NEW k \in ServerKeys
      PROVE  Account(k)'
  <2>1. PICK q \in Nat, p \in Nat : /\ q = Cardinality(StartedFor(k, "request"))
                                    /\ p = Cardinality(StartedFor(k, "respawn"))
    BY StartedFinite DEF BudgetInv
  <2>2. q = Cardinality(StartedFor(k, "request"))' /\ p = Cardinality(StartedFor(k, "respawn"))'
    BY <1>1, <2>1
  <2>3. Respawns(k)' \in Nat /\ Respawns(k)' <= Respawns(k)
    BY <1>4, <2>1, <2>2 DEF Respawns
  <2>4. Restartable(k)' => Restartable(k) /\ sup'[k].restarts = sup[k].restarts
    BY DEF Restartable, TableKept
  <2>5. Spent(k)' \in Int /\ Spent(k) <= Spent(k)'
    BY <1>4, <2>1, <2>2, <2>4 DEF Spent, Live
  <2>6. Charges(k) \in Nat /\ Charges(k)' \in {0, Charges(k)}
    BY <2>4, Numbers DEF Charges
  <2>7. Charges(k)' = Charges(k) \/ Spent(k) < Spent(k)'
    <3>1. CASE Restartable(k)' \/ ~Restartable(k)
      BY <2>4, <3>1 DEF Charges
    <3>2. CASE ~Restartable(k)' /\ Restartable(k)
      BY <1>4, <2>1, <2>2, <3>2 DEF Spent, Live
    <3>. QED
      BY <3>1, <3>2
  <2>. QED
    BY <2>3, <2>5, <2>6, <2>7, Settles
<1>. QED
  BY <1>2, <1>3, <1>4 DEF BudgetInv

LEMMA SameProcsStart ==
  ASSUME procs' = procs
  PROVE  Grows /\ Used' \subseteq Used
BY SameProcsGrow DEF Used

LEMMA SameTableKept ==
  ASSUME sup' = sup
  PROVE  TableKept
BY DEF TableKept

(* A handler that moves and starts nothing.                                *)
LEMMA HandlerBudget ==
  ASSUME IInv, BudgetInv, NEW h \in Handlers, NEW new, Turns(h, new),
         Grows, Used' \subseteq Used, TableKept, UNCHANGED <<reaper, clock>>,
         new.pc \in {"record", "insert"} =>
           hs[h].pc \in {"record", "insert"} /\ new.req = hs[h].req
  PROVE  BudgetInv'
<1>1. hs'[h] = new /\ \A g \in Handlers \ {h} : hs'[g] = hs[g]
  BY DEF Turns, IInv, Shapes
<1>2. \A k \in ServerKeys : Held(k)' => Held(k)
  BY <1>1 DEF Held
<1>3. \A k \in ServerKeys : Owed(k)' => Owed(k)
  BY DEF Owed
<1>4. clock' \in Nat /\ clock <= clock'
  BY DEF IInv, Shapes
<1>. QED
  BY <1>2, <1>3, <1>4, EasyBudget

LEMMA HandlerBudgetOnly ==
  ASSUME IInv, BudgetInv, NEW h \in Handlers, NEW new, Turns(h, new),
         UNCHANGED <<sup, procs, reaper, clock>>,
         new.pc \in {"record", "insert"} =>
           hs[h].pc \in {"record", "insert"} /\ new.req = hs[h].req
  PROVE  BudgetInv'
BY HandlerBudget, SameProcsStart, SameTableKept

LEMMA BudgetReceive ==
  ASSUME IInv, BudgetInv, NEW h \in Handlers, NEW r \in Requests, Receive(h, r)
  PROVE  BudgetInv'
<1>1. PICK label : label = FirstLabel[r.op] /\ label \in {"lock", "snapshot"}
  <2>1. r.op \in {"supervise", "down", "downports", "snapshot"}
    BY SupervisionAssumption DEF RequestKinds
  <2>. QED
    BY <2>1 DEF FirstLabel
<1>2. PICK new : new = [IdleHandler EXCEPT !.req = r, !.pc = label]
  OBVIOUS
<1>3. new = [req |-> r, pc |-> label, port |-> 0, dead |-> {}, keys |-> {}, child |-> NoPid]
  BY <1>2 DEF IdleHandler
<1>4. new \in HandlerStates /\ new.pc = label
  BY <1>1, <1>3, Constants DEF HandlerStates
<1>5. Turns(h, new)
  BY <1>1, <1>2, <1>4 DEF Turns, Receive
<1>. QED
  BY <1>1, <1>4, <1>5, HandlerBudgetOnly DEF Receive

LEMMA BudgetGoes ==
  ASSUME IInv, BudgetInv, NEW h \in Handlers,
         TakeSpawning(h) \/ RecordChild(h)
           \/ ReportExisting(h) \/ SuperviseFails(h) \/ ReleaseScope(h) \/ ReleaseFails(h)
  PROVE  BudgetInv'
<1>1. UNCHANGED <<sup, procs, reaper, clock>>
  BY DEF TakeSpawning, RecordChild, ReportExisting, SuperviseFails, ReleaseScope, ReleaseFails
<1>2. CASE TakeSpawning(h) \/ RecordChild(h)
  <2>1. PICK label \in Labels : /\ hs' = [hs EXCEPT ![h].pc = label]
                                /\ label = "choose" \/ (label = "insert" /\ hs[h].pc = "record")
    <3>1. "choose" \in Labels /\ "insert" \in Labels
      BY DEF Labels
    <3>. QED
      BY <1>2, <3>1 DEF TakeSpawning, RecordChild, At
  <2>2. PICK new : /\ Turns(h, new) /\ new.pc = label /\ new.req = hs[h].req
                   /\ new.port = hs[h].port /\ new.child = hs[h].child
    BY <2>1, HandlerGoes DEF IInv
  <2>. QED
    BY <1>1, <2>1, <2>2, HandlerBudgetOnly
<1>3. CASE Answer(h)
  <2>1. PICK new : Turns(h, new) /\ new.pc = "idle"
    BY <1>3, HandlerIdles
  <2>. QED
    BY <1>1, <2>1, HandlerBudgetOnly
<1>. QED
  BY <1>2, <1>3 DEF ReportExisting, SuperviseFails, ReleaseScope, ReleaseFails

LEMMA BudgetPort ==
  ASSUME IInv, BudgetInv, NEW h \in Handlers, Choose(h) \/ Grant(h)
  PROVE  BudgetInv'
<1>1. /\ hs[h].pc \in {"choose", "grant"}
      /\ hs[h].req.key \in ServerKeys /\ hs[h].req.base \in Ports
      /\ hs[h].pc = "grant" => hs[h].port \in Ports
  BY DEF Choose, Grant, At, IInv, HandlerOK, Critical
<1>2. PICK a : /\ Allocates(rows, hs[h].req.key, a)
               /\ GoesWithPort(h, "grant", a.port) \/ GoesWithPort(h, "check", a.port)
  <2>1. CASE Choose(h)
    <3>1. PICK a : a = AllocOne(rows, hs[h].req.key, hs[h].req.base, Open, clock)
      OBVIOUS
    <3>2. Allocates(rows, hs[h].req.key, a)
      BY <1>1, <2>1, <3>1, AllocOneAllocates DEF IInv, Shapes, Choose, HasPort
    <3>3. GoesWithPort(h, "grant", a.port)
      BY <2>1, <3>1 DEF Choose, GoesWithPort
    <3>. QED
      BY <3>2, <3>3
  <2>2. CASE Grant(h)
    <3>1. PICK a : a = CommitOne(rows, hs[h].req.key, hs[h].req.base, hs[h].port, Open, clock)
      OBVIOUS
    <3>a. hs[h].port \in Ports
      BY <1>1, <2>2 DEF Grant, At
    <3>2. Allocates(rows, hs[h].req.key, a)
      BY <1>1, <2>2, <3>a, <3>1, CommitOneAllocates DEF IInv, Shapes, Grant, HasPort
    <3>3. GoesWithPort(h, "check", a.port)
      BY <2>2, <3>1 DEF Grant, GoesWithPort
    <3>. QED
      BY <3>2, <3>3
  <2>. QED
    BY <2>1, <2>2
<1>3. PICK port \in Ports, label \in Labels :
        label \in {"grant", "check"} /\ GoesWithPort(h, label, port)
  <2>1. a.port \in Ports
    BY <1>2 DEF Allocates, IsPortRegistry
  <2>2. "grant" \in Labels /\ "check" \in Labels
    BY DEF Labels
  <2>. QED
    BY <1>2, <2>1, <2>2
<1>4. PICK new : /\ Turns(h, new) /\ new.pc = label /\ new.req = hs[h].req
                 /\ new.port = port /\ new.child = hs[h].child
  BY <1>3, HandlerGetsPort DEF IInv
<1>5. UNCHANGED <<sup, procs, reaper, clock>>
  BY DEF Choose, Grant
<1>. QED
  BY <1>3, <1>4, <1>5, HandlerBudgetOnly

LEMMA SignalStarts ==
  ASSUME Shapes, NEW pids, NEW why \in Whys, procs' = Signalled(pids, why)
  PROVE  Grows /\ Used' \subseteq Used
<1>1. \A q \in Pids \ (pids \cap Up) : procs'[q] = procs[q]
  BY DEF Signalled
<1>2. Used' \subseteq Used
  BY <1>1 DEF Used, Up
<1>. QED
  BY <1>2, SignalFacts

LEMMA HarmlessTable ==
  ASSUME Harmless
  PROVE  TableKept /\ Grows
BY DEF Harmless, SameChild, TableKept

LEMMA BudgetDown ==
  ASSUME IInv, BudgetInv, NEW h \in Handlers,
         SnapshotProbe(h) \/ SnapshotPrune(h) \/ SnapshotUnsaved(h) \/ RemoveAndStop(h)
  PROVE  BudgetInv'
<1>1. PICK new : Turns(h, new) /\ new.pc \in {"idle", "remove", "prune", "release"}
  BY SnapshotProbeTurns, SnapshotPruneTurns, SnapshotUnsavedTurns, RemoveAndStopTurns
<1>2. UNCHANGED <<reaper, clock>>
  BY DEF SnapshotProbe, SnapshotPrune, SnapshotUnsaved, RemoveAndStop
<1>3. CASE RemoveAndStop(h)
  <2>1. PICK pids, why : why \in Whys /\ why = "down" /\ procs' = Signalled(pids, why)
    BY <1>3 DEF RemoveAndStop, Whys
  <2>2. Grows /\ Used' \subseteq Used
    BY <2>1, SignalStarts DEF IInv
  <2>3. TableKept
    BY <1>3, RemovalIsHarmless, HarmlessTable
  <2>. QED
    BY <1>1, <1>2, <2>2, <2>3, HandlerBudget
<1>4. CASE ~RemoveAndStop(h)
  <2>1. UNCHANGED <<sup, procs>>
    BY <1>4 DEF SnapshotProbe, SnapshotPrune, SnapshotUnsaved
  <2>. QED
    BY <1>1, <1>2, <2>1, HandlerBudgetOnly
<1>. QED
  BY <1>3, <1>4

(* What a spawn adds to the servers started.                               *)
LEMMA OneStarted ==
  ASSUME IInv, BudgetInv, NEW q \in UnusedPids, NEW port \in Ports, NEW key \in ServerKeys,
         NEW by \in {"request", "respawn"}, SpawnAs(q, port, key, by)
  PROVE  /\ IsFiniteSet(Used')
         /\ Cardinality(StartedFor(key, by)') = Cardinality(StartedFor(key, by)) + 1
         /\ \A k, b : k # key \/ b # by => StartedFor(k, b)' = StartedFor(k, b)
<1>1. q \in Pids \ Used
  BY DEF UnusedPids
<1>2. PICK new : new = [NoProc EXCEPT !.st = "boot", !.port = port, !.key = key,
                                      !.by = by, !.own = TRUE]
  OBVIOUS
<1>3. new.st = "boot" /\ new.key = key /\ new.by = by
  BY <1>2 DEF NoProc
<1>4. procs' = [procs EXCEPT ![q] = new]
  BY <1>2 DEF SpawnAs
<1>5. procs'[q] = new /\ \A r \in Pids \ {q} : procs'[r] = procs[r]
  BY <1>1, <1>4 DEF IInv, Shapes, IsProcs
<1>6. Used' = Used \cup {q}
  BY <1>1, <1>3, <1>5 DEF Used
<1>7. IsFiniteSet(Used')
  BY <1>6, FS_AddElement DEF BudgetInv
<1>8. StartedFor(key, by)' = StartedFor(key, by) \cup {q} /\ q \notin StartedFor(key, by)
  BY <1>1, <1>3, <1>5, <1>6 DEF StartedFor, Used
<1>9. IsFiniteSet(StartedFor(key, by))
  BY StartedFinite DEF BudgetInv
<1>10. Cardinality(StartedFor(key, by)') = Cardinality(StartedFor(key, by)) + 1
  BY <1>8, <1>9, FS_AddElement
<1>11. \A k, b : k # key \/ b # by => StartedFor(k, b)' = StartedFor(k, b)
  BY <1>1, <1>3, <1>5, <1>6 DEF StartedFor, Used
<1>. QED
  BY <1>7, <1>10, <1>11

(* A request that starts a server has it in hand.                          *)
LEMMA BudgetSpawn ==
  ASSUME IInv, BudgetInv, NEW h \in Handlers, SpawnChild(h)
  PROVE  BudgetInv'
<1>1. hs[h].pc = "check" /\ hs[h].req.key \in ServerKeys /\ hs[h].port \in Ports
  BY DEF SpawnChild, At, IInv, HandlerOK, Critical
<1>2. PICK q \in UnusedPids : q = Min(UnusedPids)
  BY NextPid DEF SpawnChild
<1>3. PICK key \in ServerKeys, port \in Ports : key = hs[h].req.key /\ port = hs[h].port
  BY <1>1
<1>4. /\ IsFiniteSet(Used') /\ UNCHANGED <<sup, reaper, clock>>
      /\ Cardinality(StartedFor(key, "request")') = Cardinality(StartedFor(key, "request")) + 1
      /\ \A k, b : k # key \/ b # "request" => StartedFor(k, b)' = StartedFor(k, b)
  <2>1. PICK by \in {"request", "respawn"} : by = "request"
    OBVIOUS
  <2>2. SpawnAs(q, port, key, by)
    BY <1>2, <1>3, <2>1 DEF SpawnChild
  <2>. QED
    BY <2>1, <2>2, OneStarted DEF SpawnChild
<1>5. PICK label \in Labels : label = "record"
  BY DEF Labels
<1>6. Shapes /\ GoesWithChild(h, label, q) /\ q \in Pids
  BY <1>2, <1>5 DEF SpawnChild, IInv, GoesWithChild, UnusedPids
<1>7. PICK new : /\ Turns(h, new) /\ new.pc = label /\ new.req = hs[h].req
                 /\ new.port = hs[h].port /\ new.child = q
  BY <1>6, HandlerGetsChild
<1>8. hs'[h] = new /\ \A g \in Handlers \ {h} : hs'[g] = hs[g]
  BY <1>7 DEF Turns, IInv, Shapes
<1>9. ~Held(key) /\ Held(key)' /\ \A k : k # key => (Held(k)' <=> Held(k))
  <2>1. \A g \in Handlers : hs[g].pc \notin {"record", "insert"}
    BY <1>1, CriticalAlone DEF Critical
  <2>. QED
    BY <1>3, <1>5, <1>7, <1>8, <2>1 DEF Held
<1>10. ASSUME NEW k \in ServerKeys
       PROVE  Account(k)'
  <2>1. PICK n \in Nat, m \in Nat : /\ n = Cardinality(StartedFor(k, "request"))
                                    /\ m = Cardinality(StartedFor(k, "respawn"))
    BY StartedFinite DEF BudgetInv
  <2>2. m = Cardinality(StartedFor(k, "respawn")')
    BY <1>4, <2>1
  <2>3. Respawns(k) \in Nat /\ Respawns(k)' = Respawns(k)
    BY <1>4, <2>1, <2>2 DEF Respawns, Owed
  <2>4. (Restartable(k)' <=> Restartable(k)) /\ Charges(k)' = Charges(k)
    BY <1>4 DEF Restartable, Charges
  <2>5. Spent(k)' = Spent(k)
    <3>1. CASE k = key
      <4>1. Cardinality(StartedFor(k, "request")') = n + 1
        BY <1>4, <2>1, <3>1
      <4>. QED
        BY <1>9, <2>1, <2>4, <3>1, <4>1 DEF Spent, Live
    <3>2. CASE k # key
      <4>1. Cardinality(StartedFor(k, "request")') = n
        BY <1>4, <2>1, <3>2
      <4>. QED
        BY <1>9, <2>1, <2>4, <3>2, <4>1 DEF Spent, Live
    <3>. QED
      BY <3>1, <3>2
  <2>6. Spent(k) \in Int /\ Charges(k) \in Nat
    BY Numbers
  <2>7. clock' \in Nat /\ clock <= clock'
    BY <1>4 DEF IInv, Shapes
  <2>. QED
    BY <2>3, <2>4, <2>5, <2>6, <2>7, Settles
<1>11. \A k \in DOMAIN sup' : Spaced(sup'[k].restarts, clock')
  BY <1>4 DEF BudgetInv
<1>. QED
  BY <1>4, <1>10, <1>11 DEF BudgetInv

(* An entry in the table is the server in hand; the child it replaces, if  *)
(* there was one, has had its restarts.                                    *)
LEMMA BudgetInsert ==
  ASSUME IInv, BudgetInv, NEW h \in Handlers, InsertOwned(h)
  PROVE  BudgetInv'
<1>1. hs[h].pc = "insert" /\ hs[h].req.key \in ServerKeys
  BY DEF InsertOwned, At, IInv, HandlerOK, Critical
<1>2. PICK key, c : /\ key \in ServerKeys /\ key = hs[h].req.key
                    /\ c = NewChild(hs[h].child, hs[h].port, TRUE)
  BY <1>1
<1>3. c.spec = TRUE /\ c.restarts = <<>>
  BY <1>2 DEF NewChild
<1>4. sup' = WithChild(key, c)
  BY <1>2 DEF InsertOwned
<1>5. /\ key \in DOMAIN sup' /\ sup'[key] = c
      /\ \A k : k # key => (k \in DOMAIN sup' <=> k \in DOMAIN sup)
      /\ \A k \in DOMAIN sup : k # key => sup'[k] = sup[k]
  BY <1>4 DEF WithChild
<1>6. PICK new : Turns(h, new) /\ new.pc = "idle"
  BY HandlerIdles DEF InsertOwned
<1>7. hs'[h] = new /\ \A g \in Handlers \ {h} : hs'[g] = hs[g]
  BY <1>6 DEF Turns, IInv, Shapes
<1>8. UNCHANGED <<procs, reaper, clock>>
  BY DEF InsertOwned
<1>9. Held(key) /\ ~Held(key)' /\ \A k : k # key => (Held(k)' <=> Held(k))
  <2>1. \A g \in Handlers \ {h} : hs[g].pc \notin {"record", "insert"}
    BY <1>1, CriticalAlone DEF Critical
  <2>. QED
    BY <1>1, <1>2, <1>6, <1>7, <2>1 DEF Held
<1>10. Used' = Used /\ \A k, by : StartedFor(k, by)' = StartedFor(k, by)
  BY <1>8, SameProcsStart, StartsKept
<1>11. clock \in Nat /\ clock' \in Nat /\ clock <= clock'
  BY <1>8 DEF IInv, Shapes
<1>12. ASSUME NEW k \in DOMAIN sup'
       PROVE  Spaced(sup'[k].restarts, clock')
  <2>1. CASE k = key
    BY <1>3, <1>5, <1>11, <2>1, TableSpaced
  <2>2. CASE k # key
    BY <1>5, <1>11, <2>2, TableSpaced
  <2>. QED
    BY <2>1, <2>2
<1>13. ASSUME NEW k \in ServerKeys
       PROVE  Account(k)'
  <2>1. PICK n \in Nat, m \in Nat : /\ n = Cardinality(StartedFor(k, "request"))
                                    /\ m = Cardinality(StartedFor(k, "respawn"))
    BY StartedFinite DEF BudgetInv
  <2>2. n = Cardinality(StartedFor(k, "request"))' /\ m = Cardinality(StartedFor(k, "respawn"))'
    BY <1>10, <2>1
  <2>3. Respawns(k)' \in Nat /\ Respawns(k)' = Respawns(k)
    BY <1>8, <2>1, <2>2 DEF Respawns, Owed
  <2>4. Charges(k) \in Nat
    BY Numbers
  <2>5. /\ Charges(k)' \in Nat /\ Spent(k)' \in Int /\ Spent(k) <= Spent(k)'
        /\ Charges(k) <= Charges(k)' \/ Spent(k) < Spent(k)'
    <3>1. CASE k # key
      <4>1. (Restartable(k)' <=> Restartable(k)) /\ (Held(k)' <=> Held(k))
        BY <1>5, <1>9, <3>1 DEF Restartable
      <4>2. Charges(k)' = Charges(k)
        BY <1>5, <3>1, <4>1 DEF Charges, Restartable
      <4>. QED
        BY <2>1, <2>2, <2>4, <4>1, <4>2 DEF Spent, Live
    <3>2. CASE k = key
      <4>1. Restartable(k)' /\ Charges(k)' = 0 /\ Held(k) /\ ~Held(k)'
        BY <1>3, <1>5, <1>9, <3>2 DEF Restartable, Charges
      <4>2. Live(k)' = 1 /\ Live(k) = IF Restartable(k) THEN 2 ELSE 1
        BY <4>1 DEF Live
      <4>3. ~Restartable(k) => Charges(k) = 0
        BY DEF Charges
      <4>. QED
        BY <2>1, <2>2, <4>1, <4>2, <4>3 DEF Spent
    <3>. QED
      BY <3>1, <3>2
  <2>. QED
    BY <1>11, <2>3, <2>5, Settles, Numbers
<1>. QED
  BY <1>10, <1>12, <1>13 DEF BudgetInv

LEMMA BudgetServe ==
  ASSUME IInv, BudgetInv, NEW h \in Handlers, Serve(h)
  PROVE  BudgetInv'
BY BudgetGoes, BudgetPort, BudgetSpawn, BudgetInsert, BudgetDown DEF Serve

(* The supervision thread, where it starts nothing.                        *)
LEMMA ReaperBudget ==
  ASSUME IInv, BudgetInv, Grows, Used' \subseteq Used, TableKept, UNCHANGED <<hs, clock>>,
         NEW x \in ReaperStates, x = reaper',
         x.pc \in {"launch", "spawn"} => reaper.pc \in {"launch", "spawn"} /\ x.key = reaper.key
  PROVE  BudgetInv'
<1>1. \A k \in ServerKeys : (Held(k)' => Held(k)) /\ (Owed(k)' => Owed(k))
  BY DEF Held, Owed
<1>2. clock' \in Nat /\ clock <= clock'
  BY DEF IInv, Shapes
<1>. QED
  BY <1>1, <1>2, EasyBudget

LEMMA WithoutTable ==
  ASSUME NEW keys, sup' = Without(keys)
  PROVE  TableKept
BY DEF Without, Restrict, TableKept

LEMMA BudgetReapQuiet ==
  ASSUME IInv, BudgetInv,
         \/ \E k : RestartSkips(k) \/ RestartDrops(k)
         \/ LaunchOf \/ RespawnFails \/ RespawnRecord
  PROVE  BudgetInv'
<1>1. UNCHANGED <<hs, clock, procs>>
  BY DEF RestartSkips, RestartDrops, LaunchOf, RespawnFails, RespawnRecord
<1>2. TableKept
  BY SameTableKept, WithoutTable DEF RestartSkips, RestartDrops, LaunchOf, RespawnFails, RespawnRecord
<1>3. PICK x \in ReaperStates : x = reaper
  BY DEF IInv, Shapes
<1>4. PICK y \in ReaperStates :
        /\ y = reaper'
        /\ y.pc \in {"launch", "spawn"} => x.pc \in {"launch", "spawn"} /\ y.key = x.key
  <2>1. CASE LaunchOf /\ x.key \in DOMAIN sup /\ sup[x.key].spec
    <3>1. PICK port \in 0 .. MaxPort : port = sup[x.key].port
      BY <2>1, Constants DEF IInv, Shapes, IsTable, Children, Ports
    <3>2. PICK y : y = [x EXCEPT !.pc = "spawn"]
      OBVIOUS
    <3>3. y \in ReaperStates /\ y.key = x.key /\ y.pc = "spawn"
      BY <3>2 DEF ReaperStates
    <3>4. PICK z : z = [y EXCEPT !.port = port]
      OBVIOUS
    <3>5. z \in ReaperStates /\ z.key = x.key /\ z.pc = "spawn"
      BY <3>3, <3>4 DEF ReaperStates
    <3>6. reaper' = z /\ x.pc = "launch"
      BY <1>3, <2>1, <3>1, <3>2, <3>4 DEF LaunchOf, ReaperAt
    <3>. QED
      BY <3>5, <3>6
  <2>2. CASE RespawnFails \/ (LaunchOf /\ ~(x.key \in DOMAIN sup /\ sup[x.key].spec))
    <3>1. reaper' = BackToEach
      BY <1>3, <2>2 DEF RespawnFails, LaunchOf
    <3>2. reaper' \in ReaperStates /\ reaper'.pc = "each"
      BY <3>1, BackToEachFacts DEF IInv
    <3>. QED
      BY <3>2
  <2>3. ASSUME NEW k, RestartSkips(k) \/ RestartDrops(k)
        PROVE  \E y \in ReaperStates : y = reaper' /\ y.pc = "each"
    <3>1. x.pc = "each"
      BY <1>3, <2>3 DEF RestartSkips, RestartDrops, ReaperAt
    <3>2. PICK y : y = [x EXCEPT !.dead = x.dead \ {k}]
      OBVIOUS
    <3>3. reaper' = y
      BY <2>3, <1>3, <3>2 DEF RestartSkips, RestartDrops
    <3>. QED
      BY <3>1, <3>2, <3>3 DEF ReaperStates
  <2>4. CASE RespawnRecord
    <3>1. PICK y : y = [x EXCEPT !.pc = "setpid"]
      OBVIOUS
    <3>2. y \in ReaperStates /\ y.pc = "setpid"
      BY <3>1 DEF ReaperStates
    <3>3. reaper' = y
      BY <1>3, <2>4, <3>1 DEF RespawnRecord
    <3>. QED
      BY <3>2, <3>3
  <2>. QED
    BY <2>1, <2>2, <2>3, <2>4
<1>. QED
  BY <1>1, <1>2, <1>3, <1>4, SameProcsStart, ReaperBudget

(* A process that changes keeps what it is.                                *)
LEMMA ChangedStart ==
  ASSUME Grows, NEW some \in SUBSET Used, \A q \in Pids \ some : procs'[q] = procs[q]
  PROVE  Used' \subseteq Used
BY DEF Used

LEMMA BudgetReapOnce ==
  ASSUME IInv, BudgetInv, ReapOnce
  PROVE  BudgetInv'
<1>1. PICK gone, pids :
        /\ gone \subseteq DOMAIN sup
        /\ pids = {sup[k].pid : k \in {k \in gone : sup[k].owned}}
        /\ procs' = [q \in Pids |-> IF q \in pids THEN [procs[q] EXCEPT !.st = "gone"]
                                    ELSE procs[q]]
        /\ reaper' = [IdleReaper EXCEPT !.pc = "each", !.dead = gone]
  BY DEF ReapOnce
<1>2. pids \in SUBSET Used
  BY <1>1 DEF IInv, ChildOK
<1>3. ASSUME NEW q \in Pids
      PROVE  /\ procs'[q].key = procs[q].key /\ procs'[q].port = procs[q].port
             /\ procs'[q].by = procs[q].by /\ procs'[q].answered = procs[q].answered
             /\ procs'[q] = procs[q] \/ procs'[q].st = "gone"
             /\ q \notin pids => procs'[q] = procs[q]
  <2>1. PICK x \in ProcStates : x = procs[q]
    BY DEF IInv, Shapes, IsProcs
  <2>2. (q \in pids /\ procs'[q] = [x EXCEPT !.st = "gone"]) \/ (q \notin pids /\ procs'[q] = x)
    BY <1>1, <2>1
  <2>. QED
    BY <2>1, <2>2 DEF ProcStates
<1>4. Grows
  BY <1>3 DEF Grows, Used, Up
<1>5. Used' \subseteq Used
  BY <1>2, <1>3, <1>4, ChangedStart
<1>6. PICK dead \in SUBSET ServerKeys : dead = gone
  BY <1>1 DEF IInv, Shapes, IsTable
<1>7. PICK y \in ReaperStates : y = reaper' /\ y.pc = "each"
  <2>1. PICK x : x = [IdleReaper EXCEPT !.pc = "each"]
    OBVIOUS
  <2>2. x \in ReaperStates /\ x.pc = "each"
    BY <2>1, IdleReaperFacts DEF ReaperStates
  <2>3. PICK y : y = [x EXCEPT !.dead = dead]
    OBVIOUS
  <2>4. y \in ReaperStates /\ y.pc = "each"
    BY <2>2, <2>3 DEF ReaperStates
  <2>5. reaper' = y
    BY <1>1, <1>6, <2>1, <2>3
  <2>. QED
    BY <2>4, <2>5
<1>. QED
  BY <1>4, <1>5, <1>7, SameTableKept, ReaperBudget DEF ReapOnce

LEMMA BudgetSetPid ==
  ASSUME IInv, BudgetInv, SetPid
  PROVE  BudgetInv'
<1>1. PICK x \in ReaperStates : x = reaper
  BY DEF IInv, Shapes
<1>2. PICK k, q : k = x.key /\ q = x.child
  OBVIOUS
<1>3. q \in Pids
  BY <1>1, <1>2 DEF SetPid, ReaperAt, IInv, ReaperOK, InHand, IsServer, Used
<1>4. TableKept
  <2>1. CASE k \notin DOMAIN sup
    BY <1>1, <1>2, <2>1, SameTableKept DEF SetPid
  <2>2. CASE k \in DOMAIN sup
    <3>1. PICK old \in Children : old = sup[k]
      BY <2>2 DEF IInv, Shapes, IsTable
    <3>2. PICK c : c = Respawned(old, q) /\ c.spec = old.spec /\ c.restarts = old.restarts
      BY <1>3, RespawnedIsChild
    <3>3. sup' = WithChild(k, c)
      BY <1>1, <1>2, <2>2, <3>1, <3>2 DEF SetPid
    <3>. QED
      BY <2>2, <3>1, <3>2, <3>3 DEF WithChild, TableKept
  <2>. QED
    BY <2>1, <2>2
<1>5. PICK y \in ReaperStates : y = reaper' /\ y.pc = "each"
  BY BackToEachFacts DEF SetPid
<1>. QED
  BY <1>4, <1>5, SameProcsStart, ReaperBudget DEF SetPid

LEMMA BudgetMemoryTick ==
  ASSUME IInv, BudgetInv, NEW big, MemoryTick(big)
  PROVE  BudgetInv'
<1>1. PICK y \in ReaperStates : y = reaper' /\ y.pc = "sleep"
  BY IdleReaperFacts DEF MemoryTick
<1>2. Grows /\ Used' \subseteq Used
  <2>1. CASE MemRestart
    <3>1. PICK pids, why : /\ pids = {sup[k].pid : k \in MemKills(big)}
                           /\ why = "memory" /\ why \in Whys
      BY DEF Whys
    <3>2. procs' = Signalled(pids, why)
      BY <2>1, <3>1 DEF MemoryTick
    <3>. QED
      BY <3>1, <3>2, SignalStarts DEF IInv
  <2>2. CASE ~MemRestart
    BY <2>2, SameProcsStart DEF MemoryTick
  <2>. QED
    BY <2>1, <2>2
<1>3. TableKept
  <2>1. CASE MemRestart
    <3>1. sup' = [k \in DOMAIN sup |-> Weighed(k, big)]
      BY <2>1 DEF MemoryTick
    <3>. QED
      BY <3>1, WeighedIsChild DEF TableKept
  <2>2. CASE ~MemRestart
    BY <2>2, SameTableKept DEF MemoryTick
  <2>. QED
    BY <2>1, <2>2
<1>. QED
  BY <1>1, <1>2, <1>3, ReaperBudget DEF MemoryTick

(* The server started pays for itself: its restart has been charged.       *)
LEMMA BudgetRespawn ==
  ASSUME IInv, BudgetInv, Respawn
  PROVE  BudgetInv'
<1>1. PICK x \in ReaperStates : x = reaper
  BY DEF IInv, Shapes
<1>2. x.pc = "spawn" /\ x.key \in ServerKeys /\ x.port \in Ports
  BY <1>1 DEF Respawn, ReaperAt, IInv, ReaperOK
<1>3. PICK q \in UnusedPids : q = Min(UnusedPids)
  BY NextPid DEF Respawn
<1>4. PICK key \in ServerKeys, port \in Ports : key = x.key /\ port = x.port
  BY <1>2
<1>5. /\ IsFiniteSet(Used') /\ UNCHANGED <<sup, hs, clock>>
      /\ Cardinality(StartedFor(key, "respawn")') = Cardinality(StartedFor(key, "respawn")) + 1
      /\ \A k, b : k # key \/ b # "respawn" => StartedFor(k, b)' = StartedFor(k, b)
  <2>1. PICK by \in {"request", "respawn"} : by = "respawn"
    OBVIOUS
  <2>2. SpawnAs(q, port, key, by)
    BY <1>1, <1>3, <1>4, <2>1 DEF Respawn
  <2>. QED
    BY <2>1, <2>2, OneStarted DEF Respawn
<1>6. \A k : ~Owed(k)' /\ (Owed(k) <=> k = key)
  <2>1. reaper' = [x EXCEPT !.pc = "record", !.child = q]
    BY <1>1, <1>3 DEF Respawn
  <2>2. reaper'.pc = "record"
    BY <2>1 DEF ReaperStates
  <2>. QED
    BY <1>1, <1>2, <1>4, <2>2 DEF Owed
<1>7. clock \in Nat /\ clock' \in Nat /\ clock <= clock'
  BY <1>5 DEF IInv, Shapes
<1>8. \A k \in DOMAIN sup' : Spaced(sup'[k].restarts, clock')
  BY <1>5 DEF BudgetInv
<1>9. ASSUME NEW k \in ServerKeys
      PROVE  Account(k)'
  <2>1. PICK n \in Nat, m \in Nat : /\ n = Cardinality(StartedFor(k, "request"))
                                    /\ m = Cardinality(StartedFor(k, "respawn"))
    BY StartedFinite DEF BudgetInv
  <2>2. n = Cardinality(StartedFor(k, "request")')
    BY <1>5, <2>1
  <2>3. /\ Restartable(k)' <=> Restartable(k)
        /\ Held(k)' <=> Held(k)
        /\ Charges(k)' = Charges(k)
    BY <1>5 DEF Restartable, Held, Charges
  <2>4. Spent(k)' = Spent(k)
    BY <2>1, <2>2, <2>3 DEF Spent, Live
  <2>5. Respawns(k)' = Respawns(k)
    <3>1. CASE k = key
      <4>1. Cardinality(StartedFor(k, "respawn")') = m + 1
        BY <1>5, <2>1, <3>1
      <4>. QED
        BY <1>6, <2>1, <3>1, <4>1 DEF Respawns
    <3>2. CASE k # key
      <4>1. Cardinality(StartedFor(k, "respawn")') = m
        BY <1>5, <2>1, <3>2
      <4>. QED
        BY <1>6, <2>1, <3>2, <4>1 DEF Respawns
    <3>. QED
      BY <3>1, <3>2
  <2>6. Respawns(k) \in Nat /\ Spent(k) \in Int /\ Charges(k) \in Nat
    BY Numbers
  <2>. QED
    BY <1>7, <2>3, <2>4, <2>5, <2>6, Settles
<1>. QED
  BY <1>5, <1>8, <1>9 DEF BudgetInv

(* A restart is charged where the window leaves room, and is owed until    *)
(* its server is started.                                                  *)
LEMMA BudgetRestartAllowed ==
  ASSUME IInv, BudgetInv, NEW key \in ServerKeys, RestartAllowed(key)
  PROVE  BudgetInv'
<1>1. PICK old \in Children : /\ old = sup[key] /\ key \in DOMAIN sup
                              /\ old.spec /\ MayRestart(old)
  BY DEF RestartAllowed, IInv, Shapes, IsTable
<1>2. PICK q : q = old.pid /\ q \in Used
  BY <1>1 DEF IInv, ChildOK
<1>3. procs' = [procs EXCEPT ![q].sig = @ \ {"memory"}]
  BY <1>1, <1>2 DEF RestartAllowed
<1>4. Used' = Used /\ \A k, by : StartedFor(k, by)' = StartedFor(k, by)
  <2>1. Grows
    BY <1>2, <1>3, UnsignalFacts DEF IInv
  <2>2. PICK new : procs' = [procs EXCEPT ![q] = new]
    BY <1>2, <1>3 DEF IInv, Shapes, IsProcs, Used
  <2>3. {q} \in SUBSET Used /\ \A r \in Pids \ {q} : procs'[r] = procs[r]
    BY <1>2, <2>2 DEF IInv, Shapes, IsProcs
  <2>4. Used' \subseteq Used
    BY <2>1, <2>3, ChangedStart
  <2>. QED
    BY <2>1, <2>4, StartsKept
<1>5. /\ clock \in Nat /\ clock' = clock /\ clock' \in Nat /\ clock <= clock'
      /\ hs' = hs
  BY DEF RestartAllowed, IInv, Shapes
<1>6. PICK restarts \in Seq(Nat) : /\ restarts = Append(old.restarts, clock)
                                   /\ Len(restarts) = Len(old.restarts) + 1
  <2>1. PICK r \in Seq(Nat) : r = old.restarts
    BY DEF Children
  <2>2. Append(r, clock) \in Seq(Nat) /\ Len(Append(r, clock)) = Len(r) + 1
    BY <1>5
  <2>. QED
    BY <2>1, <2>2
<1>7. PICK c : c = [old EXCEPT !.restarts = restarts]
  OBVIOUS
<1>8. c.restarts = restarts /\ c.spec = old.spec
  BY <1>7 DEF Children
<1>9. sup' = WithChild(key, c)
  BY <1>1, <1>6, <1>7 DEF RestartAllowed, Charged
<1>10. /\ DOMAIN sup' = DOMAIN sup /\ sup'[key] = c
       /\ \A k \in DOMAIN sup : k # key => sup'[k] = sup[k]
  BY <1>1, <1>9 DEF WithChild
<1>11. reaper.pc = "each" /\ reaper'.pc = "launch" /\ reaper'.key = key
  <2>1. PICK x \in ReaperStates : x = reaper
    BY DEF IInv, Shapes
  <2>2. PICK y : y = [x EXCEPT !.dead = x.dead \ {key}]
    OBVIOUS
  <2>3. PICK z : z = [y EXCEPT !.pc = "launch", !.key = key]
    OBVIOUS
  <2>4. reaper' = z
    BY <2>1, <2>2, <2>3 DEF RestartAllowed
  <2>. QED
    BY <2>2, <2>3, <2>4 DEF ReaperStates, RestartAllowed, ReaperAt
<1>12. ASSUME NEW k \in DOMAIN sup'
       PROVE  Spaced(sup'[k].restarts, clock')
  <2>1. CASE k = key
    <3>1. Spaced(old.restarts, clock)
      BY <1>1 DEF BudgetInv
    <3>2. Spaced(restarts, clock)
      BY <1>1, <1>5, <1>6, <3>1, ChargedIsSpaced
    <3>. QED
      BY <1>5, <1>8, <1>10, <2>1, <3>2
  <2>2. CASE k # key
    BY <1>5, <1>10, <2>2, TableSpaced
  <2>. QED
    BY <2>1, <2>2
<1>13. ASSUME NEW k \in ServerKeys
       PROVE  Account(k)'
  <2>1. PICK n \in Nat, m \in Nat : /\ n = Cardinality(StartedFor(k, "request"))
                                    /\ m = Cardinality(StartedFor(k, "respawn"))
    BY <1>4, StartedFinite DEF BudgetInv
  <2>2. n = Cardinality(StartedFor(k, "request"))' /\ m = Cardinality(StartedFor(k, "respawn"))'
    BY <1>4, <2>1
  <2>3. (Restartable(k)' <=> Restartable(k)) /\ (Held(k)' <=> Held(k))
    BY <1>1, <1>5, <1>8, <1>10 DEF Restartable, Held
  <2>4. Spent(k)' = Spent(k)
    BY <2>1, <2>2, <2>3 DEF Spent, Live
  <2>5. Respawns(k) = m /\ Respawns(k)' = m + (IF k = key THEN 1 ELSE 0)
    BY <1>11, <2>1, <2>2 DEF Respawns, Owed
  <2>6. Charges(k)' = Charges(k) + (IF k = key THEN 1 ELSE 0)
    <3>1. Charges(k) \in Nat
      BY Numbers
    <3>2. CASE k = key
      <4>1. Restartable(k) /\ Charges(k) = Len(old.restarts) /\ Charges(k)' = Len(restarts)
        BY <1>1, <1>8, <1>10, <2>3, <3>2 DEF Charges, Restartable
      <4>. QED
        BY <1>6, <3>2, <4>1
    <3>3. CASE k # key
      <4>1. Charges(k)' = Charges(k)
        BY <1>10, <2>3, <3>3 DEF Charges, Restartable
      <4>. QED
        BY <3>1, <3>3, <4>1
    <3>. QED
      BY <3>2, <3>3
  <2>7. Cost' = Cost /\ Cost \in Nat /\ Spent(k) \in Int /\ Charges(k) \in Nat
    BY <1>5, Numbers DEF Cost
  <2>8. PICK w : w = Cost * Spent(k) /\ w \in Int
    BY <2>7
  <2>9. Spent(k) >= 0 /\ m <= w + Charges(k)
    BY <2>5, <2>8 DEF BudgetInv, Account
  <2>10. Respawns(k)' <= w + Charges(k)' /\ w = Cost' * Spent(k)' /\ Spent(k)' >= 0
    BY <2>1, <2>4, <2>5, <2>6, <2>7, <2>8, <2>9
  <2>. QED
    BY <2>10 DEF Account
<1>. QED
  BY <1>4, <1>12, <1>13 DEF BudgetInv

LEMMA BudgetReap ==
  ASSUME IInv, BudgetInv, Reap
  PROVE  BudgetInv'
BY BudgetReapQuiet, BudgetReapOnce, BudgetRestartAllowed, BudgetRespawn, BudgetSetPid,
   BudgetMemoryTick DEF Reap

(* The health probe, the servers, the daemon's life and time.              *)
LEMMA OthersBudget ==
  ASSUME IInv, BudgetInv, Grows, Used' \subseteq Used, TableKept, UNCHANGED <<hs, reaper>>,
         clock' \in Nat, clock <= clock'
  PROVE  BudgetInv'
<1>1. \A k \in ServerKeys : (Held(k)' => Held(k)) /\ (Owed(k)' => Owed(k))
  BY DEF Held, Owed
<1>. QED
  BY <1>1, EasyBudget

LEMMA BudgetProbe ==
  ASSUME IInv, BudgetInv, Probe
  PROVE  BudgetInv'
<1>1. /\ UNCHANGED <<hs, reaper>> /\ clock' \in Nat /\ clock <= clock'
  <2>1. UNCHANGED <<hs, reaper, clock>>
    BY DEF Probe, ProbeTargets, ProbeConnect, ProbeFold, ProbeStop, ProbeDone
  <2>. QED
    BY <2>1 DEF IInv, Shapes
<1>2. CASE ProbeTargets \/ ProbeDone
  BY <1>1, <1>2, SameProcsStart, SameTableKept, OthersBudget DEF ProbeTargets, ProbeDone
<1>3. CASE ProbeStop
  <2>1. PICK pids, why : pids = {prober.pid} /\ why = "probe" /\ why \in Whys
    BY DEF Whys
  <2>2. procs' = Signalled(pids, why)
    BY <1>3, <2>1 DEF ProbeStop
  <2>3. Grows /\ Used' \subseteq Used
    BY <2>1, <2>2, SignalStarts DEF IInv
  <2>. QED
    BY <1>1, <1>3, <2>3, SameTableKept, OthersBudget DEF ProbeStop
<1>4. ASSUME NEW t \in prober.targets, ProbeConnect(t)
      PROVE  BudgetInv'
  <2>1. PICK pids \in SUBSET Used :
          procs' = [q \in Pids |-> IF q \in pids THEN [procs[q] EXCEPT !.answered = TRUE]
                                   ELSE procs[q]]
    <3>1. PICK pids : pids = {q \in Serving : procs[q].port = t[2]} /\ pids \in SUBSET Used
      BY DEF Serving, Used
    <3>2. procs' = [q \in Pids |-> IF q \in pids THEN [procs[q] EXCEPT !.answered = TRUE]
                                   ELSE procs[q]]
      BY <1>4, <3>1 DEF ProbeConnect
    <3>. QED
      BY <3>1, <3>2
  <2>2. ASSUME NEW q \in Pids
        PROVE  /\ procs'[q].key = procs[q].key /\ procs'[q].port = procs[q].port
               /\ procs'[q].by = procs[q].by /\ procs'[q].st = procs[q].st
               /\ procs[q].answered => procs'[q].answered
    <3>1. PICK x \in ProcStates : x = procs[q]
      BY DEF IInv, Shapes, IsProcs
    <3>2. procs'[q] = [x EXCEPT !.answered = TRUE] \/ procs'[q] = x
      BY <2>1, <3>1
    <3>. QED
      BY <3>1, <3>2 DEF ProcStates
  <2>3. Grows /\ Used' \subseteq Used
    BY <2>2 DEF Grows, Used, Up
  <2>. QED
    BY <1>1, <1>4, <2>3, SameTableKept, OthersBudget DEF ProbeConnect
<1>5. CASE ProbeFold
  <2>1. PICK k, ok : k = prober.key /\ ok = prober.ok /\ ok \in BOOLEAN
    BY DEF IInv, Shapes, ProberStates
  <2>2. TableKept
    <3>1. CASE k \notin DOMAIN sup
      BY <1>5, <2>1, <3>1, SameTableKept DEF ProbeFold
    <3>2. CASE k \in DOMAIN sup
      <4>1. PICK c \in Children : c = sup[k]
        BY <3>2 DEF IInv, Shapes, IsTable
      <4>2. PICK d \in Children :
               /\ d = Probed(c, ok)
               /\ d.pid = c.pid /\ d.port = c.port /\ d.spec = c.spec /\ d.restarts = c.restarts
               /\ d.armed => c.armed \/ ok
        BY <2>1, ProbedIsChild
      <4>3. sup' = WithChild(k, d)
        BY <1>5, <2>1, <3>2, <4>1, <4>2 DEF ProbeFold
      <4>. QED
        BY <3>2, <4>1, <4>2, <4>3 DEF WithChild, TableKept
    <3>. QED
      BY <3>1, <3>2
  <2>. QED
    BY <1>1, <1>5, <2>2, SameProcsStart, OthersBudget DEF ProbeFold
<1>. QED
  BY <1>2, <1>3, <1>4, <1>5 DEF Probe

LEMMA BudgetServers ==
  ASSUME IInv, BudgetInv, NEW q \in Pids, Bind(q) \/ Hang(q) \/ Exit(q)
  PROVE  BudgetInv'
<1>1. q \in Up
  BY DEF Bind, Hang, Exit, Up
<1>2. PICK st \in {"serving", "hung", "zombie", "gone"} : procs' = [procs EXCEPT ![q].st = st]
  BY DEF Bind, Hang, Exit
<1>3. PICK x \in ProcStates : x = procs[q]
  BY DEF IInv, Shapes, IsProcs
<1>4. PICK y : y = [x EXCEPT !.st = st]
  OBVIOUS
<1>5. /\ y.st = st /\ y.key = x.key /\ y.port = x.port /\ y.by = x.by
      /\ y.sig = x.sig /\ y.answered = x.answered
  BY <1>4 DEF ProcStates
<1>6. procs'[q] = y /\ \A r \in Pids \ {q} : procs'[r] = procs[r]
  BY <1>2, <1>3, <1>4 DEF IInv, Shapes, IsProcs
<1>7. Grows /\ Used' \subseteq Used
  BY <1>1, <1>3, <1>5, <1>6 DEF Grows, Used, Up
<1>8. UNCHANGED <<sup, hs, reaper, clock>> /\ clock' \in Nat /\ clock <= clock'
  BY DEF Bind, Hang, Exit, IInv, Shapes
<1>. QED
  BY <1>7, <1>8, SameTableKept, OthersBudget

(* A daemon's death ends every account: what its children were owed is     *)
(* taken to be spent.                                                      *)
LEMMA BudgetDaemonDies ==
  ASSUME IInv, BudgetInv, DaemonDies
  PROVE  BudgetInv'
<1>1. hs' = [h \in Handlers |-> IdleHandler] /\ IdleHandler.pc = "idle"
  BY DEF DaemonDies, IdleHandler
<1>2. DOMAIN sup' = {} /\ reaper'.pc = "sleep"
  BY IdleReaperFacts DEF DaemonDies
<1>3. \A k \in ServerKeys : (Held(k)' => Held(k)) /\ (Owed(k)' => Owed(k))
  BY <1>1, <1>2 DEF Held, Owed
<1>4. Grows /\ Used' \subseteq Used
  BY OrphanFacts DEF Grows, Used, Up
<1>5. TableKept
  BY <1>2 DEF TableKept
<1>6. clock' \in Nat /\ clock <= clock'
  <2>1. clock' = clock
    BY DEF DaemonDies
  <2>. QED
    BY <2>1 DEF IInv, Shapes
<1>. QED
  BY <1>3, <1>4, <1>5, <1>6, EasyBudget

LEMMA BudgetDaemonBoots ==
  ASSUME IInv, BudgetInv, DaemonBoots
  PROVE  BudgetInv'
<1>1. \A k \in DOMAIN sup' : \E q, p : sup'[k] = NewChild(q, p, FALSE)
  BY DEF DaemonBoots
<1>2. TableKept
  BY <1>1 DEF NewChild, TableKept
<1>3. UNCHANGED <<procs, hs, reaper, clock>> /\ clock' \in Nat /\ clock <= clock'
  BY DEF DaemonBoots, IInv, Shapes
<1>. QED
  BY <1>2, <1>3, SameProcsStart, OthersBudget

LEMMA BudgetNext ==
  ASSUME IInv, BudgetInv, [Next]_vars
  PROVE  BudgetInv'
<1>1. CASE UNCHANGED vars
  <2>1. UNCHANGED <<sup, hs, reaper, procs, clock>>
    BY <1>1 DEF vars
  <2>2. clock' \in Nat /\ clock <= clock'
    BY <2>1 DEF IInv, Shapes
  <2>. QED
    BY <2>1, <2>2, SameProcsStart, SameTableKept, OthersBudget
<1>2. CASE Tick
  <2>1. UNCHANGED <<sup, hs, reaper, procs>> /\ clock' \in Nat /\ clock <= clock'
    BY <1>2 DEF Tick, IInv, Shapes
  <2>. QED
    BY <2>1, SameProcsStart, SameTableKept, OthersBudget
<1>3. CASE Next
  BY <1>2, <1>3, BudgetServe, BudgetReceive, BudgetReap, BudgetProbe, BudgetDaemonDies,
     BudgetDaemonBoots, BudgetServers DEF Next
<1>. QED
  BY <1>1, <1>3

LEMMA BudgetInit == Init => BudgetInv
<1> SUFFICES ASSUME Init
             PROVE  BudgetInv
  OBVIOUS
<1>1. Used = {} /\ DOMAIN sup = {}
  BY DEF Init, Used, NoProc
<1>2. IsFiniteSet(Used)
  BY <1>1, FS_EmptySet
<1>3. ASSUME NEW k \in ServerKeys
      PROVE  Account(k)
  <2>1. ~Restartable(k) /\ ~Held(k) /\ ~Owed(k)
    BY <1>1 DEF Restartable, Held, Owed, Init, IdleHandler, IdleReaper
  <2>2. \A by : StartedFor(k, by) = {}
    BY <1>1 DEF StartedFor
  <2>3. Respawns(k) = 0 /\ Spent(k) = 0 /\ Charges(k) = 0
    BY <2>1, <2>2, FS_EmptySet DEF Respawns, Spent, Live, Charges
  <2>4. Cost \in Nat
    BY CostIsNatural DEF Init
  <2>5. Cost * 0 = 0
    BY <2>4
  <2>. QED
    BY <2>3, <2>5 DEF Account
<1>. QED
  BY <1>1, <1>2, <1>3 DEF BudgetInv

(* The books bound the respawns: who has a server in the table or in hand  *)
(* has not spent its request.                                              *)
LEMMA BooksBound ==
  ASSUME IInv, BudgetInv, NEW k \in ServerKeys
  PROVE  Cardinality(StartedFor(k, "respawn"))
           <= Cost * Cardinality(StartedFor(k, "request"))
<1>1. PICK n \in Nat, m \in Nat : /\ n = Cardinality(StartedFor(k, "request"))
                                  /\ m = Cardinality(StartedFor(k, "respawn"))
  BY StartedFinite DEF BudgetInv
<1>2. PICK b, u, c : b = Cost /\ u = Spent(k) /\ c = Charges(k)
  OBVIOUS
<1>3. b \in Nat /\ u \in Nat /\ c \in Nat /\ c <= b
  BY <1>2, Numbers DEF BudgetInv, Account
<1>4. m <= b * u + c
  <2>1. m <= Respawns(k) /\ Respawns(k) \in Nat
    BY <1>1 DEF Respawns
  <2>2. Respawns(k) <= b * u + c /\ b * u + c \in Nat
    BY <1>2, <1>3 DEF BudgetInv, Account
  <2>. QED
    BY <2>1, <2>2, <1>3
<1>5. u <= n /\ (c = 0 \/ u < n)
  BY <1>1, <1>2 DEF Spent, Live, Charges
<1>6. m <= b * n + 0
  <2>1. PICK z \in Nat : z = 0
    OBVIOUS
  <2>2. m <= m /\ b <= b /\ (c <= z \/ (u < n /\ c <= b))
    BY <1>3, <1>5, <2>1
  <2>. QED
    BY <1>3, <1>4, <1>5, <2>1, <2>2, Covered
<1>. QED
  BY <1>1, <1>2, <1>3, <1>6

(* may_restart charges a restart only where the window has room, and every *)
(* respawn, the one after a memory kill too, has been charged: what        *)
(* requests started is respawned no more often than the budget of the      *)
(* windows since the start allows, for any clients, failing saves, stops,  *)
(* probes, kills and daemon deaths.                                        *)
THEOREM RestartsAreBoundedHolds == Spec => []RestartsAreBounded
<1>1. BudgetInv /\ IInv /\ [Next]_vars => BudgetInv'
  BY BudgetNext
<1>2. BudgetInv /\ IInv => RestartsAreBounded
  <2> SUFFICES ASSUME BudgetInv, IInv, NEW k \in ServerKeys
               PROVE  Cardinality({q \in Used : procs[q].key = k /\ procs[q].by = "respawn"})
                        <= MaxRestarts * (1 + clock \div Window)
                           * Cardinality({q \in Used : procs[q].key = k /\ procs[q].by = "request"})
    BY DEF RestartsAreBounded
  <2>. QED
    BY BooksBound DEF StartedFor, Cost
<1>. QED
  BY <1>1, <1>2, BudgetInit, InvariantHolds, PTL DEF Spec
=============================================================================
