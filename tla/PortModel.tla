----------------------------- MODULE PortModel ------------------------------
(***************************************************************************)
(* The port registry's data and the pure operations on it:                 *)
(* crates/devkit-ports/src/registry.rs, `Data` and its methods, and the    *)
(* closures that the `_with` functions commit.                             *)
(*                                                                         *)
(* A registry is a function from port numbers to rows.  What the code      *)
(* learns from system calls (directories that exist, processes that exist, *)
(* ports that accept) is passed in as sets.  Log file names are left out.  *)
(***************************************************************************)
EXTENDS Integers, SequencesExt, FiniteSetsExt

CONSTANTS
  Worktrees,  \* holders: worktree root paths
  Apps,       \* app names
  Roles,      \* workspace, baseline
  Pids,       \* process ids, numbered in the order they are handed out
  NoPid,      \* Entry.pid = None
  MaxPort,    \* bound on the port numbers in use (u16::MAX in the code)
  Grace       \* RESERVATION_GRACE_SECS, in ticks of the clock

ASSUME PortModelAssumption ==
  /\ MaxPort \in Nat \ {0}
  /\ Grace \in Nat \ {0}
  /\ Pids \subseteq Nat
  /\ NoPid \notin Pids

Ports == 1..MaxPort

ServerKeys == [holder : Worktrees, app : Apps, role : Roles]

Rows == [key : ServerKeys, pid : Pids \cup {NoPid}, ts : Nat]

NoRows == [p \in {} |-> 0]

IsPortRegistry(d) ==
  /\ d = [p \in DOMAIN d |-> d[p]]
  /\ DOMAIN d \subseteq Ports
  /\ \A p \in DOMAIN d : d[p] \in Rows

(* A row before its server is spawned.                                     *)
Reservation(key, now) == [key |-> key, pid |-> NoPid, ts |-> now]

WithRow(d, p, row) == [q \in DOMAIN d \cup {p} |-> IF q = p THEN row ELSE d[q]]

(* Rows whose worktree is gone, whose process is gone, or whose pid-less   *)
(* reservation is past its grace with nothing accepting on the port.       *)
DeadPorts(d, now, dirs, alive, open) ==
  {p \in DOMAIN d :
      ~ /\ d[p].key.holder \in dirs
        /\ IF d[p].pid # NoPid THEN d[p].pid \in alive
           ELSE p \in open \/ now - d[p].ts < Grace}

(* release_ports, and the removal loop of a prune: by number, whatever row *)
(* stands there now.                                                       *)
ReleasePorts(d, ports) == Restrict(d, DOMAIN d \ ports)

HolderPorts(d, holder, roles) ==
  {p \in DOMAIN d : d[p].key.holder = holder /\ d[p].key.role \in roles}

(* The ports on which `key` has a row; the code takes the lowest.          *)
Holds(d, key) == {p \in DOMAIN d : d[p].key = key}

(* Stands for the panic of a search that went past the last port.          *)
NoPort == MaxPort + 1

(* First port from `base` up that has no row and accepts no connection.    *)
NextFree(d, base, open) ==
  LET free == {p \in base..MaxPort : p \notin DOMAIN d /\ p \notin open}
  IN  IF free = {} THEN NoPort ELSE Min(free)

(* alloc_one, as the pair of the port and the registry with its row.       *)
AllocOne(d, key, base, open, now) ==
  IF Holds(d, key) # {} THEN [port |-> Min(Holds(d, key)), rows |-> d]
  ELSE LET p == NextFree(d, base, open)
       IN  [port |-> p, rows |-> WithRow(d, p, Reservation(key, now))]

(* Mutant: the second look at `holds` under the lock is left out.          *)
CommitOneForgetful(d, key, base, port, open, now) ==
  IF port \in DOMAIN d THEN AllocOne(d, key, base, open, now)
  ELSE [port |-> port, rows |-> WithRow(d, port, Reservation(key, now))]

(* One app of the commit closure of alloc_with: what was chosen outside    *)
(* the lock is only taken if its port still has no row.                    *)
CommitOne(d, key, base, port, open, now) ==
  IF Holds(d, key) # {} \/ port \in DOMAIN d
  THEN AllocOne(d, key, base, open, now)
  ELSE [port |-> port, rows |-> WithRow(d, port, Reservation(key, now))]

(* A request list is a sequence of [key, base]; ports are picked in order. *)
ChoosePorts(d, reqs, open, now) ==
  FoldLeft(LAMBDA acc, r :
             LET a == AllocOne(acc.rows, r.key, r.base, open, now)
             IN  [rows |-> a.rows, ports |-> Append(acc.ports, a.port)],
           [rows |-> d, ports |-> <<>>], reqs).ports

(* Mutant: the chosen ports are inserted without looking at the registry.  *)
CommitPortsBlind(d, reqs, chosen, open, now) ==
  FoldLeft(LAMBDA acc, i :
             [rows  |-> WithRow(acc.rows, chosen[i], Reservation(reqs[i].key, now)),
              ports |-> Append(acc.ports, chosen[i])],
           [rows |-> d, ports |-> <<>>], [i \in DOMAIN reqs |-> i])

(* The commit closure of alloc_with.                                       *)
CommitPorts(d, reqs, chosen, open, now) ==
  FoldLeft(LAMBDA acc, i :
             LET a == CommitOne(acc.rows, reqs[i].key, reqs[i].base, chosen[i], open, now)
             IN  [rows |-> a.rows, ports |-> Append(acc.ports, a.port)],
           [rows |-> d, ports |-> <<>>], [i \in DOMAIN reqs |-> i])

(* record_pid re-creates a missing row and takes over a present one; only  *)
(* a re-created row gets a new timestamp.                                  *)
RecordPid(d, port, key, pid, now) ==
  WithRow(d, port, [key |-> key, pid |-> pid,
                    ts  |-> IF port \in DOMAIN d THEN d[port].ts ELSE now])

(* The row already tracks a live process for this very key: such a server  *)
(* is reported, not spawned again.                                         *)
ExistingServer(d, port, key, alive) ==
  /\ port \in DOMAIN d
  /\ d[port].key = key
  /\ d[port].pid \in alive
=============================================================================
