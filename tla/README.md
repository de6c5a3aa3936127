# TLA+ verification of devkit

devkit is a Rust workspace of command-line tools that let several people, agent
sessions and their sub-agents share one machine's checkouts: they claim files
(`devkit-locks`), reserve TCP ports and run dev servers on them
(`devkit-ports`), compare their work with a shared baseline checkout, keep a todo
list per ticket (`devkit-todo`), and may be served by one optional daemon
(`devkitd`) that owns the registries while it runs.
This directory holds TLA+ models of the part of it that is concurrent and
stateful, the TLC runs that check them and the TLAPS proofs about them.
`PROJECT.json` maps every definition to the lines it models and lists the runs,
mutants, findings, hazards and theorems.

## Inventory

| component | state | operations | interacts with |
|---|---|---|---|
| document store (`devkit-common/src/store.rs`) | a JSON file, its lock file, a temp file | `with_lock`, `with_lock_strict`, `load`, `try_load`, `save`, `with_file_lock_for` | every registry |
| lock registry (`devkit-locks`) | rows (root, path) -> holder, pid, ts, ttl | acquire, check, check_covering, release, release_all, release_prefix, status, prune, write_decide | store, gate, daemon |
| registry gate (`devkitd.lock`) | an advisory lock, shared by direct writers, exclusive for a daemon | `FlockStore::commit`, daemon start and exit | both registries |
| daemon (`devkitd/main.rs`) | in-memory registries, live connections, supervised children, shutdown flag | start, serve, idle exit, shutdown, adoption | both registries, supervisor |
| port registry (`devkit-ports/src/registry.rs`) | rows port -> app, holder, role, pid, ts | alloc, record_pid, release, prune, snapshot | OS processes and sockets |
| supervisor (`devkitd/supervisor.rs`, `server.rs`) | table of children with restart history and probe counters | supervise, down, reap, restart, respawn, probe | port registry, processes |
| todo list (`devkit-todo`, `devkit-todo-builtin`, `devkit todo`) | todos with status, claimant, parent, blockers; the next id; a claim log beside the file | start, stop, done, cancel, undone, take over, block, unblock, move, add, purge, prune, release at a session's end, append to the log | document store |
| todo plan (`devkit-todo/src/graph.rs`) | none: a list and a cap in, batches out | `plan`, `is_ready`, `cycle_through`, `on_cycle` | todo list |
| replica and queue (`devkit-todo-taskchampion`, `todo/queue.rs`, `todo/sync.rs`) | a replica database, a queue file, two marker files, three lock files | a hook's queued write, drain, a command's write, background and foreground sync | a sync server |
| ticket sync (`todo/tickets.rs`, `todo/push.rs`, `todo/ticket_event.rs`) | a todo's kind and `synced_status`, the ticket's status and whether its issue is closed | sync, status push, detached ticket events | todo list, a tracker |
| baseline worktrees (`devkit/baseline/`, `run/mod.rs`, `issue/end.rs`) | one tree per fork point with a marker, a pin in each worktree's record, a lock per slot and one for the directory | `devrun up`, `devrun down`, `devrun baseline prune`, `workspace end` | port registry, git |
| everything else | none shared | shell-command analysis and guards, configuration, templates, secrets, git and worktrees, tracker and forge clients, docs, MCP, timing | external programs and services |

How the parts meet. A command first tries the daemon's socket. If one answers,
the request is run by a connection thread on the daemon's memory, and the file
is written through. If none answers, the command takes the gate shared and
without waiting, then the registry's data flock, and does the same
read-modify-write on the file. The daemon takes the gate exclusive at start, so
the two paths exclude each other. The port registry rides on the same store but
probes the operating system (does the pid exist, does the port accept, does the
worktree exist) on a snapshot *before* its commit, and spawns servers between
two commits. In the daemon the supervision thread, the health-probe thread and
the connection threads share one table of children behind a mutex that none of
them keeps while it spawns, connects or commits. A todo command is a sequence of
store calls, each under the store's file lock and none across two of them; a
replica adds a second process, detached, that carries writes to a server; a
ticket adds a tracker that nobody locks and that people use at the same time.

What is hard to get right, and to test, and the property each calls for:

- **Overlapping claims** on nested paths by holders on one session line, with
  leases that lapse, anchor pids that die and a clock read before the commit:
  no two sessions in one region, nobody's live row taken.
- **Two write paths to one file**, either of which may be killed or fail between
  any two steps: the file is always whole, memory follows it, an answer is true,
  nothing happens twice, nobody waits for ever.
- **Path text against path meaning**: string prefix tests must be component
  prefix tests, and one file must have one key.
- **Probe first, lock later** in the port registry: what a commit does with a
  verdict that is stale by then.
- **Supervision races**: requests, crashes, respawns, memory kills and hung
  verdicts on the same key, each a sequence of short critical sections.
- **Restart**: a daemon that dies and a successor that adopts what the file says.
- **Check, then edit** in the todo commands: a claimant judged gone, an edge that
  closed no cycle, a list of prunable todos, all read in an earlier call than the
  edit they justify; and a claim log that is appended after the lock is gone.
- **Handing over work between processes** in the replica: whoever gives up on a
  lock relies on its holder to look once more.
- **Two sides of a ticket** changed at once, with calls that fail half way: what
  may be written over, and what a second attempt still has to ask.
- **Counting references by looking**: a baseline is shared by the worktrees whose
  records name it, and every command that builds, stops or removes one decides
  from a scan of those records, while others build, rebase, end or are killed.
- **Scheduling**: ranks, batches, caps and the longest chain over a graph with
  cycles and with todos that are closed, missing or not offered.

`PROJECT.json` "hazards" lists these one by one at the line where they bite.

## Modules

| module | models | extends |
|---|---|---|
| `LockModel` | rows, leases, anchors, holder lines, overlap; the pure operations of `model.rs` | |
| `LockRegistry` | the registry as promised: one atomic step per `*_with` function of `store.rs` | `LockModel` |
| `LockRegistryProofs` | lemmas about paths, holders and the pure operations; theorems about `LockRegistry` | `LockRegistry`, `TLAPS` |
| `LockService` | file, temp file, flock, gate, daemon threads, kills, failed saves | `LockModel`; instantiates `LockRegistry` |
| `LockServiceProofs` | theorems about `LockService`, the refinement included | `LockService`, `TLAPS`; instantiates `LockRegistryProofs` |
| `PathKeys` | path arguments to keys and the string tests on keys, on characters | |
| `PortModel` | port rows, dead rows, choosing and committing ports, recording a pid | |
| `PortRegistry` | concurrent clients of the port registry with the servers they start | `PortModel` |
| `PartsProofs` | theorems about `PathKeys` and `PortRegistry` | `PathKeys`, `PortRegistry`, `TLAPS` |
| `Supervision` | the daemon's handlers, reaper and prober over the port registry | `PortModel` |
| `SupervisionProofs` | theorems about `Supervision` | `Supervision`, `TLAPS` |
| `TodoModel` | holders, the transition rule, links, prunable and removable todos | |
| `TodoStore` | commands and session hooks over the built-in store and its claim log | `TodoModel` |
| `TodoPlan` | the pure scheduling algorithms over a list of todos | `TodoModel` |
| `TodoStoreProofs` | theorems about `TodoStore` and `TodoPlan` | `TodoStore`, `TodoPlan`, `TLAPS` |
| `ReplicaSync` | hook queue, drain, markers, syncs and the replica lock | |
| `ReplicaSyncProofs` | theorems about `ReplicaSync` | `ReplicaSync`, `TLAPS` |
| `TicketSync` | one ticket, its todo, syncs, pushes and detached events | |
| `TicketSyncProofs` | theorems about `TicketSync` | `TicketSync`, `TLAPS` |
| `Baseline` | baseline trees, pins and locks under up, down, end and prune | |
| `BaselineProofs` | theorems about `Baseline` | `Baseline`, `TLAPS` |
| `MCParts` | `PathKeys`, `TodoPlan` and `PortRegistry` side by side in one run | `MCPortRegistry`, `PathKeys`, `TodoPlan` |
| other `MC*` | instances for TLC | the module they name |

### LockModel and LockRegistry

A path is the sequence of its components (`.` is `<<>>`) and a holder id the
sequence of its segments (`session/agent`); `PathKeys` shows that this loses
nothing. `locks` is `Data.locks`; the root and path a row repeats from its key,
its note and the age reported with a conflict are left out. `AcquireWith`,
`WriteDecideWith`, `ReleaseWith`, `ReleaseAllWith`, `ReleasePrefixWith` and
`PruneWith` are the closures the functions of the same names commit, prune
included. Two things are deliberately not atomic: `now` may be up to `MaxLag`
older than the clock (it is read before the commit waits for its lock), and the
liveness of an anchor pid is asked row by row, so the prune and the operation of
one commit may see different sets of processes (`A`, `B`) in which an exited pid
still counts.

### LockService

A *writer* is a client process (`cli`) or the daemon's thread serving that client
(`srv`). `phase[w]` is where it is: a client goes `idle`, `connect`, and then
either `waiting` for its thread, or `direct`, `stamped` (clock and snapshot
read), `gated` (gate held shared), `ready` (flock held, closure run), and through
`torn`, `full`, `renamed` (the three steps of `store::write`) to `done`; it may
also end `refused` by the gate, `failed` to save, `lost` with its daemon or
`killed`. A thread goes `asked`, `stamped`, `ready` (mutex held) and through the
same three steps. `dstate` is the daemon's life from taking the gate to its exit.
`commits` is a history variable: how often a request reached the file.
Every process may be killed between any two steps; kernel locks go with it.

`ImplementsRegistry` is the refinement: with `locks <- Load(file)`, every step
is one step of `LockRegistry` or leaves the registry alone.

Abstractions. The clock and the look at the file before a `check` or a `prune` on
the direct path are one step: a later look with the earlier time only finds fewer
dead rows. A successor daemon does not start while the process of a predecessor
that released the gate still exists. A document is missing, torn or whole; the
salvage of documents with another schema is not modelled.

### PathKeys

The one module on characters. The two variables are two path arguments, grown a
component at a time; `NormalizeUnderRoot` and the string tests are those of
`lib.rs` and `model.rs`, and the reference definitions are the file a path
denotes after cleaning and the component prefix test. Resolving symbolic links is
left out: it needs a file system. `OneKeyPerFile` is stated for arguments that
never climb above the root: `normalize_under_root` strips the root first and then
lets `..` pop an empty list, so `<root>/../x` gets the key `x`, although its comment
says it errors for a path that is not under the root.

### PortModel and PortRegistry

`rows` is `ports.json`, and a commit of the store is one step, which is what
`LockService` is about. `pc[c]` is where a client is: `alloc` and `grant` are
`alloc_with` before and under the lock, `read` and `prune` are `snapshot_with` or
`prune_with` before and under it, `spawn` and `record` alternate in `launch_with`,
`down` and `release` are one commit each. `picked`, `view`, `dead`, `todo` and `child`
are the locals that survive between those steps and go stale. Where the commit of a
`snapshot_with` fails, the client goes on with its `view` less the dead rows and
nothing is written; every other commit that fails ends the command, as `ClientDies`
does. `procs` are the
servers; a server that hangs and one that exited unreaped look the same to the
registry and are both `hung`. The search for a free port panics where none is left
(`NoPort`); a client whose search would, before the lock or under it, takes no step
but to die.

### Supervision

A step is what a thread does under one acquisition of the table's mutex or in one
commit. `hs[h]` is a connection thread, `reaper` and `prober` the two background
threads, with the locals each carries from one critical section to the next;
`spawning` is the mutex that is held across steps; `sup` is
`Supervisor.children`. Daemon death loses the table and hands the servers to
init; `DaemonBoots` adopts what the registry says. `wanted`, and `by`, `sig` and
`answered` of a process, are history variables. The one-shot memory warning,
control groups, `Tail` and logs are left out, and the requests that only call a
registry function (`Alloc`, `RecordPid`, `Release`, `ReleasePorts`, `Prune`) are
in `PortRegistry`. `HasPort` keeps `Choose` from a base above which no port is
left: there the code's search leaves `u16` and panics (see the gaps). `Requests` is
any set of the requests the protocol carries to these handlers (`RequestKinds`).

### TodoModel and TodoStore

A todo keeps what a rule reads: its status with the claimant, its parent and its
blockers. `Transition` and `TakeOver` are the two functions every status change of
every backend goes through. In `TodoStore` a call of the store is one step, since
it holds the file lock throughout; `proc[p]` is a command between two such calls,
with what it read and has not used yet: the claimant it judged gone (`from`), the
edges it checked (`edges`), the ids a person confirmed (`ids`), the events it has
still to append (`events`). `log[t]` is the event the log's reader ends on after
sorting, `life` and `endAt` what the reader makes of a session; `lostAt` is a
history variable, the newest event that a killed command never appended.

Abstractions. Text, order and node of a todo are left out, and with them the edits
that change nothing else (`Describe`, `Relocate`, `Reorder`), as is what a role or a
scope hides from a listing. The tracker is a holder; what it decides is in
`TicketSync`. Silence of a session is a choice, made only where somebody could ask.

### TodoPlan

The variables are the inputs of a call, grown by one link, status or withheld todo
at a time, so that every list within the bound is met. A todo's order and id are
compared one after the other in the code and are one number here; a batch is a set,
its order is layout. `RanksOf`, the batches, the cap of `--agents`, the reported cycle
and the critical path follow `graph.rs`; the reference definitions (all chains,
all cycles by reachability, the ready todos) are independent of them.

### ReplicaSync

`lock` holds the three file locks: `sync.lock` over a sync run, the drain lock over
the queue, the replica lock over a change or a round trip. A process slot goes on as
the background sync it starts, which is a detached process in the code. Writes are
numbered; `queue`, `replica` and `server` are the places a write can be. A hook may
give up on the replica lock; a round trip may fail; any process may be killed, its
locks going with it. A stop hook drains the queue and starts no sync, so what it
applies waits for the next write; `stopApplied` names those writes and the
properties except them.

### TicketSync

One ticket. Each call to the tracker and to the store is a step, and between two of
them anybody may move the ticket. `config` chooses between a GitHub project, whose
status field and open/closed issue are two calls, and a tracker with one status, and
whether statuses are pushed at all. `half` remembers a push that wrote and did not
finish, `raced` the syncs that had already taken their last look when the status
moved: both are history variables for the properties. Left out: a GitHub tracker
without `[github] project`, the reason given with a close, pushes of descriptions and
links, blockers in other repositories, ticket hierarchy and selection rules.
`moved_since` compares the whole status, with whose it is (`tickets.rs:316`); the model
keeps the kind, so a todo of the kind seen may count as moved, unless it is pending,
which has no holder.

### Baseline

`trees[p]` is a slot: no directory, an unmarked one, the commit its marker names, or
a damaged marker. `records[w]` is what the record of a worktree pins; the references
are computed from it each time, as in the code, and a record or a tree that cannot
be read makes a scan blind. `cmds[c]` is a command between two steps: an up goes
through `ensure`, `clear`, `create`, `build` and `pin` under the lock of its slot,
then through `release` and `stop` under the lock of the one it left, then `launch`;
an end goes through `release`, `stop`, `remove`, and with `snapshot`, `dir`, `sweep`,
`wait` and `reclaim` drops its reference; a prune starts at `dir`; a down is
`release` and `stop`. Taking a lock is one step with the first read under it. What
is stale when used is kept with the command: the slot that named the lock, the pin
to be replaced, the rows and the scan of a sweep.

Adding and removing a tree is not atomic. `git worktree add` and `remove` may fail or
run out of time half way (`devkit-git/src/backend.rs`), and `remove_dir_all` may too:
`Unfinished` is what they may leave, the tree, a part of it without its marker, or
nothing. A rebuild that could not clear its slot goes on to the `create` that git then
refuses, because both errors are dropped (`baseline/mod.rs:341`). A command that is
killed while git works for it may leave that git behind: it is then at `adding` or
`removing`, holds no lock, and `GitGoesOn` takes or brings files at its slot whenever
it likes, whoever works there by then.

`strayed`, `broken` and `disturbed` are history variables for the exceptions the
properties name. `broken` holds the slots whose marker was damaged, whose marker
outlasted other files in a removal cut short, or whose git outlived its command; a
slot leaves it when its tree is added afresh while no record names it and no such git
is left.

Left out: trees git has no registration for, dry runs and the listings, servers that
exit by themselves, a person's confirmed `down` of another worktree's servers, a git
listing that fails, and hooks that run devkit again. Git locks, local edits and a
process inside the tree are a choice to leave the tree alone. Also left out are
commands run from inside a baseline tree: an `up` there launches without `ensure` and
without a pin (`run/mod.rs:1074`), and a `down` there takes the servers of the tree for
its own and stops them with no slot lock and no scan for other worktrees
(`run/mod.rs:1400`), so `OthersServersStand` does not speak of it. So is what prep
commands and hooks of a killed build go on to write: only git is followed past the end
of its command.

## Runs

| run | properties | what it shows |
|---|---|---|
| `lock_registry` | `OneLinePerRegion`, `WriteExclusion`, `CoveringIsExact`, `NoTheft` | overlapping rows stay on one session line, two sessions are never both entitled to overlapping writes, `check_covering` predicts exactly whether a fresh name can be claimed, and without `--force` nobody takes or reshapes a live row that is not its own or a sub-agent's |
| `lock_service` | `MemoryIsFile`, `FileWhole`, `AnswersTruthful`, `ImplementsRegistry` | both write paths, with kills and failed saves, keep one whole file in step with memory, answer truthfully and implement the atomic registry |
| `lock_service_live` | `EveryRequestEnds` | no client waits for ever, however the daemon ends |
| `parts` | `TextTestsArePrefixTests`, `OneKeyPerFile`, `PlanIsASchedule`, `CriticalIsLongest`, `CycleCheckIsExact`, `AllocKeepsRows`, `AllocIsIdempotent` | three small parts that share nothing. Paths: the text tests mean what `LockModel` says and arguments share a key exactly when they name one file. Plans: a plan is a complete schedule within its cap that starts with what is ready, its critical path is a longest chain, and the cycle check finds exactly the cycles. Ports: an allocation disturbs no row and adds at most one per key, although its probe ran before its lock |
| `supervise_stop` | `TypeOK`, `OnlyReadyIsJudged`, `MemoryKillIsRespawned` | with failing saves, probes, crashes and memory kills, `spawning` is held exactly over its section, a server is judged hung only once its key has answered a probe, and a memory kill never ends with the child given up for want of budget |
| `supervise_restart` | `OneServerPerKey`, `RestartsAreBounded`, `DeadChildIsHandled` | concurrent requests for a key start one server, restarts stay in the budget of each window, and a dead child is respawned or dropped, through daemon death and adoption |
| `todo_store` | `TypeOK`, `LogTellsClaims`, `NewTodosAreUnknown`, `ClaimsAreRespected`, `PruneKeepsNeeded`, `CyclesNeedARace` | whatever happened between a check and its edit, a claim passes only to whom it may, a prune keeps what open todos need, a new todo inherits nothing from a removed one, and the log ends on the claims the store holds; only two crossing blocks close a cycle |
| `replica_sync` | `LandsInOrder`, `NothingLeftBehind`, `EveryWriteIsSettled` | hook writes reach the replica in the order they were queued, nobody leaves a write behind for want of another look, and every write is sent, refused or knowingly left |
| `ticket_sync` | `TypeOK`, `RerunNeedsNoConsent`, `FinishedIsNotInProgress`, `OverwritesAreAgreed`, `LocalChangesStand` | a ticket gets one todo, an interrupted push can be run again, a late start event does not reopen what was finished, and neither side's change is written over unless agreed to or made in the window the code leaves |
| `baseline` | `PinnedIsComplete`, `StrandedNeedsARace`, `ReferencedIsKept`, `OthersServersStand` | what a record pins stays a finished tree of its commit (slots whose marker was damaged or outlasted its tree apart), nobody removes a tree or stops servers that another worktree names, and servers are left where nobody reaches them only if something disturbed the last worktree's leaving |

Two more runs check what a comment says of the code and end in a counterexample;
`PROJECT.json` "findings" quotes the text.

| run | property | counterexample |
|---|---|---|
| `port_tracked` | `LiveIsTracked` | a prune that probed a lapsed reservation removes, by number, the row `record_pid` has filled since |
| `supervise_down` | `DownIsFinal` | a Down served between a restart's look-up and its spawn is answered, and the server comes back |

`lock_service` runs with `GracefulExit = FALSE`. With a clean shutdown
`ImplementsRegistry` fails: `main.rs:510` drops the gate without joining the
connection threads, and one of them may still be saving when a direct writer passes
the gate. A daemon that is killed takes its threads with it, so all other exits are
covered, and `lock_service_live` has the clean one too.

Some properties state what the code achieves and not what one might wish.
`OnlyReadyIsJudged` speaks of the key: a connect answered by the old process arms its
successor (`main.rs:445`), which may be judged while it starts. `CyclesNeedARace`
allows the cycle that two crossing blocks make. `StrandedNeedsARace` allows the
servers that two ends of one baseline leave behind (see the gaps). `OverwritesAreAgreed` and
`LocalChangesStand` except the window between the last look and the write.
`PinnedIsComplete` excepts the slots in `broken` and `strayed`: the code takes the
marker's word for the tree, and a removal cut short can leave the marker (see the gaps).

### Bounds, and why they are enough

- *Locks*: one root, the paths `.`, a directory and a file in it, so that equal,
  above and below all occur; a session, two sub-agents (siblings, exchanged by
  symmetry) and a second session, so that every relation between two holders
  occurs. A lease of 2 with a lag of 1 lets a stale clock see a lapsed row as
  live. The lease of zero, which never lapses, is not in the run; the theorems
  cover every lease.
- *Service*: two clients with one request each, chosen among eight covering every
  branch of `Commit` and `NeedsCommit`; any number of daemon lives. Two writers
  are the most a gate and a flock have to tell apart; one commit each already
  makes a lost or repeated update visible. The temporal run has three requests.
- *Paths*: up to three components of `.`, `..` and names of which one is a
  character prefix of another and one starts with a dot.
- *Ports*: two clients on one worktree with two apps on one base port. `MaxPort` is
  above what the jobs can take, so no search runs out. `Grace` is one tick: a
  reservation is fresh, then lapsed. Pids are not reused; when none is left a
  spawn fails, which the code may meet anyway.
- *Supervision*: one key, where all requests, crashes and respawns meet; the
  registry itself is treated with several keys in `PortRegistry`. In
  `supervise_restart` a window is two ticks of three, so that a restart at one tick
  counts against the next and the budget of one is renewed at the last, and three
  pids are one more than the budget of the first window allows. It has only
  Supervise requests, and `OneServerPerKey` ends with the first respawn or daemon
  death: a Down or a prune in the wrong place, or a respawn, which does not take
  `spawning`, can leave a second server (see the hazards). Stops, failing saves and
  probes are in `supervise_stop`, where time stands still.
- *Todos*: two processes, two sessions with a sub-agent each, a person and the
  tracker, so that every relation of claimant and actor occurs; up to two todos,
  which is enough for a blocker, a parent and a cycle, and three commands, so that
  a third can come between the check and the edit of another. Longer chains of
  links are in the plan's inputs: up to four todos within four changes, with no cap
  and caps of one and two.
- *Replica*: two process slots, each in turn writer and detached sync, two writes,
  one further run, one failed round trip and one kill. Two writes are what order
  needs; a lock has one holder and one that gives up.
- *Ticket*: two processes, three columns (to do, doing, done), two local
  changes, two syncs, one move by somebody else and one failure or kill.
- *Baselines*: two worktrees, which is what sharing needs; two commits with one short
  name and two candidates, so that a second slot, its resolution under the wrong
  lock and the exhausted search occur; three commands, so that a third can come
  between the scan and the act of a second; one rebase, kill, damaged file or sweep cut short. The
  start is an empty directory or a served baseline that some worktrees pin.

### Fairness

- `LockService`: weak fairness of each client, each thread, each save and the
  daemon's own steps. They are straight-line code; the only blocking calls are
  the flock and the mutex, and both are only held over such code. Nobody has to
  send a request, start or stop a daemon, be killed or fail a save.
- `Supervision` (`supervise_restart`): weak fairness of the supervision thread, which
  wakes every half second and waits only for mutexes held over short sections.
  Handlers, probes, crashes and boots owe nothing.
- `ReplicaSync`: strong fairness of each running process's own steps, because its
  steps wait for file locks that others take again and again: the kernel gives a
  lock that keeps coming free to a process that keeps waiting for it. A killed
  process owes nothing, and nobody has to write.

## Proofs

Each theorem holds for every value of the constants that satisfies the module's
assumption; the bounds of the runs do not matter, the caps on counters may be any
naturals. `PROJECT.json` "theorems" lists them.

### The lock registry

`LockRegistryProofs` assumes only `LockModelAssumption` (paths and holders are
sequences of names, holders not empty, leases natural, and `NoPid` no pid) and
`LockRegistryAssumption` (the two bounds are naturals).

- `TypeCorrect`: the registry is always a function from keys to well-formed rows.
- `OneLineHolds`: two anchored rows whose paths overlap belong to one session line.
- `WriteExclusionHolds`: two holders entitled to write overlapping paths belong to
  one session.
- `NoTheftHolds`: no operation without `--force` takes, or changes the lease or the
  anchor of, a live row of anybody but the caller and its sub-agents.
- `CoveringIsExactHolds`: `check_covering` answers exactly whether a fresh name could
  claim the path.

The inductive invariant is `TypeOK /\ OneLinePerRegion`. It says nothing of
leases, and that is the point: the `now` of a commit may be stale, so a row that
one commit sees as lapsed another may have seen as live, and "no two *live* rows
conflict" would not be inductive. What makes `OneLine` inductive is that acquire
and write prune first with the same `now` they then test with: after
`PruneDead(d, now, A)` no row is lapsed for `now`, so any row the conflict test
passes over is unanchored (`PruneDeadProperties`), and every row that still counts
has been compared with the request (`TryAcquireOneLine`, `DecideWriteOneLine`).
Dropping rows or anchors cannot break the property (`RestrictOneLine`), which
deals with releases, prunes and exits. `DecideWriteOneLine` needs
`PrefixesComparable`: a write is let through by rows of the writer's ancestors,
and two ancestors of one writer are themselves on one line. `WriteExclusion`
follows from `OneLine` without a further induction: rows that cover overlapping
keys overlap, by the same lemma, and a line never leaves its session because a
prefix agrees with the longer sequence at position one (`PrefixPointwise`).
`NoTheft` needs the type invariant alone: a row that is alive outlives the prune of
any commit, whose clock is no later and which sees no fewer processes
(`LiveRowSurvivesPrune`), an acquire lists it among the rows it keeps, and a write
that finds it on its own path claims nothing.

### The lock service

`LockServiceProofs` holds for any number of clients and any requests.

- `TypeCorrect`, `MemoryIsFileHolds`, `AnswersTruthfulHolds`: with every kind of
  exit, the clean one included.
- `FileWholeHolds`, `RegistryImplemented` and `FileIsSafe` under `~GracefulExit`:
  the file is never torn, the two write paths implement the atomic registry, and so
  what is proved of `LockRegistry` is true of what the file holds. The
  hypothesis is needed: with a clean shutdown the connection threads outlive the
  gate (see Runs), and TLC finds the torn file and the lost update.

The first three rest on who holds which lock: `LocksOK` says the flock, the gate
and the mutex are held exactly by the writers inside the code each protects, and
`PhasesOK` that there are threads only once a daemon serves. `MemoryIsFile`
speaks of a free mutex only and is not inductive; `MemoryOK` adds what holds inside
the section, that the file is the work of the thread that has renamed and not yet
published. `CountOK` counts the commits of a request by where its two writers are.
Without a clean exit `OneWriterHolds` follows: the gate separates direct writers
from a daemon's threads, the flock and the mutex each kind from itself. Then what a
writer is about to save stays the result of its request on the file as it stands
(`WorkOK`, with the time and the processes it read), its rename is one operation of
`LockRegistry` (`SaveIsAnOperation`), and every other step leaves the registry
alone (`StepSimulates`). `FileIsSafe` carries `OneLinePerRegion`, `WriteExclusion`
and `NoTheft` through the refinement.

### Path keys and ports

`PartsProofs` holds for any root of any depth and any names that contain no
separator (`PathKeysAssumption`), for arguments of any length, and for any clients,
keys, base ports and requests (`PortModelAssumption`, `PortRegistryAssumption`).

- `TextTestsArePrefixTestsHold`: comparing the text of two keys decides which path lies
  below which.
- `OneKeyPerFileHolds`: arguments that stay below the root get one key exactly where
  they name one file.
- `AllocKeepsRowsHolds` (action property): a commit of `alloc` overwrites, moves or
  drops no row, whatever was committed since its ports were chosen.
- `AllocIsIdempotentHolds`: what `alloc` answers stands for its caller, one port for
  each request of the batch, and a key that has a row gets no second.

Keys and allocations are folds over sequences. A fold is first turned into the sequence of its
intermediate results (`IsFold`); what holds of the last is then shown for all, from
one to the next. For keys: each rendering continues the one before it (`Continues`),
and the text between two separators determines a name (`NameAt`), so two texts that
agree so far name the same components so far. For ports: `Served` says that after
`k` requests of a batch each of them is answered by a row of its key, every row
there was is still there, a key that had rows has the same ones, and any other has
at most one. `PortsOK` is the invariant the action properties
need: a client between its choice and its commit holds as many candidates as it
has requests.

### The supervisor

`SupervisionProofs` holds for any clients, keys, ports and requests, any pids that are
numbers, any thresholds, with failing saves and any number of daemon deaths, from
`PortModelAssumption` and `SupervisionAssumption` (worktrees and apps to name a key
by, a first pid that is none, and a restart window, a probe threshold and a memory
threshold of at least one).

- `SupervisionTypeCorrect`: table, registry and the threads' locals are well formed,
  and `spawning` is held exactly by the request between its lock and its answer.
- `OnlyReadyIsJudgedHolds`: the probe stops no server of a key that never accepted a
  connection.
- `MemoryKillIsRespawnedHolds` (action property): a child the memory limit killed is
  never given up for want of budget.
- `OneServerPerKeyHolds` under `StartsOnly`: a key never has two servers that requests
  started and nobody told to stop. The hypothesis, only Supervise requests and no
  failing saves, is what the run `supervise_restart` has, and it is needed: a Down
  between a spawn and its record, or a record that is not saved, leaves a server no
  row names, and the next request starts another.
- `RestartsAreBoundedHolds`: with every request, failing save, stop, probe, kill and
  daemon death, the servers requests started are respawned at most `MaxRestarts`
  times each per window since the start.

The first three rest on one invariant, `IInv`, whose parts are what each thread knows
between two critical sections (`HandlerOK`, `ReaperOK`, `ProberOK`), the shapes of
table and registry (`Shapes`, `ChildOK`, `RowsOK`) and who holds the mutex
(`Bracket`); while the daemon is down, `Halted` says that its threads and its table
are gone. None of the properties is inductive. A server just spawned is in no entry
of the table, so no memory kill or probe can reach it before it is inserted. The
reaper's list of dead keys names no child that lives and carries a memory kill, so a
budget that was there at the kill is not spent on an earlier death of the same key;
and since only `restart` charges, and time only takes restarts out of the window
(`BudgetGrows`), it is there still when the dead child is looked at. For the probe,
what is carried from target to fold to stop is that the key was launched there
(`Launched`) and, once a probe was answered, that one of its ports has accepted
(`Accepted`); a child is armed only by such an answer.

`OneServerPerKey` needs where the servers are. `OneRow`: a key has one row, because
every launch passes `Grant`, which reuses the row of its key, and rows go only for
dead pids or lapsed reservations. `Tracked`: a server that nobody told to stop is the
pid of its key's row, or was spawned by the one handler in the section of `spawning`
and is still in its hands. Two such servers of one key would be two pids of one row,
or one in hand beside a live one in the row; but the handler looked for a live one
after it took the mutex, and none can have appeared since.

`RestartsAreBounded` counts respawns over the whole run, while the code counts them in
a list of each child that is pruned, dropped with the child and lost with the daemon.
The invariant behind it, `BudgetInv`, therefore keeps books per key (`Account`). Each
request that started a server is good for `Cost` respawns, `MaxRestarts` for each
window begun since the start. One whose server is in the table, or still in the hands
of the request (`Live`), pays from the `restarts` of that child; every other one is
taken to have spent its share; `Owed` is a restart that is charged and whose server is
not yet started. `Spaced` says that the restarts of a child are in order and that one
which comes after `a * MaxRestarts` others comes after `a` windows; `may_restart`
ensures it (`ChargedIsSpaced`), and a child has at most `Cost` restarts by it
(`FewRestarts`). An entry that is dropped, replaced or lost then never leaves the books
short (`Covered`, `EasyBudget`).

### The todo store

`TodoStoreProofs` holds for any processes, sessions, sub-agents and bounds, from
`TodoStoreAssumption` alone (the bounds are naturals).

- `TypeCorrect`: the file holds well-formed todos under ids it has given.
- `NewTodosAreUnknownHolds`: a new todo gets an id that no link, no log event and no
  command under way has ever named.
- `ClaimsAreRespectedHolds`: a claim passes only where its claimant hands over or was
  itself found gone, and a person's only to a person or the tracker.
- `LogTellsClaimsHolds`: the log ends on the claims the store holds, unless the
  newest event of a todo died with its command.
- `PruneKeepsNeededHolds` (action property): a confirmed prune takes no todo that an
  open one waits on or nests under, however old the list a person confirmed.
- `CyclesNeedARaceHolds` (action property): a step that closes a cycle of links is a
  block applied to other edges than those its check read. Every other step, an undone
  or a move among them, closes none.

Two strengthenings carry the induction. `Known` says that whatever names an id, a
link, an event, the slot of a command, names one below the next key, that purges and
prunes are a person's, and that only a command about to log has events; `TypeOK`
does not say that an id is fresh, and without the part about commands under way a
purge between check and edit would break it. `NewestTells` says that the newest
event of every todo tells its claimant, and is in the log, in flight or lost; that no
event is later than the clock; and that a process has at most one event per todo in
flight. `LogTellsClaims` speaks of quiet states only and is not inductive, because
the events that will make it true again are still with the commands. The step proofs
go action by action; steps that touch neither claims nor log are one lemma
(`Quiet`).

The two about links use `ReachedFrom` as what it is on any list: the least set that
holds what the starting ids link to and follows every link (it is computed in
rounds; that as many rounds suffice as there are todos is shown by counting). So it
is enough to exhibit a closed set. For a prune the ids that stay are one. For a block,
`Checked` says that a command about to apply one has an edge that closes no cycle of
the edges it read; a new link from `t` to `b` closes a cycle exactly if `t` is `b`
or is reached from `b` (`NewEdgesLoop`, `NewEdgesAreSafe`). The check may well be older than
a todo it concerns: ids it read are below the next key, so what was added later
cannot be among them.

### The todo plan

The same module proves `TodoPlan` for lists of any length, from
`TodoPlanAssumption` (bounds that are naturals, caps of naturals).

- `PlanInputsHold`: what `plan` and the cycle check are called with.
- `CycleCheckIsExactHolds`: the walk from a blocker about to be added finds a cycle
  exactly where the link closes one.
- `PlanIsAScheduleHolds`: with or without cycles, nothing runs before what it waits
  on, no batch exceeds the cap or leaves room unused, the first is what is ready, and
  left out is exactly what can never run.
- `CriticalIsLongestHolds`: the reported path is a chain of placed todos, and no chain
  is longer or, as long, ranks before it.

Ranks order the todos strictly (`ByRank`), and all that is used of a rank is that it
is three numbers of which the last is the todo's own. The first `k` of a strict order
on a finite set are those with fewer than `k` ahead of them, and there are `k` of them
if there are enough (`FirstAreAsMany`): that is what a cap does to a batch. `InTurn`
says of a list of batches that each is the next one after those before it and none is
empty; it ends after at most as many as there are members, and only where nothing is
ready. That what is left then can never run needs two facts: who waits, through any
number of links, on something outside the plan is the least set that is closed that way
(`WaitingOutsideIsLeast`), and a finite set in which everybody waits on somebody of it
contains a loop (`NoWayOutLoops`, from a walk that must repeat a todo).

For the critical path, `best_from` keeps one chain per todo and builds the next from
it. `BestFrom` is the invariant of that table: of the chains from a todo with at most
`n` members it holds one that none is better than. It carries from `n` to `n + 1`
because putting the same todo before two chains keeps which is better (`BetterBehind`).
Chains are no longer than there are batches (`ChainsAreShort`), so the last table is
about all of them.

### The replica and its queue

`ReplicaSyncProofs` holds for any processes and any number of writes, runs, failures
and kills.

- `TypeCorrect`: the state is well formed and each of the three locks is held exactly
  by the process inside its section.
- `LandsInOrderHolds`: hook writes reach the replica in the order they were queued.
- `NothingLeftBehindHolds`: once all is quiet, with nothing failed or killed, the
  queue is empty and every write but a stop hook's is on the server.

Order: the queue is ascending and whoever applies an entry holds the drain lock and
the queue's head (`QueueOK`), so a hook write that has landed is before the head, or
is the head between its apply and its pop (`LandedOK`, which is what makes a second
application of an entry after a kill harmless to the order). `NothingLeftBehind`
speaks of quiet states; what is inductive is that somebody is responsible.
`QueueWatched`: while anything is queued some process is still to look at the queue.
`WritesWatched`: while a write is not sent, some process is on its way to mark or to
send it, or the marker stands and some process is still to look at it. The hard cases
are the two processes that each rely on the other: one finds the drain lock or
`sync.lock` taken and leaves, and its write is the holder's business because the
holder looks again after it lets go (`again`, `recheck`).

### Ticket and todo

`TicketSyncProofs` holds for any processes, statuses, events and bounds.

- `TypeCorrect`: the ticket has at most one todo, and a process has read what the
  step it is at uses.
- `RerunNeedsNoConsentHolds`: a push that wrote and did not finish can be run again.
- `OverwritesAreAgreedHolds`, `LocalChangesStandHolds` (action properties): neither
  side's change is written over except by agreement or in the window the code
  leaves.
- `FinishedIsNotInProgressHolds` under `BoardInOrder`: the board has a done event
  that moves to a completed status from every column of work (or from anywhere), and
  a start event, if there is one, only moves from statuses it names, none of them
  completed. A board configured otherwise can be left in progress by its own
  configuration (a done event that leads nowhere, a start event allowed to reopen);
  the instance TLC checks satisfies it.

`AgreedOK` carries the verdict of a push from its read to its write, `RacedOK` the
look of a sync to its set, `HalfOK` says that until somebody else moves the ticket
it stands where the half push left it. `FinishInv` is about starts and finishes in
flight: behind a completed todo, either the ticket is not in progress or a finish
event is still to run, and a start that has passed its look and not yet moved is
followed by a finish that has still to take its turn.

### Baselines

`BaselineProofs` holds for any worktrees, commits, short names, candidates and
commands.

- `BaselineTypeCorrect`: well-formed state, and each command has at each station what
  the station relies on.
- `PinnedIsCompleteHolds`: what a readable record pins is a finished tree, outside the
  slots in `strayed` and `broken`, whatever removals and kills leave half done.
- `ReferencedIsKeptHolds`, `OthersServersStandHolds` (action properties): nobody
  removes a tree, or stops servers, that another worktree's record names.
- `StrandedNeedsARaceHolds`: servers end under a baseline nobody pins only after a
  kill, a failure, a damaged file, a sweep cut short or under a served tree, or two
  commands in each other's way.

The argument is mutual exclusion by slot. `HoldsLock`: a command at a station that
holds a slot lock is the holder, and works on the slot it locked or on a strayed one.
`SlotSafe` then says what was true when the lock was taken and stays so because pins
are written under the same lock: no record names a tree being removed or built, only
the worktree itself names one being cleared, and what is about to be pinned is
finished. The git of a killed command is the one writer without a lock, so `SlotSafe`
also says that its slot is in `broken`, and `Marks` that a step of a command takes a slot
out of it only where no record names the tree and no such git is left. `StopSafe` says
the same of servers about to be stopped, and that a server was launched by a command
that is over, so that none of the rows can have been replaced in between.

`StrandedNeedsARace` speaks of the end of all commands. What is inductive is `Calm`,
as long as nothing has disturbed a leaving: every server runs under a finished tree
that a record pins or that some up has left and is still to look at (`Reached`). It
needs the commands to be `Apart` (one per worktree, only downs beside an end), so that
the record a command goes by says what the command read or wrote (`Recorded`), and
what each command knows of the servers at its slot (`Knows`): all of them are on the
list of a stop, an end about to remove its worktree leaves none behind or another
reference, and there are none where a tree is being built.

### Only model-checked

Every invariant and action property of the runs is a theorem as well. Liveness
(`EveryRequestEnds`, `DeadChildIsHandled`, `EveryWriteIsSettled`) is not: fairness and
`ENABLED` are out of the prover's reach.

The induction theorems of the library take an operator as a parameter, which the
backends cannot instantiate. Where a proof needs induction on numbers or on the length
of a sequence it collects the counterexamples in a set, which has a least element
because `<` on the naturals is well founded, and refutes that; where a module defines a
recursive function, that such a function exists is shown the same way.

The two runs that end in a counterexample have no theorem, of course, and the
hypotheses `~GracefulExit`, `StartsOnly` and `BoardInOrder` mark where the code does
less than one might wish: without them the properties are false, as described above.

## Known gaps

Behaviours the code has and no property covers, at the lines they start from:

- a starting daemon gives up after five attempts at the gate (`devkitd/main.rs:216`),
  so a dense stream of direct writers can keep it from starting;
- a launch killed between spawn and `record_pid` leaves a server no row names
  (`devkit-ports/src/run.rs`); two launches for one key both spawn, and the second
  `record_pid` repoints the row; `record_pid` takes whatever row stands on the
  port, another key's too once the reservation lapsed (`registry.rs:464`);
- the search for a free port panics above the last port number (`registry.rs:591`);
- a respawn does not take `spawning`, and Down reads its keys from the registry and
  then the table (`server.rs:207`);
- a take-over compares the claimant only, so a session that returned, stopped and
  started again between the check and the edit still loses its claim;
- a `move` checks no ancestors, so parents may form a cycle;
- two ends of worktrees that share a baseline each find the other's record and leave
  its servers running (`issue/end.rs:212`, in parallel threads from `end.rs:562`);
  the comment of `drop_reference` says why the tree itself is counted later;
- a removal that fails, is killed or runs out of time half way can leave the marker and
  lose other files (`baseline/mod.rs:1016-1029`, `devkit-git/src/backend.rs:269-277`);
  `slot` then answers `Reuse` (`baseline/mod.rs:164-190`), only apps that drifted are
  prepared again, and `up` pins the tree, although the marker's presence "is what makes
  a baseline complete" (`baseline/mod.rs:85`) and a reused slot is "a complete baseline"
  (`baseline/mod.rs:129`);
- a git child that outlives a killed command works on its slot under no lock, and may
  take files of a tree another worktree has built and pinned there since;
- `devrun down` inside a baseline tree stops its servers whoever else is served by them
  (`run/mod.rs:1400`);
- a prune decides on port rows read before its locks, so it can take a tree from
  under a server started since (`baseline/mod.rs`, `live_rows_hold`);
- with two commits of one short name a build can run under the lock of the other
  slot (`baseline/mod.rs:334`), unprotected from a sweep of its own;
- the re-entry marker of a hook names one slot: hooks of two builds that each call up
  for the other's slot wait for each other (`baseline/locks.rs`);
- a ticket sync records the status as synced even where the guarded `SetStatus` was
  skipped.

## Not modelled

- SQL and HTTP backends of the todo store: the same trait, with the database's own
  concurrency.
- Tracker and forge clients, the docs index and importers, and MCP: requests,
  parsing and rendering. What devkit does with a tracker's answer is `TicketSync`.
- The locks of the docs cache, the run ledger and tasks (`devkit-docs`,
  `devkit-ports/src/ledger.rs`, `task.rs`): a cache behind one lock, and records that
  are each their own file, renamed into place.
- Control groups, service files, sockets' wire format, log files: I/O without a
  decision about registries or children.
- Shell-command analysis, guards, configuration, templates, secrets, git and
  worktree drivers, issue reproduction, timing: sequential code over text or
  external programs, with no shared state of its own. This is by far the larger
  part of the repository's lines; its tests run it on corpora of commands and files,
  and a bounded model would only restate it.

## Plan

1. Done: `LockModel`, `LockRegistry`, proofs of its exclusion.
2. Done: `LockService` and its refinement of `LockRegistry`; `PathKeys`.
3. Done: `PortModel`, `PortRegistry`, `Supervision`.
4. Done: `TodoModel`, `TodoStore`, `TodoPlan`, `ReplicaSync`, `TicketSync`.
5. Done: proofs about `TodoStore`; `Baseline`.
6. Done: proofs about `LockService` and its refinement, `Supervision`, `Baseline`,
   `ReplicaSync` and `TicketSync`.
7. Done: proofs about links in `TodoStore`, `TodoPlan`, `PathKeys`, `PortRegistry`.
8. Later: salvage of documents with another schema in `LockService`; parent cycles
   and the returned session in `TodoStore`, once the code decides what they mean.
