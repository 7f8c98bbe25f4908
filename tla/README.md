# Models of mlx-stack

TLA+ models of the daemon `mlxd` (Go, `cmd/mlxd` and `internal/`), checked with
TLC on small instances and, where it says so below, proved with TLAPS for every
value of the constants. Paths are relative to the repository; `PROJECT.json`
maps each definition to the lines it models.

## 1. The system

`mlxd` serves local language models. It reads `config.toml`, whose `[[backend]]`
entries are either *external* (a URL to proxy to) or *members of a slot* (a
"swap group": several models, one port, one loaded at a time). A request that
names a model is resolved to a slot, the slot makes sure that the member is
loaded, which may swap the Python worker process behind the port, and the
request is proxied to it. An admin API on a unix socket starts and stops
members, reloads the configuration, and moves weights between the SSD and an
external drive. `mlxctl` is the command line for that API; the Python code under
`python/` runs inside the workers.

| Component | State | Operations | What makes it correct |
|---|---|---|---|
| slot and workers (`internal/supervisor`) | `g.worker`, `g.current`, members; processes, the port | `EnsureLoaded`, `Stop`, `AddMember`; `watchExit`, reapers | a caller that is told "ok" has its member loaded; no process is leaked or hit by a late kill; a death is noticed |
| offload manager (`internal/offload`) | the two directories of weights, `lastUsed` | `EnsurePulled`, `Offload`, `Tier`, `Reconcile` | no model is ever lost; the budget holds; tiers are honest |
| router (`internal/router`) | the registry | `Resolve`, `Register`, `RegisterAlias`, the proxy handler | a name goes to its backend; the member asked for is the one that answers |
| hot reload and admin API (`cmd/mlxd/live.go`, `internal/admin`) | `live.groups`, `backends`, `aliases`; the handlers' snapshot | `reload`, `SetState`, `byName`, `start`, `stop`, `offload`, `pull` | reloads only add; the two views of the names agree; nobody waits forever |
| boot and shutdown (`cmd/mlxd/main.go`) | all of the above | build, serve, `stopAll` | everything that was started is stopped |
| configuration (`internal/config`) | the file | `Load`, `normalize`, `Validate` | what validates can be served |
| observability (`internal/logobs`, `obsstate`, the worker's stderr) | a pipe, lossy channels, statistics | `consumeStderr`, `wait`, `Publish`, `Subscribe`, `Apply`, `tail` | what is reported happened, in that order; nobody is held up by who listens; an end is reported |
| log rotation (`internal/logrot`) | one open file | `Write` | nothing is written to a file that is closed |
| `mlxctl` (`cmd/mlxctl`) | `config.toml` and its backup | `add`, `scan --add`, `config migrate`, `reload`; the rest only shows | no block is lost, and the file still loads |
| worker threads (`python/mlx_stack/memory`) | memory baseline | watchdog, janitor, memlog | a bloated server restarts, a healthy one does not |

The components meet in four ways. *Calls under locks*: a load holds `g.mu`
while its `BeforeLoad` hook pulls the weights under `m.mu`, and the pull asks
`Pinned`, which takes `live.mu` and every `g.mu`; `reload` and `stopAll` hold
`live.mu` and take `g.mu`. *Shared state behind an RWMutex*: reload grows the
registry while requests resolve. *Processes and disks*: a worker that dies or
ignores TERM, a drive that is unplugged in the middle of a copy, a daemon that
is killed. *A file without a lock*: `mlxctl` appends to and rewrites the
`config.toml` that `mlxd` reads.

What is hard here is therefore interleaving (several clients of one slot, late
reapers and watchers, reloads beside requests), lock order, partial failure and
crashes of the two-tier storage and of the commands that write the
configuration, queues that drop, channels that are closed while others send, and
data that is read under one lock, or from a file, and used later. `PROJECT.json` lists each hazard at its line with the properties
that would catch it.

## 2. The modules

| Module | Models | Its configurations |
|---|---|---|
| `SlotSpec` | what `backend.Backend` promises its callers | abstract |
| `Slot` | one `supervisor.Group`, its workers, the port | `MCSlot`, `MCSlotLive`, `MCSlotPort` |
| `TieredStore` | what two-tier storage promises | abstract |
| `Offload` | `offload.Manager` and the two disks | `MCOffload`, `MCOffloadWhole` |
| `Daemon` | the three kinds of mutex, and who takes them when | `MCDaemon`, `MCDaemonPins`, `MCDaemonBudget` |
| `Router` | boot, reload, the registry, the admin's view, requests | `MCRouter`, `MCRouterSwap` |
| `ConfigFile` | `config.toml`, the commands of `mlxctl` that change it, and what `mlxd` has loaded of it | `MCConfigFile` |
| `Observe` | a worker's stderr, the log, the broker, the store and the tails | `MCObserve` |
| `SlotProofs`, `OffloadProofs`, `DaemonProofs`, `RouterProofs`, `AdminProofs`, `ConfigFileProofs`, `ObserveProofs` | the theorems | |
| `SumFacts` | lemmas: a sum over a finite set, one element at a time | |

Each of the six big modules takes one aspect of the system at full detail and
treats the others by what they promise: `Router` uses a slot as `SlotSpec` has
it (a load is one step that succeeds or fails), `Daemon` keeps of the slot and
the manager only what they lock, when, and which model is where.

### Slot

One action per stretch of code between two blocking points. A client is the
goroutine of an HTTP request; `pc` says where it is: waiting for `g.mu`
(`lock`, `slock`), in `BeforeLoad` (`before`), about to spawn (`spawn`), in
`probeReady` (`probe`, `get`), or in `Stop` after the unlock (`sterm`, `swait`). A worker's
process goes from spawned through listening to exited and waited for; `sig` is
the strongest signal it was sent. `Stop` releases `g.mu` *before* it signals
(group.go:333), the reaper of a swap waits up to ten seconds, and `watchExit` is
a goroutine per worker: the safety properties are about those three meeting a
new load. The watchdog of a
worker may replace its server at any time (`Reexec`): the process goes on, its
port and its handler of TERM are gone, and it has to listen again. Left out:
`g.state` (written, never read); the stderr pipe and events are in `Observe`. `Workers` bounds how many processes exist at
once; an element whose process is over and which nothing refers to is reused.
Timers may fire at any time.

### Offload

A directory is the number of bytes it holds or `Absent`; copies and removals
take several steps, each of which may fail; `Replug` and `Crash` may come
between any two. `CopyDir` fills `<name>.partial` and renames it, so partial
directories are directories of the model. `lastUsed` only chooses the victim
among the evictable directories: here any of them may be. A crash is that of the
daemon, not of the machine: data that was written but not synced is not lost.
Nobody else writes to the disks, and an unplugged drive keeps its contents.

### Daemon

Every goroutine is a thread with a set of jobs it may do (`Jobs`). A step that
takes a lock is in `Acquire`, every other in `Proceed`. `Pinned` is modelled
call by call (`PinLive`, then for each slot `PinRunning`, `PinNamed`, `Pin`),
since `Running` and both calls of `UpstreamModel` lock `g.mu` separately. The
RWMutexes of the registry and of the handlers are leaves (nothing blocks while
one is held) and are part of the steps that use them.

### Router

`registry`, `backends`, `aliases` and `members` are the fields of
`router.Registry`, `liveState` and the groups; `seen` and `published` are the
handlers' snapshot, and `shared` says that the snapshot's alias map still is
`live.aliases` itself, as it is from main.go:179 to the first reload. A reload
reads the file *before* it takes `live.mu` (live.go:144-149), computes which
entries are new once, and then adds them one at a time, each with one step per
lock it takes: `todo[r]` holds the places in the file it has still to add.
A request resolves, ensures, and proxies in three steps; an admin `start` looks
the name up with `byName` instead and stops after the second. `Restart` is the death of
the daemon at any time and its boot with what the file says by then; that is
also what the Go runtime makes of a concurrent map access it detects.

A list of backends is a set here. That is exact as long as no two backends have
one canonical name, which `Validate` does not ask for: `NamingAssumption` says
what it leaves out (names that differ in case only; a slot named like another
slot's member or like an external backend; a changed entry whose name has
capitals). What happens then is in section 6.

### ConfigFile

The file is a head and a sequence of `[[backend]]` blocks with the keys that
relate one block to another or to the commands: the old vocabulary (`mode`,
`group`) and the new one (`remote`, `slot`), the port, the default flag, the
model. `Normal` is `normalize`, `Loads` is `Load` with `Validate`, `Migrated`
is `migrateConfigLines`, `Rendered` is `renderBackend`. A command is one step per
access to the file: what `add` has loaded it uses after a download that may take an hour; `scan`
loads once and appends once per directory; `os.WriteFile` is a truncation and a
write, and a command can die between them, or anywhere (`GiveUp`). `cut` says
which command has truncated the file, `alone` that nobody has changed it since
a command has read it, and `done` records what the file must say. `known` is
what `mlxd` has loaded, by boot or by reload, where a member that joins a slot
takes the slot's port (`Joined`). The kernel's choice of a free port is any port
that `usedPorts` does not have.

### Observe

A line is its number and its kind. The pipe holds `PipeCap` lines and blocks the
writer; `Fill` is a read of the scanner, which takes what there is, so that lines
in its buffer survive the closing of the pipe and lines in the pipe do not.
`WaitReturns` is `cmd.Wait`, which closes the read end while `consumeStderr` may be
at any place, and `WaitEnds` is the rest of `wait`. `Emit` is the two selects on `w.events`
and `Publish`: nobody reads `w.events`, so nothing happens between the two
selects, and `Publish` holds `b.mu`. A subscriber is the store, which subscribes at the boot and
never leaves, or a tail, whose channel the goroutine of `Subscribe` closes once the
request's context is canceled. `panicked` says that something was sent on a
closed channel, which in Go ends the daemon. `Log` is `Rotator.Write`
with an open that may fail after the old file was closed. Of the store's fields
`ActiveReq` and `RecentTiming` are kept, the ones that more than one event
decides.

## 3. What the runs check

| Run | Distinct states | What it shows |
|---|---|---|
| `slot` | 538,462 | `NoForgottenWorker`, `LoadedIsWatched`, `LoadedNotCondemned`, `LockedLoads`, and that `Slot` implements `SlotSpec` |
| `slot_live` | 111,773 | `DeathIsNoticed`, `CallReturns`, `ForeignListenerLeaves` under fairness |
| `slot_port` | violation | `LoadedAnswers`: the swapped-out server answers for the new member |
| `offload` | 487,692 | `Durable`, `CacheWithinBudget`, `UnknownMeansUnplugged`, and that `Offload` implements `TieredStore` |
| `offload_whole` | violation | `PulledIsWhole`: an interrupted removal leaves a truncated model that counts as cached |
| `daemon` | 16,683 | without a budget: `NoDeadlock`, and every job ends (`JobsEnd`) |
| `daemon_pins` | 190,715 | with a budget: `EvictsNothingInUse`, `NoLivelock` |
| `daemon_budget` | violation | `NoDeadlock`: with a budget, a load waits for the `g.mu` it holds |
| `router` | 308,850 | `Recognised`, `AdminAgrees`, `Additive`, `ReloadCovers` |
| `router_swap` | violation | `AskedIsServed`: another request swaps the slot between ensure and proxy |
| `config` | 306,696 | `NothingForgotten`, `AddsKeepLoading`, `FreshPortIsFree`, `MigrateKeepsMeaning`, `ReloadAgrees` |
| `observe` | 162,608 | `NoSendOnClosed`, `InOrder`, `TailIsLatest`, `LogIsOpen`, `DoneIsFinal`, `MissedIsDropped`; `NeverHeldUp`, `ExitIsReported`, `TailLeaves` under fairness |

Each configuration's bounds, and why they are enough to see the interesting cases:

- `MCSlot`: two callers that may load and stop, two members of which one is
  added later, three processes. Three processes are a swapped-out one that still
  has the port, the current one, and a third that a second caller spawns
  meanwhile; a fourth would only repeat the role of the first. The slot's own
  name is one of the names a caller may use. Processes and callers are symmetric.
- `MCSlotLive`: as before with two processes, and no symmetry, for the liveness
  properties. Only one caller may stop.
- `MCOffload`: two models of size 2 and 1 and a budget of 2, so that they do not
  fit together, a copy can stop in the middle, and a partial can make the
  difference between fitting and not. Two callers, so that one works on
  the disks while another takes its two looks at them (`Tier`).
- `MCDaemon`: three threads (a client, an admin client, the main goroutine that
  shuts down), two slots, two models that share a draft. Three threads are
  enough for a circle through the three kinds of lock.
- `MCDaemonPins`: the same with room for two of three models. This instance does
  deadlock (that is `daemon_budget`), so deadlock is not checked here: the
  questions are what the steps that do happen evict, and that each brings its job nearer
  to its end.
- `MCRouter`: one client and two reloads, and five versions of the file: one to
  boot with, ones that add a member to a slot, a slot, a mixed-case member and
  an external backend, one that turns an entry into another, and one that does not
  validate. Two reloads may hold two versions and run in either order.
- `MCConfigFile`: two shells, of which one rewrites (overwrite, scan, migrate) and
  the other adds; two ports of the router (its own and an extra one) and two others; three names, one of them `chat`, the
  slot that chat models share; three first files: the old vocabulary, one
  with a persistent model, and one whose migration would write a key twice. The scan finds
  two models that belong to one slot, which is the least with which its local view matters. A file
  that no longer loads stays so, therefore deadlock is not checked.
- `MCObserve`: one worker that prints six lines: two requests with their completions, a line
  that is no event and one that is too long; every channel holds one or two elements,
  so each is full at some time, the store's also when a completion comes; one tail; two
  days. A server may stop printing, therefore deadlock is not checked. More workers only
  interleave what is done per worker; the theorems hold for any number.

Every property has a mutant of the code (a dropped guard, a missing goroutine,
a swapped order) under which TLC finds it violated; the definitions marked
"Faulty" in the modules are there for that, and no specification uses them.

### Fairness

Most safety runs use none. `FairSpec` of `Slot` and `Daemon` assumes:

- weak fairness for goroutines that can run, and so for timers (the probe's
  deadline, ten seconds of grace, thirty of shutdown);
- strong fairness for taking a mutex. Go's `sync.Mutex` switches to starvation
  mode after a waiter has waited a millisecond and then hands the lock over, so
  a waiter is not passed over for ever;
- strong fairness for the deadline of `probeReady`: the loop looks at it once
  per round, so it is enabled again and again rather than always;
- that a process which was sent KILL dies.

Nothing is assumed of a server: it may never listen, never answer, and ignore
TERM; no copy has to succeed; no caller has to go away.

`FairSpec` of `Observe` assumes weak fairness of the goroutines of a worker
(`consumeStderr`, `wait`), of the store's loop, and, once the client of a tail is gone, of its
handler and of the goroutine that closes its channel. Nothing is assumed of a client that
stays, which may never read, nor of a server, which may never print or exit, nor of the
log, which may fail to open every day.

## 4. What is proved

For every value of the constants that satisfies the modules' named assumptions
(`SlotAssumption`, `OffloadAssumption`, `DaemonAssumption`, `RouterAssumption`,
`NamingAssumption`, `ConfigAssumption`, `OneRewriter`, `ObserveAssumption`, and
`FinitelyMany` of `Offload` and `Daemon`, that a configuration is a finite list), by an
inductive invariant per module:

- **Slot** (`SlotInv`): `SlotTypes`, `SlotNeverForgets`, `SlotWatches`,
  `SlotSparesTheLoaded`, `SlotLoadsAlone` and `SlotRefines` (every step of `Slot`
  is a step of `SlotSpec` or a stutter). The properties themselves are not
  inductive: `CallerMemory` adds what a caller knows of the worker in its local
  variable (its own, alive only for the member it asked for, and not the
  group's any more once `Stop` has taken it), and `EmptyIsUnnamed` that a slot without
  a worker names no member. `SlotKeepsItsWord` is what the refinement is worth to a
  caller: nil is answered at an instant at which the member is loaded, and a slot is seen
  empty between two members. `ForeignIsCondemned` (with `PortServes`: who
  has the port is a live server) is the safety half of `ForeignListenerLeaves`.
- **Offload** (`OffloadInv`): `OffloadTypes`, `NothingIsLost`, `TierIsHonest`,
  `OffloadRefines`. `Backed` says that a directory in the library under a model's name is
  whole, since only a rename creates one; `Midway` what each caller may rely on in the
  middle of a call (that a drop has a library copy, that a pull's target is absent).
  `Durable` follows although the drive may be away at every step; `StoreKeepsItsWord`
  states what the refinement of `TieredStore` says of the two disks. `BudgetIsKept` needs
  `Reserved`: what a pull that copies has still to write fits into the budget beside all that is in
  the cache, because nobody else copies into the cache while it holds `m.mu`. The
  lemmas of `SumFacts` say how `CacheUsed`, a fold over all directories, changes when
  one of them does. `FreshPullsAreWhole`: a pull that copies ends with a whole model.
- **Daemon** (`DaemonInv`): `DaemonTypes`, `NoBudgetNoDeadlock` and `PinnedStays`.
  `Holding` derives the owner of every lock from where the threads are. Without a
  budget locks are taken in the order `live.mu`, `g.mu`, `m.mu`, so no set of
  threads, of any size, waits for itself. With a budget, the thread that evicts
  holds `m.mu` since before it looked at the first slot, and that is why no load
  can pass its pull and no slot can begin to serve a model that was not pinned.
  `JobsGetOn`: `Rank` counts what is left of a job, every step of its goroutine takes from it
  and no other goroutine adds to it. A job that does not end therefore waits for a
  lock for ever; with `NoBudgetNoDeadlock` this is the safety half of `JobsEnd`,
  for any number of goroutines, slots and models.
- **Router** (`RouterInv`): `RouterTypes`, `NamesAreRecognised`, `RegistryOnlyGrows`,
  `ReloadIsComplete`. `Provenance` ties each name of the registry to an entry whose
  slot has the member; `Plan` says what a reload may rely on although it asked the registry once
  and for all when it began: each entry still in its plan has no backend, or the very one
  it is about to get, and each other entry has one. `Alone` (only one reload is
  between lock and unlock) and `NamingAssumption` make it inductive.
- **The admin's view** (`AdminInv`, module `AdminProofs`): `AdminAgreesWithRouter`.
  `Mirror` says that at every step of a reload the registry holds exactly what the
  list of backends and the aliases say, `InStep` that the handlers' copies are those
  lists whenever no reload holds `live.mu`. Each of the four looks of `byName` then
  finds nothing or the registry's answer, and one of them finds it.
- **ConfigFile** (`ConfigInv`): `FilesAreTexts`, `BlocksAreKept`, `MigratedFilesAgree`,
  `OnlyRewritesForget`, `FreshPorts`, `AddsLoad`, `ReloadsAgree`. `Rewriter` says that at most one shell
  is between reading a text and writing the new one, and that `cut` is its command;
  `InHand` what it has in its hands (a migrate: a backup with the old meaning and a text
  that loads; an overwrite: all blocks but the one it replaces); `Fresh` that the
  configuration a command has loaded is still what the file means while it is alone. `OneRewriter` keeps out two
  rewrites at once, which do lose blocks. `BlocksAreKept` (`NothingForgotten`) has exceptions:
  an `--overwrite` replaces the block it names; a block appended between a rewrite's read
  and its write may be lost; and while an `--overwrite` has truncated the file, for ever if it is killed
  then, every block is gone, since it makes no backup. `OnlyRewritesForget` says that these
  are all: the only steps at which any block leaves the file and its backup are the truncation of
  an `--overwrite`, and the truncation or the write of a rewrite that is no longer `alone`. It needs
  `Undisturbed`: while a rewrite is alone, a migrate holds the file's text and a truncated
  file stays empty. `MigrateIsIdempotent` is about the
  operator `Migrated` and every text: migrating twice is migrating once
  (docs/adr/0001-slots-replace-modes.md:72).
- **Observe** (`ObserveInv`): `QueuesAreBounded`, `ClosedIsNotSentTo`, `EventsStayInOrder`,
  `OnlyDropsAreMissed`, `StatusIsRight`, `TailIsTheEnd`, `LogStaysOpen`, `TailIsFinal`. `Sealed` ties the
  closing of channels to who may still send (a reader that is gone, a subscriber that is
  not in `subs`); `Stream` says that pipe, buffer and last line are consecutive
  numbers; `Behind` that no queue, receiver or statistic is ahead of the reader.
  `OnlyDropsAreMissed` needs
  `Filed`: an event keeps the kind that its worker printed on its whole way, and the store files
  it under its worker's name. It does not say that every completion is heard of: one that finds the
  store's channel full (`Dropped`) is not, and its request stays active (section 6);
  `StatusIsRight` says that without such a drop none does.
  `LossIsBounded` needs `Accounts`, which counts where every printed line is, also
  after the pipe was closed. `ReaderGetsOn` is the safety half of `NeverHeldUp`: the steps between two
  reads of the pipe are bounded (`Ahead`) and nobody adds to them.

Four properties are violated by the code (section 6), and for each it is proved
how far the violation reaches:

| Violated | Proved | What the cause is |
|---|---|---|
| `LoadedAnswers` | `AloneAnswers` | a spawn while an older process lives (`Overlap`); without one the property holds |
| `PulledIsWhole` | `PullsAreWhole` | a removal that fails or is killed in the middle (`Interrupted`); without one it holds |
| `NoDeadlock` with a budget | `OnlyPinnedDeadlocks` | every circle of waiting threads passes through a load and a pull that asks `Pinned` |
| `AskedIsServed` | `SingleIsServed` | two members in one slot; a slot with one answers what it was asked |

The theorems of the form `Spec /\ [][~A]_vars => ...` (`AloneAnswers`, `PullsAreWhole`, and
`StatusIsRight` of `Observe`) are about the behaviours of the code in which
`A` never happens; there are such behaviours for any constants (a slot that loads once, a
cache from which everything is removed in peace, a store that keeps up).

Model-checked only: the liveness properties (`DeathIsNoticed`, `CallReturns`,
`ForeignListenerLeaves`, `JobsEnd`, `NeverHeldUp`, `ExitIsReported`, `TailLeaves`), which
need fairness and ENABLED and are out of the prover's reach. Every invariant and every
action property that a passing run checks is proved.

## 5. What is not modelled

Possible next, in this order:

1. Shutdown: the slots are stopped before the router is (main.go:207-209), so a
   request in between may spawn a worker that nobody stops, and the reapers of
   swapped-out workers end with the daemon. An extension of `Slot` with the main
   goroutine's end.
2. A slot that inherits a foreign listener, a worker of a daemon that was killed
   (worker.go:67 gives workers their own process group). `Slot` starts from an empty port.
3. Two commands that rewrite `config.toml` at once (`OneRewriter`), where the file
   can end as one text with the end of another.

Left out for good:

- the launcher shim, the patches of third-party servers and the embedding
  server (sequential Python around code that is not in the repository); of the memory threads only what others can see is modelled
  (`Reexec`, the lines that are printed);
- `legacy/`, the router that `mlxd` replaced;
- `mlxctl`'s rendering, its chat loop and `bootstrap` (formatting, terminal I/O, calls of
  other programs), the HTTP client `ipc`, and in the daemon the rewriting of request
  bodies and the copying of answers: they keep no state that a second actor could see;
- the parser's regular expressions and the numbers in an event: a line is of a kind;
- power loss: a crash is that of a process, and what was written stays.

## 6. Where the code and its documents disagree

Shown by a run:

- `daemon_budget`: with `[offload] budget` set, the first load of a model that is
  not in the cache calls `Pinned` under its own `g.mu`, and `Pinned` locks that `g.mu`
  (main.go:160, manager.go:162): the load never ends.
- `slot_port`: the swap does not wait for the old server, and the probe takes any 200 on
  the port for the new one's (group.go:280). `ForeignListenerLeaves` shows that
  the window closes.
- `router_swap`: `EnsureLoaded`, `UpstreamModel` and the proxied request are three
  steps (server.go:101-114); a request can be answered by a member it did not name.
- `offload_whole`: a directory whose removal was interrupted counts as a cached
  model (manager.go:126).

Met while modelling `config.toml` and its commands, without a run: two `add`s of the first two
members of a slot pick two ports, and the file no longer loads; nor does it after
`add --default` for a slot that has a default, after `--port` with another port than the
slot's, after `--mode external` (no url is written), or after a `scan --add` that finds a name that is
taken. `add --overwrite` truncates the file in place without a backup. A model that
is added under the name of an existing slot is not hot-loaded.

... and `Observe`: `cmd.Wait` closes the pipe under its reader, so the last lines before
a crash may be lost, a pipeful at most (`LossIsBounded`); a line of more than a megabyte ends the reading for good, and a
server that prints on is stuck; any completion clears the active request, and a
completion that is dropped at the store's full channel leaves it (`MissedIsDropped`: nothing
else does).

... and the rest: a worker that is spawned or swapped out during the shutdown outlives
the daemon; `extra_ports` are not listened on; an offload may remove what a load has just pulled; names are compared without case by the
router and the admin API but with case by the slot; `live.aliases` is shared with
the admin layer until the first reload; an entry whose name has capitals is never
"known" to a reload and is applied again; a new slot may take over the name of
another slot's member; `default = true` on a later member of a hot-loaded slot is
not heeded; a pull that fails has already evicted; a draft model is not pinned; an
offloaded model is "unknown", not "unavailable", while the drive is away;
`mode = "persistent"` no longer starts anything. `PROJECT.json` quotes the lines.

## 7. Running it

    tlc -config MCSlot.cfg MCSlot        # and so on, one per table row
    tlapm SlotProofs.tla                 # one per proof module
