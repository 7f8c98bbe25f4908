------------------------------- MODULE Daemon -------------------------------
(***************************************************************************)
(* The mutexes of mlxd and the order in which its goroutines take them:    *)
(* g.mu of each slot (supervisor/group.go), m.mu of the offload manager    *)
(* (offload/manager.go) and live.mu of the backend set (cmd/mlxd/live.go,  *)
(* main.go).  A load holds g.mu while BeforeLoad pulls the weights; a pull *)
(* holds m.mu, and with a budget calls Pinned under it, which takes        *)
(* live.mu and then each g.mu; reload and stopAll hold live.mu and take    *)
(* g.mu.                                                                   *)
(*                                                                         *)
(* Slot.tla and Offload.tla look inside the slot and the manager.  Here a  *)
(* member is the model it serves, every model has a library copy, and the  *)
(* cache counts models.  The registry's and the admin layer's RWMutexes    *)
(* are leaves: nothing blocks while one is held, so their sections are     *)
(* part of the steps that use them.                                        *)
(***************************************************************************)
EXTENDS Naturals, FiniteSets, Sequences

CONSTANTS
  Slots,      \* the swap groups
  Members,    \* models that a slot can be asked for
  Models,     \* Members and the draft models some of them use
  DraftOf,    \* the draft of each member, or NoModel
  NoModel,
  NoSlot,
  Room,       \* models that fit in Options.Budget; 0: Budget is 0, unbounded
  Threads,    \* goroutines
  Jobs,       \* what each of them may do
  Mgr, Live,  \* the locks m.mu and live.mu; the lock g.mu of a slot is the slot
  Free        \* a lock is not held

Locks == Slots \cup {Mgr, Live}

AllJobs == {"load", "pull", "offload", "stop", "reload", "stopAll"}

ASSUME DaemonAssumption ==
  /\ Members \subseteq Models
  /\ NoModel \notin Models
  /\ DraftOf \in [Members -> Models \cup {NoModel}]
  /\ NoSlot \notin Slots
  /\ Room \in Nat
  /\ Jobs \in [Threads -> SUBSET AllJobs]
  /\ Mgr \notin Slots /\ Live \notin Slots /\ Mgr # Live
  /\ Free \notin Threads

\* A configuration lists finitely many models.
ASSUME FinitelyMany == IsFiniteSet(Slots) /\ IsFiniteSet(Models)

VARIABLES
  owner,      \* the thread that holds each lock, or Free
  serving,    \* the model of each slot's running worker, or NoModel
  hot,        \* the models in the cache
  pc,         \* where each thread is
  home,       \* the slot it loads, or NoSlot
  want,       \* the member it loads
  pulls,      \* the models EnsurePulled is still to be called for
  todo,       \* the slots that Pinned, reload or stopAll has still to look at
  look,       \* the one it looks at
  pinned      \* the models that Pinned has found so far

state == <<owner, serving, hot>>
locals == <<home, want, pulls, todo, look, pinned>>
vars == <<owner, serving, hot, pc, home, want, pulls, todo, look, pinned>>

Waiting == {"load", "stop", "mgr", "offload", "live", "running", "named", "pin",
            "reload", "add", "stopAll", "stopOne"}
PCs == Waiting \cup {"idle", "pins", "evict", "copy", "swap", "probe", "adds", "stops", "reap"}

TypeOK ==
  /\ owner \in [Locks -> Threads \cup {Free}]
  /\ serving \in [Slots -> Members \cup {NoModel}]
  /\ hot \subseteq Models
  /\ pc \in [Threads -> PCs]
  /\ home \in [Threads -> Slots \cup {NoSlot}]
  /\ want \in [Threads -> Members \cup {NoModel}]
  /\ pulls \in [Threads -> Seq(Models)]
  /\ todo \in [Threads -> SUBSET Slots]
  /\ look \in [Threads -> Slots \cup {NoSlot}]
  /\ pinned \in [Threads -> SUBSET Models]

Init ==
  /\ owner = [l \in Locks |-> Free]
  /\ serving = [s \in Slots |-> NoModel]
  /\ hot \in SUBSET Models
  /\ Room = 0 \/ Cardinality(hot) <= Room
  /\ pc = [t \in Threads |-> "idle"]
  /\ home = [t \in Threads |-> NoSlot]
  /\ want = [t \in Threads |-> NoModel]
  /\ pulls = [t \in Threads |-> <<>>]
  /\ todo = [t \in Threads |-> {}]
  /\ look = [t \in Threads |-> NoSlot]
  /\ pinned = [t \in Threads |-> {}]

-----------------------------------------------------------------------------
(* Helpers *)

IsFree(l) == owner[l] = Free

Take(t, l) == IsFree(l) /\ owner' = [owner EXCEPT ![l] = t]

GoTo(t, step) == pc' = [pc EXCEPT ![t] = step]

Begin(t, job) == pc[t] = "idle" /\ job \in Jobs[t]

\* The job of t is over: every lock it held is released (the deferred Unlocks).
Finish(t) ==
  /\ owner' = [l \in Locks |-> IF owner[l] = t THEN Free ELSE owner[l]]
  /\ pc' = [pc EXCEPT ![t] = "idle"]
  /\ home' = [home EXCEPT ![t] = NoSlot]
  /\ want' = [want EXCEPT ![t] = NoModel]
  /\ pulls' = [pulls EXCEPT ![t] = <<>>]
  /\ todo' = [todo EXCEPT ![t] = {}]
  /\ look' = [look EXCEPT ![t] = NoSlot]
  /\ pinned' = [pinned EXCEPT ![t] = {}]

\* Faulty: a member without a draft has an empty one.
WeightsRaw(m) == <<m, DraftOf[m]>>

\* offloadBeforeLoad pulls the model and, if there is one, the draft.
Weights(m) == IF DraftOf[m] = NoModel THEN <<m>> ELSE <<m, DraftOf[m]>>

\* Faulty: ensureRoom looks for what is pinned whether it needs to or not.
AlwaysBounded == TRUE

\* ensureRoom returns at once if there is no budget.
Bounded == Room # 0

-----------------------------------------------------------------------------
(* A load: EnsureLoaded under g.mu, BeforeLoad under m.mu as well *)

CallLoad(t, s, m) ==
  /\ Begin(t, "load")
  /\ GoTo(t, "load")
  /\ home' = [home EXCEPT ![t] = s]
  /\ want' = [want EXCEPT ![t] = m]
  /\ UNCHANGED <<state, pulls, todo, look, pinned>>

LoadHit(t) ==
  /\ pc[t] = "load"
  /\ IsFree(home[t])
  /\ serving[home[t]] = want[t]
  /\ Finish(t)
  /\ UNCHANGED <<serving, hot>>

LoadEnter(t) ==
  /\ pc[t] = "load"
  /\ Take(t, home[t])
  /\ serving[home[t]] # want[t]
  /\ pulls' = [pulls EXCEPT ![t] = Weights(want[t])]
  /\ GoTo(t, "mgr")
  /\ UNCHANGED <<serving, hot, home, want, todo, look, pinned>>

\* BeforeLoad is done: the old worker goes ...
Swap(t) ==
  /\ pc[t] = "swap"
  /\ serving' = [serving EXCEPT ![home[t]] = NoModel]
  /\ GoTo(t, "probe")
  /\ UNCHANGED <<owner, hot, locals>>

\* ... and the new one answers, ...
Loaded(t) ==
  /\ pc[t] = "probe"
  /\ serving' = [serving EXCEPT ![home[t]] = want[t]]
  /\ Finish(t)
  /\ UNCHANGED hot

\* ... or does not.
LoadErr(t) ==
  /\ pc[t] = "probe"
  /\ Finish(t)
  /\ UNCHANGED <<serving, hot>>

\* A worker exits and watchExit clears its slot.
WorkerDies(s) ==
  /\ serving[s] # NoModel
  /\ IsFree(s)
  /\ serving' = [serving EXCEPT ![s] = NoModel]
  /\ UNCHANGED <<owner, hot, pc, locals>>

-----------------------------------------------------------------------------
(* EnsurePulled, of a load or of the admin's pull *)

CallPull(t, m) ==
  /\ Begin(t, "pull")
  /\ GoTo(t, "mgr")
  /\ pulls' = [pulls EXCEPT ![t] = <<m>>]
  /\ UNCHANGED <<state, home, want, todo, look, pinned>>

\* The head of pulls is in the cache: release m.mu and go on with the next,
\* with the load, or with nothing.
PullReturns(t) ==
  /\ Len(pulls[t]) > 1 \/ home[t] # NoSlot
  /\ owner' = [owner EXCEPT ![Mgr] = Free]
  /\ pulls' = [pulls EXCEPT ![t] = Tail(@)]
  /\ GoTo(t, IF Len(pulls[t]) > 1 THEN "mgr" ELSE "swap")
  /\ todo' = [todo EXCEPT ![t] = {}]
  /\ look' = [look EXCEPT ![t] = NoSlot]
  /\ pinned' = [pinned EXCEPT ![t] = {}]
  /\ UNCHANGED <<home, want>>

PullFinishes(t) == Len(pulls[t]) = 1 /\ home[t] = NoSlot /\ Finish(t)

PullOk(t) == PullReturns(t) \/ PullFinishes(t)

PullHit(t) ==
  /\ pc[t] = "mgr"
  /\ IsFree(Mgr)
  /\ Head(pulls[t]) \in hot
  /\ PullOk(t)
  /\ UNCHANGED <<serving, hot>>

\* No library copy, or no drive.
PullRefused(t) ==
  /\ pc[t] = "mgr"
  /\ IsFree(Mgr)
  /\ Head(pulls[t]) \notin hot
  /\ Finish(t)
  /\ UNCHANGED <<serving, hot>>

PullMiss(t) ==
  /\ pc[t] = "mgr"
  /\ Head(pulls[t]) \notin hot
  /\ Take(t, Mgr)
  /\ GoTo(t, IF Bounded THEN "live" ELSE "copy")
  /\ UNCHANGED <<serving, hot, locals>>

\* Pinned: live.mu, then each backend in the order of live.backends (any order:
\* it comes from a map).
PinLive(t) ==
  /\ pc[t] = "live"
  /\ Take(t, Live)
  /\ todo' = [todo EXCEPT ![t] = Slots]
  /\ GoTo(t, "pins")
  /\ UNCHANGED <<serving, hot, home, want, pulls, look, pinned>>

\* Faulty: a slot that was looked at is looked at again.
PinSame(t) ==
  /\ pc[t] = "pins"
  /\ \E s \in todo[t] : look' = [look EXCEPT ![t] = s]
  /\ GoTo(t, "running")
  /\ UNCHANGED <<state, home, want, pulls, todo, pinned>>

PinNext(t) ==
  /\ pc[t] = "pins"
  /\ \E s \in todo[t] :
       /\ look' = [look EXCEPT ![t] = s]
       /\ todo' = [todo EXCEPT ![t] = @ \ {s}]
  /\ GoTo(t, "running")
  /\ UNCHANGED <<state, home, want, pulls, pinned>>

\* Faulty: Running reads without g.mu.
PinRunningUnlocked(t) ==
  /\ pc[t] = "running"
  /\ GoTo(t, IF serving[look[t]] = NoModel THEN "pins" ELSE "named")
  /\ UNCHANGED <<state, locals>>

\* b.Running(), which takes g.mu and leaves it ...
PinRunning(t) ==
  /\ pc[t] = "running"
  /\ IsFree(look[t])
  /\ GoTo(t, IF serving[look[t]] = NoModel THEN "pins" ELSE "named")
  /\ UNCHANGED <<state, locals>>

\* ... then b.UpstreamModel() # "" ...
PinNamed(t) ==
  /\ pc[t] = "named"
  /\ IsFree(look[t])
  /\ GoTo(t, IF serving[look[t]] = NoModel THEN "pins" ELSE "pin")
  /\ UNCHANGED <<state, locals>>

\* ... then b.UpstreamModel() again.
Pin(t) ==
  /\ pc[t] = "pin"
  /\ IsFree(look[t])
  /\ pinned' = [pinned EXCEPT ![t] = @ \cup ({serving[look[t]]} \ {NoModel})]
  /\ GoTo(t, "pins")
  /\ UNCHANGED <<state, home, want, pulls, todo, look>>

PinDone(t) ==
  /\ pc[t] = "pins"
  /\ todo[t] = {}
  /\ owner' = [owner EXCEPT ![Live] = Free]
  /\ GoTo(t, "evict")
  /\ UNCHANGED <<serving, hot, locals>>

\* Evict(t, v): v goes to make room for the head of pulls.
Evict(t, v) ==
  /\ pc[t] = "evict"
  /\ Cardinality(hot) >= Room
  /\ v \in hot \ (pinned[t] \cup {Head(pulls[t])})
  /\ hot' = hot \ {v}
  /\ UNCHANGED <<owner, serving, pc, locals>>

EvictDone(t) ==
  /\ pc[t] = "evict"
  /\ Cardinality(hot) < Room
  /\ GoTo(t, "copy")
  /\ UNCHANGED <<state, locals>>

\* Nothing (more) can be evicted, or the disk fails.
EvictErr(t) ==
  /\ pc[t] = "evict"
  /\ Finish(t)
  /\ UNCHANGED <<serving, hot>>

Copied(t) ==
  /\ pc[t] = "copy"
  /\ hot' = hot \cup {Head(pulls[t])}
  /\ PullOk(t)
  /\ UNCHANGED serving

\* Faulty: m.mu stays locked on the error path.
CopyErrLocked(t) ==
  /\ pc[t] = "copy"
  /\ GoTo(t, "idle")
  /\ UNCHANGED <<state, locals>>

CopyErr(t) ==
  /\ pc[t] = "copy"
  /\ Finish(t)
  /\ UNCHANGED <<serving, hot>>

-----------------------------------------------------------------------------
(* The admin's offload and stop *)

CallOffload(t, m) ==
  /\ Begin(t, "offload")
  /\ GoTo(t, "offload")
  /\ pulls' = [pulls EXCEPT ![t] = <<m>>]
  /\ UNCHANGED <<state, home, want, todo, look, pinned>>

\* Nobody asks who uses the model.  (It may fail and leave the cache alone.)
Offload(t) ==
  /\ pc[t] = "offload"
  /\ IsFree(Mgr)
  /\ hot' \in {hot, hot \ {Head(pulls[t])}}
  /\ Finish(t)
  /\ UNCHANGED serving

CallStop(t, s) ==
  /\ Begin(t, "stop")
  /\ GoTo(t, "stop")
  /\ look' = [look EXCEPT ![t] = s]
  /\ UNCHANGED <<state, home, want, pulls, todo, pinned>>

\* The wait for the worker's exit holds no lock.
Stop(t) ==
  /\ pc[t] = "stop"
  /\ IsFree(look[t])
  /\ serving' = [serving EXCEPT ![look[t]] = NoModel]
  /\ Finish(t)
  /\ UNCHANGED hot

-----------------------------------------------------------------------------
(* reload and stopAll, under live.mu *)

CallReload(t) ==
  /\ Begin(t, "reload")
  /\ GoTo(t, "reload")
  /\ UNCHANGED <<state, locals>>

\* The new entries of the config may add members to any of the slots.
ReloadEnter(t) ==
  /\ pc[t] = "reload"
  /\ Take(t, Live)
  /\ \E S \in SUBSET Slots : todo' = [todo EXCEPT ![t] = S]
  /\ GoTo(t, "adds")
  /\ UNCHANGED <<serving, hot, home, want, pulls, look, pinned>>

CallStopAll(t) ==
  /\ Begin(t, "stopAll")
  /\ GoTo(t, "stopAll")
  /\ UNCHANGED <<state, locals>>

StopAllEnter(t) ==
  /\ pc[t] = "stopAll"
  /\ Take(t, Live)
  /\ todo' = [todo EXCEPT ![t] = Slots]
  /\ GoTo(t, "stops")
  /\ UNCHANGED <<serving, hot, home, want, pulls, look, pinned>>

\* The next slot of reload or stopAll, or the end.
NextSlot(t) ==
  /\ pc[t] \in {"adds", "stops"}
  /\ \E s \in todo[t] :
       /\ look' = [look EXCEPT ![t] = s]
       /\ todo' = [todo EXCEPT ![t] = @ \ {s}]
  /\ GoTo(t, IF pc[t] = "adds" THEN "add" ELSE "stopOne")
  /\ UNCHANGED <<state, home, want, pulls, pinned>>

AllDone(t) ==
  /\ pc[t] \in {"adds", "stops"}
  /\ todo[t] = {}
  /\ Finish(t)
  /\ UNCHANGED <<serving, hot>>

AddMember(t) ==
  /\ pc[t] = "add"
  /\ IsFree(look[t])
  /\ GoTo(t, "adds")
  /\ UNCHANGED <<state, locals>>

\* g.Stop forgets the worker under g.mu, then waits for it, live.mu still held.
StopOne(t) ==
  /\ pc[t] = "stopOne"
  /\ IsFree(look[t])
  /\ serving' = [serving EXCEPT ![look[t]] = NoModel]
  /\ GoTo(t, IF serving[look[t]] = NoModel THEN "stops" ELSE "reap")
  /\ UNCHANGED <<owner, hot, locals>>

\* It has exited, or the 30 seconds of the shutdown are over.
Reaped(t) ==
  /\ pc[t] = "reap"
  /\ GoTo(t, "stops")
  /\ UNCHANGED <<state, locals>>

-----------------------------------------------------------------------------
Call(t) ==
  \/ \E s \in Slots, m \in Members : CallLoad(t, s, m)
  \/ \E m \in Models : CallPull(t, m) \/ CallOffload(t, m)
  \/ \E s \in Slots : CallStop(t, s)
  \/ CallReload(t) \/ CallStopAll(t)

\* The steps that a lock can hold up, and the others.
Acquire(t) ==
  \/ LoadHit(t) \/ LoadEnter(t)
  \/ PullHit(t) \/ PullRefused(t) \/ PullMiss(t)
  \/ PinLive(t) \/ PinRunning(t) \/ PinNamed(t) \/ Pin(t)
  \/ Offload(t) \/ Stop(t)
  \/ ReloadEnter(t) \/ AddMember(t) \/ StopAllEnter(t) \/ StopOne(t)

Proceed(t) ==
  \/ Swap(t) \/ Loaded(t) \/ LoadErr(t)
  \/ PinNext(t) \/ PinDone(t)
  \/ (\E v \in Models : Evict(t, v)) \/ EvictDone(t) \/ EvictErr(t)
  \/ Copied(t) \/ CopyErr(t)
  \/ NextSlot(t) \/ AllDone(t) \/ Reaped(t)

Next ==
  \/ \E t \in Threads : Call(t) \/ Acquire(t) \/ Proceed(t)
  \/ \E s \in Slots : WorkerDies(s)

Spec == Init /\ [][Next]_vars

(***************************************************************************)
(* Fairness.  A goroutine that can go on does, and the long steps end: a   *)
(* probe at its deadline, a copy with the disk's answer, a reap by KILL.   *)
(* Go's mutex hands itself to a waiter that has waited a millisecond, so   *)
(* nobody waits forever for a lock that is released again and again.       *)
(***************************************************************************)
FairSpec == Spec /\ \A t \in Threads : SF_vars(Acquire(t)) /\ WF_vars(Proceed(t))

-----------------------------------------------------------------------------
(* Properties *)

\* The lock that t waits for, if pc[t] \in Waiting.
WaitsFor(t) ==
  CASE pc[t] = "load" -> home[t]
    [] pc[t] \in {"mgr", "offload"} -> Mgr
    [] pc[t] \in {"live", "reload", "stopAll"} -> Live
    [] OTHER -> look[t]

\* No goroutines wait for each other, and none for a lock that it holds itself
\* (Go's mutex is not reentrant): in every group of waiting goroutines one
\* waits for a lock that nobody of the group holds.
NoDeadlock ==
  \A S \in SUBSET {t \in Threads : pc[t] \in Waiting} :
    S # {} => \E t \in S : owner[WaitsFor(t)] \notin S

\* Every request, pull, offload, stop, reload and shutdown comes to its end.
JobsEnd == \A t \in Threads : pc[t] # "idle" ~> pc[t] = "idle"

\* How many steps of its own the job of t still takes at most.  A pull is one
\* lap; the last one before a load's swap is followed by two steps.
Lap == 4 * Cardinality(Slots) + Cardinality(Models) + 8

Rank(t) ==
  LET slots == Cardinality(todo[t])
      laps == IF Len(pulls[t]) > 1 THEN Lap ELSE 0
      pins == laps + 4 * slots + Cardinality(Models) + 5
  IN  CASE pc[t] = "idle" -> 0
        [] pc[t] \in {"stop", "offload", "probe"} -> 1
        [] pc[t] = "swap" -> 2
        [] pc[t] = "copy" -> laps + 3
        [] pc[t] = "evict" -> laps + Cardinality(hot) + 4
        [] pc[t] = "pins" -> pins
        [] pc[t] = "pin" -> pins + 1
        [] pc[t] = "named" -> pins + 2
        [] pc[t] = "running" -> pins + 3
        [] pc[t] = "live" -> laps + Lap - 2
        [] pc[t] = "mgr" -> laps + Lap - 1
        [] pc[t] = "load" -> 2 * Lap
        [] pc[t] \in {"adds", "stops"} -> 3 * slots + 1
        [] pc[t] = "reap" -> 3 * slots + 2
        [] pc[t] \in {"add", "stopOne"} -> 3 * slots + 3
        [] OTHER -> 3 * Cardinality(Slots) + 2

\* No job goes round in circles, with a budget or without: each of its steps
\* brings it nearer to its end, and nothing that other goroutines do takes it
\* back, although its loops are over a cache and over slots that they change.
\* A job that does not end is one that waits for a lock.
NoLivelock ==
  [][\A t \in Threads :
       /\ Acquire(t) \/ Proceed(t) => Rank(t)' < Rank(t)
       /\ pc[t] # "idle" => Rank(t)' <= Rank(t)]_vars

\* v is what slot s serves, or what a load has pulled and is about to serve.
InUse(s, v) ==
  \/ serving[s] = v
  \/ \E t \in Threads :
       /\ owner[s] = t /\ home[t] = s /\ want[t] = v
       /\ pc[t] \in {"swap", "probe"} \/ pulls[t] \notin {<<>>, Weights(v)}

\* main.go:151 ("Pin currently-loaded models so offload never evicts a model
\* that is serving"): a pull never evicts a model that a slot serves, nor one
\* that was pulled for a load that is still under way.  Pinned reads the slots
\* one by one while loads go on; what protects a load is that Pinned waits for
\* its g.mu, and that no load passes its pull while m.mu is held.
EvictsNothingInUse ==
  [][\A t \in Threads, v \in Models, s \in Slots : Evict(t, v) => ~InUse(s, v)]_vars
=============================================================================
