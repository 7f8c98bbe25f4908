------------------------------- MODULE Offload -------------------------------
(***************************************************************************)
(* The offload manager (internal/offload) at the grain of its effects on   *)
(* the two disks: EnsurePulled with the evictions of ensureRoom, Offload,  *)
(* and Tier, which reads the disks without the manager's lock.  Copies and *)
(* removals of directories take many steps; each may fail half way, the    *)
(* external drive may vanish and return, and the daemon may die and start  *)
(* again at any moment.                                                    *)
(*                                                                         *)
(* A directory is the number of bytes it holds, or Absent.  CopyDir fills  *)
(* a sibling "<name>.partial" and renames it, so a partial is a directory  *)
(* like any other: List reports it, CacheUsed counts it.                   *)
(*                                                                         *)
(* Left out: lastUsed, its file and Reconcile.  They choose among the      *)
(* evictable directories; here any of them may be the victim.  Nothing     *)
(* else changes the two disks.                                             *)
(***************************************************************************)
EXTENDS Integers, FiniteSetsExt

CONSTANTS
  Models,     \* model names
  SizeOf,     \* bytes of each complete model
  Budget,     \* Options.Budget; 0 means unbounded
  Callers,    \* goroutines that call the manager
  Free        \* m.mu is not held

ASSUME OffloadAssumption ==
  /\ SizeOf \in [Models -> Nat \ {0}]
  /\ Budget \in Nat
  /\ Free \notin Callers

\* A disk holds finitely many directories.
ASSUME FinitelyMany == IsFiniteSet(Models)

VARIABLES
  cache,      \* Options.CacheRoot: the SSD
  library,    \* Options.LibraryRoot: the external drive
  mounted,    \* the external drive is there
  mu,         \* m.mu: the caller that holds it, or Free
  pc,         \* where each caller is
  arg,        \* the model it asked about
  target,     \* the directory its RemoveDir works on
  saw,        \* Tier: the cache copy was there
  res         \* what its last call returned

disks == <<cache, library>>
locals == <<arg, target, saw, res>>
vars == <<cache, library, mounted, mu, pc, arg, target, saw, res>>

Absent == -1
Kinds == {"model", "partial"}
Dirs == Models \X Kinds
Dir(m) == <<m, "model">>
Partial(m) == <<m, "partial">>       \* dst + ".partial"
SizeOfDir(d) == SizeOf[d[1]]

Locked == {"room", "evict", "pull", "check", "backup", "drop"}   \* m.mu is held
PCs == {"idle", "pullLock", "offloadLock", "tier"} \cup Locked

Disk == {f \in [Dirs -> Int] : \A d \in Dirs : f[d] \in Absent..SizeOfDir(d)}

TypeOK ==
  /\ cache \in Disk /\ library \in Disk
  /\ mounted \in BOOLEAN
  /\ mu \in Callers \cup {Free}
  /\ pc \in [Callers -> PCs]
  /\ arg \in [Callers -> Models]
  /\ target \in [Callers -> Dirs]
  /\ saw \in [Callers -> BOOLEAN]
  /\ res \in [Callers -> {"none", "ok", "err", "unknown", "known"}]

\* A disk as the user sets it up: whole models, nothing half done.
SetUp(S) == [d \in Dirs |-> IF d[2] = "model" /\ d[1] \in S THEN SizeOfDir(d) ELSE Absent]

\* The user's models are each on the SSD, on the drive, or on both.
Init ==
  /\ \E L, E \in SUBSET Models :
       /\ L \cup E = Models
       /\ cache = SetUp(L)
       /\ library = SetUp(E)
  /\ mounted \in BOOLEAN
  /\ mu = Free
  /\ pc = [c \in Callers |-> "idle"]
  /\ arg \in [Callers -> Models]
  /\ target \in {[c \in Callers |-> Dir(arg[c])]}
  /\ saw = [c \in Callers |-> FALSE]
  /\ res = [c \in Callers |-> "none"]

-----------------------------------------------------------------------------
(* Helpers *)

InCache(d) == cache[d] # Absent
InLibrary(d) == mounted /\ library[d] # Absent

\* The bytes of all directories under the cache root.
CacheUsed == MapThenSumSet(LAMBDA d : cache[d], {d \in Dirs : InCache(d)})

\* c's call is over and answers a; the lock goes if c had it.
Return(c, a) ==
  /\ pc' = [pc EXCEPT ![c] = "idle"]
  /\ res' = [res EXCEPT ![c] = a]
  /\ mu' = IF mu = c THEN Free ELSE mu
  /\ UNCHANGED <<arg, target, saw>>

GoTo(c, step) ==
  /\ pc' = [pc EXCEPT ![c] = step]
  /\ UNCHANGED locals

Lock(c) == mu = Free /\ mu' = c

-----------------------------------------------------------------------------
(* EnsurePulled *)

Call(c, m, step) ==
  /\ pc[c] = "idle"
  /\ pc' = [pc EXCEPT ![c] = step]
  /\ arg' = [arg EXCEPT ![c] = m]
  /\ res' = [res EXCEPT ![c] = "none"]
  /\ UNCHANGED <<disks, mounted, mu, target, saw>>

CallPull(c, m) == Call(c, m, "pullLock")

\* Whatever is there under the model's name will do.
PullHit(c) ==
  /\ pc[c] = "pullLock" /\ mu = Free
  /\ InCache(Dir(arg[c]))
  /\ Return(c, "ok")
  /\ UNCHANGED <<disks, mounted>>

\* Neither here nor there, the drive is away, or its directory cannot be read.
PullRefused(c) ==
  /\ pc[c] = "pullLock" /\ mu = Free
  /\ ~InCache(Dir(arg[c]))
  /\ Return(c, "err")
  /\ UNCHANGED <<disks, mounted>>

\* A cold model: the lock is kept from here to the end of the call.
PullMiss(c) ==
  /\ pc[c] = "pullLock"
  /\ ~InCache(Dir(arg[c]))
  /\ InLibrary(Dir(arg[c]))
  /\ Lock(c)
  /\ GoTo(c, "room")
  /\ UNCHANGED <<disks, mounted>>

\* Faulty: the model that is coming is not counted.
FitsUsed(c) == Budget = 0 \/ CacheUsed <= Budget

\* ensureRoom is content with the space there is.
Fits(c) == Budget = 0 \/ CacheUsed + library[Dir(arg[c])] <= Budget

\* Faulty: a copy that exists nowhere else may go.
EvictableAny(c, d) == InCache(d) /\ d # Dir(arg[c])

\* lruEvictable: d has a library copy and is not the model asked for.  That d
\* is not pinned is Daemon.tla's concern: here any set may be pinned, the
\* empty one too.
Evictable(c, d) ==
  /\ InCache(d)
  /\ d # Dir(arg[c])
  /\ InLibrary(d)

PickVictim(c) ==
  /\ pc[c] = "room"
  /\ ~Fits(c)
  /\ \E d \in Dirs :
       /\ Evictable(c, d)
       /\ target' = [target EXCEPT ![c] = d]
  /\ pc' = [pc EXCEPT ![c] = "evict"]
  /\ UNCHANGED <<disks, mounted, mu, arg, saw, res>>

\* Nothing (more) can go, or the cache cannot be read.
NoVictim(c) ==
  /\ pc[c] = "room"
  /\ Budget # 0
  /\ Return(c, "err")
  /\ UNCHANGED <<disks, mounted>>

\* CopyDir from the library: whatever an earlier copy left behind goes first.
PullStart(c) ==
  /\ pc[c] = "room"
  /\ Fits(c)
  /\ cache' = [cache EXCEPT ![Partial(arg[c])] = 0]
  /\ GoTo(c, "pull")
  /\ UNCHANGED <<library, mounted, mu>>

\* Faulty: one more round than there are bytes.
PullTooMuch(c) ==
  /\ pc[c] = "pull"
  /\ mounted
  /\ cache[Partial(arg[c])] <= library[Dir(arg[c])]
  /\ cache' = [cache EXCEPT ![Partial(arg[c])] = @ + 1]
  /\ UNCHANGED <<library, mounted, mu, pc, locals>>

PullSome(c) ==
  /\ pc[c] = "pull"
  /\ mounted
  /\ cache[Partial(arg[c])] < library[Dir(arg[c])]
  /\ cache' = [cache EXCEPT ![Partial(arg[c])] = @ + 1]
  /\ UNCHANGED <<library, mounted, mu, pc, locals>>

\* The rename.
PullDone(c) ==
  /\ pc[c] = "pull"
  /\ cache[Partial(arg[c])] = library[Dir(arg[c])]
  /\ cache' = [cache EXCEPT ![Dir(arg[c])] = cache[Partial(arg[c])],
                            ![Partial(arg[c])] = Absent]
  /\ Return(c, "ok")
  /\ UNCHANGED <<library, mounted>>

\* The copy failed; so may the removal of what it left, of which nobody hears.
PullErr(c) ==
  /\ pc[c] = "pull"
  /\ \/ cache' = [cache EXCEPT ![Partial(arg[c])] = Absent]
     \/ UNCHANGED cache
  /\ Return(c, "err")
  /\ UNCHANGED <<library, mounted>>

-----------------------------------------------------------------------------
(* Offload *)

CallOffload(c, m) == Call(c, m, "offloadLock")

\* Not in the cache: done already, or a name nobody knows.
OffloadNothing(c) ==
  /\ pc[c] = "offloadLock" /\ mu = Free
  /\ ~InCache(Dir(arg[c]))
  /\ Return(c, IF mounted /\ ~InLibrary(Dir(arg[c])) THEN "err" ELSE "ok")
  /\ UNCHANGED <<disks, mounted>>

OffloadUnmounted(c) ==
  /\ pc[c] = "offloadLock" /\ mu = Free
  /\ InCache(Dir(arg[c]))
  /\ ~mounted
  /\ Return(c, "err")
  /\ UNCHANGED <<disks, mounted>>

OffloadEnter(c) ==
  /\ pc[c] = "offloadLock"
  /\ InCache(Dir(arg[c]))
  /\ mounted
  /\ Lock(c)
  /\ GoTo(c, "check")
  /\ UNCHANGED <<disks, mounted>>

\* Faulty: the cache copy goes whether the library has one or not.
BackedUpAnyway(c) ==
  /\ pc[c] = "check"
  /\ target' = [target EXCEPT ![c] = Dir(arg[c])]
  /\ pc' = [pc EXCEPT ![c] = "drop"]
  /\ UNCHANGED <<disks, mounted, mu, arg, saw, res>>

\* The library has a copy: the one in the cache can go.
BackedUp(c) ==
  /\ pc[c] = "check"
  /\ InLibrary(Dir(arg[c]))
  /\ target' = [target EXCEPT ![c] = Dir(arg[c])]
  /\ pc' = [pc EXCEPT ![c] = "drop"]
  /\ UNCHANGED <<disks, mounted, mu, arg, saw, res>>

\* Faulty: the copy grows under its final name.
BackupInPlace(c) ==
  /\ pc[c] = "check"
  /\ mounted /\ ~InLibrary(Dir(arg[c]))
  /\ library' = [library EXCEPT ![Dir(arg[c])] = 0, ![Partial(arg[c])] = 0]
  /\ GoTo(c, "backup")
  /\ UNCHANGED <<cache, mounted, mu>>

\* It has none: CopyDir to the library.
BackupStart(c) ==
  /\ pc[c] = "check"
  /\ mounted /\ ~InLibrary(Dir(arg[c]))
  /\ library' = [library EXCEPT ![Partial(arg[c])] = 0]
  /\ GoTo(c, "backup")
  /\ UNCHANGED <<cache, mounted, mu>>

BackupSome(c) ==
  /\ pc[c] = "backup"
  /\ mounted
  /\ library[Partial(arg[c])] < cache[Dir(arg[c])]
  /\ library' = [library EXCEPT ![Partial(arg[c])] = @ + 1]
  /\ UNCHANGED <<cache, mounted, mu, pc, locals>>

BackupDone(c) ==
  /\ pc[c] = "backup"
  /\ mounted
  /\ library[Partial(arg[c])] = cache[Dir(arg[c])]
  /\ library' = [library EXCEPT ![Dir(arg[c])] = library[Partial(arg[c])],
                                ![Partial(arg[c])] = Absent]
  /\ target' = [target EXCEPT ![c] = Dir(arg[c])]
  /\ pc' = [pc EXCEPT ![c] = "drop"]
  /\ UNCHANGED <<cache, mounted, mu, arg, saw, res>>

\* The drive was away when CopyDir began ...
BackupUnmounted(c) ==
  /\ pc[c] = "check"
  /\ ~mounted
  /\ Return(c, "err")
  /\ UNCHANGED <<disks, mounted>>

\* ... or the copy failed later; what it left is removed, if that can be done.
BackupErr(c) ==
  /\ pc[c] = "backup"
  /\ \/ mounted /\ library' = [library EXCEPT ![Partial(arg[c])] = Absent]
     \/ UNCHANGED library
  /\ Return(c, "err")
  /\ UNCHANGED <<cache, mounted>>

-----------------------------------------------------------------------------
(* RemoveDir, of a victim ("evict") and of an offloaded model ("drop") *)

RemoveSome(c) ==
  /\ pc[c] \in {"evict", "drop"}
  /\ cache[target[c]] > 0
  /\ cache' = [cache EXCEPT ![target[c]] = @ - 1]
  /\ UNCHANGED <<library, mounted, mu, pc, locals>>

EvictDone(c) ==
  /\ pc[c] = "evict"
  /\ cache[target[c]] = 0
  /\ cache' = [cache EXCEPT ![target[c]] = Absent]
  /\ GoTo(c, "room")
  /\ UNCHANGED <<library, mounted, mu>>

DropDone(c) ==
  /\ pc[c] = "drop"
  /\ cache[target[c]] = 0
  /\ cache' = [cache EXCEPT ![target[c]] = Absent]
  /\ Return(c, "ok")
  /\ UNCHANGED <<library, mounted>>

RemoveErr(c) ==
  /\ pc[c] \in {"evict", "drop"}
  /\ Return(c, "err")
  /\ UNCHANGED <<disks, mounted>>

-----------------------------------------------------------------------------
(* Tier: two looks at the disks, without the lock *)

TierCache(c, m) ==
  /\ pc[c] = "idle"
  /\ pc' = [pc EXCEPT ![c] = "tier"]
  /\ arg' = [arg EXCEPT ![c] = m]
  /\ saw' = [saw EXCEPT ![c] = InCache(Dir(m))]
  /\ UNCHANGED <<disks, mounted, mu, target, res>>

TierLibrary(c) ==
  /\ pc[c] = "tier"
  /\ Return(c, IF saw[c] \/ InLibrary(Dir(arg[c])) THEN "known" ELSE "unknown")
  /\ UNCHANGED <<disks, mounted>>

-----------------------------------------------------------------------------
(* The world *)

Replug ==
  /\ mounted' = ~mounted
  /\ UNCHANGED <<disks, mu, pc, locals>>

\* mlxd dies and is started again: what was under way stays half done.
Crash ==
  /\ mu' = Free
  /\ pc' = [c \in Callers |-> "idle"]
  /\ res' = [c \in Callers |-> "none"]
  /\ UNCHANGED <<disks, mounted, arg, target, saw>>

-----------------------------------------------------------------------------
PullStep(c) ==
  \/ PullHit(c) \/ PullRefused(c) \/ PullMiss(c)
  \/ PickVictim(c) \/ NoVictim(c) \/ PullStart(c) \/ PullSome(c) \/ PullDone(c) \/ PullErr(c)

OffloadStep(c) ==
  \/ OffloadNothing(c) \/ OffloadUnmounted(c) \/ OffloadEnter(c)
  \/ BackedUp(c) \/ BackupStart(c) \/ BackupSome(c) \/ BackupDone(c)
  \/ BackupUnmounted(c) \/ BackupErr(c)

RemoveStep(c) == RemoveSome(c) \/ EvictDone(c) \/ DropDone(c) \/ RemoveErr(c)

Next ==
  \/ \E c \in Callers :
       \/ \E m \in Models : CallPull(c, m) \/ CallOffload(c, m) \/ TierCache(c, m)
       \/ PullStep(c) \/ OffloadStep(c) \/ RemoveStep(c) \/ TierLibrary(c)
  \/ Replug
  \/ Crash

Spec == Init /\ [][Next]_vars
-----------------------------------------------------------------------------
(* Properties *)

Whole(disk, m) == disk[Dir(m)] = SizeOf[m]

\* The weights of a model are never lost: whatever fails, whenever the drive
\* goes and the daemon dies, a complete copy is on one of the two disks.
Durable == \A m \in Models : Whole(cache, m) \/ Whole(library, m)

\* The cache grows within its budget only, what earlier copies left behind
\* counted: a pull first makes room for all of the model that is coming.
CacheWithinBudget ==
  [][Budget # 0 /\ CacheUsed' > CacheUsed => CacheUsed' <= Budget]_vars

\* Tier looks at the two disks one after the other and without the lock; still
\* it calls a model "unknown" only if the drive is away, although a pull and an
\* offload may have moved the model between the two looks.
UnknownMeansUnplugged ==
  [][\A c \in Callers :
       res'[c] = "unknown" /\ res[c] # "unknown" => ~mounted]_vars

Store == INSTANCE TieredStore WITH
  local <- {m \in Models : Whole(cache, m)},
  library <- {m \in Models : Whole(library, m)}

\* The library never loses a copy, and the cache gives one up only when the
\* library has it.
ImplementsStore == Store!Spec

\* docs/specs/2026-06-03-offload-two-tier-storage-design.md:131 ("a copy is
\* considered valid only if `config.json` (and at least one weights file) is
\* present"): when EnsurePulled answers nil, the worker finds a complete model.
PulledIsWhole ==
  [][\A c \in Callers :
       pc[c] \in {"pullLock", "pull"} /\ pc'[c] = "idle" /\ res'[c] = "ok"
       => Whole(cache', arg[c])]_vars
=============================================================================
