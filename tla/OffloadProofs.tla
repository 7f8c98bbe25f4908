---------------------------- MODULE OffloadProofs ----------------------------
(***************************************************************************)
(* No model is ever lost, for any models, sizes, budget and callers.       *)
(* OffloadInv is the inductive invariant: beside the types and the lock,   *)
(* Backed says which states of the two disks occur, and Midway what each   *)
(* caller may rely on in the middle of its call.                           *)
(***************************************************************************)
EXTENDS Offload, SumFacts, TLAPS

LockHeld == \A c \in Callers : pc[c] \in Locked <=> mu = c

\* A library copy is complete, and a model that has none is complete in the cache.
Backed ==
  \A m \in Models :
    /\ library[Dir(m)] \in {Absent, SizeOf[m]}
    /\ Whole(cache, m) \/ Whole(library, m)

\* What c may rely on where it is.
MidwayAt(c) ==
  /\ pc[c] \in {"room", "evict", "pull"} => cache[Dir(arg[c])] = Absent
  /\ pc[c] = "evict" => target[c] # Dir(arg[c]) /\ library[target[c]] # Absent
  /\ pc[c] = "pull" => cache[Partial(arg[c])] # Absent
  /\ pc[c] \in {"check", "backup"} => cache[Dir(arg[c])] # Absent
  /\ pc[c] = "backup" => library[Dir(arg[c])] = Absent /\ library[Partial(arg[c])] # Absent
  /\ pc[c] = "drop" => target[c] = Dir(arg[c]) /\ library[Dir(arg[c])] # Absent
  /\ pc[c] = "tier" /\ ~saw[c] => library[Dir(arg[c])] # Absent

Midway == \A c \in Callers : MidwayAt(c)

OffloadInv == TypeOK /\ LockHeld /\ Backed /\ Midway

-----------------------------------------------------------------------------
\* A model's directory, its partial, and those of other models differ.
LEMMA DirFacts ==
  /\ \A m \in Models : /\ Dir(m) \in Dirs /\ Partial(m) \in Dirs
                       /\ SizeOfDir(Dir(m)) = SizeOf[m]
                       /\ SizeOfDir(Partial(m)) = SizeOf[m]
  /\ \A m, n \in Models : /\ Dir(m) # Partial(n)
                          /\ Dir(m) = Dir(n) => m = n
                          /\ Partial(m) = Partial(n) => m = n
  /\ \A d \in Dirs : SizeOfDir(d) \in Nat \ {0}
  /\ \A d \in Dirs : (\E m \in Models : d = Dir(m)) \/ (\E m \in Models : d = Partial(m))
  BY OffloadAssumption DEF Dir, Partial, Dirs, Kinds, SizeOfDir

LEMMA InitInv == Init => OffloadInv
<1> SUFFICES ASSUME Init PROVE OffloadInv
  OBVIOUS
<1>1. PICK L \in SUBSET Models, E \in SUBSET Models :
        L \cup E = Models /\ cache = SetUp(L) /\ library = SetUp(E)
  BY DEF Init
<1>2. \A S \in SUBSET Models :
        /\ SetUp(S) \in Disk
        /\ \A m \in Models : SetUp(S)[Dir(m)] = IF m \in S THEN SizeOf[m] ELSE Absent
  BY OffloadAssumption, DirFacts DEF SetUp, Disk, Absent, Dirs, Kinds, Dir, SizeOfDir
<1>3. TypeOK
  BY <1>1, <1>2, DirFacts DEF Init, TypeOK, PCs, Locked
<1>4. LockHeld
  BY OffloadAssumption DEF Init, LockHeld, Locked
<1>5. Backed
  BY <1>1, <1>2, OffloadAssumption DEF Backed, Whole
<1>6. Midway
  BY DEF Init, Midway, MidwayAt
<1>7. QED
  BY <1>3, <1>4, <1>5, <1>6 DEF OffloadInv

\* A disk's directories hold no more than their model; one of them may change.
LEMMA DiskFacts ==
  /\ \A f \in Disk, d \in Dirs : f[d] \in Int /\ -1 <= f[d] /\ f[d] <= SizeOfDir(d)
  /\ \A f \in Disk, d \in Dirs, n \in Int :
       -1 <= n /\ n <= SizeOfDir(d) => [f EXCEPT ![d] = n] \in Disk
  /\ \A f \in Disk, d \in Dirs : [f EXCEPT ![d] = 0] \in Disk
  /\ \A f \in Disk, d \in Dirs : [f EXCEPT ![d] = Absent] \in Disk
  /\ \A f \in Disk, d \in Dirs :
       f[d] < SizeOfDir(d) => [f EXCEPT ![d] = f[d] + 1] \in Disk
  /\ \A f \in Disk, d \in Dirs : f[d] > 0 => [f EXCEPT ![d] = f[d] - 1] \in Disk
  BY DirFacts DEF Disk, Absent

LEMMA TypeStep == OffloadInv /\ [Next]_vars => TypeOK'
<1> SUFFICES ASSUME OffloadInv, [Next]_vars PROVE TypeOK'
  OBVIOUS
<1> USE OffloadAssumption DEF OffloadInv, TypeOK, PCs, Locked, disks, locals, Return, GoTo, Lock
<1>1. ASSUME NEW c \in Callers, NEW m \in Models, CallPull(c, m) \/ CallOffload(c, m)
      PROVE TypeOK'
  BY <1>1 DEF CallPull, CallOffload, Call
<1>2. ASSUME NEW c \in Callers, PullStep(c) PROVE TypeOK'
  <2> /\ arg[c] \in Models
      /\ Dir(arg[c]) \in Dirs /\ SizeOfDir(Dir(arg[c])) = SizeOf[arg[c]]
      /\ Partial(arg[c]) \in Dirs /\ SizeOfDir(Partial(arg[c])) = SizeOf[arg[c]]
      /\ SizeOf[arg[c]] \in Nat
    BY DirFacts
  <2>1. CASE PullHit(c) \/ PullRefused(c) \/ PullMiss(c) \/ NoVictim(c)
    BY <2>1 DEF PullHit, PullRefused, PullMiss, NoVictim
  <2>2. CASE PickVictim(c)
    BY <2>2 DEF PickVictim
  <2>3. CASE PullStart(c)
    <3>1. cache' \in Disk
      BY <2>3, DiskFacts DEF PullStart
    <3>2. QED
      BY <2>3, <3>1 DEF PullStart
  <2>4. CASE PullSome(c)
    <3>1. library[Dir(arg[c])] <= SizeOf[arg[c]] /\ cache[Partial(arg[c])] \in Int
      BY DiskFacts
    <3>2. cache[Partial(arg[c])] < SizeOfDir(Partial(arg[c]))
      BY <2>4, <3>1, DiskFacts DEF PullSome
    <3>3. cache' \in Disk
      BY <2>4, <3>2, DiskFacts DEF PullSome
    <3>4. QED
      BY <2>4, <3>3 DEF PullSome
  <2>5. CASE PullDone(c)
    <3> DEFINE moved == [cache EXCEPT ![Dir(arg[c])] = cache[Partial(arg[c])]]
    <3>1. moved \in Disk
      BY DiskFacts
    <3>2. [moved EXCEPT ![Partial(arg[c])] = Absent] \in Disk
      BY <3>1, DiskFacts
    <3>3. cache' \in Disk
      BY <2>5, <3>2 DEF PullDone
    <3>4. QED
      BY <2>5, <3>3 DEF PullDone
  <2>6. CASE PullErr(c)
    <3>1. cache' \in Disk
      BY <2>6, DiskFacts DEF PullErr
    <3>2. QED
      BY <2>6, <3>1 DEF PullErr
  <2>7. QED
    BY <1>2, <2>1, <2>2, <2>3, <2>4, <2>5, <2>6 DEF PullStep
<1>3. ASSUME NEW c \in Callers, OffloadStep(c) PROVE TypeOK'
  <2> /\ arg[c] \in Models
      /\ Dir(arg[c]) \in Dirs /\ SizeOfDir(Dir(arg[c])) = SizeOf[arg[c]]
      /\ Partial(arg[c]) \in Dirs /\ SizeOfDir(Partial(arg[c])) = SizeOf[arg[c]]
      /\ SizeOf[arg[c]] \in Nat
    BY DirFacts
  <2>1. CASE OffloadNothing(c) \/ OffloadUnmounted(c) \/ OffloadEnter(c) \/ BackupUnmounted(c)
    BY <2>1 DEF OffloadNothing, OffloadUnmounted, OffloadEnter, BackupUnmounted
  <2>2. CASE BackedUp(c)
    BY <2>2 DEF BackedUp
  <2>3. CASE BackupStart(c)
    <3>1. library' \in Disk
      BY <2>3, DiskFacts DEF BackupStart
    <3>2. QED
      BY <2>3, <3>1 DEF BackupStart
  <2>4. CASE BackupSome(c)
    <3>1. cache[Dir(arg[c])] <= SizeOf[arg[c]] /\ library[Partial(arg[c])] \in Int
      BY DiskFacts
    <3>2. library[Partial(arg[c])] < SizeOfDir(Partial(arg[c]))
      BY <2>4, <3>1, DiskFacts DEF BackupSome
    <3>3. library' \in Disk
      BY <2>4, <3>2, DiskFacts DEF BackupSome
    <3>4. QED
      BY <2>4, <3>3 DEF BackupSome
  <2>5. CASE BackupDone(c)
    <3> DEFINE moved == [library EXCEPT ![Dir(arg[c])] = library[Partial(arg[c])]]
    <3>1. moved \in Disk
      BY DiskFacts
    <3>2. [moved EXCEPT ![Partial(arg[c])] = Absent] \in Disk
      BY <3>1, DiskFacts
    <3>3. library' \in Disk
      BY <2>5, <3>2 DEF BackupDone
    <3>4. QED
      BY <2>5, <3>3 DEF BackupDone
  <2>6. CASE BackupErr(c)
    <3>1. library' \in Disk
      BY <2>6, DiskFacts DEF BackupErr
    <3>2. QED
      BY <2>6, <3>1 DEF BackupErr
  <2>7. QED
    BY <1>3, <2>1, <2>2, <2>3, <2>4, <2>5, <2>6 DEF OffloadStep
<1>4. ASSUME NEW c \in Callers, RemoveStep(c) PROVE TypeOK'
  <2>1. target[c] \in Dirs /\ SizeOfDir(target[c]) \in Nat
    BY DirFacts
  <2>2. cache' \in Disk
    BY <1>4, <2>1, DiskFacts DEF RemoveStep, RemoveSome, EvictDone, DropDone, RemoveErr, Absent
  <2>3. QED
    BY <1>4, <2>2 DEF RemoveStep, RemoveSome, EvictDone, DropDone, RemoveErr
<1>5. ASSUME NEW c \in Callers, NEW m \in Models, TierCache(c, m) PROVE TypeOK'
  BY <1>5 DEF TierCache, InCache
<1>6. ASSUME NEW c \in Callers, TierLibrary(c) PROVE TypeOK'
  BY <1>6 DEF TierLibrary
<1>7. CASE Replug \/ Crash \/ UNCHANGED vars
  BY <1>7 DEF Replug, Crash, vars
<1>8. QED
  BY <1>1, <1>2, <1>3, <1>4, <1>5, <1>6, <1>7 DEF Next

\* Only the lock's holder is in the middle of a call.
LEMMA LockStep == OffloadInv /\ [Next]_vars => LockHeld'
<1> SUFFICES ASSUME OffloadInv, [Next]_vars PROVE LockHeld'
  OBVIOUS
<1> USE OffloadAssumption DEF OffloadInv, TypeOK, LockHeld, PCs, Locked, disks, locals,
        Return, GoTo, Lock
<1>1. ASSUME NEW c \in Callers, NEW m \in Models,
             CallPull(c, m) \/ CallOffload(c, m) \/ TierCache(c, m)
      PROVE LockHeld'
  BY <1>1 DEF CallPull, CallOffload, Call, TierCache
<1>2. ASSUME NEW c \in Callers, PullStep(c) PROVE LockHeld'
  BY <1>2 DEF PullStep, PullHit, PullRefused, PullMiss, NoVictim, PickVictim, PullStart,
              PullSome, PullDone, PullErr
<1>3. ASSUME NEW c \in Callers, OffloadStep(c) PROVE LockHeld'
  BY <1>3 DEF OffloadStep, OffloadNothing, OffloadUnmounted, OffloadEnter, BackedUp,
              BackupStart, BackupSome, BackupDone, BackupUnmounted, BackupErr
<1>4. ASSUME NEW c \in Callers, RemoveStep(c) \/ TierLibrary(c) PROVE LockHeld'
  BY <1>4 DEF RemoveStep, RemoveSome, EvictDone, DropDone, RemoveErr, TierLibrary
<1>5. CASE Replug \/ Crash \/ UNCHANGED vars
  BY <1>5 DEF Replug, Crash, vars
<1>6. QED
  BY <1>1, <1>2, <1>3, <1>4, <1>5 DEF Next

\* How a step changes the directory of a model: copies appear under a model's
\* name only when they are complete, and only a copy the library has goes.
\* A step is about one model.
Still(m) == library'[Dir(m)] = library[Dir(m)] /\ cache'[Dir(m)] = cache[Dir(m)]

ModelSteps ==
  /\ \A m \in Models :
       /\ \/ library'[Dir(m)] = library[Dir(m)]
          \/ ~Whole(library, m) /\ Whole(library', m) /\ Whole(cache, m) /\ cache' = cache
       /\ \/ cache'[Dir(m)] = cache[Dir(m)]
          \/ ~Whole(cache, m) /\ Whole(cache', m) /\ Whole(library, m) /\ library' = library
          \/ Whole(library, m) /\ ~Whole(cache', m) /\ library' = library
  /\ \A m, n \in Models : m # n => Still(m) \/ Still(n)

LEMMA ModelStep == OffloadInv /\ [Next]_vars => ModelSteps
<1> SUFFICES ASSUME OffloadInv, [Next]_vars PROVE ModelSteps
  OBVIOUS
<1> USE OffloadAssumption DEF OffloadInv, TypeOK
<1>1. CASE UNCHANGED disks
  BY <1>1 DEF disks, ModelSteps, Still
<1>2. ASSUME NEW c \in Callers, PullStep(c) PROVE ModelSteps
  <2> arg[c] \in Models
    OBVIOUS
  <2>1. CASE PullHit(c) \/ PullRefused(c) \/ PullMiss(c) \/ NoVictim(c) \/ PickVictim(c)
    BY <2>1, <1>1 DEF PullHit, PullRefused, PullMiss, NoVictim, PickVictim
  <2>2. CASE PullStart(c) \/ PullSome(c) \/ PullErr(c)
    <3>1. \A m \in Models : cache'[Dir(m)] = cache[Dir(m)]
      BY <2>2, DirFacts DEF PullStart, PullSome, PullErr, Disk
    <3>2. library' = library
      BY <2>2 DEF PullStart, PullSome, PullErr
    <3>3. QED
      BY <3>1, <3>2 DEF ModelSteps, Still
  <2>3. CASE PullDone(c)
    <3>1. library' = library
      BY <2>3 DEF PullDone
    <3>2. \A m \in Models : m # arg[c] => cache'[Dir(m)] = cache[Dir(m)]
      BY <2>3, DirFacts DEF PullDone, Disk
    <3>3. cache'[Dir(arg[c])] = library[Dir(arg[c])]
      BY <2>3, DirFacts DEF PullDone, Disk
    <3>4. cache[Dir(arg[c])] = Absent
      BY <2>3 DEF PullDone, Midway, MidwayAt
    <3>5. Whole(library, arg[c]) /\ ~Whole(cache, arg[c])
      BY <3>4 DEF Backed, Whole, Absent
    <3>6. QED
      BY <3>1, <3>2, <3>3, <3>5 DEF ModelSteps, Still, Whole
  <2>4. QED
    BY <1>2, <2>1, <2>2, <2>3 DEF PullStep
<1>3. ASSUME NEW c \in Callers, OffloadStep(c) PROVE ModelSteps
  <2> arg[c] \in Models
    OBVIOUS
  <2>1. CASE \/ OffloadNothing(c) \/ OffloadUnmounted(c) \/ OffloadEnter(c)
             \/ BackedUp(c) \/ BackupUnmounted(c)
    BY <2>1, <1>1 DEF OffloadNothing, OffloadUnmounted, OffloadEnter, BackedUp, BackupUnmounted
  <2>2. CASE BackupStart(c) \/ BackupSome(c) \/ BackupErr(c)
    <3>1. \A m \in Models : library'[Dir(m)] = library[Dir(m)]
      BY <2>2, DirFacts DEF BackupStart, BackupSome, BackupErr, Disk
    <3>2. cache' = cache
      BY <2>2 DEF BackupStart, BackupSome, BackupErr
    <3>3. QED
      BY <3>1, <3>2 DEF ModelSteps, Still
  <2>3. CASE BackupDone(c)
    <3>1. cache' = cache
      BY <2>3 DEF BackupDone
    <3>2. \A m \in Models : m # arg[c] => library'[Dir(m)] = library[Dir(m)]
      BY <2>3, DirFacts DEF BackupDone, Disk
    <3>3. library'[Dir(arg[c])] = cache[Dir(arg[c])]
      BY <2>3, DirFacts DEF BackupDone, Disk
    <3>4. library[Dir(arg[c])] = Absent
      BY <2>3 DEF BackupDone, Midway, MidwayAt
    <3>5. Whole(cache, arg[c]) /\ ~Whole(library, arg[c])
      BY <3>4 DEF Backed, Whole, Absent
    <3>6. QED
      BY <3>1, <3>2, <3>3, <3>5 DEF ModelSteps, Still, Whole
  <2>4. QED
    BY <1>3, <2>1, <2>2, <2>3 DEF OffloadStep
<1>4. ASSUME NEW c \in Callers, RemoveStep(c) PROVE ModelSteps
  <2>1. CASE RemoveErr(c)
    BY <2>1, <1>1 DEF RemoveErr
  <2>2. CASE RemoveSome(c) \/ EvictDone(c) \/ DropDone(c)
    <3>1. library' = library
      BY <2>2 DEF RemoveSome, EvictDone, DropDone
    <3>2. library[target[c]] # Absent
      BY <2>2 DEF RemoveSome, EvictDone, DropDone, Midway, MidwayAt
    <3>3. target[c] \in Dirs
      OBVIOUS
    <3>4. \A d \in Dirs : d # target[c] => cache'[d] = cache[d]
      BY <2>2 DEF RemoveSome, EvictDone, DropDone, Disk
    <3>5. cache'[target[c]] < SizeOfDir(target[c])
      BY <2>2, <3>3, DirFacts, DiskFacts DEF RemoveSome, EvictDone, DropDone, Disk, Absent
    <3>6. ASSUME NEW m \in Models, Dir(m) = target[c]
          PROVE  Whole(library, m) /\ ~Whole(cache', m)
      BY <3>2, <3>5, <3>6, DirFacts DEF Backed, Whole
    <3>7. QED
      BY <3>1, <3>4, <3>6, DirFacts DEF ModelSteps, Still
  <2>3. QED
    BY <1>4, <2>1, <2>2 DEF RemoveStep
<1>5. QED
  BY <1>1, <1>2, <1>3, <1>4
     DEF Next, vars, disks, CallPull, CallOffload, Call, TierCache, TierLibrary, Replug, Crash

\* Backed is kept.
LEMMA BackedStep == OffloadInv /\ ModelSteps => Backed'
  BY OffloadAssumption DEF OffloadInv, ModelSteps, Backed, Whole, Absent

\* A caller that does not move loses nothing: the disks change in the hands
\* of the lock's holder only, and the library keeps what it has.
LEMMA Bystander ==
  ASSUME OffloadInv, ModelSteps, NEW x \in Callers,
         pc'[x] = pc[x], arg'[x] = arg[x], target'[x] = target[x], saw'[x] = saw[x],
         pc[x] \in Locked => UNCHANGED disks
  PROVE  MidwayAt(x)'
<1>1. arg[x] \in Models /\ MidwayAt(x) /\ pc[x] \in PCs
  BY DEF OffloadInv, TypeOK, Midway, MidwayAt
<1>2. library[Dir(arg[x])] # Absent => library'[Dir(arg[x])] # Absent
  BY <1>1 DEF OffloadInv, ModelSteps, Backed, Whole
<1>3. CASE pc[x] \in Locked
  BY <1>1, <1>3 DEF MidwayAt, disks, Locked
<1>4. CASE pc[x] \notin Locked
  BY <1>1, <1>2, <1>4 DEF MidwayAt, PCs, Locked
<1>5. QED
  BY <1>3, <1>4

LEMMA MidwayStep == OffloadInv /\ ModelSteps /\ [Next]_vars => Midway'
<1> SUFFICES ASSUME OffloadInv, ModelSteps, [Next]_vars PROVE Midway'
  OBVIOUS
<1> USE OffloadAssumption DEF OffloadInv, TypeOK
<1>1. SUFFICES ASSUME NEW x \in Callers PROVE MidwayAt(x)'
  BY DEF Midway, MidwayAt
<1>2. ASSUME UNCHANGED <<disks, pc, arg, target, saw>> PROVE MidwayAt(x)'
  BY <1>2, Bystander
<1>3. ASSUME NEW c \in Callers, NEW m \in Models, CallPull(c, m) \/ CallOffload(c, m)
      PROVE MidwayAt(x)'
  <2>1. CASE x = c
    BY <1>3, <2>1 DEF CallPull, CallOffload, Call, MidwayAt
  <2>2. CASE x # c
    BY <1>3, <2>2, Bystander DEF CallPull, CallOffload, Call
  <2>3. QED
    BY <2>1, <2>2
<1>4. ASSUME NEW c \in Callers, NEW m \in Models, TierCache(c, m) PROVE MidwayAt(x)'
  <2>1. CASE x = c
    <3>1. pc'[c] = "tier" /\ arg'[c] = m /\ saw'[c] = (cache[Dir(m)] # Absent)
      BY <1>4 DEF TierCache, InCache
    <3>2. library' = library
      BY <1>4 DEF TierCache, disks
    <3>3. cache[Dir(m)] = Absent => library[Dir(m)] # Absent
      BY DEF Backed, Whole, Absent
    <3>4. QED
      BY <2>1, <3>1, <3>2, <3>3 DEF MidwayAt
  <2>2. CASE x # c
    BY <1>4, <2>2, Bystander DEF TierCache
  <2>3. QED
    BY <2>1, <2>2
<1>5. ASSUME NEW c \in Callers, PullStep(c) PROVE MidwayAt(x)'
  <2>1. CASE x = c
    <3> /\ arg[c] \in Models /\ MidwayAt(c)
        /\ Dir(arg[c]) \in Dirs /\ Partial(arg[c]) \in Dirs /\ Dir(arg[c]) # Partial(arg[c])
      BY DirFacts DEF Midway, MidwayAt
    <3>1. CASE PullHit(c) \/ PullRefused(c) \/ NoVictim(c) \/ PullDone(c) \/ PullErr(c)
      BY <2>1, <3>1 DEF PullHit, PullRefused, NoVictim, PullDone, PullErr, Return, MidwayAt
    <3>2. CASE PullMiss(c)
      BY <2>1, <3>2 DEF PullMiss, InCache, GoTo, locals, disks, MidwayAt
    <3>3. CASE PickVictim(c)
      BY <2>1, <3>3 DEF PickVictim, Evictable, InCache, InLibrary, disks, MidwayAt
    <3>4. CASE PullStart(c)
      <4>1. cache'[Dir(arg[c])] = cache[Dir(arg[c])] /\ cache'[Partial(arg[c])] = 0
        BY <3>4 DEF PullStart, Disk
      <4>2. QED
        BY <2>1, <3>4, <4>1 DEF PullStart, GoTo, locals, MidwayAt, Absent
    <3>5. CASE PullSome(c)
      <4>1. /\ cache'[Dir(arg[c])] = cache[Dir(arg[c])]
            /\ cache'[Partial(arg[c])] = cache[Partial(arg[c])] + 1
        BY <3>5 DEF PullSome, Disk
      <4>2. cache'[Partial(arg[c])] # Absent
        BY <4>1, DiskFacts DEF Absent
      <4>3. QED
        BY <2>1, <3>5, <4>1, <4>2 DEF PullSome, locals, MidwayAt
    <3>6. QED
      BY <1>5, <3>1, <3>2, <3>3, <3>4, <3>5 DEF PullStep
  <2>2. CASE x # c
    <3>1. /\ pc'[x] = pc[x] /\ arg'[x] = arg[x] /\ target'[x] = target[x] /\ saw'[x] = saw[x]
      BY <1>5, <2>2 DEF PullStep, PullHit, PullRefused, PullMiss, NoVictim, PickVictim,
         PullStart, PullSome, PullDone, PullErr, Return, GoTo, locals
    <3>2. mu = c \/ UNCHANGED disks
      BY <1>5 DEF PullStep, PullHit, PullRefused, PullMiss, NoVictim, PickVictim,
         PullStart, PullSome, PullDone, PullErr, LockHeld, Locked, disks
    <3>3. QED
      BY <2>2, <3>1, <3>2, Bystander DEF LockHeld
  <2>3. QED
    BY <2>1, <2>2
<1>6. ASSUME NEW c \in Callers, OffloadStep(c) PROVE MidwayAt(x)'
  <2>1. CASE x = c
    <3> /\ arg[c] \in Models /\ MidwayAt(c)
        /\ Dir(arg[c]) \in Dirs /\ Partial(arg[c]) \in Dirs /\ Dir(arg[c]) # Partial(arg[c])
      BY DirFacts DEF Midway, MidwayAt
    <3>1. CASE OffloadNothing(c) \/ OffloadUnmounted(c) \/ BackupUnmounted(c) \/ BackupErr(c)
      BY <2>1, <3>1 DEF OffloadNothing, OffloadUnmounted, BackupUnmounted, BackupErr, Return,
         MidwayAt
    <3>2. CASE OffloadEnter(c)
      BY <2>1, <3>2 DEF OffloadEnter, InCache, GoTo, locals, disks, MidwayAt
    <3>3. CASE BackedUp(c)
      BY <2>1, <3>3 DEF BackedUp, InLibrary, disks, MidwayAt
    <3>4. CASE BackupStart(c)
      <4>1. library'[Dir(arg[c])] = library[Dir(arg[c])] /\ library'[Partial(arg[c])] = 0
        BY <3>4 DEF BackupStart, Disk
      <4>2. library[Dir(arg[c])] = Absent
        BY <3>4 DEF BackupStart, InLibrary
      <4>3. QED
        BY <2>1, <3>4, <4>1, <4>2 DEF BackupStart, GoTo, locals, MidwayAt, Absent
    <3>5. CASE BackupSome(c)
      <4>1. /\ library'[Dir(arg[c])] = library[Dir(arg[c])]
            /\ library'[Partial(arg[c])] = library[Partial(arg[c])] + 1
        BY <3>5 DEF BackupSome, Disk
      <4>2. library'[Partial(arg[c])] # Absent
        BY <4>1, DiskFacts DEF Absent
      <4>3. QED
        BY <2>1, <3>5, <4>1, <4>2 DEF BackupSome, locals, MidwayAt
    <3>6. CASE BackupDone(c)
      <4>1. library'[Dir(arg[c])] = cache[Dir(arg[c])]
        BY <3>6 DEF BackupDone, Disk
      <4>2. cache[Dir(arg[c])] # Absent
        BY <3>6 DEF BackupDone, MidwayAt
      <4>3. QED
        BY <2>1, <3>6, <4>1, <4>2 DEF BackupDone, MidwayAt
    <3>7. QED
      BY <1>6, <3>1, <3>2, <3>3, <3>4, <3>5, <3>6 DEF OffloadStep
  <2>2. CASE x # c
    <3>1. /\ pc'[x] = pc[x] /\ arg'[x] = arg[x] /\ target'[x] = target[x] /\ saw'[x] = saw[x]
      BY <1>6, <2>2 DEF OffloadStep, OffloadNothing, OffloadUnmounted, OffloadEnter, BackedUp,
         BackupStart, BackupSome, BackupDone, BackupUnmounted, BackupErr, Return, GoTo, locals
    <3>2. mu = c \/ UNCHANGED disks
      BY <1>6 DEF OffloadStep, OffloadNothing, OffloadUnmounted, OffloadEnter, BackedUp,
         BackupStart, BackupSome, BackupDone, BackupUnmounted, BackupErr, LockHeld, Locked, disks
    <3>3. QED
      BY <2>2, <3>1, <3>2, Bystander DEF LockHeld
  <2>3. QED
    BY <2>1, <2>2
<1>7. ASSUME NEW c \in Callers, RemoveStep(c) PROVE MidwayAt(x)'
  <2>1. CASE x = c
    <3> /\ arg[c] \in Models /\ MidwayAt(c) /\ target[c] \in Dirs /\ Dir(arg[c]) \in Dirs
      BY DirFacts DEF Midway, MidwayAt
    <3>1. CASE RemoveErr(c) \/ DropDone(c)
      BY <2>1, <3>1 DEF RemoveErr, DropDone, Return, MidwayAt
    <3>2. CASE RemoveSome(c) \/ EvictDone(c)
      <4>1. \A d \in Dirs : d # target[c] => cache'[d] = cache[d]
        BY <3>2 DEF RemoveSome, EvictDone, Disk
      <4>2. library' = library /\ arg'[c] = arg[c] /\ target'[c] = target[c]
        BY <3>2 DEF RemoveSome, EvictDone, GoTo, locals
      <4>3. \/ pc[c] = "evict" /\ pc'[c] \in {"evict", "room"}
            \/ pc[c] = "drop" /\ pc'[c] = "drop"
        BY <3>2 DEF RemoveSome, EvictDone, GoTo
      <4>4. QED
        BY <2>1, <4>1, <4>2, <4>3 DEF MidwayAt
    <3>3. QED
      BY <1>7, <3>1, <3>2 DEF RemoveStep
  <2>2. CASE x # c
    <3>1. /\ pc'[x] = pc[x] /\ arg'[x] = arg[x] /\ target'[x] = target[x] /\ saw'[x] = saw[x]
          /\ mu = c
      BY <1>7, <2>2 DEF RemoveStep, RemoveSome, EvictDone, DropDone, RemoveErr, Return, GoTo,
         locals, LockHeld, Locked
    <3>2. QED
      BY <2>2, <3>1, Bystander DEF LockHeld
  <2>3. QED
    BY <2>1, <2>2
<1>8. ASSUME NEW c \in Callers, TierLibrary(c) PROVE MidwayAt(x)'
  <2>1. CASE x = c
    BY <1>8, <2>1 DEF TierLibrary, Return, MidwayAt
  <2>2. CASE x # c
    BY <1>8, <2>2, Bystander DEF TierLibrary, Return
  <2>3. QED
    BY <2>1, <2>2
<1>9. CASE Crash
  BY <1>9 DEF Crash, MidwayAt
<1>10. CASE Replug \/ UNCHANGED vars
  BY <1>2, <1>10 DEF Replug, vars, disks, locals
<1>11. QED
  BY <1>3, <1>4, <1>5, <1>6, <1>7, <1>8, <1>9, <1>10 DEF Next

-----------------------------------------------------------------------------
\* The invariant is inductive: from any state of the two disks that a running,
\* failing or restarted manager can leave, no step loses a model.
THEOREM OffloadSafety == Spec => []OffloadInv
<1>1. OffloadInv /\ [Next]_vars => OffloadInv'
  BY TypeStep, LockStep, ModelStep, BackedStep, MidwayStep DEF OffloadInv
<1>2. QED
  BY InitInv, <1>1, PTL DEF Spec

\* The variables keep their types.
THEOREM OffloadTypes == Spec => []TypeOK
<1>1. OffloadInv => TypeOK
  BY DEF OffloadInv
<1>2. QED
  BY OffloadSafety, <1>1, PTL

\* A complete copy of every model is on one of the two disks, whatever fails
\* (Offload, EnsurePulled and ensureRoom, through crashes and unplugged drives).
THEOREM NothingIsLost == Spec => []Durable
<1>1. OffloadInv => Durable
  BY DEF OffloadInv, Backed, Durable
<1>2. QED
  BY OffloadSafety, <1>1, PTL

\* Tier calls a model "unknown" only if the drive is away.
THEOREM TierIsHonest == Spec => UnknownMeansUnplugged
<1>1. OffloadInv /\ [Next]_vars =>
        [\A c \in Callers : res'[c] = "unknown" /\ res[c] # "unknown" => ~mounted]_vars
  <2> SUFFICES ASSUME OffloadInv, Next, NEW c \in Callers,
                      res'[c] = "unknown", res[c] # "unknown"
               PROVE  ~mounted
    OBVIOUS
  <2>1. TierLibrary(c)
    BY DEF OffloadInv, TypeOK, Next, CallPull, CallOffload, Call, TierCache, TierLibrary,
       PullStep, PullHit, PullRefused, PullMiss, NoVictim, PickVictim, PullStart, PullSome,
       PullDone, PullErr, OffloadStep, OffloadNothing, OffloadUnmounted, OffloadEnter,
       BackedUp, BackupStart, BackupSome, BackupDone, BackupUnmounted, BackupErr, RemoveStep,
       RemoveSome, EvictDone, DropDone, RemoveErr, Replug, Crash, Return, GoTo, locals
  <2>2. ~saw[c] /\ ~InLibrary(Dir(arg[c]))
    BY <2>1 DEF TierLibrary, Return, OffloadInv, TypeOK
  <2>3. library[Dir(arg[c])] # Absent
    BY <2>1, <2>2 DEF TierLibrary, OffloadInv, Midway, MidwayAt
  <2>4. QED
    BY <2>2, <2>3 DEF InLibrary
<1>2. QED
  BY OffloadSafety, <1>1, PTL DEF Spec, UnknownMeansUnplugged

\* For any models, sizes and callers, and whatever fails: the library never
\* loses a whole copy, the cache gives one up only while the library has one,
\* and no step touches the copies of two models.
THEOREM StoreKeepsItsWord ==
  Spec => [][\A m \in Models :
               /\ Whole(library, m) => Whole(library', m)
               /\ Whole(cache, m) /\ ~Whole(cache', m) => Whole(library, m) /\ Whole(library', m)
               /\ \A n \in Models : n = m \/ Still(m) \/ Still(n)]_vars
<1> DEFINE Word ==
      \A m \in Models :
        /\ Whole(library, m) => Whole(library', m)
        /\ Whole(cache, m) /\ ~Whole(cache', m) => Whole(library, m) /\ Whole(library', m)
        /\ \A n \in Models : n = m \/ Still(m) \/ Still(n)
<1>1. ModelSteps => Word
  BY DEF ModelSteps, Whole
<1>2. OffloadInv /\ [Next]_vars => [Word]_vars
  BY <1>1, ModelStep
<1> HIDE DEF Word
<1>3. Spec => [][Word]_vars
  BY <1>2, OffloadSafety, PTL DEF Spec
<1>4. QED
  BY <1>3 DEF Word

\* The manager implements the two-tier store.
THEOREM OffloadRefines == Spec => ImplementsStore
<1>1. Init => Store!Init
  BY DEF Store!Init
<1>2. OffloadInv /\ [Next]_vars => [Store!Next]_(Store!storeVars)
  <2> DEFINE local == {m \in Models : Whole(cache, m)}
             kept == {m \in Models : Whole(library, m)}
  <2> SUFFICES ASSUME OffloadInv, [Next]_vars PROVE [Store!Next]_(Store!storeVars)
    OBVIOUS
  <2>1. ModelSteps
    BY ModelStep
  <2>2. CASE \A m \in Models : (Whole(cache', m) <=> Whole(cache, m))
                            /\ (Whole(library', m) <=> Whole(library, m))
    <3>1. local' = local /\ kept' = kept
      BY <2>2
    <3>2. QED
      BY <3>1 DEF Store!storeVars
  <2>3. ASSUME NEW m \in Models,
               ~((Whole(cache', m) <=> Whole(cache, m))
                 /\ (Whole(library', m) <=> Whole(library, m)))
        PROVE  Store!Next
    <3>1. ~Still(m)
      BY <2>3 DEF Still, Whole
    <3>2. \A n \in Models : n # m => Still(n)
      BY <2>1, <3>1 DEF ModelSteps
    <3>3. \A n \in Models : n # m => /\ Whole(cache', n) <=> Whole(cache, n)
                                     /\ Whole(library', n) <=> Whole(library, n)
      BY <3>2 DEF Still, Whole
    <3>4. CASE ~Whole(library, m) /\ Whole(library', m) /\ Whole(cache, m) /\ cache' = cache
      <4>1. local' = local /\ kept' = kept \cup {m} /\ m \in local \ kept
        BY <3>3, <3>4
      <4>2. Store!BackUp(m)
        BY <4>1 DEF Store!BackUp
      <4>3. QED
        BY <4>2 DEF Store!Next
    <3>5. CASE ~Whole(cache, m) /\ Whole(cache', m) /\ Whole(library, m) /\ library' = library
      <4>1. kept' = kept /\ local' = local \cup {m} /\ m \in kept \ local
        BY <3>3, <3>5
      <4>2. Store!Fetch(m)
        BY <4>1 DEF Store!Fetch
      <4>3. QED
        BY <4>2 DEF Store!Next
    <3>6. CASE Whole(cache, m) /\ Whole(library, m) /\ ~Whole(cache', m) /\ library' = library
      <4>1. kept' = kept /\ local' = local \ {m} /\ m \in local \cap kept
        BY <3>3, <3>6
      <4>2. Store!Release(m)
        BY <4>1 DEF Store!Release
      <4>3. QED
        BY <4>2 DEF Store!Next
    <3>7. QED
      BY <2>1, <2>3, <3>4, <3>5, <3>6 DEF ModelSteps, Whole
  <2>4. QED
    BY <2>2, <2>3
<1>3. QED
  BY OffloadSafety, <1>1, <1>2, PTL DEF Spec, ImplementsStore, Store!Spec

-----------------------------------------------------------------------------
(* The budget.  A pull that has begun has room for all of its model: what is *)
(* in use and what is still to come do not exceed the budget.                *)

Reserved ==
  \A c \in Callers : pc[c] = "pull" /\ Budget # 0 =>
    CacheUsed + (library[Dir(arg[c])] - cache[Partial(arg[c])]) <= Budget

\* The bytes that a directory of n takes, and a disk's directories take.
Bytes(n) == IF n = Absent THEN 0 ELSE n
There(f) == {d \in Dirs : f[d] # Absent}
Used(f) == Sum(f, There(f))

LEMMA FiniteDirs == IsFiniteSet(Dirs)
<1>1. IsFiniteSet(Kinds)
  <2>1. IsFiniteSet({"model"})
    BY FS_Singleton
  <2>2. IsFiniteSet({"model"} \cup {"partial"})
    BY <2>1, FS_AddElement
  <2>3. Kinds = {"model"} \cup {"partial"}
    BY DEF Kinds
  <2>4. QED
    BY <2>2, <2>3
<1>2. QED
  BY <1>1, FinitelyMany, FS_Product DEF Dirs

LEMMA UsedIsCacheUsed == CacheUsed = Used(cache) /\ CacheUsed' = Used(cache')
<1>1. CacheUsed = Used(cache)
  BY DEF CacheUsed, Used, There, Sum, InCache, MapThenSumSet, MapThenFoldSet
<1>2. CacheUsed' = Used(cache')
  BY DEF CacheUsed, Used, There, Sum, InCache, MapThenSumSet, MapThenFoldSet
<1>3. QED
  BY <1>1, <1>2

\* The directories of a disk but one.
LEMMA UsedWithout ==
  ASSUME NEW f \in Disk, NEW d \in Dirs
  PROVE  /\ Used(f) = Bytes(f[d]) + Sum(f, There(f) \ {d})
         /\ Used(f) \in Int /\ Bytes(f[d]) \in Nat /\ Sum(f, There(f) \ {d}) \in Int
<1>1. /\ IsFiniteSet(There(f)) /\ IsFiniteSet(There(f) \ {d})
      /\ \A e \in There(f) : f[e] \in Int
  BY FiniteDirs, FS_Subset, FS_RemoveElement, DiskFacts DEF There
<1>2. Used(f) \in Int /\ Sum(f, There(f) \ {d}) \in Int
  BY <1>1, SumType DEF Used
<1>3. Bytes(f[d]) \in Nat
  BY DiskFacts DEF Bytes, Absent
<1>4. CASE d \in There(f)
  <2>1. Sum(f, There(f)) = f[d] + Sum(f, There(f) \ {d})
    BY <1>1, <1>4, SumRemove
  <2>2. QED
    BY <1>2, <1>3, <1>4, <2>1 DEF Used, Bytes, There
<1>5. CASE d \notin There(f)
  <2>1. There(f) \ {d} = There(f) /\ Bytes(f[d]) = 0
    BY <1>5 DEF There, Bytes
  <2>2. QED
    BY <1>2, <1>3, <2>1 DEF Used
<1>6. QED
  BY <1>4, <1>5

\* One directory changes.
LEMMA UsedAfter ==
  ASSUME NEW f \in Disk, NEW h \in Disk, NEW d \in Dirs,
         \A e \in Dirs \ {d} : h[e] = f[e]
  PROVE  /\ Used(h) = Used(f) - Bytes(f[d]) + Bytes(h[d])
         /\ Used(f) \in Int /\ Used(h) \in Int
<1>1. There(h) \ {d} = There(f) \ {d}
  BY DEF There
<1>2. IsFiniteSet(There(f) \ {d})
  BY FiniteDirs, FS_Subset, FS_RemoveElement DEF There
<1>3. Sum(f, There(f) \ {d}) = Sum(h, There(h) \ {d})
  BY <1>1, <1>2, SumAgree DEF There
<1>4. /\ Used(f) = Bytes(f[d]) + Sum(f, There(f) \ {d})
      /\ Used(f) \in Int /\ Bytes(f[d]) \in Nat /\ Sum(f, There(f) \ {d}) \in Int
  BY UsedWithout
<1>5. /\ Used(h) = Bytes(h[d]) + Sum(h, There(h) \ {d})
      /\ Used(h) \in Int /\ Bytes(h[d]) \in Nat
  BY UsedWithout
<1>6. QED
  BY <1>3, <1>4, <1>5

BudgetHolds == Budget # 0 /\ CacheUsed' > CacheUsed => CacheUsed' <= Budget

\* A step that leaves the disks alone and begins no pull.
LEMMA BudgetIdle ==
  ASSUME OffloadInv, Reserved, UNCHANGED disks,
         \A x \in Callers : pc'[x] = "pull" => pc[x] = "pull" /\ arg'[x] = arg[x]
  PROVE  Reserved' /\ BudgetHolds
<1>1. CacheUsed' = CacheUsed /\ CacheUsed \in Int
  <2>1. cache' = cache
    BY DEF disks
  <2>2. CacheUsed \in Int
    <3>1. /\ IsFiniteSet(There(cache)) /\ \A e \in There(cache) : cache[e] \in Int
      BY FiniteDirs, FS_Subset, DiskFacts DEF There, OffloadInv, TypeOK
    <3>2. QED
      BY <3>1, SumType, UsedIsCacheUsed DEF Used
  <2>3. QED
    BY <2>1, <2>2, UsedIsCacheUsed
<1>2. QED
  BY <1>1 DEF Reserved, BudgetHolds, disks

\* A step of the lock's holder, after which it is in no pull, and which has not
\* used more of the cache.
LEMMA BudgetShrinks ==
  ASSUME OffloadInv, NEW c \in Callers, pc[c] \in Locked, pc'[c] # "pull",
         \A x \in Callers \ {c} : pc'[x] = pc[x],
         CacheUsed \in Int, CacheUsed' \in Int, CacheUsed' <= CacheUsed
  PROVE  Reserved' /\ BudgetHolds
<1>1. \A x \in Callers : pc'[x] # "pull"
  BY DEF OffloadInv, LockHeld, Locked
<1>2. QED
  BY <1>1 DEF Reserved, BudgetHolds

LEMMA BudgetStep == OffloadInv /\ Reserved /\ [Next]_vars => Reserved' /\ BudgetHolds
<1> SUFFICES ASSUME OffloadInv, Reserved, [Next]_vars PROVE Reserved' /\ BudgetHolds
  OBVIOUS
<1> USE OffloadAssumption
<1>0. TypeOK /\ LockHeld /\ Midway /\ cache' \in Disk /\ cache \in Disk
  BY TypeStep DEF OffloadInv, TypeOK
<1>1. ASSUME UNCHANGED disks,
             \A x \in Callers : pc'[x] = "pull" => pc[x] = "pull" /\ arg'[x] = arg[x]
      PROVE  Reserved' /\ BudgetHolds
  BY <1>1, BudgetIdle
<1>2. ASSUME NEW c \in Callers, NEW m \in Models,
             CallPull(c, m) \/ CallOffload(c, m) \/ TierCache(c, m)
      PROVE  Reserved' /\ BudgetHolds
  BY <1>0, <1>1, <1>2 DEF CallPull, CallOffload, Call, TierCache, TypeOK, disks
<1>3. ASSUME NEW c \in Callers, TierLibrary(c) PROVE Reserved' /\ BudgetHolds
  BY <1>0, <1>1, <1>3 DEF TierLibrary, Return, TypeOK, disks
<1>4. ASSUME NEW c \in Callers, PullStep(c) PROVE Reserved' /\ BudgetHolds
  <2> DEFINE here == Dir(arg[c])
             part == Partial(arg[c])
  <2>0. /\ arg[c] \in Models /\ here \in Dirs /\ part \in Dirs /\ here # part
        /\ MidwayAt(c)
        /\ cache[part] \in Int /\ library[here] \in Int /\ -1 <= cache[part] /\ Budget \in Nat
    BY <1>0, DirFacts, DiskFacts DEF TypeOK, Midway, MidwayAt
  <2>1. CASE PullHit(c) \/ PullRefused(c) \/ PullMiss(c) \/ NoVictim(c) \/ PickVictim(c)
    BY <1>0, <1>1, <2>1 DEF PullHit, PullRefused, PullMiss, NoVictim, PickVictim, Return,
       GoTo, locals, TypeOK, disks
  <2>2. ASSUME \A e \in Dirs \ {part} : cache'[e] = cache[e]
        PROVE  /\ CacheUsed' = CacheUsed - Bytes(cache[part]) + Bytes(cache'[part])
               /\ CacheUsed \in Int /\ CacheUsed' \in Int
    BY <1>0, <2>0, <2>2, UsedAfter, UsedIsCacheUsed
  <2>3. CASE PullStart(c)
    <3>1. /\ cache'[part] = 0 /\ \A e \in Dirs \ {part} : cache'[e] = cache[e]
          /\ library' = library /\ arg' = arg
      BY <1>0, <2>0, <2>3 DEF PullStart, Disk, GoTo, locals
    <3>2. /\ CacheUsed' = CacheUsed - Bytes(cache[part])
          /\ CacheUsed \in Int /\ CacheUsed' \in Int /\ Bytes(cache[part]) \in Nat
      BY <2>0, <2>2, <3>1 DEF Bytes, Absent
    <3>3. Budget # 0 => CacheUsed + library[here] <= Budget
      BY <2>3 DEF PullStart, Fits
    <3>4. \A x \in Callers : pc'[x] = "pull" => x = c
      BY <1>0, <2>3 DEF PullStart, GoTo, LockHeld, Locked, TypeOK
    <3>5. Reserved'
      <4>1. Budget # 0 => CacheUsed' + (library[here] - 0) <= Budget
        <5> HIDE DEF here, part
        <5>1. QED
          BY <2>0, <3>2, <3>3
      <4>2. QED
        BY <3>1, <3>4, <4>1 DEF Reserved
    <3>6. QED
      BY <3>2, <3>5 DEF BudgetHolds
  <2>4. CASE PullSome(c)
    <3>1. /\ cache'[part] = cache[part] + 1 /\ \A e \in Dirs \ {part} : cache'[e] = cache[e]
          /\ library' = library /\ arg' = arg /\ pc' = pc
          /\ cache[part] < library[here] /\ cache[part] # Absent
      BY <1>0, <2>0, <2>4 DEF PullSome, Disk, locals, MidwayAt
    <3>2. CacheUsed' = CacheUsed + 1 /\ CacheUsed \in Int
      BY <2>0, <2>2, <3>1 DEF Bytes, Absent
    <3>3. Budget # 0 => CacheUsed + (library[here] - cache[part]) <= Budget
      BY <2>4 DEF PullSome, Reserved
    <3>4. \A x \in Callers : pc'[x] = "pull" => x = c
      BY <1>0, <2>4, <3>1 DEF PullSome, LockHeld, Locked
    <3>5. Reserved' /\ (Budget # 0 => CacheUsed' <= Budget)
      <4>1. Budget # 0 => /\ CacheUsed' + (library[here] - cache'[part]) <= Budget
                          /\ CacheUsed' <= Budget
        <5> HIDE DEF here, part
        <5>1. QED
          BY <2>0, <3>1, <3>2, <3>3
      <4>2. QED
        BY <3>1, <3>4, <4>1 DEF Reserved
    <3>6. QED
      BY <3>5 DEF BudgetHolds
  <2>5. CASE PullDone(c)
    <3> DEFINE moved == [cache EXCEPT ![here] = cache[part]]
    <3>1. moved \in Disk /\ cache' = [moved EXCEPT ![part] = Absent]
      BY <1>0, <2>0, <2>5, DiskFacts, DirFacts DEF PullDone
    <3>2. Used(moved) = Used(cache) - Bytes(cache[here]) + Bytes(moved[here])
          /\ Used(cache) \in Int /\ Used(moved) \in Int
      BY <1>0, <2>0, <3>1, UsedAfter DEF Disk
    <3>3. Used(cache') = Used(moved) - Bytes(moved[part]) + Bytes(cache'[part])
          /\ Used(cache') \in Int
      BY <1>0, <2>0, <3>1, UsedAfter DEF Disk
    <3>4. /\ moved[here] = cache[part] /\ moved[part] = cache[part]
          /\ cache'[part] = Absent /\ cache[here] = Absent
      BY <1>0, <2>0, <2>5, <3>1 DEF Disk, PullDone, MidwayAt
    <3>5. CacheUsed' = CacheUsed /\ CacheUsed \in Int
      <4>1. Bytes(Absent) = 0 /\ Bytes(cache[part]) \in Int
        BY <2>0 DEF Bytes
      <4>2. QED
        BY <3>2, <3>3, <3>4, <4>1, UsedIsCacheUsed
    <3>6. /\ pc[c] \in Locked /\ pc'[c] # "pull" /\ \A x \in Callers \ {c} : pc'[x] = pc[x]
      BY <1>0, <2>5 DEF PullDone, Return, Locked, TypeOK
    <3>7. QED
      BY <3>5, <3>6, BudgetShrinks
  <2>6. CASE PullErr(c)
    <3>1. /\ \A e \in Dirs \ {part} : cache'[e] = cache[e]
          /\ cache'[part] \in {cache[part], Absent}
      BY <1>0, <2>0, <2>6 DEF PullErr, Disk
    <3>2. CacheUsed' <= CacheUsed /\ CacheUsed \in Int /\ CacheUsed' \in Int
      BY <2>0, <2>2, <3>1 DEF Bytes, Absent
    <3>3. /\ pc[c] \in Locked /\ pc'[c] # "pull" /\ \A x \in Callers \ {c} : pc'[x] = pc[x]
      BY <1>0, <2>6 DEF PullErr, Return, Locked, TypeOK
    <3>4. QED
      BY <3>2, <3>3, BudgetShrinks
  <2>7. QED
    BY <1>4, <2>1, <2>3, <2>4, <2>5, <2>6 DEF PullStep
<1>5. ASSUME NEW c \in Callers, OffloadStep(c) PROVE Reserved' /\ BudgetHolds
  <2>1. /\ cache' = cache /\ pc'[c] # "pull"
        /\ \A x \in Callers \ {c} : pc'[x] = pc[x] /\ arg'[x] = arg[x]
    BY <1>0, <1>5 DEF OffloadStep, OffloadNothing, OffloadUnmounted, OffloadEnter, BackedUp,
       BackupStart, BackupSome, BackupDone, BackupUnmounted, BackupErr, Return, GoTo, locals,
       TypeOK, disks
  <2>2. CASE UNCHANGED disks
    BY <1>1, <2>1, <2>2
  <2>3. CASE ~UNCHANGED disks
    <3>1. pc[c] \in Locked
      BY <1>5, <2>3 DEF OffloadStep, OffloadNothing, OffloadUnmounted, OffloadEnter, BackedUp,
         BackupStart, BackupSome, BackupDone, BackupUnmounted, BackupErr, Locked, disks
    <3>2. CacheUsed' = CacheUsed /\ CacheUsed \in Int
      <4>1. IsFiniteSet(There(cache)) /\ \A e \in There(cache) : cache[e] \in Int
        BY <1>0, FiniteDirs, FS_Subset, DiskFacts DEF There
      <4>2. Used(cache) \in Int
        BY <4>1, SumType DEF Used
      <4>3. QED
        BY <2>1, <4>2, UsedIsCacheUsed
    <3>3. QED
      BY <2>1, <3>1, <3>2, BudgetShrinks
  <2>4. QED
    BY <2>2, <2>3
<1>6. ASSUME NEW c \in Callers, RemoveStep(c) PROVE Reserved' /\ BudgetHolds
  <2> DEFINE d == target[c]
  <2>0. d \in Dirs /\ cache[d] \in Int /\ -1 <= cache[d]
    BY <1>0, DiskFacts DEF TypeOK
  <2>1. /\ \A e \in Dirs \ {d} : cache'[e] = cache[e]
        /\ \/ cache'[d] = cache[d]
           \/ cache[d] > 0 /\ cache'[d] = cache[d] - 1
           \/ cache'[d] = Absent
    BY <1>0, <1>6, <2>0 DEF RemoveStep, RemoveSome, EvictDone, DropDone, RemoveErr, Disk, disks
  <2>2. /\ CacheUsed' = CacheUsed - Bytes(cache[d]) + Bytes(cache'[d])
        /\ CacheUsed \in Int /\ CacheUsed' \in Int
    BY <1>0, <2>0, <2>1, UsedAfter, UsedIsCacheUsed
  <2>3. Bytes(cache'[d]) <= Bytes(cache[d]) /\ Bytes(cache'[d]) \in Int /\ Bytes(cache[d]) \in Int
    BY <2>0, <2>1 DEF Bytes, Absent
  <2>4. /\ pc[c] \in Locked /\ pc'[c] # "pull" /\ \A x \in Callers \ {c} : pc'[x] = pc[x]
    BY <1>0, <1>6 DEF RemoveStep, RemoveSome, EvictDone, DropDone, RemoveErr, Return, GoTo,
       locals, Locked, TypeOK
  <2>5. CacheUsed' <= CacheUsed
    <3> HIDE DEF d
    <3>1. QED
      BY <2>2, <2>3
  <2>6. QED
    BY <2>2, <2>4, <2>5, BudgetShrinks
<1>7. CASE Replug \/ Crash \/ UNCHANGED vars
  BY <1>0, <1>1, <1>7 DEF Replug, Crash, vars, disks, locals, TypeOK
<1>8. QED
  BY <1>2, <1>3, <1>4, <1>5, <1>6, <1>7 DEF Next

\* The cache grows within its budget only (ensureRoom): whatever was left behind
\* by earlier pulls, whatever fails, a pull that copies has made room for all of
\* its model, and nobody takes that room while it copies.
THEOREM BudgetIsKept == Spec => CacheWithinBudget
<1>1. Init => Reserved
  BY DEF Init, Reserved
<1>2. OffloadInv /\ Reserved /\ [Next]_vars => Reserved'
  BY BudgetStep
<1>3. OffloadInv /\ Reserved /\ [Next]_vars =>
        [Budget # 0 /\ CacheUsed' > CacheUsed => CacheUsed' <= Budget]_vars
  BY BudgetStep DEF BudgetHolds
<1>4. QED
  BY OffloadSafety, <1>1, <1>2, <1>3, PTL DEF Spec, CacheWithinBudget

-----------------------------------------------------------------------------
(* What EnsurePulled may promise.  PulledIsWhole does not hold (the run     *)
(* offload_whole); an interrupted removal is the only way to break it, and  *)
(* a pull that copies keeps it in any case.                                 *)

Removing(c) == pc[c] \in {"evict", "drop"}

\* RemoveDir ends, by an error or by the death of mlxd, before it is done.
Interrupted ==
  \E c \in Callers : Removing(c) /\ ~Removing(c)' /\ cache'[target[c]] # Absent

\* A model in the cache is all there, unless it is being removed.
EntireAt(m) ==
  \/ cache[Dir(m)] \in {Absent, SizeOf[m]}
  \/ \E c \in Callers : Removing(c) /\ target[c] = Dir(m)

Entire == \A m \in Models : EntireAt(m)

\* A pull that has copied the model.
CopiedIsWhole ==
  \A c \in Callers : pc[c] = "pull" /\ pc'[c] = "idle" /\ res'[c] = "ok"
                     => Whole(cache', arg[c])

\* Only the rename ends a pull with ok.
LEMMA RenamedIsWhole == OffloadInv /\ [Next]_vars => CopiedIsWhole
<1> SUFFICES ASSUME OffloadInv, [Next]_vars, NEW c \in Callers,
                    pc[c] = "pull", pc'[c] = "idle", res'[c] = "ok"
             PROVE  Whole(cache', arg[c])
  BY DEF CopiedIsWhole
<1> USE DEF OffloadInv, TypeOK
<1>1. PullDone(c)
  <2>1. ASSUME NEW x \in Callers, x # c, pc' = [pc EXCEPT ![x] = pc'[x]] PROVE FALSE
    BY <2>1
  <2>2. ASSUME NEW x \in Callers, NEW m \in Models,
               CallPull(x, m) \/ CallOffload(x, m) \/ TierCache(x, m)
        PROVE  FALSE
    BY <2>2 DEF CallPull, CallOffload, Call, TierCache
  <2>3. ASSUME NEW x \in Callers, PullStep(x) PROVE PullDone(c)
    BY <2>3 DEF PullStep, PullHit, PullRefused, PullMiss, NoVictim, PickVictim, PullStart, PullSome,
       PullDone, PullErr, Return, GoTo
  <2>4. ASSUME NEW x \in Callers, OffloadStep(x) \/ RemoveStep(x) \/ TierLibrary(x) PROVE FALSE
    BY <2>4 DEF OffloadStep, OffloadNothing, OffloadUnmounted, OffloadEnter, BackedUp, BackupStart,
       BackupSome, BackupDone, BackupUnmounted, BackupErr, RemoveStep, RemoveSome, EvictDone, DropDone,
       RemoveErr, TierLibrary, Return, GoTo
  <2>5. CASE Replug \/ Crash \/ UNCHANGED vars
    BY <2>5 DEF Replug, Crash, vars
  <2>6. QED
    BY <2>2, <2>3, <2>4, <2>5 DEF Next
<1>2. cache'[Dir(arg[c])] = library[Dir(arg[c])]
  BY <1>1, DirFacts DEF PullDone, Disk
<1>3. cache[Partial(arg[c])] # Absent
  BY DEF Midway, MidwayAt
<1>4. library[Dir(arg[c])] # Absent
  BY <1>1, <1>3 DEF PullDone
<1>5. QED
  BY <1>2, <1>4 DEF Backed, Whole

\* A pull that has to copy a model ends with all of it in the cache, whatever was
\* there before and however often it was interrupted.
THEOREM FreshPullsAreWhole == Spec => [][CopiedIsWhole]_vars
<1>1. OffloadInv /\ [Next]_vars => [CopiedIsWhole]_vars
  BY RenamedIsWhole
<1>2. QED
  BY OffloadSafety, <1>1, PTL DEF Spec

LEMMA EntireStep == OffloadInv /\ Entire /\ [Next]_vars /\ ~Interrupted => Entire'
<1> SUFFICES ASSUME OffloadInv, Entire, [Next]_vars, ~Interrupted, NEW m \in Models
             PROVE  EntireAt(m)'
  BY DEF Entire
<1> USE DEF OffloadInv, TypeOK
<1>0. EntireAt(m) /\ Dir(m) \in Dirs
  BY DirFacts DEF Entire
<1>1. ASSUME cache'[Dir(m)] = cache[Dir(m)],
             \A c \in Callers : Removing(c) /\ target[c] = Dir(m) =>
                Removing(c)' /\ target'[c] = target[c]
      PROVE  EntireAt(m)'
  BY <1>0, <1>1 DEF EntireAt
<1>2. ASSUME cache'[Dir(m)] \in {Absent, SizeOf[m]} PROVE EntireAt(m)'
  BY <1>2 DEF EntireAt
<1>3. ASSUME NEW c \in Callers, NEW n \in Models,
             CallPull(c, n) \/ CallOffload(c, n) \/ TierCache(c, n)
      PROVE  EntireAt(m)'
  BY <1>1, <1>3 DEF CallPull, CallOffload, Call, TierCache, disks, Removing
<1>4. ASSUME NEW c \in Callers, TierLibrary(c) PROVE EntireAt(m)'
  BY <1>1, <1>4 DEF TierLibrary, Return, disks, Removing
<1>5. ASSUME NEW c \in Callers, PullStep(c) PROVE EntireAt(m)'
  <2>1. CASE PullHit(c) \/ PullRefused(c) \/ PullMiss(c) \/ NoVictim(c)
    BY <1>1, <2>1 DEF PullHit, PullRefused, PullMiss, NoVictim, Return, GoTo, locals, disks, Removing
  <2>2. CASE PickVictim(c)
    BY <1>1, <2>2 DEF PickVictim, disks, Removing
  <2>3. CASE PullStart(c) \/ PullSome(c) \/ PullErr(c)
    <3>1. cache'[Dir(m)] = cache[Dir(m)]
      BY <1>0, <2>3, DirFacts DEF PullStart, PullSome, PullErr, Disk
    <3>2. QED
      BY <1>1, <2>3, <3>1 DEF PullStart, PullSome, PullErr, Return, GoTo, locals, Removing
  <2>4. CASE PullDone(c)
    <3>1. CASE m = arg[c]
      <4>1. cache'[Dir(m)] = library[Dir(m)]
        BY <2>4, <3>1, DirFacts DEF PullDone, Disk
      <4>2. QED
        BY <1>2, <4>1 DEF Backed
    <3>2. CASE m # arg[c]
      <4>1. cache'[Dir(m)] = cache[Dir(m)]
        BY <1>0, <2>4, <3>2, DirFacts DEF PullDone, Disk
      <4>2. QED
        BY <1>1, <2>4, <4>1 DEF PullDone, Return, Removing
    <3>3. QED
      BY <3>1, <3>2
  <2>5. QED
    BY <1>5, <2>1, <2>2, <2>3, <2>4 DEF PullStep
<1>6. ASSUME NEW c \in Callers, OffloadStep(c) PROVE EntireAt(m)'
  BY <1>1, <1>6 DEF OffloadStep, OffloadNothing, OffloadUnmounted, OffloadEnter, BackedUp,
     BackupStart, BackupSome, BackupDone, BackupUnmounted, BackupErr, Return, GoTo, locals, disks,
     Removing
<1>7. ASSUME NEW c \in Callers, RemoveStep(c) PROVE EntireAt(m)'
  <2>1. \A x \in Callers : Removing(x) => x = c
    BY <1>7 DEF RemoveStep, RemoveSome, EvictDone, DropDone, RemoveErr, Removing, LockHeld, Locked
  <2>2. CASE target[c] # Dir(m)
    <3>1. cache'[Dir(m)] = cache[Dir(m)]
      BY <1>0, <1>7, <2>2 DEF RemoveStep, RemoveSome, EvictDone, DropDone, RemoveErr, Disk, disks
    <3>2. QED
      BY <1>1, <2>1, <2>2, <3>1
  <2>3. CASE target[c] = Dir(m)
    <3>1. CASE RemoveSome(c)
      BY <2>3, <3>1 DEF RemoveSome, EntireAt, Removing, locals
    <3>2. CASE EvictDone(c) \/ DropDone(c)
      <4>1. cache'[Dir(m)] = Absent
        BY <1>0, <2>3, <3>2 DEF EvictDone, DropDone, Disk
      <4>2. QED
        BY <1>2, <4>1
    <3>3. CASE RemoveErr(c)
      <4>1. Removing(c) /\ ~Removing(c)' /\ cache' = cache
        BY <3>3 DEF RemoveErr, Return, Removing, disks
      <4>2. cache'[Dir(m)] = Absent
        BY <2>3, <4>1 DEF Interrupted
      <4>3. QED
        BY <1>2, <4>2
    <3>4. QED
      BY <1>7, <3>1, <3>2, <3>3 DEF RemoveStep
  <2>4. QED
    BY <2>2, <2>3
<1>8. CASE Crash
  <2>1. CASE \E c \in Callers : Removing(c) /\ target[c] = Dir(m)
    <3>1. PICK c \in Callers : Removing(c) /\ target[c] = Dir(m)
      BY <2>1
    <3>2. ~Removing(c)'
      BY <1>8 DEF Crash, Removing
    <3>3. cache'[Dir(m)] = Absent
      BY <3>1, <3>2 DEF Interrupted
    <3>4. QED
      BY <1>2, <3>3
  <2>2. CASE ~ \E c \in Callers : Removing(c) /\ target[c] = Dir(m)
    BY <1>1, <1>8, <2>2 DEF Crash, disks
  <2>3. QED
    BY <2>1, <2>2
<1>9. CASE Replug \/ UNCHANGED vars
  BY <1>1, <1>9 DEF Replug, vars, disks, locals, Removing
<1>10. QED
  BY <1>3, <1>4, <1>5, <1>6, <1>7, <1>8, <1>9 DEF Next

\* If no removal of a model is ever interrupted, EnsurePulled answers nil only
\* when all of the model is there: what it finds under the model's name is whole.
THEOREM PullsAreWhole == Spec /\ [][~Interrupted]_vars => PulledIsWhole
<1> DEFINE Goal == \A c \in Callers :
                     pc[c] \in {"pullLock", "pull"} /\ pc'[c] = "idle" /\ res'[c] = "ok"
                     => Whole(cache', arg[c])
<1>1. Init => Entire
  BY DirFacts DEF Init, Entire, EntireAt, SetUp, Dir, SizeOfDir, Dirs, Kinds
<1>2. Entire /\ UNCHANGED vars => Entire'
  BY DEF Entire, EntireAt, Removing, vars
<1>3. OffloadInv /\ Entire /\ [Next]_vars /\ [~Interrupted]_vars => Entire'
  BY <1>2, EntireStep
<1>4. OffloadInv /\ Entire /\ [Next]_vars => [Goal]_vars
  <2> SUFFICES ASSUME OffloadInv, Entire, Next, NEW c \in Callers,
                      pc[c] = "pullLock", pc'[c] = "idle", res'[c] = "ok"
               PROVE  Whole(cache', arg[c])
    BY RenamedIsWhole DEF CopiedIsWhole
  <2>1. PullHit(c)
    BY DEF OffloadInv, TypeOK, Next, CallPull, CallOffload, Call, TierCache, TierLibrary, PullStep,
       PullHit, PullRefused, PullMiss, NoVictim, PickVictim, PullStart, PullSome, PullDone, PullErr,
       OffloadStep, OffloadNothing, OffloadUnmounted, OffloadEnter, BackedUp, BackupStart, BackupSome,
       BackupDone, BackupUnmounted, BackupErr, RemoveStep, RemoveSome, EvictDone, DropDone, RemoveErr,
       Replug, Crash, Return, GoTo, locals
  <2>2. \A x \in Callers : ~Removing(x)
    BY <2>1, OffloadAssumption DEF PullHit, OffloadInv, LockHeld, Removing, Locked
  <2>3. QED
    BY <2>1, <2>2 DEF PullHit, InCache, Entire, EntireAt, Whole, OffloadInv, TypeOK, disks
<1>5. Spec /\ [][~Interrupted]_vars => []Entire
  BY OffloadSafety, <1>1, <1>3, PTL DEF Spec
<1>6. QED
  BY OffloadSafety, <1>4, <1>5, PTL DEF Spec, PulledIsWhole
=============================================================================
