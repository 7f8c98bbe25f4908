---------------------------- MODULE DaemonProofs ----------------------------
(***************************************************************************)
(* The daemon's locks for any slots, models and goroutines.  Without a     *)
(* budget nobody ever waits in a circle: goroutines take live.mu, then a   *)
(* g.mu, then m.mu.  With a budget Pinned closes the circle (the run       *)
(* daemon_budget); what it buys is that a pull evicts nothing in use.      *)
(***************************************************************************)
EXTENDS Daemon, SequenceTheorems, FiniteSetTheorems, TLAPS

MgrHeld == {"live", "pins", "running", "named", "pin", "evict", "copy"}
LiveHeld == {"pins", "running", "named", "pin", "adds", "add", "stops", "stopOne", "reap"}
HomeHeld == MgrHeld \cup {"mgr", "swap", "probe"}
Pinning == {"pins", "running", "named", "pin", "evict"}
Looking == {"running", "named", "pin", "add", "stopOne", "stop"}

\* Who holds what, and who is about what, follows from where each thread is.
Holding ==
  \A t \in Threads :
    /\ owner[Mgr] = t <=> pc[t] \in MgrHeld
    /\ owner[Live] = t <=> pc[t] \in LiveHeld
    /\ \A s \in Slots : owner[s] = t <=> pc[t] \in HomeHeld /\ home[t] = s
    /\ pc[t] \in {"load", "swap", "probe"} => home[t] \in Slots /\ want[t] \in Members
    /\ home[t] \in Slots => want[t] \in Members
    /\ pc[t] \in Looking => look[t] \in Slots
    /\ pc[t] \notin HomeHeld \cup {"load"} => home[t] = NoSlot

NoBudget == Room = 0 => \A t \in Threads : pc[t] \notin Pinning \cup {"live"}

\* A thread that pulls has something to pull.
Pulling ==
  \A t \in Threads : pc[t] \in MgrHeld \cup {"mgr", "offload"} => pulls[t] # <<>>

DaemonInv == TypeOK /\ Holding /\ NoBudget /\ Pulling

-----------------------------------------------------------------------------
LEMMA WeightsType ==
  \A m \in Members : Weights(m) \in Seq(Models) /\ Weights(m) # <<>>
  BY DaemonAssumption DEF Weights

LEMMA PullsType ==
  /\ <<>> \in Seq(Models)
  /\ \A m \in Models : <<m>> \in Seq(Models)
  /\ \A q \in Seq(Models) : q # <<>> => Tail(q) \in Seq(Models) /\ Head(q) \in Models
  /\ \A q \in Seq(Models) : Len(q) > 1 => Tail(q) # <<>>
  /\ \A m \in Models : <<m>> # <<>>
  /\ \A q \in Seq(Models) : Len(q) \in Nat /\ (q = <<>> <=> Len(q) = 0)
<1>1. /\ <<>> \in Seq(Models)
      /\ \A m \in Models : <<m>> \in Seq(Models) /\ <<m>> # <<>>
  OBVIOUS
<1>2. \A q \in Seq(Models) : q # <<>> => Tail(q) \in Seq(Models) /\ Head(q) \in Models
  OBVIOUS
<1>3. \A q \in Seq(Models) : Len(q) \in Nat /\ (q = <<>> <=> Len(q) = 0)
  OBVIOUS
<1>4. \A q \in Seq(Models) : Len(q) > 1 => Tail(q) # <<>>
  <2> SUFFICES ASSUME NEW q \in Seq(Models), Len(q) > 1 PROVE Tail(q) # <<>>
    OBVIOUS
  <2>1. Len(q) \in Nat /\ (q = <<>> <=> Len(q) = 0)
    BY <1>3
  <2>2. Len(q) # 0 /\ Len(q) - 1 # 0
    <3> DEFINE k == Len(q)
    <3>1. k \in Nat /\ k > 1
      BY <2>1
    <3> HIDE DEF k
    <3>2. k # 0 /\ k - 1 # 0
      BY <3>1
    <3> QED
      BY <3>2 DEF k
  <2>3. Len(Tail(q)) = Len(q) - 1
    BY <2>1, <2>2, HeadTailProperties
  <2> QED
    BY <2>2, <2>3, EmptySeq
<1> QED
  BY <1>1, <1>2, <1>3, <1>4

LEMMA InitInv == Init => DaemonInv
  BY DaemonAssumption
     DEF Init, DaemonInv, TypeOK, Holding, NoBudget, Pulling, Locks, PCs, Waiting, MgrHeld, LiveHeld,
         HomeHeld, Pinning, Looking

LEMMA FinishType ==
  ASSUME DaemonInv, NEW t \in Threads, Finish(t),
         hot' \subseteq Models, serving' \in [Slots -> Members \cup {NoModel}]
  PROVE  TypeOK'
  BY PullsType DEF DaemonInv, TypeOK, Finish, PCs

LEMMA PullOkType ==
  ASSUME DaemonInv, NEW t \in Threads, pc[t] \in {"mgr", "copy"}, PullOk(t),
         hot' \subseteq Models, serving' = serving
  PROVE  TypeOK'
<1>1. CASE PullFinishes(t)
  BY <1>1, FinishType DEF PullFinishes, DaemonInv, TypeOK
<1>2. CASE PullReturns(t)
  <2> USE <1>2 DEF PullReturns, DaemonInv, TypeOK
  <2>1. pulls[t] # <<>>
    BY DEF Pulling, MgrHeld
  <2>2. pulls' \in [Threads -> Seq(Models)]
    BY <2>1, PullsType
  <2>3. pc' \in [Threads -> PCs] /\ owner' \in [Locks -> Threads \cup {Free}]
    BY DEF GoTo, PCs, Waiting, Locks
  <2>4. QED
    BY <2>2, <2>3
<1>3. QED
  BY <1>1, <1>2 DEF PullOk

LEMMA TypeStep == DaemonInv /\ [Next]_vars => TypeOK'
<1> SUFFICES ASSUME DaemonInv, [Next]_vars PROVE TypeOK'
  OBVIOUS
<1> USE DaemonAssumption DEF DaemonInv, TypeOK, PCs, Waiting, Locks, state, locals, IsFree, Take,
        GoTo, Begin
<1>1. ASSUME NEW t \in Threads, Call(t) PROVE TypeOK'
  <2>1. ASSUME NEW s \in Slots, NEW m \in Members, CallLoad(t, s, m) PROVE TypeOK'
    BY <2>1 DEF CallLoad
  <2>2. ASSUME NEW m \in Models, CallPull(t, m) PROVE TypeOK'
    BY <2>2, PullsType DEF CallPull
  <2>3. ASSUME NEW m \in Models, CallOffload(t, m) PROVE TypeOK'
    BY <2>3, PullsType DEF CallOffload
  <2>4. ASSUME NEW s \in Slots, CallStop(t, s) PROVE TypeOK'
    BY <2>4 DEF CallStop
  <2>5. CASE CallReload(t)
    BY <2>5 DEF CallReload
  <2>6. CASE CallStopAll(t)
    BY <2>6 DEF CallStopAll
  <2>7. QED
    BY <1>1, <2>1, <2>2, <2>3, <2>4, <2>5, <2>6 DEF Call
<1>2. ASSUME NEW t \in Threads, Acquire(t) PROVE TypeOK'
  <2>1. CASE LoadHit(t)
    BY <2>1, FinishType DEF LoadHit, DaemonInv, TypeOK
  <2>2. CASE LoadEnter(t)
    BY <2>2, WeightsType DEF LoadEnter, Holding
  <2>3. CASE PullHit(t)
    BY <2>3, PullOkType DEF PullHit
  <2>4. CASE PullRefused(t)
    BY <2>4, FinishType DEF PullRefused, DaemonInv, TypeOK
  <2>5. CASE PullMiss(t)
    BY <2>5 DEF PullMiss
  <2>6. CASE PinLive(t)
    BY <2>6 DEF PinLive
  <2>7. CASE PinRunning(t)
    BY <2>7 DEF PinRunning
  <2>8. CASE PinNamed(t)
    BY <2>8 DEF PinNamed
  <2>9. CASE Pin(t)
    BY <2>9 DEF Pin, Holding, Looking
  <2>10. CASE Offload(t)
    BY <2>10, FinishType DEF Offload, DaemonInv, TypeOK
  <2>11. CASE Stop(t)
    BY <2>11, FinishType DEF Stop
  <2>12. CASE ReloadEnter(t)
    BY <2>12 DEF ReloadEnter
  <2>13. CASE AddMember(t)
    BY <2>13 DEF AddMember
  <2>14. CASE StopAllEnter(t)
    BY <2>14 DEF StopAllEnter
  <2>15. CASE StopOne(t)
    BY <2>15 DEF StopOne
  <2>16. QED
    BY <1>2, <2>1, <2>2, <2>3, <2>4, <2>5, <2>6, <2>7, <2>8, <2>9, <2>10, <2>11, <2>12, <2>13, <2>14, <2>15 DEF Acquire
<1>3. ASSUME NEW t \in Threads, Proceed(t) PROVE TypeOK'
  <2>1. CASE Swap(t)
    BY <2>1 DEF Swap
  <2>2. CASE Loaded(t)
    BY <2>2, FinishType DEF Loaded, Holding
  <2>3. CASE LoadErr(t)
    BY <2>3, FinishType DEF LoadErr, DaemonInv, TypeOK
  <2>4. CASE PinNext(t)
    BY <2>4 DEF PinNext
  <2>5. CASE PinDone(t)
    BY <2>5 DEF PinDone
  <2>6. ASSUME NEW v \in Models, Evict(t, v) PROVE TypeOK'
    BY <2>6 DEF Evict
  <2>7. CASE EvictDone(t)
    BY <2>7 DEF EvictDone
  <2>8. CASE EvictErr(t)
    BY <2>8, FinishType DEF EvictErr, DaemonInv, TypeOK
  <2>9. CASE Copied(t)
    BY <2>9, PullOkType, PullsType DEF Copied, Pulling, MgrHeld
  <2>10. CASE CopyErr(t)
    BY <2>10, FinishType DEF CopyErr, DaemonInv, TypeOK
  <2>11. CASE NextSlot(t)
    BY <2>11 DEF NextSlot
  <2>12. CASE AllDone(t)
    BY <2>12, FinishType DEF AllDone, DaemonInv, TypeOK
  <2>13. CASE Reaped(t)
    BY <2>13 DEF Reaped
  <2>14. QED
    BY <1>3, <2>1, <2>2, <2>3, <2>4, <2>5, <2>6, <2>7, <2>8, <2>9, <2>10, <2>11, <2>12, <2>13 DEF Proceed
<1>4. ASSUME NEW s \in Slots, WorkerDies(s) PROVE TypeOK'
  BY <1>4 DEF WorkerDies
<1>5. CASE UNCHANGED vars
  BY <1>5 DEF vars
<1>6. QED
  BY <1>1, <1>2, <1>3, <1>4, <1>5 DEF Next

LEMMA HoldingStep == DaemonInv /\ [Next]_vars => Holding' /\ NoBudget'
<1> SUFFICES ASSUME DaemonInv, [Next]_vars PROVE Holding' /\ NoBudget'
  OBVIOUS
<1> USE DaemonAssumption DEF DaemonInv, TypeOK, Holding, NoBudget, Locks, state, locals, IsFree,
        Take, GoTo, Begin, Finish, PCs, Waiting, MgrHeld, LiveHeld, HomeHeld, Pinning, Looking
<1>1. ASSUME NEW t \in Threads, Call(t) PROVE Holding' /\ NoBudget'
  <2>1. ASSUME NEW s \in Slots, NEW m \in Members, CallLoad(t, s, m) PROVE Holding' /\ NoBudget'
    BY <2>1 DEF CallLoad
  <2>2. ASSUME NEW m \in Models, CallPull(t, m) PROVE Holding' /\ NoBudget'
    BY <2>2 DEF CallPull
  <2>3. ASSUME NEW m \in Models, CallOffload(t, m) PROVE Holding' /\ NoBudget'
    BY <2>3 DEF CallOffload
  <2>4. ASSUME NEW s \in Slots, CallStop(t, s) PROVE Holding' /\ NoBudget'
    BY <2>4 DEF CallStop
  <2>5. CASE CallReload(t)
    BY <2>5 DEF CallReload
  <2>6. CASE CallStopAll(t)
    BY <2>6 DEF CallStopAll
  <2>7. QED
    BY <1>1, <2>1, <2>2, <2>3, <2>4, <2>5, <2>6 DEF Call
<1>2. ASSUME NEW t \in Threads, Acquire(t) PROVE Holding' /\ NoBudget'
  <2>1. CASE LoadHit(t)
    BY <2>1 DEF LoadHit
  <2>2. CASE LoadEnter(t)
    BY <2>2 DEF LoadEnter
  <2>3. CASE PullHit(t)
    BY <2>3 DEF PullHit, PullOk, PullReturns, PullFinishes
  <2>4. CASE PullRefused(t)
    BY <2>4 DEF PullRefused
  <2>5. CASE PullMiss(t)
    BY <2>5 DEF PullMiss, Bounded
  <2>6. CASE PinLive(t)
    BY <2>6 DEF PinLive
  <2>7. CASE PinRunning(t)
    BY <2>7 DEF PinRunning
  <2>8. CASE PinNamed(t)
    BY <2>8 DEF PinNamed
  <2>9. CASE Pin(t)
    BY <2>9 DEF Pin
  <2>10. CASE Offload(t)
    BY <2>10 DEF Offload
  <2>11. CASE Stop(t)
    BY <2>11 DEF Stop
  <2>12. CASE ReloadEnter(t)
    BY <2>12 DEF ReloadEnter
  <2>13. CASE AddMember(t)
    BY <2>13 DEF AddMember
  <2>14. CASE StopAllEnter(t)
    BY <2>14 DEF StopAllEnter
  <2>15. CASE StopOne(t)
    BY <2>15 DEF StopOne
  <2>16. QED
    BY <1>2, <2>1, <2>2, <2>3, <2>4, <2>5, <2>6, <2>7, <2>8, <2>9, <2>10, <2>11, <2>12, <2>13, <2>14, <2>15 DEF Acquire
<1>3. ASSUME NEW t \in Threads, Proceed(t) PROVE Holding' /\ NoBudget'
  <2>1. CASE Swap(t)
    BY <2>1 DEF Swap
  <2>2. CASE Loaded(t)
    BY <2>2 DEF Loaded
  <2>3. CASE LoadErr(t)
    BY <2>3 DEF LoadErr
  <2>4. CASE PinNext(t)
    BY <2>4 DEF PinNext
  <2>5. CASE PinDone(t)
    BY <2>5 DEF PinDone
  <2>6. ASSUME NEW v \in Models, Evict(t, v) PROVE Holding' /\ NoBudget'
    BY <2>6 DEF Evict
  <2>7. CASE EvictDone(t)
    BY <2>7 DEF EvictDone
  <2>8. CASE EvictErr(t)
    BY <2>8 DEF EvictErr
  <2>9. CASE Copied(t)
    BY <2>9 DEF Copied, PullOk, PullReturns, PullFinishes
  <2>10. CASE CopyErr(t)
    BY <2>10 DEF CopyErr
  <2>11. CASE NextSlot(t)
    BY <2>11 DEF NextSlot
  <2>12. CASE AllDone(t)
    BY <2>12 DEF AllDone
  <2>13. CASE Reaped(t)
    BY <2>13 DEF Reaped
  <2>14. QED
    BY <1>3, <2>1, <2>2, <2>3, <2>4, <2>5, <2>6, <2>7, <2>8, <2>9, <2>10, <2>11, <2>12, <2>13 DEF Proceed
<1>4. ASSUME NEW s \in Slots, WorkerDies(s) PROVE Holding' /\ NoBudget'
  BY <1>4 DEF WorkerDies
<1>5. CASE UNCHANGED vars
  BY <1>5 DEF vars
<1>6. QED
  BY <1>1, <1>2, <1>3, <1>4, <1>5 DEF Next

LEMMA PullingStep == DaemonInv /\ [Next]_vars => Pulling'
<1> SUFFICES ASSUME DaemonInv, [Next]_vars PROVE Pulling'
  OBVIOUS
<1> USE DEF DaemonInv, TypeOK, Pulling, MgrHeld, state, locals, Take, GoTo, Begin, Finish
<1>1. ASSUME NEW t \in Threads, Call(t) PROVE Pulling'
  <2>1. CASE \E s \in Slots, m \in Members : CallLoad(t, s, m)
    BY <2>1 DEF CallLoad
  <2>2. CASE \E m \in Models : CallPull(t, m) \/ CallOffload(t, m)
    BY <2>2, PullsType DEF CallPull, CallOffload
  <2>3. CASE (\E s \in Slots : CallStop(t, s)) \/ CallReload(t) \/ CallStopAll(t)
    BY <2>3 DEF CallStop, CallReload, CallStopAll
  <2>4. QED
    BY <1>1, <2>1, <2>2, <2>3 DEF Call
<1>2. ASSUME NEW t \in Threads, Acquire(t) PROVE Pulling'
  <2>1. CASE LoadHit(t) \/ PullRefused(t) \/ Offload(t) \/ Stop(t)
    BY <2>1 DEF LoadHit, PullRefused, Offload, Stop
  <2>2. CASE LoadEnter(t)
    BY <2>2, WeightsType DEF LoadEnter, Holding
  <2>3. CASE PullHit(t)
    BY <2>3, PullsType, SMTT(30) DEF PullHit, PullOk, PullReturns, PullFinishes
  <2>4. CASE PullMiss(t) \/ PinLive(t)
    BY <2>4 DEF PullMiss, PinLive
  <2>5. CASE PinRunning(t) \/ PinNamed(t) \/ Pin(t)
    BY <2>5 DEF PinRunning, PinNamed, Pin
  <2>6. CASE ReloadEnter(t) \/ AddMember(t) \/ StopAllEnter(t) \/ StopOne(t)
    BY <2>6 DEF ReloadEnter, AddMember, StopAllEnter, StopOne
  <2>7. QED
    BY <1>2, <2>1, <2>2, <2>3, <2>4, <2>5, <2>6 DEF Acquire
<1>3. ASSUME NEW t \in Threads, Proceed(t) PROVE Pulling'
  <2>1. CASE Swap(t) \/ Loaded(t) \/ LoadErr(t)
    BY <2>1 DEF Swap, Loaded, LoadErr
  <2>2. CASE PinNext(t) \/ PinDone(t)
    BY <2>2 DEF PinNext, PinDone
  <2>3. CASE (\E v \in Models : Evict(t, v)) \/ EvictDone(t)
    BY <2>3 DEF Evict, EvictDone
  <2>4. CASE EvictErr(t) \/ CopyErr(t) \/ AllDone(t)
    BY <2>4 DEF EvictErr, CopyErr, AllDone
  <2>5. CASE Copied(t)
    BY <2>5, PullsType DEF Copied, PullOk, PullReturns, PullFinishes
  <2>6. CASE NextSlot(t) \/ Reaped(t)
    BY <2>6 DEF NextSlot, Reaped
  <2>7. QED
    BY <1>3, <2>1, <2>2, <2>3, <2>4, <2>5, <2>6 DEF Proceed
<1>4. ASSUME NEW s \in Slots, WorkerDies(s) PROVE Pulling'
  BY <1>4 DEF WorkerDies
<1>5. CASE UNCHANGED vars
  BY <1>5 DEF vars
<1>6. QED
  BY <1>1, <1>2, <1>3, <1>4, <1>5 DEF Next

\* The threads, their locks and their types stay in step.
THEOREM DaemonSafety == Spec => []DaemonInv
<1>1. DaemonInv /\ [Next]_vars => DaemonInv'
  BY TypeStep, HoldingStep, PullingStep DEF DaemonInv
<1>2. QED
  BY InitInv, <1>1, PTL DEF Spec

\* The variables keep their types.
THEOREM DaemonTypes == Spec => []TypeOK
<1>1. DaemonInv => TypeOK
  BY DEF DaemonInv
<1>2. QED
  BY DaemonSafety, <1>1, PTL

\* The goroutines of S wait for each other.
Circle(S) == S # {} /\ \A t \in S : pc[t] \in Waiting /\ owner[WaitsFor(t)] \in S

\* A thread is in ensureRoom and holds m.mu while it asks Pinned; another, or the
\* same, holds a g.mu.
ThroughPinned(S) ==
  \E t, u \in S :
    /\ owner[Mgr] = t /\ pc[t] \in {"live", "running", "named", "pin"}
    /\ \E s \in Slots : owner[s] = u /\ home[u] = s

LEMMA Ordered ==
  ASSUME DaemonInv, NEW S \in SUBSET Threads, Circle(S)
  PROVE  ThroughPinned(S)
<1> USE DaemonAssumption DEF DaemonInv, Circle
<1> DEFINE InPinned == {"live", "running", "named", "pin"}
<1>1. ASSUME NEW t \in S, WaitsFor(t) = Mgr PROVE \E u \in S : owner[Mgr] = u /\ pc[u] \in InPinned
  <2>1. PICK u \in S : owner[Mgr] = u
    BY <1>1
  <2>2. pc[u] \in MgrHeld /\ pc[u] \in Waiting
    BY <2>1 DEF Holding
  <2>3. QED
    BY <2>1, <2>2 DEF MgrHeld, Waiting
<1>2. ASSUME NEW t \in S, WaitsFor(t) \in Slots
      PROVE  /\ \E u \in S, s \in Slots : owner[s] = u /\ home[u] = s
             /\ \E u \in S : owner[Mgr] = u /\ pc[u] \in InPinned
  <2>1. PICK u \in S : owner[WaitsFor(t)] = u
    BY <1>2
  <2>2. pc[u] \in HomeHeld /\ home[u] = WaitsFor(t) /\ pc[u] \in Waiting
    BY <1>2, <2>1 DEF Holding
  <2>3. CASE pc[u] = "mgr"
    BY <1>1, <1>2, <2>1, <2>2, <2>3 DEF WaitsFor
  <2>4. CASE pc[u] # "mgr"
    <3>1. pc[u] \in InPinned /\ owner[Mgr] = u
      BY <2>2, <2>4 DEF HomeHeld, MgrHeld, Waiting, Holding
    <3>2. QED
      BY <1>2, <2>1, <2>2, <3>1
  <2>5. QED
    BY <2>3, <2>4
<1>3. ASSUME NEW t \in S, WaitsFor(t) = Live PROVE \E u \in S : WaitsFor(u) \in Slots
  <2>1. PICK u \in S : owner[Live] = u
    BY <1>3
  <2>2. pc[u] \in LiveHeld /\ pc[u] \in Waiting
    BY <2>1 DEF Holding
  <2>3. pc[u] \in {"running", "named", "pin", "add", "stopOne"}
    BY <2>2 DEF LiveHeld, Waiting
  <2>4. WaitsFor(u) = look[u] /\ look[u] \in Slots
    BY <2>3 DEF WaitsFor, Holding, Looking
  <2>5. QED
    BY <2>4
<1>4. \A t \in S : WaitsFor(t) \in Slots \cup {Mgr, Live}
  BY DEF WaitsFor, Waiting, Holding, Looking
<1>5. \E t \in S : WaitsFor(t) \in Slots
  <2>1. ASSUME NEW t \in S, pc[t] \in InPinned PROVE \E u \in S : WaitsFor(u) \in Slots
    <3>1. WaitsFor(t) = Live \/ WaitsFor(t) \in Slots
      BY <2>1 DEF WaitsFor, Holding, Looking
    <3>2. QED
      BY <1>3, <3>1
  <2>2. QED
    BY <1>1, <1>3, <1>4, <2>1
<1>6. QED
  BY <1>2, <1>5 DEF ThroughPinned

\* Whoever waits for each other, a load and a pull that looks for what is pinned
\* are among them: the other locks, and all other jobs, are taken in an order.
CirclesOnlyThere == \A S \in SUBSET Threads : Circle(S) => ThroughPinned(S)

\* Only a budget, a load and Pinned together can lock the daemon up.
THEOREM OnlyPinnedDeadlocks == Spec => []CirclesOnlyThere
<1>1. DaemonInv => CirclesOnlyThere
  BY Ordered DEF CirclesOnlyThere
<1>2. QED
  BY DaemonSafety, <1>1, PTL

\* Without a budget the daemon never locks up: nobody asks Pinned.
THEOREM NoBudgetNoDeadlock ==
  ASSUME Room = 0
  PROVE  Spec => []NoDeadlock
<1>1. DaemonInv => NoDeadlock
  <2> SUFFICES ASSUME DaemonInv, NEW S \in SUBSET {t \in Threads : pc[t] \in Waiting},
                      S # {}, \A t \in S : owner[WaitsFor(t)] \in S
               PROVE  FALSE
    BY DEF NoDeadlock
  <2>1. S \in SUBSET Threads /\ Circle(S)
    BY DEF Circle
  <2>2. ThroughPinned(S)
    BY <2>1, Ordered
  <2>3. QED
    BY <2>1, <2>2 DEF DaemonInv, NoBudget, Pinning, ThroughPinned
<1>2. QED
  BY DaemonSafety, <1>1, PTL

-----------------------------------------------------------------------------
(* What Pinned buys: for any number of slots, models and goroutines, a pull *)
(* evicts nothing that is in use.  Pinned reads the slots one by one; what  *)
(* it has seen stays true because nothing new gets into use while m.mu is   *)
(* held (InUseBefore).                                                      *)

\* Pinned has looked at s.
Seen(t, s) == s \notin todo[t] /\ ~(pc[t] \in {"running", "named", "pin"} /\ look[t] = s)

PinsWhatIsUsed ==
  \A t \in Threads : pc[t] \in Pinning =>
    /\ pc[t] = "evict" => todo[t] = {}
    /\ \A s \in Slots, v \in Models : Seen(t, s) /\ InUse(s, v) => v \in pinned[t]

\* A step of w leaves the others where they are and gives them no lock.
LEMMA OthersStay ==
  ASSUME DaemonInv, NEW w \in Threads, Call(w) \/ Acquire(w) \/ Proceed(w),
         NEW u \in Threads, u # w
  PROVE  /\ pc'[u] = pc[u] /\ home'[u] = home[u] /\ want'[u] = want[u]
         /\ pulls'[u] = pulls[u] /\ todo'[u] = todo[u] /\ look'[u] = look[u]
         /\ pinned'[u] = pinned[u]
         /\ \A l \in Locks : owner'[l] = u => owner[l] = u
<1> DEFINE Stay == /\ pc'[u] = pc[u] /\ home'[u] = home[u] /\ want'[u] = want[u]
                   /\ pulls'[u] = pulls[u] /\ todo'[u] = todo[u] /\ look'[u] = look[u]
                   /\ pinned'[u] = pinned[u]
                   /\ \A l \in Locks : owner'[l] = u => owner[l] = u
<1> SUFFICES Stay
  OBVIOUS
<1> USE DaemonAssumption DEF DaemonInv, TypeOK, state, locals, Take, GoTo, Begin, Finish, Locks
<1>1. CASE Call(w)
  BY <1>1 DEF Call, CallLoad, CallPull, CallOffload, CallStop, CallReload, CallStopAll
<1>2. CASE LoadHit(w) \/ LoadEnter(w) \/ Offload(w) \/ Stop(w)
  BY <1>2 DEF LoadHit, LoadEnter, Offload, Stop
<1>3. CASE PullHit(w) \/ Copied(w)
  BY <1>3 DEF PullHit, Copied, PullOk, PullReturns, PullFinishes
<1>4. CASE PullRefused(w) \/ PullMiss(w) \/ PinLive(w)
  BY <1>4 DEF PullRefused, PullMiss, PinLive
<1>5. CASE PinRunning(w) \/ PinNamed(w) \/ Pin(w)
  BY <1>5 DEF PinRunning, PinNamed, Pin
<1>6. CASE ReloadEnter(w) \/ AddMember(w) \/ StopAllEnter(w) \/ StopOne(w)
  BY <1>6 DEF ReloadEnter, AddMember, StopAllEnter, StopOne
<1>7. CASE Swap(w) \/ Loaded(w) \/ LoadErr(w) \/ PinNext(w) \/ PinDone(w)
  BY <1>7 DEF Swap, Loaded, LoadErr, PinNext, PinDone
<1>8. CASE (\E v \in Models : Evict(w, v)) \/ EvictDone(w) \/ EvictErr(w) \/ CopyErr(w)
  BY <1>8 DEF Evict, EvictDone, EvictErr, CopyErr
<1>9. CASE NextSlot(w) \/ AllDone(w) \/ Reaped(w)
  BY <1>9 DEF NextSlot, AllDone, Reaped
<1>10. QED
  BY <1>1, <1>2, <1>3, <1>4, <1>5, <1>6, <1>7, <1>8, <1>9 DEF Acquire, Proceed

\* u has pulled v for slot s and is about to serve it.
Serves(u, s, v) ==
  /\ owner[s] = u /\ home[u] = s /\ want[u] = v
  /\ pc[u] \in {"swap", "probe"} \/ pulls[u] \notin {<<>>, Weights(v)}

\* Only a load gets a model into use, and not while another thread holds m.mu.
LEMMA InUseBefore ==
  ASSUME DaemonInv, Next, NEW t \in Threads, pc[t] \in Pinning,
         NEW s \in Slots, NEW v \in Models, InUse(s, v)'
  PROVE  InUse(s, v)
<1> USE DaemonAssumption DEF DaemonInv, TypeOK, Locks
<1>1. InUse(s, v) <=> serving[s] = v \/ \E u \in Threads : Serves(u, s, v)
  BY DEF InUse, Serves
<1>2. InUse(s, v)' <=> serving'[s] = v \/ \E u \in Threads : Serves(u, s, v)'
  BY DEF InUse, Serves, Weights
<1>3. owner[Mgr] = t /\ pc[t] \notin {"mgr", "copy", "swap", "probe"}
  BY DEF Holding, MgrHeld, Pinning
<1>4. CASE \E x \in Slots : WorkerDies(x)
  BY <1>1, <1>2, <1>4 DEF WorkerDies, Serves, locals, Weights
<1>5. ASSUME NEW w \in Threads, Call(w) \/ Acquire(w) \/ Proceed(w) PROVE InUse(s, v)
  <2>1. CASE serving'[s] = v
    <3>1. CASE serving[s] = v
      BY <1>1, <3>1
    <3>2. CASE serving[s] # v
      <4>1. Loaded(w)
        <5> USE <2>1, <3>2 DEF state
        <5>1. ~Call(w)
          BY DEF Call, CallLoad, CallPull, CallOffload, CallStop, CallReload, CallStopAll
        <5>2. ~Acquire(w)
          BY DEF Acquire, LoadHit, LoadEnter, PullHit, PullRefused, PullMiss, PinLive, PinRunning,
                 PinNamed, Pin, Offload, Stop, ReloadEnter, AddMember, StopAllEnter, StopOne
        <5>3. QED
          BY <1>5, <5>1, <5>2
             DEF Proceed, Swap, LoadErr, PinNext, PinDone, Evict, EvictDone, EvictErr, Copied,
                 CopyErr, NextSlot, AllDone, Reaped
      <4>2. home[w] = s /\ want[w] = v /\ pc[w] = "probe"
        BY <2>1, <3>2, <4>1 DEF Loaded
      <4>3. owner[s] = w
        BY <4>2 DEF Holding, HomeHeld
      <4>4. QED
        BY <1>1, <4>2, <4>3 DEF Serves
    <3>3. QED
      BY <3>1, <3>2
  <2>2. ASSUME NEW u \in Threads, Serves(u, s, v)' PROVE InUse(s, v)
    <3>1. CASE u # w
      <4>1. Serves(u, s, v)
        BY <1>5, <2>2, <3>1, OthersStay DEF Serves, Weights
      <4>2. QED
        BY <1>1, <4>1
    <3>2. CASE u = w
      <4> USE <2>2, <3>2 DEF Serves, Take, GoTo, Begin, Finish, state, locals
      <4>1. ~Call(w)
        <5>1. Call(w) => pc[w] = "idle" /\ owner' = owner
          BY DEF Call, CallLoad, CallPull, CallOffload, CallStop, CallReload, CallStopAll
        <5>2. pc[w] = "idle" => owner[s] # w
          BY DEF Holding, HomeHeld, MgrHeld
        <5>3. QED
          BY <5>1, <5>2
      <4>2. CASE Acquire(w)
        <5>1. ~LoadHit(w) /\ ~PullRefused(w) /\ ~Offload(w) /\ ~Stop(w)
          BY DEF LoadHit, PullRefused, Offload, Stop
        <5>2. ~PullHit(w) /\ ~PullMiss(w)
          BY <1>3 DEF PullHit, PullMiss, IsFree
        <5>3. ~LoadEnter(w)
          BY DEF LoadEnter, Weights
        <5>4. CASE PinLive(w) \/ PinRunning(w) \/ PinNamed(w) \/ Pin(w)
          BY <1>1, <5>4 DEF PinLive, PinRunning, PinNamed, Pin, Weights
        <5>5. CASE ReloadEnter(w) \/ AddMember(w) \/ StopAllEnter(w) \/ StopOne(w)
          BY <1>1, <5>5 DEF ReloadEnter, AddMember, StopAllEnter, StopOne, Weights
        <5>6. QED
          BY <4>2, <5>1, <5>2, <5>3, <5>4, <5>5 DEF Acquire
      <4>3. CASE Proceed(w)
        <5>1. ~Loaded(w) /\ ~LoadErr(w) /\ ~EvictErr(w) /\ ~CopyErr(w) /\ ~AllDone(w)
          BY DEF Loaded, LoadErr, EvictErr, CopyErr, AllDone
        <5>2. ~Copied(w)
          BY <1>3 DEF Copied, Holding, MgrHeld
        <5>3. CASE Swap(w)
          BY <1>1, <5>3 DEF Swap, Weights
        <5>4. CASE PinNext(w) \/ PinDone(w)
          BY <1>1, <5>4 DEF PinNext, PinDone, Weights
        <5>5. CASE (\E x \in Models : Evict(w, x)) \/ EvictDone(w)
          BY <1>1, <5>5 DEF Evict, EvictDone, Weights
        <5>6. CASE NextSlot(w) \/ Reaped(w)
          BY <1>1, <5>6 DEF NextSlot, Reaped, Weights
        <5>7. QED
          BY <4>3, <5>1, <5>2, <5>3, <5>4, <5>5, <5>6 DEF Proceed
      <4>4. QED
        BY <1>5, <4>1, <4>2, <4>3
    <3>3. QED
      BY <3>1, <3>2
  <2>3. QED
    BY <1>2, <2>1, <2>2
<1>6. QED
  BY <1>4, <1>5 DEF Next

LEMMA PinsStep == DaemonInv /\ PinsWhatIsUsed /\ [Next]_vars => PinsWhatIsUsed'
<1> SUFFICES ASSUME DaemonInv, PinsWhatIsUsed, [Next]_vars,
                    NEW t \in Threads, pc'[t] \in Pinning
             PROVE  /\ pc'[t] = "evict" => todo'[t] = {}
                    /\ \A s \in Slots, v \in Models :
                         Seen(t, s)' /\ InUse(s, v)' => v \in pinned'[t]
  BY DEF PinsWhatIsUsed, Pinning
<1> DEFINE Goal == /\ pc'[t] = "evict" => todo'[t] = {}
                   /\ \A s \in Slots, v \in Models :
                        Seen(t, s)' /\ InUse(s, v)' => v \in pinned'[t]
           Kept == /\ pc[t] \in Pinning /\ (pc'[t] = "evict" => todo'[t] = {})
                   /\ \A s \in Slots : Seen(t, s)' => Seen(t, s)
                   /\ pinned'[t] = pinned[t]
<1> USE DaemonAssumption DEF DaemonInv, TypeOK, Locks
<1>1. CASE UNCHANGED vars
  BY <1>1 DEF vars, PinsWhatIsUsed, Seen, InUse, Weights
<1>2. ASSUME Next, Kept PROVE Goal
  BY <1>2, InUseBefore DEF PinsWhatIsUsed
<1>3. CASE \E x \in Slots : WorkerDies(x)
  <2>1. Kept
    BY <1>3 DEF WorkerDies, locals, Seen, PinsWhatIsUsed
  <2>2. QED
    BY <1>2, <1>3, <2>1 DEF Next
<1>4. ASSUME NEW w \in Threads, w # t, Call(w) \/ Acquire(w) \/ Proceed(w) PROVE Goal
  <2>1. Kept
    BY <1>4, OthersStay DEF Seen, PinsWhatIsUsed
  <2>2. QED
    BY <1>2, <1>4, <2>1 DEF Next
<1>5. CASE Call(t) \/ Acquire(t) \/ Proceed(t)
  <2> USE DEF Take, GoTo, Begin, Finish, state, locals, Pinning
  <2>1. ~Call(t)
    BY DEF Call, CallLoad, CallPull, CallOffload, CallStop, CallReload, CallStopAll
  <2>2. CASE Acquire(t)
    <3>1. ~LoadHit(t) /\ ~LoadEnter(t) /\ ~PullRefused(t) /\ ~Offload(t) /\ ~Stop(t)
      BY DEF LoadHit, LoadEnter, PullRefused, Offload, Stop
    <3>2. ~PullHit(t) /\ ~PullMiss(t)
      BY DEF PullHit, PullMiss, PullOk, PullReturns, PullFinishes
    <3>3. ~ReloadEnter(t) /\ ~AddMember(t) /\ ~StopAllEnter(t) /\ ~StopOne(t)
      BY DEF ReloadEnter, AddMember, StopAllEnter, StopOne
    <3>4. CASE PinLive(t)
      BY <3>4 DEF PinLive, Seen
    <3>5. CASE PinRunning(t) \/ PinNamed(t)
      <4>1. pc[t] \in {"running", "named"} /\ look[t] \in Slots
        BY <3>5 DEF PinRunning, PinNamed, Holding, Looking
      <4>2. ASSUME NEW s \in Slots, s = look[t], NEW v \in Models, InUse(s, v)'
            PROVE  pc'[t] # "pins"
        BY <3>5, <4>1, <4>2 DEF PinRunning, PinNamed, InUse, IsFree
      <4>3. \A s \in Slots : Seen(t, s)' /\ s # look[t] => Seen(t, s)
        BY <3>5 DEF PinRunning, PinNamed, Seen
      <4>4. \A s \in Slots, v \in Models : s = look[t] /\ InUse(s, v)' => ~Seen(t, s)'
        BY <3>5, <4>2 DEF PinRunning, PinNamed, Seen
      <4>5. pinned'[t] = pinned[t] /\ pc'[t] # "evict" /\ Next
        BY <1>5, <3>5 DEF PinRunning, PinNamed, Next
      <4>6. ASSUME NEW s \in Slots, NEW v \in Models, Seen(t, s)', InUse(s, v)'
            PROVE  v \in pinned'[t]
        <5>1. Seen(t, s)
          BY <4>3, <4>4, <4>6
        <5>2. InUse(s, v)
          BY <4>1, <4>5, <4>6, InUseBefore
        <5>3. QED
          BY <4>1, <4>5, <5>1, <5>2 DEF PinsWhatIsUsed
      <4>7. QED
        BY <4>5, <4>6
    <3>6. CASE Pin(t)
      <4>1. pc[t] = "pin" /\ look[t] \in Slots /\ pc'[t] = "pins" /\ Next
        BY <1>5, <3>6 DEF Pin, Holding, Looking, Next
      <4>2. \A s \in Slots, v \in Models : s = look[t] /\ InUse(s, v)' => v \in pinned'[t]
        BY <3>6, <4>1 DEF Pin, InUse, IsFree
      <4>3. \A s \in Slots : Seen(t, s)' /\ s # look[t] => Seen(t, s)
        BY <3>6 DEF Pin, Seen
      <4>4. pinned[t] \subseteq pinned'[t]
        BY <3>6 DEF Pin
      <4>5. ASSUME NEW s \in Slots, NEW v \in Models, Seen(t, s)', InUse(s, v)'
            PROVE  v \in pinned'[t]
        <5>1. CASE s = look[t]
          BY <4>2, <4>5, <5>1
        <5>2. CASE s # look[t]
          <6>1. Seen(t, s)
            BY <4>3, <4>5, <5>2
          <6>2. InUse(s, v)
            BY <4>1, <4>5, InUseBefore
          <6>3. QED
            BY <4>1, <4>4, <6>1, <6>2 DEF PinsWhatIsUsed
        <5>3. QED
          BY <5>1, <5>2
      <4>6. QED
        BY <4>1, <4>5
    <3>7. QED
      BY <2>2, <3>1, <3>2, <3>3, <3>4, <3>5, <3>6 DEF Acquire
  <2>3. CASE Proceed(t)
    <3>1. ~Swap(t) /\ ~Loaded(t) /\ ~LoadErr(t) /\ ~EvictErr(t) /\ ~CopyErr(t) /\ ~AllDone(t)
      BY DEF Swap, Loaded, LoadErr, EvictErr, CopyErr, AllDone
    <3>2. ~Copied(t) /\ ~EvictDone(t) /\ ~NextSlot(t) /\ ~Reaped(t)
      BY DEF Copied, PullOk, PullReturns, PullFinishes, EvictDone, NextSlot, Reaped
    <3>3. CASE PinNext(t)
      <4>1. Kept
        BY <3>3 DEF PinNext, Seen
      <4>2. QED
        BY <1>2, <1>5, <4>1 DEF Next
    <3>4. CASE PinDone(t)
      <4>1. Kept
        BY <3>4 DEF PinDone, Seen
      <4>2. QED
        BY <1>2, <1>5, <4>1 DEF Next
    <3>5. CASE \E x \in Models : Evict(t, x)
      <4>1. Kept
        BY <3>5 DEF Evict, Seen, PinsWhatIsUsed
      <4>2. QED
        BY <1>2, <1>5, <4>1 DEF Next
    <3>6. QED
      BY <2>3, <3>1, <3>2, <3>3, <3>4, <3>5 DEF Proceed
  <2>4. QED
    BY <1>5, <2>1, <2>2, <2>3
<1>6. QED
  BY <1>1, <1>3, <1>4, <1>5 DEF Next

\* A pull evicts no model that a slot serves or a load is about to serve,
\* whatever the slots, the models and the goroutines.
THEOREM PinnedStays == Spec => EvictsNothingInUse
<1>1. Init => PinsWhatIsUsed
  BY DEF Init, PinsWhatIsUsed, Pinning
<1>2. DaemonInv /\ PinsWhatIsUsed =>
        \A t \in Threads, v \in Models, s \in Slots : Evict(t, v) => ~InUse(s, v)
  BY DEF PinsWhatIsUsed, Evict, Seen, Pinning
<1>3. Spec => [](DaemonInv /\ PinsWhatIsUsed)
  BY <1>1, DaemonSafety, PinsStep, PTL DEF Spec
<1>4. QED
  BY <1>2, <1>3, PTL DEF EvictsNothingInUse

-----------------------------------------------------------------------------
(* Every job gets nearer to its end.  What Rank counts is finite, a job's   *)
(* steps lower it, and the steps of others do not touch it: they leave its  *)
(* variables alone, and the cache while it evicts.                          *)

\* The slots, the models and how many of them there are.
LEMMA Sizes ==
  /\ Cardinality(Slots) \in Nat /\ Cardinality(Models) \in Nat
  /\ \A S \in SUBSET Slots : Cardinality(S) \in Nat /\ Cardinality(S) <= Cardinality(Slots)
  /\ \A S \in SUBSET Models : Cardinality(S) \in Nat /\ Cardinality(S) <= Cardinality(Models)
  /\ \A S \in SUBSET Slots : \A s \in S : Cardinality(S \ {s}) = Cardinality(S) - 1
  /\ \A S \in SUBSET Models : \A v \in S : Cardinality(S \ {v}) = Cardinality(S) - 1
<1>1. IsFiniteSet(Slots) /\ IsFiniteSet(Models)
  BY FinitelyMany
<1>2. Cardinality(Slots) \in Nat /\ Cardinality(Models) \in Nat
  BY <1>1, FS_CardinalityType
<1>3. ASSUME NEW T, IsFiniteSet(T), NEW S \in SUBSET T
      PROVE  /\ Cardinality(S) \in Nat /\ Cardinality(S) <= Cardinality(T)
             /\ \A s \in S : Cardinality(S \ {s}) = Cardinality(S) - 1
  <2>1. IsFiniteSet(S) /\ Cardinality(S) <= Cardinality(T)
    BY <1>3, FS_Subset
  <2>2. QED
    BY <2>1, FS_CardinalityType, FS_RemoveElement
<1>4. QED
  BY <1>1, <1>2, <1>3

\* A load pulls a model and at most a draft.
Short == \A t \in Threads : Len(pulls[t]) <= 2

LEMMA Lengths ==
  /\ Len(<<>>) = 0
  /\ \A m \in Models : Len(<<m>>) = 1
  /\ \A m \in Members : Len(Weights(m)) = 1 \/ Len(Weights(m)) = 2
  /\ \A q \in Seq(Models) : q # <<>> => Len(q) >= 1 /\ Len(Tail(q)) = Len(q) - 1
<1>1. \A m \in Members : Len(Weights(m)) = 1 \/ Len(Weights(m)) = 2
  BY DaemonAssumption DEF Weights
<1>2. \A q \in Seq(Models) : q # <<>> => Len(q) >= 1 /\ Len(Tail(q)) = Len(q) - 1
  OBVIOUS
<1>3. QED
  BY <1>1, <1>2

LEMMA ShortStep == DaemonInv /\ Short /\ [Next]_vars => Short'
<1> SUFFICES ASSUME DaemonInv, Short, [Next]_vars PROVE Short'
  OBVIOUS
<1>0. pulls \in [Threads -> Seq(Models)] /\ \A t \in Threads : Len(pulls[t]) \in Nat
  BY PullsType DEF DaemonInv, TypeOK
<1>1. CASE UNCHANGED pulls
  BY <1>1 DEF Short
<1>2. ASSUME NEW t \in Threads, \A u \in Threads \ {t} : pulls'[u] = pulls[u],
             Len(pulls'[t]) <= 2
      PROVE  Short'
  BY <1>0, <1>2 DEF Short
<1>3. ASSUME NEW t \in Threads, Finish(t) PROVE Short'
  <2>1. pulls' = [pulls EXCEPT ![t] = <<>>]
    BY <1>3 DEF Finish
  <2>2. QED
    BY <1>0, <1>2, <2>1, Lengths
<1>4. ASSUME NEW t \in Threads, PullOk(t), pc[t] \in {"mgr", "copy"} PROVE Short'
  <2>1. CASE PullFinishes(t)
    BY <1>3, <2>1 DEF PullFinishes
  <2>2. CASE PullReturns(t)
    <3>1. pulls[t] # <<>> /\ pulls' = [pulls EXCEPT ![t] = Tail(pulls[t])]
      BY <1>0, <1>4, <2>2 DEF PullReturns, DaemonInv, Pulling, MgrHeld
    <3>2. Len(Tail(pulls[t])) <= 2
      BY <1>0, <3>1, Lengths DEF Short
    <3>3. QED
      BY <1>0, <1>2, <3>1, <3>2
  <2>3. QED
    BY <1>4, <2>1, <2>2 DEF PullOk
<1>5. ASSUME NEW t \in Threads, Call(t) PROVE Short'
  <2>1. CASE \E m \in Models : pulls' = [pulls EXCEPT ![t] = <<m>>]
    BY <1>0, <1>2, <2>1, Lengths
  <2>2. QED
    BY <1>1, <1>5, <2>1 DEF Call, CallLoad, CallPull, CallOffload, CallStop, CallReload,
       CallStopAll, locals
<1>6. ASSUME NEW t \in Threads, Acquire(t) PROVE Short'
  <2>1. CASE LoadEnter(t)
    <3>1. pulls' = [pulls EXCEPT ![t] = Weights(want[t])] /\ want[t] \in Members
      BY <2>1 DEF LoadEnter, DaemonInv, Holding
    <3>2. Len(Weights(want[t])) = 1 \/ Len(Weights(want[t])) = 2
      BY <3>1, Lengths
    <3>3. Len(pulls'[t]) <= 2
      <4>1. pulls'[t] = Weights(want[t])
        BY <1>0, <3>1
      <4>2. Len(pulls'[t]) = 1 \/ Len(pulls'[t]) = 2
        BY <3>2, <4>1, Zenon
      <4> DEFINE length == Len(pulls'[t])
      <4> HIDE DEF length
      <4>3. length = 1 \/ length = 2
        BY <4>2 DEF length
      <4>4. length <= 2
        BY <4>3
      <4>5. QED
        BY <4>4 DEF length
    <3>4. \A u \in Threads \ {t} : pulls'[u] = pulls[u]
      BY <1>0, <3>1
    <3>5. QED
      BY <1>2, <3>3, <3>4
  <2>2. CASE PullHit(t)
    BY <1>4, <2>2 DEF PullHit
  <2>3. CASE LoadHit(t) \/ PullRefused(t) \/ Offload(t) \/ Stop(t)
    BY <1>3, <2>3 DEF LoadHit, PullRefused, Offload, Stop
  <2>4. CASE PullMiss(t) \/ PinLive(t) \/ PinRunning(t) \/ PinNamed(t) \/ Pin(t)
    BY <1>1, <2>4 DEF PullMiss, PinLive, PinRunning, PinNamed, Pin, locals
  <2>5. CASE ReloadEnter(t) \/ AddMember(t) \/ StopAllEnter(t) \/ StopOne(t)
    BY <1>1, <2>5 DEF ReloadEnter, AddMember, StopAllEnter, StopOne, locals
  <2>6. QED
    BY <1>6, <2>1, <2>2, <2>3, <2>4, <2>5 DEF Acquire
<1>7. ASSUME NEW t \in Threads, Proceed(t) PROVE Short'
  <2>1. CASE Copied(t)
    BY <1>4, <2>1 DEF Copied
  <2>2. CASE Loaded(t) \/ LoadErr(t) \/ EvictErr(t) \/ CopyErr(t) \/ AllDone(t)
    BY <1>3, <2>2 DEF Loaded, LoadErr, EvictErr, CopyErr, AllDone
  <2>3. CASE \/ Swap(t) \/ PinNext(t) \/ PinDone(t) \/ (\E v \in Models : Evict(t, v))
             \/ EvictDone(t) \/ NextSlot(t) \/ Reaped(t)
    BY <1>1, <2>3 DEF Swap, PinNext, PinDone, Evict, EvictDone, NextSlot, Reaped, locals
  <2>4. QED
    BY <1>7, <2>1, <2>2, <2>3 DEF Proceed
<1>8. CASE (\E s \in Slots : WorkerDies(s)) \/ UNCHANGED vars
  BY <1>1, <1>8 DEF WorkerDies, vars, locals
<1>9. QED
  BY <1>5, <1>6, <1>7, <1>8 DEF Next

\* Rank with its parts as parameters.
RankOf(p, slots, laps, cached) ==
  LET pins == laps + 4 * slots + Cardinality(Models) + 5
  IN  CASE p = "idle" -> 0
        [] p \in {"stop", "offload", "probe"} -> 1
        [] p = "swap" -> 2
        [] p = "copy" -> laps + 3
        [] p = "evict" -> laps + cached + 4
        [] p = "pins" -> pins
        [] p = "pin" -> pins + 1
        [] p = "named" -> pins + 2
        [] p = "running" -> pins + 3
        [] p = "live" -> laps + Lap - 2
        [] p = "mgr" -> laps + Lap - 1
        [] p = "load" -> 2 * Lap
        [] p \in {"adds", "stops"} -> 3 * slots + 1
        [] p = "reap" -> 3 * slots + 2
        [] p \in {"add", "stopOne"} -> 3 * slots + 3
        [] OTHER -> 3 * Cardinality(Slots) + 2

Laps(t) == IF Len(pulls[t]) > 1 THEN Lap ELSE 0

LEMMA RankParts ==
  ASSUME NEW t
  PROVE  /\ Rank(t) = RankOf(pc[t], Cardinality(todo[t]), Laps(t), Cardinality(hot))
         /\ Rank(t)' = RankOf(pc'[t], Cardinality(todo'[t]), Laps(t)', Cardinality(hot'))
  BY DEF Rank, RankOf, Laps

\* Its values, place by place.
Ranks(slots, laps, cached) ==
  /\ RankOf("idle", slots, laps, cached) = 0
  /\ \A p \in {"stop", "offload", "probe"} : RankOf(p, slots, laps, cached) = 1
  /\ RankOf("swap", slots, laps, cached) = 2
  /\ RankOf("copy", slots, laps, cached) = laps + 3
  /\ RankOf("evict", slots, laps, cached) = laps + cached + 4
  /\ RankOf("pins", slots, laps, cached) = laps + 4 * slots + Cardinality(Models) + 5
  /\ RankOf("pin", slots, laps, cached) = laps + 4 * slots + Cardinality(Models) + 6
  /\ RankOf("named", slots, laps, cached) = laps + 4 * slots + Cardinality(Models) + 7
  /\ RankOf("running", slots, laps, cached) = laps + 4 * slots + Cardinality(Models) + 8
  /\ RankOf("live", slots, laps, cached) = laps + Lap - 2
  /\ RankOf("mgr", slots, laps, cached) = laps + Lap - 1
  /\ RankOf("load", slots, laps, cached) = 2 * Lap
  /\ \A p \in {"adds", "stops"} : RankOf(p, slots, laps, cached) = 3 * slots + 1
  /\ RankOf("reap", slots, laps, cached) = 3 * slots + 2
  /\ \A p \in {"add", "stopOne"} : RankOf(p, slots, laps, cached) = 3 * slots + 3
  /\ \A p \in {"reload", "stopAll"} :
       RankOf(p, slots, laps, cached) = 3 * Cardinality(Slots) + 2

LEMMA RankFacts ==
  ASSUME NEW slots \in Nat, NEW laps \in {0, Lap}, Lap \in Nat, NEW cached \in Nat,
         Cardinality(Models) \in Nat
  PROVE  Ranks(slots, laps, cached)
  BY DEF RankOf, Ranks

\* What a step of t may do to t: the slots that are left, the laps, the cache.
LEMMA RankTypes ==
  ASSUME DaemonInv, Short, NEW t \in Threads
  PROVE  /\ Cardinality(todo[t]) \in Nat /\ Cardinality(todo[t]) <= Cardinality(Slots)
         /\ Laps(t) \in {0, Lap}
         /\ Cardinality(hot) \in Nat /\ Cardinality(hot) <= Cardinality(Models)
         /\ Lap \in Nat /\ Lap = 4 * Cardinality(Slots) + Cardinality(Models) + 8
<1>1. todo[t] \in SUBSET Slots /\ hot \in SUBSET Models
  BY DEF DaemonInv, TypeOK
<1>2. QED
  BY <1>1, Sizes DEF Laps, Lap

\* The steps of t.
LEMMA OwnSteps ==
  ASSUME DaemonInv, Short, DaemonInv', Short', NEW t \in Threads, Acquire(t) \/ Proceed(t)
  PROVE  Rank(t)' < Rank(t)
<1> DEFINE k == Cardinality(todo[t])
           k2 == Cardinality(todo'[t])
           n == Cardinality(hot)
           n2 == Cardinality(hot')
           l == Laps(t)
           l2 == Laps(t)'
           N == Cardinality(Slots)
           M == Cardinality(Models)
<1>1. /\ k \in Nat /\ k <= N /\ l \in {0, Lap} /\ n \in Nat /\ n <= M
      /\ k2 \in Nat /\ k2 <= N /\ l2 \in {0, Lap} /\ n2 \in Nat /\ n2 <= M
      /\ N \in Nat /\ M \in Nat /\ Lap \in Nat /\ Lap = 4 * N + M + 8
  <2>1. /\ k \in Nat /\ k <= N /\ l \in {0, Lap} /\ n \in Nat /\ n <= M
        /\ Lap \in Nat /\ Lap = 4 * N + M + 8
    BY RankTypes
  <2>2. todo'[t] \in SUBSET Slots /\ hot' \in SUBSET Models
    BY DEF DaemonInv, TypeOK
  <2>3. k2 \in Nat /\ k2 <= N /\ n2 \in Nat /\ n2 <= M /\ l2 \in {0, Lap}
    BY <2>2, Sizes DEF Laps, Lap
  <2>4. QED
    BY <2>1, <2>3, Sizes
<1>2. Rank(t) = RankOf(pc[t], k, l, n) /\ Rank(t)' = RankOf(pc'[t], k2, l2, n2)
  BY RankParts
<1>3. /\ todo' = todo => k2 = k
      /\ hot' = hot => n2 = n
      /\ pulls' = pulls => l2 = l
  BY DEF Laps, Lap
<1>4. Ranks(k, l, n) /\ Ranks(k2, l2, n2)
  BY <1>1, RankFacts
<1>5. \A p \in PCs \ {"idle"} : RankOf(p, k, l, n) > 0
  BY <1>1 DEF RankOf, PCs, Waiting
<1> HIDE DEF k, k2, n, n2, l, l2, N, M
<1>6. ASSUME Finish(t), pc[t] # "idle" PROVE Rank(t)' < Rank(t)
  <2>1. pc[t] \in PCs \ {"idle"} /\ pc'[t] = "idle"
    BY <1>6 DEF Finish, DaemonInv, TypeOK
  <2>2. QED
    BY <1>1, <1>2, <1>4, <1>5, <2>1 DEF Ranks
<1>7. pc \in [Threads -> PCs] /\ pc' \in [Threads -> PCs] /\ todo \in [Threads -> SUBSET Slots]
      /\ pulls \in [Threads -> Seq(Models)] /\ hot \subseteq Models
      /\ look \in [Threads -> Slots \cup {NoSlot}]
  BY DEF DaemonInv, TypeOK
<1>8. ASSUME PullOk(t), pc[t] \in {"mgr", "copy"}, n2 \in Nat PROVE Rank(t)' < Rank(t)
  <2>1. CASE PullFinishes(t)
    BY <1>6, <1>8, <2>1 DEF PullFinishes
  <2>2. CASE PullReturns(t)
    <3>1. pulls[t] # <<>> /\ Len(pulls[t]) \in Nat /\ Len(pulls[t]) <= 2 /\ pulls[t] \in Seq(Models)
      BY <1>7, <1>8, PullsType DEF DaemonInv, Pulling, MgrHeld, Short
    <3>2. pulls'[t] = Tail(pulls[t])
      BY <1>7, <2>2 DEF PullReturns
    <3>3. Len(pulls'[t]) = Len(pulls[t]) - 1
      BY <3>1, <3>2, Lengths
    <3>4. l2 = 0 /\ (Len(pulls[t]) > 1 => l = Lap)
      BY <3>1, <3>3 DEF l, l2, Laps
    <3>5. pc'[t] = IF Len(pulls[t]) > 1 THEN "mgr" ELSE "swap"
      BY <1>7, <2>2 DEF PullReturns, GoTo
    <3>6. CASE Len(pulls[t]) > 1
      <4>1. Rank(t)' = l2 + Lap - 1 /\ l2 = 0
        BY <1>2, <1>4, <3>4, <3>5, <3>6 DEF Ranks
      <4>2. Rank(t) \in {l + Lap - 1, l + 3} /\ l = Lap
        BY <1>2, <1>4, <1>8, <3>4, <3>6 DEF Ranks
      <4>3. QED
        BY <1>1, <4>1, <4>2
    <3>7. CASE ~(Len(pulls[t]) > 1)
      <4>1. Rank(t)' = 2
        BY <1>1, <1>2, <3>5, <3>7, <1>4 DEF Ranks, N, M
      <4>2. Rank(t) \in {l + Lap - 1, l + 3}
        BY <1>1, <1>2, <1>8, <1>4 DEF Ranks, N, M
      <4>3. QED
        BY <1>1, <4>1, <4>2
    <3>8. QED
      BY <3>6, <3>7
  <2>3. QED
    BY <1>8, <2>1, <2>2 DEF PullOk
<1> USE DEF Take, GoTo, state, locals
<1>9. CASE LoadHit(t) \/ PullRefused(t) \/ Offload(t) \/ Stop(t)
  BY <1>6, <1>9 DEF LoadHit, PullRefused, Offload, Stop
<1>10. CASE Loaded(t) \/ LoadErr(t) \/ EvictErr(t) \/ CopyErr(t) \/ AllDone(t)
  BY <1>6, <1>10 DEF Loaded, LoadErr, EvictErr, CopyErr, AllDone
<1>11. CASE PullHit(t) \/ Copied(t)
  BY <1>1, <1>8, <1>11 DEF PullHit, Copied
<1>12. CASE LoadEnter(t)
  <2>1. pc[t] = "load" /\ pc'[t] = "mgr"
    BY <1>7, <1>12 DEF LoadEnter
  <2>2. Rank(t) = 2 * Lap /\ Rank(t)' = l2 + Lap - 1
    BY <1>1, <1>2, <2>1, <1>4 DEF Ranks, N, M
  <2>3. QED
    BY <1>1, <2>2
<1>13. CASE PullMiss(t)
  <2>1. pc[t] = "mgr" /\ pc'[t] \in {"live", "copy"} /\ l2 = l
    BY <1>3, <1>7, <1>13 DEF PullMiss
  <2>2. Rank(t) = l + Lap - 1 /\ Rank(t)' \in {l + Lap - 2, l + 3}
    BY <1>1, <1>2, <2>1, <1>4 DEF Ranks, N, M
  <2>3. QED
    BY <1>1, <2>2
<1>14. CASE PinLive(t)
  <2>1. pc[t] = "live" /\ pc'[t] = "pins" /\ l2 = l /\ k2 = N
    BY <1>3, <1>7, <1>14 DEF PinLive, k2, N
  <2>2. Rank(t) = l + Lap - 2 /\ Rank(t)' = l + 4 * N + M + 5
    BY <1>1, <1>2, <2>1, <1>4 DEF Ranks, N, M
  <2>3. QED
    BY <1>1, <2>2
<1>15. CASE PinNext(t)
  <2>1. pc[t] = "pins" /\ pc'[t] = "running" /\ l2 = l
    BY <1>3, <1>7, <1>15 DEF PinNext
  <2>2. k2 = k - 1
    <3>1. PICK s \in todo[t] : todo'[t] = todo[t] \ {s}
      BY <1>7, <1>15 DEF PinNext
    <3>2. QED
      BY <1>7, <3>1, Sizes DEF k, k2
  <2>3. Rank(t) = l + 4 * k + M + 5 /\ Rank(t)' = l + 4 * k2 + M + 8
    BY <1>1, <1>2, <2>1, <1>4 DEF Ranks, N, M
  <2>4. QED
    BY <1>1, <2>2, <2>3
<1>16. CASE PinRunning(t) \/ PinNamed(t) \/ Pin(t)
  <2>1. /\ \/ pc[t] = "running" /\ pc'[t] \in {"named", "pins"}
           \/ pc[t] = "named" /\ pc'[t] \in {"pin", "pins"}
           \/ pc[t] = "pin" /\ pc'[t] = "pins"
        /\ l2 = l /\ k2 = k
    BY <1>3, <1>7, <1>16 DEF PinRunning, PinNamed, Pin
  <2>2. CASE pc[t] = "running"
    <3>1. Rank(t) = l + 4 * k + M + 8 /\ Rank(t)' \in {l + 4 * k + M + 7, l + 4 * k + M + 5}
      BY <1>1, <1>2, <2>1, <2>2, <1>4 DEF Ranks, N, M
    <3>2. QED
      BY <1>1, <3>1
  <2>3. CASE pc[t] = "named"
    <3>1. Rank(t) = l + 4 * k + M + 7 /\ Rank(t)' \in {l + 4 * k + M + 6, l + 4 * k + M + 5}
      BY <1>1, <1>2, <2>1, <2>3, <1>4 DEF Ranks, N, M
    <3>2. QED
      BY <1>1, <3>1
  <2>4. CASE pc[t] = "pin"
    <3>1. Rank(t) = l + 4 * k + M + 6 /\ Rank(t)' = l + 4 * k + M + 5
      BY <1>1, <1>2, <2>1, <2>4, <1>4 DEF Ranks, N, M
    <3>2. QED
      BY <1>1, <3>1
  <2>5. QED
    BY <2>1, <2>2, <2>3, <2>4
<1>17. CASE PinDone(t)
  <2>1. pc[t] = "pins" /\ pc'[t] = "evict" /\ l2 = l /\ n2 = n
    BY <1>3, <1>7, <1>17 DEF PinDone
  <2>2. Rank(t) = l + 4 * k + M + 5 /\ Rank(t)' = l + n + 4
    BY <1>1, <1>2, <2>1, <1>4 DEF Ranks, N, M
  <2>3. QED
    BY <1>1, <2>2
<1>18. ASSUME NEW v \in Models, Evict(t, v) PROVE Rank(t)' < Rank(t)
  <2>1. pc[t] = "evict" /\ pc'[t] = "evict" /\ l2 = l
    BY <1>3, <1>7, <1>18 DEF Evict
  <2>2. n2 = n - 1
    BY <1>7, <1>18, Sizes DEF Evict, n, n2
  <2>3. Rank(t) = l + n + 4 /\ Rank(t)' = l + n2 + 4
    BY <1>1, <1>2, <2>1, <1>4 DEF Ranks, N, M
  <2>4. QED
    BY <1>1, <2>2, <2>3
<1>19. CASE EvictDone(t)
  <2>1. pc[t] = "evict" /\ pc'[t] = "copy" /\ l2 = l
    BY <1>3, <1>7, <1>19 DEF EvictDone
  <2>2. Rank(t) = l + n + 4 /\ Rank(t)' = l + 3
    BY <1>1, <1>2, <2>1, <1>4 DEF Ranks, N, M
  <2>3. QED
    BY <1>1, <2>2
<1>20. CASE Swap(t)
  <2>1. pc[t] = "swap" /\ pc'[t] = "probe"
    BY <1>7, <1>20 DEF Swap
  <2>2. Rank(t) = 2 /\ Rank(t)' = 1
    BY <1>1, <1>2, <2>1, <1>4 DEF Ranks, N, M
  <2>3. QED
    BY <2>2
<1>21. CASE ReloadEnter(t) \/ StopAllEnter(t)
  <2>1. pc[t] \in {"reload", "stopAll"} /\ pc'[t] \in {"adds", "stops"}
    BY <1>7, <1>21 DEF ReloadEnter, StopAllEnter
  <2>2. Rank(t) = 3 * N + 2 /\ Rank(t)' = 3 * k2 + 1
    BY <1>1, <1>2, <2>1, <1>4 DEF Ranks, N, M
  <2>3. QED
    BY <1>1, <2>2
<1>22. CASE NextSlot(t)
  <2>1. pc[t] \in {"adds", "stops"} /\ pc'[t] \in {"add", "stopOne"}
    BY <1>7, <1>22 DEF NextSlot
  <2>2. k2 = k - 1
    <3>1. PICK s \in todo[t] : todo'[t] = todo[t] \ {s}
      BY <1>7, <1>22 DEF NextSlot
    <3>2. QED
      BY <1>7, <3>1, Sizes DEF k, k2
  <2>3. Rank(t) = 3 * k + 1 /\ Rank(t)' = 3 * k2 + 3
    BY <1>1, <1>2, <2>1, <1>4 DEF Ranks, N, M
  <2>4. QED
    BY <1>1, <2>2, <2>3
<1>23. CASE AddMember(t) \/ StopOne(t)
  <2>1. pc[t] \in {"add", "stopOne"} /\ pc'[t] \in {"adds", "stops", "reap"} /\ k2 = k
    BY <1>3, <1>7, <1>23 DEF AddMember, StopOne
  <2>2. Rank(t) = 3 * k + 3 /\ Rank(t)' \in {3 * k + 1, 3 * k + 2}
    BY <1>1, <1>2, <2>1, <1>4 DEF Ranks, N, M
  <2>3. QED
    BY <1>1, <2>2
<1>24. CASE Reaped(t)
  <2>1. pc[t] = "reap" /\ pc'[t] = "stops" /\ k2 = k
    BY <1>3, <1>7, <1>24 DEF Reaped
  <2>2. Rank(t) = 3 * k + 2 /\ Rank(t)' = 3 * k + 1
    BY <1>1, <1>2, <2>1, <1>4 DEF Ranks, N, M
  <2>3. QED
    BY <1>1, <2>2
<1>25. QED
  BY <1>9, <1>10, <1>11, <1>12, <1>13, <1>14, <1>15, <1>16, <1>17, <1>18, <1>19, <1>20, <1>21,
     <1>22, <1>23, <1>24 DEF Acquire, Proceed

\* The steps of others.
LEMMA OthersSteps ==
  ASSUME DaemonInv, NEW t \in Threads, NEW w \in Threads, w # t,
         Call(w) \/ Acquire(w) \/ Proceed(w)
  PROVE  Rank(t)' = Rank(t)
<1>1. pc'[t] = pc[t] /\ todo'[t] = todo[t] /\ pulls'[t] = pulls[t]
  BY OthersStay
<1>2. Laps(t)' = Laps(t) /\ Cardinality(todo'[t]) = Cardinality(todo[t])
  BY <1>1 DEF Laps, Lap
<1>3. pc[t] = "evict" => hot' = hot
  <2> SUFFICES ASSUME pc[t] = "evict" PROVE hot' = hot
    OBVIOUS
  <2>1. owner[Mgr] = t /\ pc[w] \notin MgrHeld /\ ~IsFree(Mgr)
    BY DaemonAssumption DEF DaemonInv, Holding, MgrHeld, IsFree
  <2>2. CASE Call(w)
    BY <2>2 DEF Call, CallLoad, CallPull, CallOffload, CallStop, CallReload, CallStopAll, state
  <2>3. CASE Acquire(w)
    BY <2>1, <2>3 DEF Acquire, LoadHit, LoadEnter, PullHit, PullRefused, PullMiss, PinLive,
       PinRunning, PinNamed, Pin, Offload, Stop, ReloadEnter, AddMember, StopAllEnter, StopOne, state
  <2>4. CASE Proceed(w)
    BY <2>1, <2>4 DEF Proceed, Swap, Loaded, LoadErr, PinNext, PinDone, Evict, EvictDone, EvictErr,
       Copied, CopyErr, NextSlot, AllDone, Reaped, state, MgrHeld
  <2>5. QED
    BY <2>2, <2>3, <2>4
<1>4. QED
  BY <1>1, <1>2, <1>3 DEF Rank, Laps

\* A thread's rank is a number.
Ranked == \A t \in Threads : Rank(t) \in Nat

LEMMA RankType == DaemonInv /\ Short => Ranked
<1> SUFFICES ASSUME DaemonInv, Short, NEW t \in Threads PROVE Rank(t) \in Nat
  BY DEF Ranked
<1> DEFINE k == Cardinality(todo[t])
           l == Laps(t)
           n == Cardinality(hot)
<1>1. /\ k \in Nat /\ l \in Nat /\ n \in Nat /\ Lap \in Nat /\ Lap >= 8
      /\ Cardinality(Slots) \in Nat /\ Cardinality(Models) \in Nat
  BY RankTypes, Sizes
<1>2. Rank(t) = RankOf(pc[t], k, l, n)
  BY RankParts
<1> HIDE DEF k, l, n
<1>3. QED
  BY <1>1, <1>2 DEF RankOf

\* No job goes round in circles, for any slots, models and goroutines.
THEOREM JobsGetOn == Spec => NoLivelock
<1> DEFINE Goal ==
      \A t \in Threads :
        /\ Acquire(t) \/ Proceed(t) => Rank(t)' < Rank(t)
        /\ pc[t] # "idle" => Rank(t)' <= Rank(t)
<1>1. ASSUME DaemonInv, Short, DaemonInv', Short', [Next]_vars PROVE [Goal]_vars
  <2> SUFFICES ASSUME Next, NEW t \in Threads
               PROVE  /\ Acquire(t) \/ Proceed(t) => Rank(t)' < Rank(t)
                      /\ pc[t] # "idle" => Rank(t)' <= Rank(t)
    BY <1>1
  <2>1. Rank(t) \in Nat
    BY <1>1, RankType DEF Ranked
  <2>2. Rank(t)' \in Nat
    <3>1. DaemonInv' /\ Short' => Ranked'
      BY RankType, PTL
    <3>2. QED
      BY <1>1, <3>1 DEF Ranked
  <2>3. Acquire(t) \/ Proceed(t) => Rank(t)' < Rank(t)
    BY <1>1, OwnSteps
  <2>4. pc[t] # "idle" => ~Call(t)
    BY DEF Call, CallLoad, CallPull, CallOffload, CallStop, CallReload, CallStopAll, Begin
  <2>5. ASSUME NEW w \in Threads, w # t, Call(w) \/ Acquire(w) \/ Proceed(w)
        PROVE  Rank(t)' = Rank(t)
    BY <1>1, <2>5, OthersSteps
  <2>6. ASSUME NEW s \in Slots, WorkerDies(s) PROVE Rank(t)' = Rank(t)
    BY <2>6 DEF WorkerDies, locals, Rank, Lap
  <2>7. QED
    BY <2>1, <2>2, <2>3, <2>4, <2>5, <2>6 DEF Next
<1>2. Init => Short
  BY Lengths DEF Init, Short
<1>3. Spec => [](DaemonInv /\ Short)
  BY <1>2, DaemonSafety, ShortStep, PTL DEF Spec
<1>4. QED
  BY <1>1, <1>3, PTL DEF Spec, NoLivelock
=============================================================================
