----------------------------- MODULE SlotProofs -----------------------------
(***************************************************************************)
(* The slot's safety for any set of members, callers and workers.  SlotInv *)
(* is the inductive invariant; the properties of Slot that the runs check  *)
(* are its conjuncts, and the refinement of SlotSpec follows from it.      *)
(***************************************************************************)
EXTENDS Slot, TLAPS

\* What a caller remembers: a worker exactly while it loads or stops one, and
\* a loader's worker lives for the member it was asked for.
CallerMemory ==
  \A c \in Clients :
    /\ pc[c] \in StopSteps => mine[c] \in Workers /\ mine[c] # worker
    /\ pc[c] \in {"probe", "get"} =>
         mine[c] \in Workers /\ (Alive(mine[c]) => model[mine[c]] = arg[c])
    /\ pc[c] \in {"idle", "lock", "slock", "before", "spawn"} => mine[c] = NoWorker
    /\ pc[c] \in LoadSteps => arg[c] \in members
    /\ pc[c] \in {"idle", "slock"} \cup StopSteps => arg[c] = NoMember

EmptyIsUnnamed == worker = NoWorker => current = NoMember

SlotInv ==
  /\ TypeOK
  /\ LockedLoads
  /\ CallerMemory
  /\ EmptyIsUnnamed
  /\ LoadedIsWatched
  /\ LoadedNotCondemned
  /\ NoForgottenWorker

-----------------------------------------------------------------------------
(* What the helpers do *)

\* A signal reaches only a live process, and only the one it is sent to.
LEMMA SignalledType ==
  ASSUME TypeOK, NEW w \in Workers, NEW s \in {"TERM", "KILL"}
  PROVE  /\ Signalled(w, s) \in [Workers -> {"none", "TERM", "KILL"}]
         /\ \A x \in Workers : x # w => Signalled(w, s)[x] = sig[x]
         /\ Alive(w) /\ s = "KILL" => Signalled(w, s)[w] = "KILL"
         /\ Alive(w) /\ s = "TERM" => Signalled(w, s)[w] \in {"TERM", "KILL"}
         /\ sig[w] = "KILL" => Signalled(w, s)[w] = "KILL"
  BY DEF Signalled, TypeOK, Alive

\* The initial state satisfies the invariant.
LEMMA InitInv == Init => SlotInv
  BY SlotAssumption
     DEF Init, SlotInv, TypeOK, LockedLoads, CallerMemory, EmptyIsUnnamed,
         LoadedIsWatched, LoadedNotCondemned, NoForgottenWorker, Alive,
         PCs, LoadSteps, StopSteps

\* Every step keeps the types.
LEMMA TypeStep == SlotInv /\ [Next]_vars => TypeOK'
<1> SUFFICES ASSUME SlotInv, [Next]_vars PROVE TypeOK'
  OBVIOUS
<1> USE SlotAssumption DEF TypeOK, PCs, LoadSteps, StopSteps, lockVars, procVars,
        helperVars, callVars, Return, GoTo
<1>1. ASSUME NEW c \in Clients, Call(c) PROVE TypeOK'
  BY <1>1 DEF SlotInv, Call, CallLoad, CallStop, Target, Names
<1>2. ASSUME NEW c \in Clients, LoadStep(c) PROVE TypeOK'
  <2>1. CASE EnterUnknown(c) \/ EnterLoaded(c) \/ EnterLoad(c) \/ BeforeLoadErr(c)
    BY <2>1 DEF SlotInv, EnterUnknown, EnterLoaded, EnterLoad, BeforeLoadErr
  <2>2. CASE KillOld(c)
    BY <2>2, SignalledType DEF SlotInv, KillOld, StartReaper
  <2>3. CASE Spawn(c) \/ SpawnErr(c)
    BY <2>3 DEF SlotInv, Spawn, SpawnErr
  <2>4. CASE ProbeExited(c) \/ ProbeQuit(c)
    <3>1. mine[c] \in Workers
      BY <2>4 DEF SlotInv, CallerMemory, ProbeExited, ProbeQuit
    <3>2. sig' \in [Workers -> {"none", "TERM", "KILL"}]
      BY <2>4, <3>1, SignalledType DEF SlotInv, ProbeExited, ProbeQuit, AbortLoad
    <3>3. QED
      BY <2>4, <3>2 DEF SlotInv, ProbeExited, ProbeQuit, AbortLoad
  <2>5. CASE ProbeSend(c) \/ ProbeMiss(c)
    BY <2>5 DEF SlotInv, ProbeSend, ProbeMiss
  <2>6. CASE ProbeOk(c)
    BY <2>6 DEF SlotInv, ProbeOk, StartWatch
  <2>7. QED
    BY <1>2, <2>1, <2>2, <2>3, <2>4, <2>5, <2>6 DEF LoadStep
<1>3. ASSUME NEW c \in Clients, StopStep(c) PROVE TypeOK'
  <2>1. CASE StopNothing(c) \/ StopTake(c) \/ StopDone(c)
    BY <2>1 DEF SlotInv, StopNothing, StopTake, StopDone
  <2>2. CASE StopTerm(c) \/ StopKill(c) \/ StopCancel(c)
    <3>1. mine[c] \in Workers
      BY <2>2 DEF SlotInv, CallerMemory, StopTerm, StopKill, StopCancel
    <3>2. sig' \in [Workers -> {"none", "TERM", "KILL"}]
      BY <2>2, <3>1, SignalledType DEF SlotInv, StopTerm, StopKill, StopCancel
    <3>3. QED
      BY <2>2, <3>2 DEF SlotInv, StopTerm, StopKill, StopCancel
  <2>3. QED
    BY <1>3, <2>1, <2>2 DEF StopStep
<1>4. ASSUME NEW m \in Members, AddMember(m) PROVE TypeOK'
  BY <1>4 DEF SlotInv, AddMember
<1>5. ASSUME NEW w \in Workers, Goroutine(w) PROVE TypeOK'
  <2>1. CASE WatchExit(w)
    BY <2>1 DEF SlotInv, WatchExit
  <2>4. CASE ReapDone(w)
    BY <2>4 DEF SlotInv, ReapDone
  <2>5. CASE WaitReturn(w)
    BY <2>5 DEF SlotInv, WaitReturn
  <2>2. CASE ReapKill(w)
    <3>1. sig' \in [Workers -> {"none", "TERM", "KILL"}]
      BY <2>2, SignalledType DEF SlotInv, ReapKill
    <3>2. QED
      BY <2>2, <3>1 DEF SlotInv, ReapKill
  <2>3. QED
    BY <1>5, <2>1, <2>2, <2>4, <2>5 DEF Goroutine
<1>6. ASSUME NEW w \in Workers, Process(w) PROVE TypeOK'
  BY <1>6 DEF SlotInv, Process, Listen, ListenErr, Drain, Exit, Reexec, procFrame
<1>7. CASE UNCHANGED vars
  BY <1>7 DEF SlotInv, vars
<1>8. QED
  BY <1>1, <1>2, <1>3, <1>4, <1>5, <1>6, <1>7 DEF Next
LEMMA LockStep == SlotInv /\ TypeOK' /\ [Next]_vars => LockedLoads'
<1> SUFFICES ASSUME SlotInv, TypeOK', [Next]_vars PROVE LockedLoads'
  OBVIOUS
<1> USE SlotAssumption DEF SlotInv, TypeOK, LockedLoads, CallerMemory, EmptyIsUnnamed, LoadSteps, StopSteps, lockVars, procVars,
        helperVars, callVars, Return, GoTo
<1>1. ASSUME NEW c \in Clients, Call(c) PROVE LockedLoads'
  BY <1>1 DEF Call, CallLoad, CallStop
<1>2. ASSUME NEW c \in Clients, LoadStep(c) PROVE LockedLoads'
  <2>1. CASE EnterUnknown(c) \/ EnterLoaded(c)
    BY <2>1 DEF EnterUnknown, EnterLoaded
  <2>2. CASE EnterLoad(c)
    BY <2>2 DEF EnterLoad
  <2>3. CASE BeforeLoadErr(c) \/ SpawnErr(c)
    BY <2>3 DEF BeforeLoadErr, SpawnErr
  <2>4. CASE KillOld(c)
    BY <2>4, SignalledType DEF KillOld, StartReaper
  <2>5. CASE Spawn(c)
    BY <2>5 DEF Spawn, Fresh, Done
  <2>6. CASE ProbeExited(c) \/ ProbeQuit(c)
    BY <2>6 DEF ProbeExited, ProbeQuit, AbortLoad
  <2>7. CASE ProbeSend(c) \/ ProbeMiss(c)
    BY <2>7 DEF ProbeSend, ProbeMiss
  <2>8. CASE ProbeOk(c)
    BY <2>8 DEF ProbeOk, StartWatch
  <2>9. QED
    BY <1>2, <2>1, <2>2, <2>3, <2>4, <2>5, <2>6, <2>7, <2>8 DEF LoadStep
<1>3. ASSUME NEW c \in Clients, StopStep(c) PROVE LockedLoads'
  <2>1. CASE StopNothing(c) \/ StopDone(c)
    BY <2>1 DEF StopNothing, StopDone
  <2>2. CASE StopTake(c)
    BY <2>2 DEF StopTake
  <2>3. CASE StopTerm(c)
    BY <2>3, SignalledType DEF StopTerm
  <2>4. CASE StopKill(c) \/ StopCancel(c)
    BY <2>4, SignalledType DEF StopKill, StopCancel
  <2>5. QED
    BY <1>3, <2>1, <2>2, <2>3, <2>4 DEF StopStep
<1>4. ASSUME NEW m \in Members, AddMember(m) PROVE LockedLoads'
  BY <1>4 DEF AddMember
<1>5. ASSUME NEW w \in Workers, Goroutine(w) PROVE LockedLoads'
  <2>1. CASE WatchExit(w)
    BY <2>1 DEF WatchExit
  <2>2. CASE ReapKill(w)
    BY <2>2, SignalledType DEF ReapKill
  <2>3. CASE ReapDone(w) \/ WaitReturn(w)
    BY <2>3 DEF ReapDone, WaitReturn, Done
  <2>4. QED
    BY <1>5, <2>1, <2>2, <2>3 DEF Goroutine
<1>6. ASSUME NEW w \in Workers, Process(w) PROVE LockedLoads'
  BY <1>6 DEF Process, Listen, ListenErr, Drain, Exit, Reexec, procFrame
<1>7. CASE UNCHANGED vars
  BY <1>7 DEF vars
<1>8. QED
  BY <1>1, <1>2, <1>3, <1>4, <1>5, <1>6, <1>7 DEF Next

LEMMA MemoryStep == SlotInv /\ TypeOK' /\ [Next]_vars => CallerMemory'
<1> SUFFICES ASSUME SlotInv, TypeOK', [Next]_vars PROVE CallerMemory'
  OBVIOUS
<1> USE SlotAssumption DEF SlotInv, TypeOK, LockedLoads, CallerMemory, Alive, LoadSteps, StopSteps, lockVars, procVars,
        helperVars, callVars, Return, GoTo
<1>1. ASSUME NEW c \in Clients, Call(c) PROVE CallerMemory'
  BY <1>1 DEF Call, CallLoad, CallStop
<1>2. ASSUME NEW c \in Clients, LoadStep(c) PROVE CallerMemory'
  <2>1. CASE EnterUnknown(c) \/ EnterLoaded(c)
    BY <2>1 DEF EnterUnknown, EnterLoaded
  <2>2. CASE EnterLoad(c)
    BY <2>2 DEF EnterLoad
  <2>3. CASE BeforeLoadErr(c) \/ SpawnErr(c)
    BY <2>3 DEF BeforeLoadErr, SpawnErr
  <2>4. CASE KillOld(c)
    BY <2>4, SignalledType DEF KillOld, StartReaper
  <2>5. CASE Spawn(c)
    BY <2>5 DEF Spawn, Fresh, Done
  <2>6. CASE ProbeExited(c) \/ ProbeQuit(c)
    BY <2>6 DEF ProbeExited, ProbeQuit, AbortLoad
  <2>7. CASE ProbeSend(c) \/ ProbeMiss(c)
    BY <2>7 DEF ProbeSend, ProbeMiss
  <2>8. CASE ProbeOk(c)
    BY <2>8 DEF ProbeOk, StartWatch
  <2>9. QED
    BY <1>2, <2>1, <2>2, <2>3, <2>4, <2>5, <2>6, <2>7, <2>8 DEF LoadStep
<1>3. ASSUME NEW c \in Clients, StopStep(c) PROVE CallerMemory'
  <2>1. CASE StopNothing(c) \/ StopDone(c)
    BY <2>1 DEF StopNothing, StopDone
  <2>2. CASE StopTake(c)
    BY <2>2 DEF StopTake
  <2>3. CASE StopTerm(c)
    BY <2>3, SignalledType DEF StopTerm
  <2>4. CASE StopKill(c) \/ StopCancel(c)
    BY <2>4, SignalledType DEF StopKill, StopCancel
  <2>5. QED
    BY <1>3, <2>1, <2>2, <2>3, <2>4 DEF StopStep
<1>4. ASSUME NEW m \in Members, AddMember(m) PROVE CallerMemory'
  BY <1>4 DEF AddMember
<1>5. ASSUME NEW w \in Workers, Goroutine(w) PROVE CallerMemory'
  <2>1. CASE WatchExit(w)
    BY <2>1 DEF WatchExit
  <2>2. CASE ReapKill(w)
    BY <2>2, SignalledType DEF ReapKill
  <2>3. CASE ReapDone(w) \/ WaitReturn(w)
    BY <2>3 DEF ReapDone, WaitReturn, Done
  <2>4. QED
    BY <1>5, <2>1, <2>2, <2>3 DEF Goroutine
<1>6. ASSUME NEW w \in Workers, Process(w) PROVE CallerMemory'
  BY <1>6 DEF Process, Listen, ListenErr, Drain, Exit, Reexec, procFrame
<1>7. CASE UNCHANGED vars
  BY <1>7 DEF vars
<1>8. QED
  BY <1>1, <1>2, <1>3, <1>4, <1>5, <1>6, <1>7 DEF Next

LEMMA NameStep == SlotInv /\ TypeOK' /\ [Next]_vars => EmptyIsUnnamed'
<1> SUFFICES ASSUME SlotInv, TypeOK', [Next]_vars PROVE EmptyIsUnnamed'
  OBVIOUS
<1> USE SlotAssumption DEF SlotInv, TypeOK, LockedLoads, EmptyIsUnnamed, LoadSteps, StopSteps, lockVars, procVars,
        helperVars, callVars, Return, GoTo
<1>1. ASSUME NEW c \in Clients, Call(c) PROVE EmptyIsUnnamed'
  BY <1>1 DEF Call, CallLoad, CallStop
<1>2. ASSUME NEW c \in Clients, LoadStep(c) PROVE EmptyIsUnnamed'
  <2>1. CASE EnterUnknown(c) \/ EnterLoaded(c)
    BY <2>1 DEF EnterUnknown, EnterLoaded
  <2>2. CASE EnterLoad(c)
    BY <2>2 DEF EnterLoad
  <2>3. CASE BeforeLoadErr(c) \/ SpawnErr(c)
    BY <2>3 DEF BeforeLoadErr, SpawnErr
  <2>4. CASE KillOld(c)
    BY <2>4, SignalledType DEF KillOld, StartReaper
  <2>5. CASE Spawn(c)
    BY <2>5 DEF Spawn, Fresh, Done
  <2>6. CASE ProbeExited(c) \/ ProbeQuit(c)
    BY <2>6, SignalledType DEF ProbeExited, ProbeQuit, AbortLoad
  <2>7. CASE ProbeSend(c) \/ ProbeMiss(c)
    BY <2>7 DEF ProbeSend, ProbeMiss
  <2>8. CASE ProbeOk(c)
    BY <2>8 DEF ProbeOk, StartWatch
  <2>9. QED
    BY <1>2, <2>1, <2>2, <2>3, <2>4, <2>5, <2>6, <2>7, <2>8 DEF LoadStep
<1>3. ASSUME NEW c \in Clients, StopStep(c) PROVE EmptyIsUnnamed'
  <2>1. CASE StopNothing(c) \/ StopDone(c)
    BY <2>1 DEF StopNothing, StopDone
  <2>2. CASE StopTake(c)
    BY <2>2 DEF StopTake
  <2>3. CASE StopTerm(c)
    BY <2>3, SignalledType DEF StopTerm
  <2>4. CASE StopKill(c) \/ StopCancel(c)
    BY <2>4, SignalledType DEF StopKill, StopCancel
  <2>5. QED
    BY <1>3, <2>1, <2>2, <2>3, <2>4 DEF StopStep
<1>4. ASSUME NEW m \in Members, AddMember(m) PROVE EmptyIsUnnamed'
  BY <1>4 DEF AddMember
<1>5. ASSUME NEW w \in Workers, Goroutine(w) PROVE EmptyIsUnnamed'
  <2>1. CASE WatchExit(w)
    BY <2>1 DEF WatchExit
  <2>2. CASE ReapKill(w)
    BY <2>2, SignalledType DEF ReapKill
  <2>3. CASE ReapDone(w) \/ WaitReturn(w)
    BY <2>3 DEF ReapDone, WaitReturn, Done
  <2>4. QED
    BY <1>5, <2>1, <2>2, <2>3 DEF Goroutine
<1>6. ASSUME NEW w \in Workers, Process(w) PROVE EmptyIsUnnamed'
  BY <1>6 DEF Process, Listen, ListenErr, Drain, Exit, Reexec, procFrame
<1>7. CASE UNCHANGED vars
  BY <1>7 DEF vars
<1>8. QED
  BY <1>1, <1>2, <1>3, <1>4, <1>5, <1>6, <1>7 DEF Next

LEMMA WatchStep == SlotInv /\ TypeOK' /\ [Next]_vars => LoadedIsWatched'
<1> SUFFICES ASSUME SlotInv, TypeOK', [Next]_vars PROVE LoadedIsWatched'
  OBVIOUS
<1> USE SlotAssumption DEF SlotInv, TypeOK, LockedLoads, CallerMemory, EmptyIsUnnamed, LoadedIsWatched, Alive, LoadSteps, StopSteps, lockVars, procVars,
        helperVars, callVars, Return, GoTo
<1>1. ASSUME NEW c \in Clients, Call(c) PROVE LoadedIsWatched'
  BY <1>1 DEF Call, CallLoad, CallStop
<1>2. ASSUME NEW c \in Clients, LoadStep(c) PROVE LoadedIsWatched'
  <2>1. CASE EnterUnknown(c) \/ EnterLoaded(c)
    BY <2>1 DEF EnterUnknown, EnterLoaded
  <2>2. CASE EnterLoad(c)
    BY <2>2 DEF EnterLoad
  <2>3. CASE BeforeLoadErr(c) \/ SpawnErr(c)
    BY <2>3 DEF BeforeLoadErr, SpawnErr
  <2>4. CASE KillOld(c)
    BY <2>4, SignalledType DEF KillOld, StartReaper
  <2>5. CASE Spawn(c)
    BY <2>5 DEF Spawn, Fresh, Done
  <2>6. CASE ProbeExited(c) \/ ProbeQuit(c)
    BY <2>6, SignalledType DEF ProbeExited, ProbeQuit, AbortLoad
  <2>7. CASE ProbeSend(c) \/ ProbeMiss(c)
    BY <2>7 DEF ProbeSend, ProbeMiss
  <2>8. CASE ProbeOk(c)
    BY <2>8 DEF ProbeOk, StartWatch
  <2>9. QED
    BY <1>2, <2>1, <2>2, <2>3, <2>4, <2>5, <2>6, <2>7, <2>8 DEF LoadStep
<1>3. ASSUME NEW c \in Clients, StopStep(c) PROVE LoadedIsWatched'
  <2>1. CASE StopNothing(c) \/ StopDone(c)
    BY <2>1 DEF StopNothing, StopDone
  <2>2. CASE StopTake(c)
    BY <2>2 DEF StopTake
  <2>3. CASE StopTerm(c)
    BY <2>3, SignalledType DEF StopTerm
  <2>4. CASE StopKill(c) \/ StopCancel(c)
    BY <2>4, SignalledType DEF StopKill, StopCancel
  <2>5. QED
    BY <1>3, <2>1, <2>2, <2>3, <2>4 DEF StopStep
<1>4. ASSUME NEW m \in Members, AddMember(m) PROVE LoadedIsWatched'
  BY <1>4 DEF AddMember
<1>5. ASSUME NEW w \in Workers, Goroutine(w) PROVE LoadedIsWatched'
  <2>1. CASE WatchExit(w)
    BY <2>1 DEF WatchExit
  <2>2. CASE ReapKill(w)
    BY <2>2, SignalledType DEF ReapKill
  <2>3. CASE ReapDone(w) \/ WaitReturn(w)
    BY <2>3 DEF ReapDone, WaitReturn, Done
  <2>4. QED
    BY <1>5, <2>1, <2>2, <2>3 DEF Goroutine
<1>6. ASSUME NEW w \in Workers, Process(w) PROVE LoadedIsWatched'
  BY <1>6 DEF Process, Listen, ListenErr, Drain, Exit, Reexec, procFrame
<1>7. CASE UNCHANGED vars
  BY <1>7 DEF vars
<1>8. QED
  BY <1>1, <1>2, <1>3, <1>4, <1>5, <1>6, <1>7 DEF Next

LEMMA CondemnedStep == SlotInv /\ TypeOK' /\ [Next]_vars => LoadedNotCondemned'
<1> SUFFICES ASSUME SlotInv, TypeOK', [Next]_vars PROVE LoadedNotCondemned'
  OBVIOUS
<1> USE SlotAssumption DEF SlotInv, TypeOK, LockedLoads, CallerMemory, LoadedNotCondemned, Condemned, Alive, LoadSteps, StopSteps, lockVars, procVars,
        helperVars, callVars, Return, GoTo
<1>1. ASSUME NEW c \in Clients, Call(c) PROVE LoadedNotCondemned'
  BY <1>1 DEF Call, CallLoad, CallStop
<1>2. ASSUME NEW c \in Clients, LoadStep(c) PROVE LoadedNotCondemned'
  <2>1. CASE EnterUnknown(c) \/ EnterLoaded(c)
    BY <2>1 DEF EnterUnknown, EnterLoaded
  <2>2. CASE EnterLoad(c)
    BY <2>2 DEF EnterLoad
  <2>3. CASE BeforeLoadErr(c) \/ SpawnErr(c)
    BY <2>3 DEF BeforeLoadErr, SpawnErr
  <2>4. CASE KillOld(c)
    BY <2>4, SignalledType DEF KillOld, StartReaper
  <2>5. CASE Spawn(c)
    BY <2>5 DEF Spawn, Fresh, Done
  <2>6. CASE ProbeExited(c) \/ ProbeQuit(c)
    BY <2>6, SignalledType DEF ProbeExited, ProbeQuit, AbortLoad
  <2>7. CASE ProbeSend(c) \/ ProbeMiss(c)
    BY <2>7 DEF ProbeSend, ProbeMiss
  <2>8. CASE ProbeOk(c)
    BY <2>8 DEF ProbeOk, StartWatch
  <2>9. QED
    BY <1>2, <2>1, <2>2, <2>3, <2>4, <2>5, <2>6, <2>7, <2>8 DEF LoadStep
<1>3. ASSUME NEW c \in Clients, StopStep(c) PROVE LoadedNotCondemned'
  <2>1. CASE StopNothing(c) \/ StopDone(c)
    BY <2>1 DEF StopNothing, StopDone
  <2>2. CASE StopTake(c)
    BY <2>2 DEF StopTake
  <2>3. CASE StopTerm(c)
    BY <2>3, SignalledType DEF StopTerm
  <2>4. CASE StopKill(c) \/ StopCancel(c)
    BY <2>4, SignalledType DEF StopKill, StopCancel
  <2>5. QED
    BY <1>3, <2>1, <2>2, <2>3, <2>4 DEF StopStep
<1>4. ASSUME NEW m \in Members, AddMember(m) PROVE LoadedNotCondemned'
  BY <1>4 DEF AddMember
<1>5. ASSUME NEW w \in Workers, Goroutine(w) PROVE LoadedNotCondemned'
  <2>1. CASE WatchExit(w)
    BY <2>1 DEF WatchExit
  <2>2. CASE ReapKill(w)
    BY <2>2, SignalledType DEF ReapKill
  <2>3. CASE ReapDone(w) \/ WaitReturn(w)
    BY <2>3 DEF ReapDone, WaitReturn, Done
  <2>4. QED
    BY <1>5, <2>1, <2>2, <2>3 DEF Goroutine
<1>6. ASSUME NEW w \in Workers, Process(w) PROVE LoadedNotCondemned'
  BY <1>6 DEF Process, Listen, ListenErr, Drain, Exit, Reexec, procFrame
<1>7. CASE UNCHANGED vars
  BY <1>7 DEF vars
<1>8. QED
  BY <1>1, <1>2, <1>3, <1>4, <1>5, <1>6, <1>7 DEF Next

LEMMA ForgottenStep == SlotInv /\ TypeOK' /\ [Next]_vars => NoForgottenWorker'
<1> SUFFICES ASSUME SlotInv, TypeOK', [Next]_vars PROVE NoForgottenWorker'
  OBVIOUS
<1> USE SlotAssumption DEF SlotInv, TypeOK, LockedLoads, CallerMemory, NoForgottenWorker, Condemned, Alive, LoadSteps, StopSteps, lockVars, procVars,
        helperVars, callVars, Return, GoTo
<1>1. ASSUME NEW c \in Clients, Call(c) PROVE NoForgottenWorker'
  BY <1>1 DEF Call, CallLoad, CallStop
<1>2. ASSUME NEW c \in Clients, LoadStep(c) PROVE NoForgottenWorker'
  <2>1. CASE EnterUnknown(c) \/ EnterLoaded(c)
    BY <2>1 DEF EnterUnknown, EnterLoaded
  <2>2. CASE EnterLoad(c)
    BY <2>2 DEF EnterLoad
  <2>3. CASE BeforeLoadErr(c) \/ SpawnErr(c)
    BY <2>3 DEF BeforeLoadErr, SpawnErr
  <2>4. CASE KillOld(c)
    BY <2>4, SignalledType DEF KillOld, StartReaper
  <2>5. CASE Spawn(c)
    BY <2>5 DEF Spawn, Fresh, Done
  <2>6. CASE ProbeExited(c) \/ ProbeQuit(c)
    <3> SUFFICES ASSUME NEW x \in Workers, Alive(x)' PROVE Condemned(x)'
      OBVIOUS
    <3>1. /\ mine[c] \in Workers
          /\ worker = mine[c]
          /\ sig' = Signalled(mine[c], "KILL")
          /\ Alive(x)
          /\ \A d \in Clients : d # c => pc'[d] = pc[d] /\ mine'[d] = mine[d]
          /\ UNCHANGED reaper
      BY <2>6 DEF ProbeExited, ProbeQuit, AbortLoad
    <3>2. CASE x = mine[c]
      BY <3>1, <3>2, SignalledType
    <3>3. CASE x # mine[c]
      <4>1. sig'[x] = sig[x]
        BY <3>1, <3>3, SignalledType
      <4>2. Condemned(x)
        BY <3>1, <3>3
      <4>3. pc[c] \notin {"sterm", "swait"}
        BY <2>6 DEF ProbeExited, ProbeQuit
      <4>4. QED
        BY <3>1, <4>1, <4>2, <4>3
    <3>4. QED
      BY <3>2, <3>3
  <2>7. CASE ProbeSend(c) \/ ProbeMiss(c)
    BY <2>7 DEF ProbeSend, ProbeMiss
  <2>8. CASE ProbeOk(c)
    BY <2>8 DEF ProbeOk, StartWatch
  <2>9. QED
    BY <1>2, <2>1, <2>2, <2>3, <2>4, <2>5, <2>6, <2>7, <2>8 DEF LoadStep
<1>3. ASSUME NEW c \in Clients, StopStep(c) PROVE NoForgottenWorker'
  <2>1. CASE StopNothing(c) \/ StopDone(c)
    <3> SUFFICES ASSUME NEW x \in Workers, Alive(x)'
                 PROVE  (worker = x \/ Condemned(x))'
      OBVIOUS
    <3>1. /\ Alive(x)
          /\ \A d \in Clients : d # c => pc'[d] = pc[d] /\ mine'[d] = mine[d]
          /\ UNCHANGED <<worker, sig, reaper>>
      BY <2>1 DEF StopNothing, StopDone
    <3>2. ~(pc[c] \in {"sterm", "swait"} /\ mine[c] = x)
      BY <2>1, <3>1 DEF StopNothing, StopDone, Done
    <3>3. QED
      BY <3>1, <3>2
  <2>2. CASE StopTake(c)
    BY <2>2 DEF StopTake
  <2>3. CASE StopTerm(c)
    BY <2>3, SignalledType DEF StopTerm
  <2>4. CASE StopKill(c) \/ StopCancel(c)
    <3> SUFFICES ASSUME NEW x \in Workers, Alive(x)'
                 PROVE  (worker = x \/ Condemned(x))'
      OBVIOUS
    <3>1. /\ mine[c] \in Workers
          /\ sig' = Signalled(mine[c], "KILL")
          /\ Alive(x)
          /\ \A d \in Clients : d # c => pc'[d] = pc[d] /\ mine'[d] = mine[d]
          /\ UNCHANGED <<worker, reaper>>
      BY <2>4 DEF StopKill, StopCancel
    <3>2. CASE x = mine[c]
      BY <3>1, <3>2, SignalledType
    <3>3. CASE x # mine[c]
      <4>1. sig'[x] = sig[x]
        BY <3>1, <3>3, SignalledType
      <4>2. QED
        BY <3>1, <3>3, <4>1
    <3>4. QED
      BY <3>2, <3>3
  <2>5. QED
    BY <1>3, <2>1, <2>2, <2>3, <2>4 DEF StopStep
<1>4. ASSUME NEW m \in Members, AddMember(m) PROVE NoForgottenWorker'
  BY <1>4 DEF AddMember
<1>5. ASSUME NEW w \in Workers, Goroutine(w) PROVE NoForgottenWorker'
  <2>1. CASE WatchExit(w)
    <3>1. ~Alive(w)
      BY <2>1 DEF WatchExit, Done
    <3>2. /\ worker' = worker \/ worker = w
          /\ UNCHANGED <<proc, sig, reaper, pc, mine>>
      BY <2>1 DEF WatchExit
    <3>3. QED
      BY <3>1, <3>2
  <2>2. CASE ReapKill(w)
    BY <2>2, SignalledType DEF ReapKill
  <2>3. CASE ReapDone(w) \/ WaitReturn(w)
    BY <2>3 DEF ReapDone, WaitReturn, Done
  <2>4. QED
    BY <1>5, <2>1, <2>2, <2>3 DEF Goroutine
<1>6. ASSUME NEW w \in Workers, Process(w) PROVE NoForgottenWorker'
  BY <1>6 DEF Process, Listen, ListenErr, Drain, Exit, Reexec, procFrame
<1>7. CASE UNCHANGED vars
  BY <1>7 DEF vars
<1>8. QED
  BY <1>1, <1>2, <1>3, <1>4, <1>5, <1>6, <1>7 DEF Next

-----------------------------------------------------------------------------
(* The theorems *)

\* The invariant is inductive, so it always holds.
THEOREM SlotSafety == Spec => []SlotInv
<1>1. SlotInv /\ [Next]_vars => SlotInv'
  BY TypeStep, LockStep, MemoryStep, NameStep, WatchStep, CondemnedStep,
     ForgottenStep DEF SlotInv
<1>2. QED
  BY InitInv, <1>1, PTL DEF Spec

\* The variables of a slot stay in their types, for any number of members,
\* callers and workers.
THEOREM SlotTypes == Spec => []TypeOK
BY SlotSafety, PTL DEF SlotInv

\* No worker process is ever leaked, whatever the servers, the callers and the
\* scheduler do (group.go: the reaper of a swap, Stop, and the failed load).
THEOREM SlotNeverForgets == Spec => []NoForgottenWorker
BY SlotSafety, PTL DEF SlotInv

\* A loaded member is the registered one its worker was spawned for, and a
\* watchExit goroutine waits for its death.
THEOREM SlotWatches == Spec => []LoadedIsWatched
BY SlotSafety, PTL DEF SlotInv

\* No reaper, Stop or failed load ever hits the worker that replaced its own.
THEOREM SlotSparesTheLoaded == Spec => []LoadedNotCondemned
BY SlotSafety, PTL DEF SlotInv

\* One load at a time, under the lock, and the loader knows its own worker.
THEOREM SlotLoadsAlone == Spec => []LockedLoads
BY SlotSafety, PTL DEF SlotInv
-----------------------------------------------------------------------------
(* The refinement of SlotSpec *)

LEMMA AbstractInit == Init => Abstract!Init
BY SlotAssumption DEF Init, Abstract!Init, Loaded

\* A call of the group that returns is a call of SlotSpec that returns.
LEMMA AbstractReturn ==
  ASSUME SlotInv, NEW c \in Clients, NEW a \in {"ok", "err"}, pc[c] # "idle",
         Return(c, a), UNCHANGED members
  PROVE  Abstract!Return(c, a)
BY DEF Return, Abstract!Return, SlotInv, TypeOK

\* Every step of the group is a step of SlotSpec or changes nothing there.
LEMMA AbstractStep ==
  SlotInv /\ SlotInv' /\ [Next]_vars => [Abstract!Next]_(Abstract!specVars)
<1> DEFINE Goal == [Abstract!Next]_(Abstract!specVars)
<1> SUFFICES ASSUME SlotInv, SlotInv', [Next]_vars PROVE Goal
  OBVIOUS
<1> USE SlotAssumption DEF lockVars, procVars, helperVars, callVars, LoadSteps, StopSteps
<1>1. ASSUME NEW c \in Clients, Call(c) PROVE Goal
  <2>1. ASSUME NEW n \in Names, CallLoad(c, n) PROVE Goal
    <3>1. CASE Target(n) = NoMember
      <4>1. Abstract!Refuse(c)
        BY <2>1, <3>1 DEF CallLoad, Abstract!Refuse, Loaded
      <4>2. QED
        BY <4>1 DEF Abstract!Next
    <3>2. CASE Target(n) # NoMember
      <4>1. Target(n) \in Members
        BY <3>2 DEF Target, Names
      <4>2. Abstract!Begin(c, Target(n))
        BY <2>1, <3>2 DEF CallLoad, Abstract!Begin, Loaded, SlotInv, TypeOK
      <4>3. QED
        BY <4>1, <4>2 DEF Abstract!Next
    <3>3. QED
      BY <3>1, <3>2
  <2>2. CASE CallStop(c)
    <3>1. arg[c] = NoMember
      BY <2>2 DEF CallStop, SlotInv, CallerMemory
    <3>2. Abstract!Begin(c, NoMember)
      BY <2>2, <3>1 DEF CallStop, Abstract!Begin, Loaded, SlotInv, TypeOK
    <3>3. QED
      BY <3>2 DEF Abstract!Next
  <2>3. QED
    BY <1>1, <2>1, <2>2 DEF Call
<1>2. ASSUME NEW c \in Clients, LoadStep(c) PROVE Goal
  <2>1. CASE EnterUnknown(c) \/ BeforeLoadErr(c) \/ SpawnErr(c)
    <3>1. Abstract!Fail(c)
      BY <2>1, AbstractReturn
         DEF EnterUnknown, BeforeLoadErr, SpawnErr, Abstract!Fail, Loaded
    <3>2. QED
      BY <3>1 DEF Abstract!Next
  <2>2. CASE EnterLoaded(c)
    <3>1. Abstract!HitOk(c)
      BY <2>2, AbstractReturn DEF EnterLoaded, Abstract!HitOk, Loaded, SlotInv, TypeOK
    <3>2. QED
      BY <3>1 DEF Abstract!Next
  <2>3. CASE EnterLoad(c) \/ ProbeSend(c) \/ ProbeMiss(c)
    BY <2>3 DEF EnterLoad, ProbeSend, ProbeMiss, GoTo, Loaded, SlotInv, TypeOK,
                Abstract!specVars
  <2>4. CASE KillOld(c)
    <3>1. UNCHANGED <<members, arg, res>> /\ pc' = [pc EXCEPT ![c] = "spawn"]
      BY <2>4 DEF KillOld, GoTo
    <3>2. UNCHANGED {d \in Clients : pc[d] # "idle"}
      BY <2>4, <3>1 DEF KillOld, SlotInv, TypeOK
    <3>3. Loaded' = NoMember
      BY <2>4 DEF KillOld, Loaded
    <3>4. QED
      BY <3>1, <3>2, <3>3 DEF Abstract!Next, Abstract!Empty, Abstract!specVars
  <2>5. CASE Spawn(c)
    <3>1. Loaded = NoMember /\ Loaded' = NoMember
      BY <2>5 DEF Spawn, Loaded, SlotInv, LockedLoads, EmptyIsUnnamed
    <3>2. UNCHANGED <<members, arg, res>> /\ pc' = [pc EXCEPT ![c] = "probe"]
      BY <2>5 DEF Spawn, GoTo
    <3>3. QED
      BY <2>5, <3>1, <3>2 DEF Spawn, Abstract!specVars, SlotInv, TypeOK
  <2>6. CASE ProbeExited(c) \/ ProbeQuit(c)
    <3>1. Loaded = NoMember /\ Loaded' = NoMember
      BY <2>6 DEF ProbeExited, ProbeQuit, AbortLoad, Loaded, SlotInv, LockedLoads
    <3>2. Abstract!Fail(c)
      BY <2>6, <3>1, AbstractReturn DEF ProbeExited, ProbeQuit, AbortLoad, Abstract!Fail
    <3>3. QED
      BY <3>2 DEF Abstract!Next
  <2>7. CASE ProbeOk(c)
    <3>1. /\ Loaded = NoMember
          /\ Loaded' = arg[c]
          /\ arg[c] \in members
      BY <2>7 DEF ProbeOk, Loaded, SlotInv, LockedLoads, CallerMemory
    <3>2. Abstract!LoadOk(c)
      BY <2>7, <3>1, AbstractReturn DEF ProbeOk, Abstract!LoadOk
    <3>3. QED
      BY <3>2 DEF Abstract!Next
  <2>8. QED
    BY <1>2, <2>1, <2>2, <2>3, <2>4, <2>5, <2>6, <2>7 DEF LoadStep
<1>3. ASSUME NEW c \in Clients, StopStep(c) PROVE Goal
  <2>1. CASE StopNothing(c) \/ StopDone(c)
    <3>1. arg[c] = NoMember
      BY <2>1 DEF StopNothing, StopDone, SlotInv, CallerMemory
    <3>2. Abstract!StopOk(c)
      BY <2>1, <3>1, AbstractReturn DEF StopNothing, StopDone, Abstract!StopOk, Loaded
    <3>3. QED
      BY <3>2 DEF Abstract!Next
  <2>2. CASE StopTake(c)
    <3>1. UNCHANGED <<members, arg, res>> /\ pc' = [pc EXCEPT ![c] = "sterm"]
      BY <2>2 DEF StopTake, GoTo
    <3>2. UNCHANGED {d \in Clients : pc[d] # "idle"}
      BY <2>2, <3>1 DEF StopTake, SlotInv, TypeOK
    <3>3. Loaded' = NoMember
      BY <2>2 DEF StopTake, Loaded
    <3>4. QED
      BY <3>1, <3>2, <3>3 DEF Abstract!Next, Abstract!Empty, Abstract!specVars
  <2>3. CASE StopTerm(c) \/ StopKill(c)
    BY <2>3 DEF StopTerm, StopKill, GoTo, Loaded, SlotInv, TypeOK, Abstract!specVars
  <2>4. CASE StopCancel(c)
    <3>1. Abstract!Fail(c)
      BY <2>4, AbstractReturn DEF StopCancel, Abstract!Fail, Loaded
    <3>2. QED
      BY <3>1 DEF Abstract!Next
  <2>5. QED
    BY <1>3, <2>1, <2>2, <2>3, <2>4 DEF StopStep
<1>4. ASSUME NEW m \in Members, AddMember(m) PROVE Goal
  <2>1. Abstract!Register(m)
    BY <1>4 DEF AddMember, Abstract!Register, Loaded
  <2>2. QED
    BY <2>1 DEF Abstract!Next
<1>5. ASSUME NEW w \in Workers, Goroutine(w) PROVE Goal
  <2>1. CASE WatchExit(w)
    <3>1. UNCHANGED <<members, arg, res, pc>>
      BY <2>1 DEF WatchExit
    <3>2. Loaded' = NoMember \/ UNCHANGED Loaded
      BY <2>1 DEF WatchExit, Loaded
    <3>3. QED
      BY <3>1, <3>2 DEF Abstract!Next, Abstract!Empty, Abstract!specVars
  <2>2. CASE ReapKill(w) \/ ReapDone(w) \/ WaitReturn(w)
    BY <2>2 DEF ReapKill, ReapDone, WaitReturn, Loaded, Abstract!specVars
  <2>3. QED
    BY <1>5, <2>1, <2>2 DEF Goroutine
<1>6. ASSUME NEW w \in Workers, Process(w) PROVE Goal
  BY <1>6 DEF Process, Listen, ListenErr, Drain, Exit, Reexec, procFrame, Loaded, Abstract!specVars
<1>7. CASE UNCHANGED vars
  BY <1>7 DEF vars, Loaded, Abstract!specVars
<1>8. QED
  BY <1>1, <1>2, <1>3, <1>4, <1>5, <1>6, <1>7 DEF Next

\* The group implements SlotSpec for any members, callers and workers:
\* EnsureLoaded answers nil only at an instant at which its member is loaded.
THEOREM SlotRefines == Spec => ImplementsSlotSpec
<1>1. Spec => Abstract!Init
  BY AbstractInit, PTL DEF Spec
<1>2. QED
  BY <1>1, SlotSafety, AbstractStep, PTL DEF Spec, ImplementsSlotSpec, Abstract!Spec
-----------------------------------------------------------------------------
(* The port.  LoadedAnswers is violated by the code; this is how far.       *)

\* A process that has the port serves on it.
PortServes == port # NoWorker => proc[port] = "serving"

\* Whoever loses the port, or its life, loses the other too.
LEMMA PortStep == SlotInv /\ PortServes /\ [Next]_vars => PortServes'
<1> SUFFICES ASSUME SlotInv, PortServes, [Next]_vars PROVE PortServes'
  OBVIOUS
<1> USE SlotAssumption DEF SlotInv, TypeOK, PortServes, Alive, lockVars, procVars
<1>1. ASSUME NEW c \in Clients, Call(c) PROVE PortServes'
  BY <1>1 DEF Call, CallLoad, CallStop
<1>2. ASSUME NEW c \in Clients, LoadStep(c) PROVE PortServes'
  <2>1. CASE Spawn(c)
    BY <2>1 DEF Spawn, Fresh, Done
  <2>2. CASE KillOld(c)
    BY <2>2 DEF KillOld
  <2>3. CASE ProbeExited(c) \/ ProbeQuit(c)
    BY <2>3 DEF ProbeExited, ProbeQuit, AbortLoad
  <2>4. CASE \/ EnterUnknown(c) \/ EnterLoaded(c) \/ EnterLoad(c) \/ BeforeLoadErr(c)
             \/ SpawnErr(c) \/ ProbeSend(c) \/ ProbeMiss(c) \/ ProbeOk(c)
    BY <2>4 DEF EnterUnknown, EnterLoaded, EnterLoad, BeforeLoadErr, SpawnErr,
                ProbeSend, ProbeMiss, ProbeOk
  <2>5. QED
    BY <1>2, <2>1, <2>2, <2>3, <2>4 DEF LoadStep
<1>3. ASSUME NEW c \in Clients, StopStep(c) PROVE PortServes'
  BY <1>3 DEF StopStep, StopNothing, StopTake, StopTerm, StopDone, StopKill, StopCancel
<1>4. ASSUME NEW m \in Members, AddMember(m) PROVE PortServes'
  BY <1>4 DEF AddMember
<1>5. ASSUME NEW w \in Workers, Goroutine(w) PROVE PortServes'
  BY <1>5 DEF Goroutine, WatchExit, ReapKill, ReapDone, WaitReturn
<1>6. ASSUME NEW w \in Workers, Process(w) PROVE PortServes'
  BY <1>6 DEF Process, Listen, ListenErr, Drain, Exit, Reexec, procFrame
<1>7. CASE UNCHANGED vars
  BY <1>7 DEF vars
<1>8. QED
  BY <1>1, <1>2, <1>3, <1>4, <1>5, <1>6, <1>7 DEF Next

LEMMA PortIsServed == Spec => []PortServes
<1>1. Init => PortServes
  BY DEF Init, PortServes
<1>2. QED
  BY <1>1, SlotSafety, PortStep, PTL DEF Spec

\* A server that answers on the port and is not the slot's own is being put
\* down by a goroutine that will kill it if it has to: this is what makes
\* ForeignListenerLeaves true under fairness, and it needs none.
THEOREM ForeignIsCondemned == Spec => [](Foreign => Condemned(port))
<1>1. SlotInv /\ PortServes => (Foreign => Condemned(port))
  BY DEF SlotInv, TypeOK, NoForgottenWorker, PortServes, Foreign, Alive
<1>2. QED
  BY <1>1, SlotSafety, PortIsServed, PTL

\* A new process is spawned while an older one lives: a swap, a stop and a
\* failed load all let go of a worker without waiting for its exit.
Overlap == (\E c \in Clients : Spawn(c)) /\ (\E w \in Workers : Alive(w))

\* While the slot has a worker, that one alone is alive.
SoleWorker == worker # NoWorker => \A w \in Workers : Alive(w) => w = worker

\* Processes come to life by Spawn only, so that without overlap the worker
\* stays the only one.
LEMMA SoleStep ==
  SlotInv /\ SoleWorker /\ [Next]_vars /\ [~Overlap]_vars => SoleWorker'
<1> SUFFICES ASSUME SlotInv, SoleWorker, [Next]_vars, [~Overlap]_vars
             PROVE  SoleWorker'
  OBVIOUS
<1> USE SlotAssumption DEF SlotInv, TypeOK, SoleWorker, Alive, lockVars, procVars
<1>1. ASSUME NEW c \in Clients, Call(c) PROVE SoleWorker'
  BY <1>1 DEF Call, CallLoad, CallStop
<1>2. ASSUME NEW c \in Clients, LoadStep(c) PROVE SoleWorker'
  <2>1. CASE Spawn(c)
    <3>1. vars' # vars
      BY <2>1 DEF Spawn, Fresh, Done, vars
    <3>2. \A w \in Workers : ~Alive(w)
      BY <2>1, <3>1 DEF Overlap
    <3>3. PICK w \in Workers : /\ worker' = w
                               /\ proc' = [proc EXCEPT ![w] = "starting"]
      BY <2>1 DEF Spawn
    <3>4. QED
      BY <2>1, <3>2, <3>3 DEF Spawn
  <2>2. CASE KillOld(c)
    BY <2>2 DEF KillOld
  <2>3. CASE ProbeExited(c) \/ ProbeQuit(c)
    BY <2>3 DEF ProbeExited, ProbeQuit, AbortLoad
  <2>4. CASE \/ EnterUnknown(c) \/ EnterLoaded(c) \/ EnterLoad(c) \/ BeforeLoadErr(c)
             \/ SpawnErr(c) \/ ProbeSend(c) \/ ProbeMiss(c) \/ ProbeOk(c)
    BY <2>4 DEF EnterUnknown, EnterLoaded, EnterLoad, BeforeLoadErr, SpawnErr,
                ProbeSend, ProbeMiss, ProbeOk
  <2>5. QED
    BY <1>2, <2>1, <2>2, <2>3, <2>4 DEF LoadStep
<1>3. ASSUME NEW c \in Clients, StopStep(c) PROVE SoleWorker'
  BY <1>3 DEF StopStep, StopNothing, StopTake, StopTerm, StopDone, StopKill, StopCancel
<1>4. ASSUME NEW m \in Members, AddMember(m) PROVE SoleWorker'
  BY <1>4 DEF AddMember
<1>5. ASSUME NEW w \in Workers, Goroutine(w) PROVE SoleWorker'
  BY <1>5 DEF Goroutine, WatchExit, ReapKill, ReapDone, WaitReturn
<1>6. ASSUME NEW w \in Workers, Process(w) PROVE SoleWorker'
  BY <1>6 DEF Process, Listen, ListenErr, Drain, Exit, Reexec, procFrame
<1>7. CASE UNCHANGED vars
  BY <1>7 DEF vars
<1>8. QED
  BY <1>1, <1>2, <1>3, <1>4, <1>5, <1>6, <1>7 DEF Next

\* If no worker is ever spawned while an older one lives, a server that answers
\* on the port is one of the loaded member: the spawn that does not wait
\* (group.go:201-216, 333) is the only cause of the violation that TLC shows.
THEOREM AloneAnswers == Spec /\ [][~Overlap]_vars => []LoadedAnswers
<1>1. Init => SoleWorker
  BY DEF Init, SoleWorker
<1>2. SlotInv /\ PortServes /\ SoleWorker => LoadedAnswers
  <2> SUFFICES ASSUME SlotInv, PortServes, SoleWorker, current # NoMember, port # NoWorker
               PROVE  model[port] = current
    BY DEF LoadedAnswers
  <2>1. worker # NoWorker /\ port \in Workers
    BY DEF SlotInv, TypeOK, EmptyIsUnnamed
  <2>2. Alive(port) /\ port = worker
    BY <2>1 DEF PortServes, SoleWorker, Alive
  <2>3. \A c \in Clients : pc[c] \notin {"probe", "get"}
    BY DEF SlotInv, LockedLoads
  <2>4. QED
    BY <2>1, <2>2, <2>3 DEF SlotInv, LoadedIsWatched
<1>3. QED
  BY <1>1, <1>2, SlotSafety, PortIsServed, SoleStep, PTL DEF Spec
-----------------------------------------------------------------------------
(* What the refinement is worth to a caller                                *)

\* A load that returns ok returns at an instant at which its member is loaded
\* and registered.
NilMeansLoaded ==
  \A c \in Clients :
    pc[c] # "idle" /\ pc'[c] = "idle" /\ res'[c] = "ok" /\ arg[c] # NoMember =>
      Loaded' = arg[c] /\ arg[c] \in members'

\* A slot does not pass from one member to another without being empty first.
EmptyInBetween == Loaded # NoMember /\ Loaded' # Loaded => Loaded' = NoMember

\* What a slot has loaded is registered with it.
LEMMA LoadedKnown == SlotInv => Loaded \in members \cup {NoMember}
  BY DEF SlotInv, Loaded, LockedLoads, LoadedIsWatched

\* For any members, callers and workers: EnsureLoaded answers nil only when its
\* member is the loaded one, and readers of Running see an empty slot between
\* two members.  It is SlotSpec that is proved to do so, and the slot is one.
THEOREM SlotKeepsItsWord == Spec => [][NilMeansLoaded /\ EmptyInBetween]_vars
<1> DEFINE Word == NilMeansLoaded /\ EmptyInBetween
<1>1. SlotInv /\ SlotInv' /\ [Next]_vars => Word
  <2> SUFFICES ASSUME SlotInv, SlotInv', [Abstract!Next]_(Abstract!specVars)
               PROVE  Word
    BY AbstractStep
  <2> DEFINE busy == {c \in Clients : pc[c] # "idle"}
  <2>1. CASE UNCHANGED Abstract!specVars
    <3>1. busy' = busy /\ Loaded' = Loaded
      BY <2>1 DEF Abstract!specVars
    <3> QED
      BY <3>1 DEF NilMeansLoaded, EmptyInBetween
  <2>2. ASSUME NEW c \in Clients, NEW m \in Members \cup {NoMember},
               Abstract!Begin(c, m) \/ Abstract!Refuse(c)
        PROVE  Word
    <3>1. busy \subseteq busy' /\ Loaded' = Loaded
      BY <2>2 DEF Abstract!Begin, Abstract!Refuse
    <3> QED
      BY <3>1 DEF NilMeansLoaded, EmptyInBetween
  <2>3. ASSUME NEW c \in Clients, NEW a, Abstract!Return(c, a)
        PROVE  /\ busy' = busy \ {c} /\ members' = members
               /\ res'[c] = a
    BY <2>3 DEF Abstract!Return, SlotInv, TypeOK
  <2>4. ASSUME NEW c \in Clients, Abstract!LoadOk(c) \/ Abstract!HitOk(c) PROVE Word
    <3>1. /\ busy' = busy \ {c} /\ members' = members
          /\ Loaded' = arg[c] /\ Loaded \in {NoMember, arg[c]}
      BY <2>3, <2>4 DEF Abstract!LoadOk, Abstract!HitOk
    <3>2. Loaded' \in members' \cup {NoMember}
      <4>1. CASE Abstract!LoadOk(c)
        BY <3>1, <4>1 DEF Abstract!LoadOk
      <4>2. CASE Abstract!HitOk(c)
        BY <3>1, <4>2, LoadedKnown DEF Abstract!HitOk
      <4> QED
        BY <2>4, <4>1, <4>2
    <3> QED
      BY <3>1, <3>2 DEF NilMeansLoaded, EmptyInBetween
  <2>5. ASSUME NEW c \in Clients, Abstract!StopOk(c) \/ Abstract!Fail(c) PROVE Word
    <3>1. /\ busy' = busy \ {c} /\ Loaded' = Loaded
          /\ res'[c] = "err" \/ arg[c] = NoMember
      BY <2>3, <2>5 DEF Abstract!StopOk, Abstract!Fail
    <3> QED
      BY <3>1 DEF NilMeansLoaded, EmptyInBetween
  <2>6. ASSUME Abstract!Empty \/ \E m \in Members : Abstract!Register(m) PROVE Word
    <3>1. busy' = busy /\ Loaded' \in {Loaded, NoMember}
      BY <2>6 DEF Abstract!Empty, Abstract!Register
    <3> QED
      BY <3>1 DEF NilMeansLoaded, EmptyInBetween
  <2> QED
    BY <2>1, <2>2, <2>4, <2>5, <2>6 DEF Abstract!Next
<1>2. SlotInv /\ SlotInv' /\ [Next]_vars => [Word]_vars
  BY <1>1
<1> HIDE DEF Word
<1>3. Spec => [][Word]_vars
  BY <1>2, SlotSafety, PTL DEF Spec
<1> QED
  BY <1>3 DEF Word
=============================================================================
