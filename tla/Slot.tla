-------------------------------- MODULE Slot --------------------------------
(***************************************************************************)
(* One supervisor.Group (internal/supervisor/group.go) with the worker     *)
(* processes it spawns (worker.go): the members of a slot share one port,  *)
(* and a request for a member swaps the process behind that port.          *)
(*                                                                         *)
(* The goroutines are: the clients (HTTP handlers of the router and of the *)
(* admin API) that call EnsureLoaded, Stop and AddMember; one watchExit    *)
(* goroutine per loaded worker; one reaper goroutine per swapped-out       *)
(* worker.  g.mu is held by at most one client across the long steps of    *)
(* EnsureLoaded; a section that takes g.mu and leaves it without blocking  *)
(* is one action guarded by mu = Free.                                     *)
(*                                                                         *)
(* g.state mirrors worker and current and nothing reads it, so it is left  *)
(* out.  A Worker object is used once; an element of Workers whose process *)
(* is over and that nothing refers to any more stands for the next object. *)
(***************************************************************************)
CONSTANTS
  Members,        \* member names
  NoMember,       \* ""
  GroupName,      \* the slot's own name, an alias of its default member
  DefaultMember,  \* the default member, or NoMember
  InitMembers,    \* the sets of members a configuration may start with
  Clients,        \* goroutines that call the group
  Admins,         \* the clients that are handlers of the admin API
  Workers,        \* Worker objects, each with its process (bounds how many at once)
  NoWorker,       \* nil
  Free            \* g.mu is not held

ASSUME SlotAssumption ==
  /\ NoMember \notin Members
  /\ GroupName \notin Members
  /\ DefaultMember \in Members \cup {NoMember}
  /\ InitMembers \subseteq SUBSET Members
  /\ NoWorker \notin Workers
  /\ Free \notin Clients
  /\ Admins \subseteq Clients

VARIABLES
  mu,        \* g.mu: the client that holds it, or Free
  worker,    \* g.worker
  current,   \* g.current
  members,   \* DOMAIN of g.opts.Members
  proc,      \* the life of each worker's process
  model,     \* the member each worker's live process was spawned for
  sig,       \* the strongest signal sent to a process that has not exited
  port,      \* the process that listens on the slot's port
  reaper,    \* the goroutine started when a worker is swapped out
  watch,     \* the watchExit goroutine of a worker is waiting
  pc,        \* where each client is
  arg,       \* the member it asked for
  mine,      \* w of EnsureLoaded, old of Stop
  res        \* what its last call returned

lockVars == <<mu, worker, current>>
procVars == <<proc, model, port>>
helperVars == <<reaper, watch>>
callVars == <<arg, res>>
vars == <<mu, worker, current, members, proc, model, sig, port, reaper, watch,
          pc, arg, mine, res>>

Names == Members \cup {GroupName}
LoadSteps == {"before", "spawn", "probe", "get"}   \* of EnsureLoaded, under g.mu
StopSteps == {"sterm", "swait", "sreap"}           \* of Stop, after g.mu is released
PCs == {"idle", "lock", "slock"} \cup LoadSteps \cup StopSteps

TypeOK ==
  /\ mu \in Clients \cup {Free}
  /\ worker \in Workers \cup {NoWorker}
  /\ current \in Members \cup {NoMember}
  /\ members \subseteq Members
  /\ proc \in [Workers -> {"starting", "serving", "draining", "exited", "reaped"}]
  /\ model \in [Workers -> Members \cup {NoMember}]
  /\ sig \in [Workers -> {"none", "TERM", "KILL"}]
  /\ port \in Workers \cup {NoWorker}
  /\ reaper \in [Workers -> {"off", "grace", "killed"}]
  /\ watch \in [Workers -> BOOLEAN]
  /\ pc \in [Clients -> PCs]
  /\ arg \in [Clients -> Members \cup {NoMember}]
  /\ mine \in [Clients -> Workers \cup {NoWorker}]
  /\ res \in [Clients -> {"none", "ok", "err"}]

\* NewGroup: nothing runs until the first call.
Init ==
  /\ mu = Free
  /\ worker = NoWorker
  /\ current = NoMember
  /\ members \in InitMembers
  /\ proc = [w \in Workers |-> "reaped"]
  /\ model = [w \in Workers |-> NoMember]
  /\ sig = [w \in Workers |-> "none"]
  /\ port = NoWorker
  /\ reaper = [w \in Workers |-> "off"]
  /\ watch = [w \in Workers |-> FALSE]
  /\ pc = [c \in Clients |-> "idle"]
  /\ arg = [c \in Clients |-> NoMember]
  /\ mine = [c \in Clients |-> NoWorker]
  /\ res = [c \in Clients |-> "none"]

-----------------------------------------------------------------------------
(* Helpers *)

Alive(w) == proc[w] \in {"starting", "serving", "draining"}

\* <-w.Done() does not block: wait() has collected the process.
Done(w) == proc[w] = "reaped"

\* sig after Signal(s) to w's process group; a signal to a dead one is lost,
\* and nothing takes back a KILL.
Signalled(w, s) ==
  IF Alive(w) /\ sig[w] # "KILL" THEN [sig EXCEPT ![w] = s] ELSE sig

\* A Worker object nothing refers to: it may stand for a new one.
Fresh(w) ==
  /\ Done(w)
  /\ worker # w
  /\ reaper[w] = "off"
  /\ ~watch[w]
  /\ \A c \in Clients : mine[c] # w

\* Faulty: the alias is not resolved.
TargetRaw(n) == n

\* The name a call is about: the group's own name means its default member.
Target(n) == IF n = GroupName THEN DefaultMember ELSE n

\* The call of c is over and returns a.
Return(c, a) ==
  /\ pc' = [pc EXCEPT ![c] = "idle"]
  /\ arg' = [arg EXCEPT ![c] = NoMember]
  /\ mine' = [mine EXCEPT ![c] = NoWorker]
  /\ res' = [res EXCEPT ![c] = a]

GoTo(c, step) ==
  /\ pc' = [pc EXCEPT ![c] = step]
  /\ UNCHANGED callVars

-----------------------------------------------------------------------------
(* EnsureLoaded *)

\* The call starts.  The group's own name without a default member fails at
\* once, before the lock.
CallLoad(c, n) ==
  /\ pc[c] = "idle"
  /\ IF Target(n) = NoMember
     THEN /\ res' = [res EXCEPT ![c] = "err"]
          /\ UNCHANGED <<pc, arg>>
     ELSE /\ pc' = [pc EXCEPT ![c] = "lock"]
          /\ arg' = [arg EXCEPT ![c] = Target(n)]
          /\ res' = [res EXCEPT ![c] = "none"]
  /\ UNCHANGED <<lockVars, members, procVars, sig, helperVars, mine>>

EnterUnknown(c) ==
  /\ pc[c] = "lock"
  /\ mu = Free
  /\ arg[c] \notin members
  /\ Return(c, "err")
  /\ UNCHANGED <<lockVars, members, procVars, sig, helperVars>>

\* Faulty: any loaded member will do.
EnterAnyLoaded(c) ==
  /\ pc[c] = "lock"
  /\ mu = Free
  /\ arg[c] \in members
  /\ worker # NoWorker
  /\ Return(c, "ok")
  /\ UNCHANGED <<lockVars, members, procVars, sig, helperVars>>

EnterLoaded(c) ==
  /\ pc[c] = "lock"
  /\ mu = Free
  /\ arg[c] \in members
  /\ current = arg[c]
  /\ worker # NoWorker
  /\ Return(c, "ok")
  /\ UNCHANGED <<lockVars, members, procVars, sig, helperVars>>

\* Faulty: the lock is taken for the checks only.
EnterLoadUnlocked(c) ==
  /\ pc[c] = "lock"
  /\ mu = Free
  /\ arg[c] \in members
  /\ current # arg[c] \/ worker = NoWorker
  /\ GoTo(c, "before")
  /\ UNCHANGED <<lockVars, members, procVars, sig, helperVars, mine>>

\* The lock is kept from here to the end of the call.
EnterLoad(c) ==
  /\ pc[c] = "lock"
  /\ mu = Free
  /\ arg[c] \in members
  /\ current # arg[c] \/ worker = NoWorker
  /\ mu' = c
  /\ GoTo(c, "before")
  /\ UNCHANGED <<worker, current, members, procVars, sig, helperVars, mine>>

\* BeforeLoad (the pull of the model's weights) failed: the loaded worker stays.
BeforeLoadErr(c) ==
  /\ pc[c] = "before"
  /\ mu' = Free
  /\ Return(c, "err")
  /\ UNCHANGED <<worker, current, members, procVars, sig, helperVars>>

\* Faulty: TERM is trusted.
NoReaper(w) == UNCHANGED reaper

\* The goroutine that will KILL w if TERM does not end it.
StartReaper(w) == reaper' = [reaper EXCEPT ![w] = "grace"]

\* BeforeLoad is done.  The old worker, if any, gets TERM and a reaper, and
\* is dropped at once: nobody waits for its exit.
KillOld(c) ==
  /\ pc[c] = "before"
  /\ IF worker # NoWorker
     THEN /\ sig' = Signalled(worker, "TERM")
          /\ StartReaper(worker)
          /\ worker' = NoWorker
          /\ current' = NoMember
     ELSE UNCHANGED <<sig, reaper, worker, current>>
  /\ GoTo(c, "spawn")
  /\ UNCHANGED <<mu, members, procVars, watch, mine>>

Spawn(c) ==
  /\ pc[c] = "spawn"
  /\ \E w \in Workers :
       /\ Fresh(w)
       /\ proc' = [proc EXCEPT ![w] = "starting"]
       /\ model' = [model EXCEPT ![w] = arg[c]]
       /\ sig' = [sig EXCEPT ![w] = "none"]
       /\ worker' = w
       /\ mine' = [mine EXCEPT ![c] = w]
  /\ GoTo(c, "probe")
  /\ UNCHANGED <<mu, current, members, port, helperVars>>

\* Worker.Start failed (no such command, no process to be had).
SpawnErr(c) ==
  /\ pc[c] = "spawn"
  /\ mu' = Free
  /\ Return(c, "err")
  /\ UNCHANGED <<worker, current, members, procVars, sig, helperVars>>

\* Faulty: an error path without the unlock.
AbortLocked(c) ==
  /\ sig' = Signalled(mine[c], "KILL")
  /\ worker' = NoWorker
  /\ Return(c, "err")
  /\ UNCHANGED <<mu, current, members, procVars, helperVars>>

\* probeReady gives up: the worker is killed and dropped.
AbortLoad(c) ==
  /\ sig' = Signalled(mine[c], "KILL")
  /\ worker' = NoWorker
  /\ mu' = Free
  /\ Return(c, "err")
  /\ UNCHANGED <<current, members, procVars, helperVars>>

\* ... because the worker exited during the load ...
ProbeExited(c) ==
  /\ pc[c] = "probe"
  /\ Done(mine[c])
  /\ AbortLoad(c)

\* ... or because the caller went away or the swap timeout passed.
ProbeQuit(c) ==
  /\ pc[c] = "probe"
  /\ AbortLoad(c)

\* The worker has not exited: one GET to the port.
ProbeSend(c) ==
  /\ pc[c] = "probe"
  /\ ~Done(mine[c])
  /\ GoTo(c, "get")
  /\ UNCHANGED <<lockVars, members, procVars, sig, helperVars, mine>>

\* Nobody listens, or the answer is not a 200.
ProbeMiss(c) ==
  /\ pc[c] = "get"
  /\ GoTo(c, "probe")
  /\ UNCHANGED <<lockVars, members, procVars, sig, helperVars, mine>>

\* Faulty: nobody waits for the exit.
NoWatch(w) == UNCHANGED watch

\* watchExit(w) starts with the load's success.
StartWatch(w) == watch' = [watch EXCEPT ![w] = TRUE]

\* Whoever listens on the port answered 200: the member counts as loaded.
ProbeOk(c) ==
  /\ pc[c] = "get"
  /\ port # NoWorker
  /\ current' = arg[c]
  /\ StartWatch(mine[c])
  /\ mu' = Free
  /\ Return(c, "ok")
  /\ UNCHANGED <<worker, members, procVars, sig, reaper>>

-----------------------------------------------------------------------------
(* Stop *)

CallStop(c) ==
  /\ pc[c] = "idle"
  /\ pc' = [pc EXCEPT ![c] = "slock"]
  /\ res' = [res EXCEPT ![c] = "none"]
  /\ UNCHANGED <<lockVars, members, procVars, sig, helperVars, arg, mine>>

StopNothing(c) ==
  /\ pc[c] = "slock"
  /\ mu = Free
  /\ worker = NoWorker
  /\ Return(c, "ok")
  /\ UNCHANGED <<lockVars, members, procVars, sig, helperVars>>

\* Faulty: the worker stays the group's until it has exited.
StopTakeKeeping(c) ==
  /\ pc[c] = "slock"
  /\ mu = Free
  /\ worker # NoWorker
  /\ mine' = [mine EXCEPT ![c] = worker]
  /\ GoTo(c, "sterm")
  /\ UNCHANGED <<lockVars, members, procVars, sig, helperVars>>

\* The group forgets the worker under the lock, and only then signals it.
StopTake(c) ==
  /\ pc[c] = "slock"
  /\ mu = Free
  /\ worker # NoWorker
  /\ mine' = [mine EXCEPT ![c] = worker]
  /\ worker' = NoWorker
  /\ current' = NoMember
  /\ GoTo(c, "sterm")
  /\ UNCHANGED <<mu, members, procVars, sig, helperVars>>

StopTerm(c) ==
  /\ pc[c] = "sterm"
  /\ sig' = Signalled(mine[c], "TERM")
  /\ GoTo(c, "swait")
  /\ UNCHANGED <<lockVars, members, procVars, helperVars, mine>>

StopDone(c) ==
  /\ pc[c] \in {"swait", "sreap"}
  /\ Done(mine[c])
  /\ Return(c, "ok")
  /\ UNCHANGED <<lockVars, members, procVars, sig, helperVars>>

\* 30 seconds passed.
StopKill(c) ==
  /\ pc[c] = "swait"
  /\ sig' = Signalled(mine[c], "KILL")
  /\ GoTo(c, "sreap")
  /\ UNCHANGED <<lockVars, members, procVars, helperVars, mine>>

\* The caller's context ended first: KILL, and return without waiting.
StopCancel(c) ==
  /\ pc[c] = "swait"
  /\ sig' = Signalled(mine[c], "KILL")
  /\ Return(c, "err")
  /\ UNCHANGED <<lockVars, members, procVars, helperVars>>

-----------------------------------------------------------------------------
\* AddMember, called by reload; an existing name is left alone.
AddMember(m) ==
  /\ mu = Free
  /\ m \notin members
  /\ members' = members \cup {m}
  /\ UNCHANGED <<lockVars, procVars, sig, helperVars, pc, callVars, mine>>

-----------------------------------------------------------------------------
(* The goroutines of a worker *)

\* watchExit: clear the group if it still holds this worker.
WatchExit(w) ==
  /\ watch[w]
  /\ Done(w)
  /\ mu = Free
  /\ watch' = [watch EXCEPT ![w] = FALSE]
  /\ IF worker = w
     THEN worker' = NoWorker /\ current' = NoMember
     ELSE UNCHANGED <<worker, current>>
  /\ UNCHANGED <<mu, members, procVars, sig, reaper, pc, callVars, mine>>

\* Ten seconds after TERM.
ReapKill(w) ==
  /\ reaper[w] = "grace"
  /\ sig' = Signalled(w, "KILL")
  /\ reaper' = [reaper EXCEPT ![w] = "killed"]
  /\ UNCHANGED <<lockVars, members, procVars, watch, pc, callVars, mine>>

ReapDone(w) ==
  /\ reaper[w] \in {"grace", "killed"}
  /\ Done(w)
  /\ reaper' = [reaper EXCEPT ![w] = "off"]
  /\ UNCHANGED <<lockVars, members, procVars, sig, watch, pc, callVars, mine>>

\* wait(): cmd.Wait returned and stderr is drained, so done is closed.
WaitReturn(w) ==
  /\ proc[w] = "exited"
  /\ proc' = [proc EXCEPT ![w] = "reaped"]
  /\ UNCHANGED <<lockVars, members, model, sig, port, helperVars, pc, callVars, mine>>

-----------------------------------------------------------------------------
(* The worker's process: a model server, modelled by testdata/fakemlx and by *)
(* the watchdog that python/mlx_stack starts in it                          *)

procFrame == <<lockVars, members, helperVars, pc, callVars, mine>>

Listen(w) ==
  /\ proc[w] = "starting"
  /\ port = NoWorker
  /\ proc' = [proc EXCEPT ![w] = "serving"]
  /\ port' = w
  /\ UNCHANGED <<sig, model, procFrame>>

\* The port is still held by another process: the server exits.
ListenErr(w) ==
  /\ proc[w] = "starting"
  /\ port # NoWorker
  /\ proc' = [proc EXCEPT ![w] = "exited"]
  /\ model' = [model EXCEPT ![w] = NoMember]
  /\ sig' = [sig EXCEPT ![w] = "none"]
  /\ UNCHANGED <<port, procFrame>>

\* TERM: close the listener, finish the requests in flight.
Drain(w) ==
  /\ proc[w] = "serving"
  /\ sig[w] = "TERM"
  /\ proc' = [proc EXCEPT ![w] = "draining"]
  /\ port' = IF port = w THEN NoWorker ELSE port
  /\ UNCHANGED <<sig, model, procFrame>>

\* The end of the process, by a signal or by itself.
Exit(w) ==
  /\ Alive(w)
  /\ proc' = [proc EXCEPT ![w] = "exited"]
  /\ model' = [model EXCEPT ![w] = NoMember]
  /\ sig' = [sig EXCEPT ![w] = "none"]
  /\ port' = IF port = w THEN NoWorker ELSE port
  /\ UNCHANGED procFrame

\* The watchdog thread of the server found too much memory in use: os.execv, as
\* the same process and for the same model.  Python's sockets close on exec,
\* and what came of a TERM is open again.
Reexec(w) ==
  /\ proc[w] \in {"serving", "draining"}
  /\ proc' = [proc EXCEPT ![w] = "starting"]
  /\ port' = IF port = w THEN NoWorker ELSE port
  /\ UNCHANGED <<sig, model, procFrame>>

-----------------------------------------------------------------------------
LoadStep(c) ==
  \/ EnterUnknown(c) \/ EnterLoaded(c) \/ EnterLoad(c) \/ BeforeLoadErr(c)
  \/ KillOld(c) \/ Spawn(c) \/ SpawnErr(c)
  \/ ProbeExited(c) \/ ProbeQuit(c) \/ ProbeSend(c) \/ ProbeMiss(c) \/ ProbeOk(c)

StopStep(c) ==
  \/ StopNothing(c) \/ StopTake(c) \/ StopTerm(c) \/ StopDone(c)
  \/ StopKill(c) \/ StopCancel(c)

\* The router only loads; the admin API also stops.
Call(c) ==
  \/ \E n \in Names : CallLoad(c, n)
  \/ c \in Admins /\ CallStop(c)

Goroutine(w) == WatchExit(w) \/ ReapKill(w) \/ ReapDone(w) \/ WaitReturn(w)

Process(w) == Listen(w) \/ ListenErr(w) \/ Drain(w) \/ Exit(w) \/ Reexec(w)

Next ==
  \/ \E c \in Clients : Call(c) \/ LoadStep(c) \/ StopStep(c)
  \/ \E m \in Members : AddMember(m)
  \/ \E w \in Workers : Goroutine(w) \/ Process(w)

Spec == Init /\ [][Next]_vars

(***************************************************************************)
(* Fairness.  A goroutine that can run runs, and so the timers of Stop and *)
(* of the reaper fire (weak).  Go's mutex hands the lock to a waiter that  *)
(* has waited a millisecond, so a waiter is not starved, and the probe     *)
(* loop ends at its deadline, at which it looks once per round (strong).   *)
(* A killed process dies.  No server is assumed to answer the probe, to    *)
(* heed TERM, or to fail, and no caller to go away.                        *)
(***************************************************************************)
Acquire(c) ==
  \/ EnterUnknown(c) \/ EnterLoaded(c) \/ EnterLoad(c)
  \/ StopNothing(c) \/ StopTake(c)

FairClient(c) ==
  /\ SF_vars(Acquire(c) \/ ProbeQuit(c))
  /\ WF_vars(LoadStep(c) \/ StopStep(c))

FairWorker(w) ==
  /\ SF_vars(WatchExit(w))
  /\ WF_vars(ReapKill(w) \/ ReapDone(w) \/ WaitReturn(w))
  /\ WF_vars(sig[w] = "KILL" /\ Exit(w))

FairSpec ==
  /\ Spec
  /\ \A c \in Clients : FairClient(c)
  /\ \A w \in Workers : FairWorker(w)
-----------------------------------------------------------------------------
(* Properties *)

Condemned(w) ==
  \/ sig[w] = "KILL"
  \/ reaper[w] = "grace" /\ sig[w] = "TERM"
  \/ \E c \in Clients : pc[c] \in {"sterm", "swait"} /\ mine[c] = w

\* No worker process is ever leaked: each one that is alive is the group's
\* worker, or has been killed, or is being put down by a goroutine that will
\* kill it if it has to (the reaper of a swap, or Stop).  Workers run in their
\* own process group and outlive every request, so nothing else would end one.
NoForgottenWorker ==
  \A w \in Workers : Alive(w) => worker = w \/ Condemned(w)

\* When no load is under way, the group's worker was spawned for the member
\* the group says is current, that member is registered, and a watchExit
\* goroutine waits for its death: a death is never missed.
LoadedIsWatched ==
  worker # NoWorker /\ (\A c \in Clients : pc[c] \notin {"probe", "get"}) =>
    /\ Alive(worker) => current = model[worker]
    /\ current \in members
    /\ watch[worker]

\* Nobody is putting down the group's own worker: a late reaper, Stop or
\* failed load never hits the worker that took the place of its own.
LoadedNotCondemned ==
  worker # NoWorker =>
    /\ sig[worker] = "none"
    /\ reaper[worker] = "off"
    /\ ~Condemned(worker)

\* The lock is exactly around the steps of a load, so at most one load is
\* under way and it always knows its own worker.
LockedLoads ==
  \A c \in Clients :
    /\ mu = c <=> pc[c] \in LoadSteps
    /\ pc[c] = "spawn" => worker = NoWorker
    /\ pc[c] \in {"probe", "get"} => worker = mine[c] /\ current = NoMember

\* The death of the group's worker is noticed: the group does not go on
\* answering "already loaded", or probing, for a process that has exited.
Stale == worker # NoWorker /\ ~Alive(worker)
DeathIsNoticed == Stale ~> ~Stale

\* Every call returns: no load waits forever for a server that never answers,
\* no stop for a server that ignores TERM, and no waiter for the lock starves.
CallReturns ==
  \A c \in Clients : pc[c] # "idle" ~> pc[c] = "idle"

\* A listener that is not the group's worker loses the port in the end,
\* whatever the server does with TERM: the window in which a request may be
\* answered by a swapped-out member closes.
Foreign == port # NoWorker /\ port # worker
ForeignListenerLeaves == Foreign ~> ~Foreign

\* The member that callers see as loaded (Running).
Loaded == IF worker = NoWorker THEN NoMember ELSE current

Abstract == INSTANCE SlotSpec WITH
  registered <- members,
  loaded <- Loaded,
  busy <- {c \in Clients : pc[c] # "idle"},
  want <- arg

\* The group keeps the promises of SlotSpec: EnsureLoaded answers nil for a
\* member only at an instant at which it is the loaded one, and the loaded
\* member never changes without the slot being empty in between.
ImplementsSlotSpec == Abstract!Spec

\* README.md:41 ("the request's model field picks the active member") and the
\* comment of backend.Backend ("EnsureLoaded prepares the backend to serve a
\* request for name"): while a member is loaded, a server that answers on the
\* slot's port (one that has not been killed) is a server of that member.
LoadedAnswers ==
  current # NoMember /\ port # NoWorker /\ sig[port] # "KILL" => model[port] = current
=============================================================================
