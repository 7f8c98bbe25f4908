------------------------------- MODULE Observe -------------------------------
(***************************************************************************)
(* What a model server prints, on its way to whoever looks: the pipe of    *)
(* its stderr, the goroutines consumeStderr and wait of its Worker         *)
(* (internal/supervisor), the daily log (internal/logrot), the broker and  *)
(* its subscribers (internal/logobs): the store behind status              *)
(* (internal/obsstate) and the handlers of /v1/logs/tail (internal/admin). *)
(*                                                                         *)
(* A line is its number and its kind.  The queues are the pipe, which      *)
(* holds up the writer when it is full, and channels that drop: the        *)
(* worker's events, which nobody reads outside of tests, the oldest, and   *)
(* those of the subscribers the newest.  Start makes a Worker's goroutines *)
(* run; when it is called and when the process is killed is in Slot.       *)
(***************************************************************************)
EXTENDS Naturals, Sequences, FiniteSets

CONSTANTS
  Workers,   \* Worker objects, each with its process
  Names,     \* WorkerSpec.Name: the slot and its member
  NameOf,    \* of each worker; those of one member have one name
  Store,     \* the subscriber that is the store
  Tails,     \* the subscribers that are requests for /v1/logs/tail
  Prints,    \* the kinds of the lines that each worker prints
  PipeCap, TailCap, EventCap, SubCap, RingCap,  \* of the pipe, of stderrLines,
             \* of the channels of a worker and of a subscriber, of RecentTiming
  Days       \* bounds how long the daemon runs

Subs == Tails \cup {Store}
Kinds == {"progress", "timing", "mem", "plain", "long"}

ASSUME ObserveAssumption ==
  /\ NameOf \in [Workers -> Names]
  /\ Store \notin Tails
  /\ Prints \in [Workers -> Seq(Kinds)]
  /\ {PipeCap, TailCap, EventCap, SubCap, RingCap} \subseteq Nat \ {0}
  /\ Days \in Nat

VARIABLES
  proc,      \* the process of each worker
  printed,   \* how many lines it has printed
  pipe,      \* what is in its pipe
  buf,       \* what the scanner has read of it and not yet scanned
  broken,    \* cmd.Wait has closed the read end
  reader,    \* consumeStderr
  line,      \* the line it has read last
  tail,      \* w.stderrLines
  events,    \* w.events
  ended,     \* wait is over: w.events is closed and w.done has the result
  subs,      \* b.subs
  chan,      \* the channel of each subscriber
  closed,    \* it has been closed
  handler,   \* the goroutine that receives from it
  got,       \* the last line of each worker that it has received
  active,    \* ActiveReq of each name
  recent,    \* RecentTiming
  cur,       \* r.cur: "none" is nil, "shut" a file that has been closed
  curDay,    \* r.curDay
  today,     \* the local date
  panicked   \* something was sent on a closed channel

workerVars == <<proc, printed, pipe, buf, broken, reader, line, tail, events, ended>>
subVars == <<subs, chan, closed, handler, got>>
storeVars == <<active, recent>>
logVars == <<cur, curDay, today>>
vars == <<workerVars, subVars, storeVars, logVars, panicked>>

NoLine == [n |-> 0, kind |-> "plain"]
NoEvent == [w |-> CHOOSE w \in Workers : TRUE, n |-> 0, kind |-> "plain"]
LineSet == [n : Nat \ {0}, kind : Kinds]
EventSet == [w : Workers, n : Nat \ {0}, kind : Kinds]

\* Parse gives an event for what starts with "[mlx-launch] ", of any kind.
IsEvent(l) == l.kind \notin {"plain", "long"}

\* Faulty: what comes first stays.
KeepFirst(q, max) == IF Len(q) > max THEN SubSeq(q, 1, max) ELSE q

\* Faulty: the queue is not cut.
KeepAll(q, max) == q

\* The last max elements, of stderrLines and RecentTiming.
KeepLast(q, max) == IF Len(q) > max THEN SubSeq(q, Len(q) - max + 1, Len(q)) ELSE q

\* Faulty: what was taken out to make room is sent again.
SendsOldAgain(q, e) == IF Len(q) >= EventCap THEN Append(Tail(q), Head(q)) ELSE Append(q, e)

\* The channel of events makes room by giving up the oldest.
DropOldest(q, e) == Append(IF Len(q) >= EventCap THEN Tail(q) ELSE q, e)

Init ==
  /\ proc = [w \in Workers |-> "new"]
  /\ printed = [w \in Workers |-> 0]
  /\ pipe = [w \in Workers |-> <<>>]
  /\ buf = [w \in Workers |-> <<>>]
  /\ broken = [w \in Workers |-> FALSE]
  /\ reader = [w \in Workers |-> "none"]
  /\ line = [w \in Workers |-> NoLine]
  /\ tail = [w \in Workers |-> <<>>]
  /\ events = [w \in Workers |-> <<>>]
  /\ ended = [w \in Workers |-> FALSE]
  /\ subs = {Store}
  /\ chan = [s \in Subs |-> <<>>]
  /\ closed = [s \in Subs |-> FALSE]
  /\ handler = [s \in Subs |-> IF s = Store THEN "on" ELSE "new"]
  /\ got = [s \in Subs |-> [w \in Workers |-> 0]]
  /\ active = [m \in Names |-> NoEvent]
  /\ recent = [m \in Names |-> <<>>]
  /\ cur = "none" /\ curDay = 0 /\ today = 0
  /\ panicked = FALSE

-----------------------------------------------------------------------------
(* The process *)

\* Worker.Start: the process, consumeStderr and wait.
Start(w) ==
  /\ proc[w] = "new"
  /\ proc' = [proc EXCEPT ![w] = "running"]
  /\ reader' = [reader EXCEPT ![w] = "scan"]
  /\ UNCHANGED <<printed, pipe, buf, broken, line, tail, events, ended, subVars, storeVars,
                 logVars, panicked>>

\* The server prints a line, or waits in write(2) as long as the pipe is full.
PrintLine(w) ==
  LET n == printed[w] + 1 IN
  /\ proc[w] = "running"
  /\ n <= Len(Prints[w])
  /\ Len(pipe[w]) < PipeCap
  /\ printed' = [printed EXCEPT ![w] = n]
  /\ pipe' = [pipe EXCEPT ![w] = Append(@, [n |-> n, kind |-> Prints[w][n]])]
  /\ UNCHANGED <<proc, buf, broken, reader, line, tail, events, ended, subVars, storeVars,
                 logVars, panicked>>

\* It exits, or is killed.
Exit(w) ==
  /\ proc[w] = "running"
  /\ proc' = [proc EXCEPT ![w] = "exited"]
  /\ UNCHANGED <<printed, pipe, buf, broken, reader, line, tail, events, ended, subVars,
                 storeVars, logVars, panicked>>

-----------------------------------------------------------------------------
(* consumeStderr *)

readerFrame == <<proc, printed, broken, ended>>

\* The scanner takes whatever is in the pipe.
Fill(w) ==
  /\ reader[w] = "scan"
  /\ ~broken[w]
  /\ buf[w] = <<>>
  /\ pipe[w] # <<>>
  /\ buf' = [buf EXCEPT ![w] = pipe[w]]
  /\ pipe' = [pipe EXCEPT ![w] = <<>>]
  /\ UNCHANGED <<readerFrame, reader, line, tail, events, subVars, storeVars, logVars, panicked>>

\* Scan and stderrLines.
Scan(w) ==
  LET l == Head(buf[w]) IN
  /\ reader[w] = "scan"
  /\ buf[w] # <<>>
  /\ l.kind # "long"
  /\ buf' = [buf EXCEPT ![w] = Tail(@)]
  /\ line' = [line EXCEPT ![w] = l]
  /\ tail' = [tail EXCEPT ![w] = KeepLast(Append(@, l), TailCap)]
  /\ reader' = [reader EXCEPT ![w] = "log"]
  /\ UNCHANGED <<readerFrame, pipe, events, subVars, storeVars, logVars, panicked>>

\* A line that does not fit into the scanner's buffer, a pipe that has been
\* closed, or its end.
ScanEnds(w) ==
  /\ reader[w] = "scan"
  /\ IF buf[w] # <<>> THEN Head(buf[w]).kind = "long"
     ELSE broken[w] \/ (pipe[w] = <<>> /\ proc[w] = "exited")
  /\ reader' = [reader EXCEPT ![w] = "gone"]
  /\ UNCHANGED <<readerFrame, pipe, buf, line, tail, events, subVars, storeVars, logVars,
                 panicked>>

\* Faulty: the day is noted before the file is open.
DayNoted == curDay' = today

DayKept == UNCHANGED curDay

\* openLocked: the new day's file is opened, or that fails, the old one closed.
Opened == cur' = "open" /\ curDay' = today
OpenErr == cur' = (IF cur = "none" THEN "none" ELSE "shut") /\ DayKept

\* Rotator.Write, by the worker's logger.
Log(w) ==
  /\ reader[w] = "log"
  /\ IF cur = "none" \/ curDay # today THEN Opened \/ OpenErr ELSE UNCHANGED <<cur, curDay>>
  /\ reader' = [reader EXCEPT ![w] = IF IsEvent(line[w]) THEN "emit" ELSE "scan"]
  /\ UNCHANGED <<readerFrame, pipe, buf, line, tail, events, subVars, storeVars, today, panicked>>

EventOf(w) == [w |-> w, n |-> line[w].n, kind |-> line[w].kind]

\* Faulty: a subscriber that is slow is waited for.
NoneFull == \A s \in subs : Len(chan[s]) < SubCap

\* select with a default: whatever the subscribers do, Publish goes on.
MayPublish == TRUE

\* The event goes to w.events and, under b.mu, to the subscribers that have room.
Emit(w) ==
  /\ reader[w] = "emit"
  /\ MayPublish
  /\ events' = [events EXCEPT ![w] = DropOldest(@, EventOf(w))]
  /\ chan' = [s \in Subs |->
       IF s \in subs /\ Len(chan[s]) < SubCap THEN Append(chan[s], EventOf(w)) ELSE chan[s]]
  /\ panicked' = (panicked \/ ended[w] \/ \E s \in subs : closed[s])
  /\ reader' = [reader EXCEPT ![w] = "scan"]
  /\ UNCHANGED <<readerFrame, pipe, buf, line, tail, subs, closed, handler, got, storeVars, logVars>>

-----------------------------------------------------------------------------
(* wait *)

\* cmd.Wait returns, and closes the read end whether it has been read or not.
WaitReturns(w) ==
  /\ proc[w] = "exited"
  /\ ~broken[w]
  /\ broken' = [broken EXCEPT ![w] = TRUE]
  /\ pipe' = [pipe EXCEPT ![w] = <<>>]
  /\ UNCHANGED <<proc, printed, buf, reader, line, tail, events, ended, subVars, storeVars,
                 logVars, panicked>>

\* Faulty: wait does not wait for the reader.
AtOnce(w) == TRUE

\* Faulty: a reader that gives up does not say so.
AtTheEnd(w) == reader[w] = "gone" /\ buf[w] = <<>>

\* stderrDone is closed.
StderrDone(w) == reader[w] = "gone"

WaitEnds(w) ==
  /\ broken[w]
  /\ ~ended[w]
  /\ StderrDone(w)
  /\ ended' = [ended EXCEPT ![w] = TRUE]
  /\ UNCHANGED <<proc, printed, pipe, buf, broken, reader, line, tail, events, subVars, storeVars,
                 logVars, panicked>>

-----------------------------------------------------------------------------
(* Subscribers *)

subFrame == <<workerVars, logVars, panicked>>

\* A request for /v1/logs/tail, and its Subscribe.
Subscribe(s) ==
  /\ s \in Tails
  /\ handler[s] = "new"
  /\ subs' = subs \cup {s}
  /\ handler' = [handler EXCEPT ![s] = "on"]
  /\ UNCHANGED <<subFrame, storeVars, chan, closed, got>>

\* The client goes away: the request's context is canceled.
Cancel(s) ==
  /\ s \in Tails
  /\ handler[s] = "on"
  /\ handler' = [handler EXCEPT ![s] = "canceled"]
  /\ UNCHANGED <<subFrame, storeVars, subs, chan, closed, got>>

\* Faulty: the channel stays among those that are published to.
StillThere(s) == subs

Removed(s) == subs \ {s}

\* The goroutine of Subscribe, under b.mu.
Unsubscribe(s) ==
  /\ s \in subs \cap Tails
  /\ handler[s] \in {"canceled", "off"}
  /\ ~closed[s]
  /\ subs' = Removed(s)
  /\ closed' = [closed EXCEPT ![s] = TRUE]
  /\ UNCHANGED <<subFrame, storeVars, chan, handler, got>>

\* Faulty: a request that is over stays.
KeepsActive(m) == active[m]

AfterTiming(m) == NoEvent

\* Store.Apply.
Apply(e) ==
  LET m == NameOf[e.w] IN
  /\ active' = [active EXCEPT ![m] = CASE e.kind = "progress" -> e
                                       [] e.kind = "timing" -> AfterTiming(m)
                                       [] OTHER -> @]
  /\ recent' = [recent EXCEPT ![m] =
       IF e.kind = "timing" THEN KeepLast(Append(@, e), RingCap) ELSE @]

\* An event is received, and stored or written to the client.
Receive(s) ==
  LET e == Head(chan[s]) IN
  /\ handler[s] \in {"on", "canceled"}
  /\ chan[s] # <<>>
  /\ chan' = [chan EXCEPT ![s] = Tail(@)]
  /\ got' = [got EXCEPT ![s][e.w] = e.n]
  /\ IF s = Store THEN Apply(e) ELSE UNCHANGED storeVars
  /\ UNCHANGED <<subFrame, subs, closed, handler>>

\* A tail ends when its channel is empty and closed, or it cannot write to a
\* client that is gone.
TailEnds(s) ==
  /\ handler[s] = "canceled"
  /\ chan[s] # <<>> \/ closed[s]
  /\ handler' = [handler EXCEPT ![s] = "off"]
  /\ chan' = [chan EXCEPT ![s] = <<>>]
  /\ UNCHANGED <<subFrame, storeVars, subs, closed, got>>

\* Midnight.
NewDay ==
  /\ today < Days
  /\ today' = today + 1
  /\ UNCHANGED <<workerVars, subVars, storeVars, cur, curDay, panicked>>

-----------------------------------------------------------------------------
ReaderStep(w) == Fill(w) \/ Scan(w) \/ ScanEnds(w) \/ Log(w) \/ Emit(w)

WorkerStep(w) ==
  \/ Start(w) \/ Exit(w) \/ PrintLine(w)
  \/ ReaderStep(w) \/ WaitReturns(w) \/ WaitEnds(w)

SubStep(s) == Subscribe(s) \/ Cancel(s) \/ Unsubscribe(s) \/ Receive(s) \/ TailEnds(s)

Next ==
  \/ \E w \in Workers : WorkerStep(w)
  \/ \E s \in Subs : SubStep(s)
  \/ NewDay

Spec == Init /\ [][Next]_vars

\* Goroutines that can go on do, and a client that is gone makes its handler
\* end.  A client that is there need not read, and a server need not print.
Fairness ==
  /\ \A w \in Workers : WF_vars(ReaderStep(w)) /\ WF_vars(WaitReturns(w)) /\ WF_vars(WaitEnds(w))
  /\ WF_vars(Receive(Store))
  /\ \A s \in Tails : WF_vars(Unsubscribe(s))
                     /\ WF_vars(handler[s] = "canceled" /\ (Receive(s) \/ TailEnds(s)))

FairSpec == Spec /\ Fairness

-----------------------------------------------------------------------------
(* Properties *)

TypeOK ==
  /\ proc \in [Workers -> {"new", "running", "exited"}]
  /\ printed \in [Workers -> Nat]
  /\ pipe \in [Workers -> Seq(LineSet)] /\ \A w \in Workers : Len(pipe[w]) <= PipeCap
  /\ buf \in [Workers -> Seq(LineSet)] /\ \A w \in Workers : Len(buf[w]) <= PipeCap
  /\ broken \in [Workers -> BOOLEAN]
  /\ reader \in [Workers -> {"none", "scan", "log", "emit", "gone"}]
  /\ line \in [Workers -> LineSet \cup {NoLine}]
  /\ tail \in [Workers -> Seq(LineSet)] /\ \A w \in Workers : Len(tail[w]) <= TailCap
  /\ events \in [Workers -> Seq(EventSet)] /\ \A w \in Workers : Len(events[w]) <= EventCap
  /\ ended \in [Workers -> BOOLEAN]
  /\ subs \subseteq Subs
  /\ chan \in [Subs -> Seq(EventSet)] /\ \A s \in Subs : Len(chan[s]) <= SubCap
  /\ closed \in [Subs -> BOOLEAN]
  /\ handler \in [Subs -> {"new", "on", "canceled", "off"}]
  /\ got \in [Subs -> [Workers -> Nat]]
  /\ active \in [Names -> EventSet \cup {NoEvent}]
  /\ recent \in [Names -> Seq(EventSet)] /\ \A m \in Names : Len(recent[m]) <= RingCap
  /\ cur \in {"none", "open", "shut"}
  /\ curDay \in 0..Days /\ today \in 0..Days
  /\ panicked \in BOOLEAN

\* worker.go:91, :139 ("else: send on closed channel"), broker.go:30: nothing is
\* sent on a channel that has been closed, which would end the daemon: neither
\* by a reader whose process is gone nor to a request that has gone away.
NoSendOnClosed == ~panicked

\* The lines of one worker that are in a queue are in the order in which they
\* were printed, each at most once.
Increasing(q) ==
  \A i, j \in 1..Len(q) : i < j /\ q[i].w = q[j].w => q[i].n < q[j].n

\* What was dropped leaves gaps, but nobody sees a line of a worker twice, after
\* a later one, or before the worker's tail has it: not the readers of the
\* events, of a tail or of the timings of a slot's member, behind which there
\* may be a worker that is gone and its successor.
InOrder ==
  /\ \A w \in Workers : Increasing(events[w])
  /\ \A s \in Subs : Increasing(chan[s])
  /\ \A s \in Subs : \A i \in 1..Len(chan[s]) :
       chan[s][i].n > got[s][chan[s][i].w] /\ chan[s][i].n <= line[chan[s][i].w].n
  /\ \A m \in Names : Increasing(recent[m])

\* The last line of each worker that is logged and, if it is an event, published.
Reached ==
  [w \in Workers |-> IF reader[w] \in {"log", "emit"} THEN line[w].n - 1 ELSE line[w].n]

\* The requests of w, by the line that told of them last, that the store shows as
\* active or is about to.
Shown(w) ==
  {active[m].n : m \in {m \in Names : active[m] # NoEvent /\ active[m].w = w}} \cup
  {chan[Store][i].n : i \in {i \in 1..Len(chan[Store]) :
                              chan[Store][i].w = w /\ chan[Store][i].kind = "progress"}}

OnItsWay(w, n) == \E i \in 1..Len(chan[Store]) : chan[Store][i].w = w /\ chan[Store][i].n = n

\* The completions that w has reported after such a request and that the store
\* will never hear of.
Missed(w) ==
  {n \in 1..Reached[w] :
     Prints[w][n] = "timing" /\ ~OnItsWay(w, n) /\ \E k \in Shown(w) : k < n}

\* state.go:54 ("request complete"): status may show a request as active for
\* good after its worker has reported a completion, but only if the store's
\* channel was full at that moment: nothing that happens later to what is
\* queued, in whatever order it is received, loses a completion.
MissedIsDropped ==
  [][\A w \in Workers : \A n \in Missed(w)' \ Missed(w) :
       Emit(w) /\ n = line[w].n /\ Len(chan[Store]) = SubCap]_vars

\* group.go:296 ("a tail of its stderr so the real cause ... reaches the
\* caller"): a worker's tail is the last lines that were read, without a gap.
TailIsLatest ==
  \A w \in Workers :
    LET t == tail[w] IN
    /\ Len(t) = (IF line[w].n < TailCap THEN line[w].n ELSE TailCap)
    /\ \A i \in 1..Len(t) : t[i].n = line[w].n - Len(t) + i

\* rotator.go:33: the file that a line goes to without being opened first is
\* open, although an earlier day's change may have failed half way.
LogIsOpen == curDay = today => cur # "shut"

\* What workerExitErr reads after w.Done is final: nothing is added to the tail
\* or to the events of a worker that has reported its end.
DoneIsFinal ==
  [][\A w \in Workers : ended[w] => tail'[w] = tail[w] /\ events'[w] = events[w]]_vars

\* broker.go:8 ("Drop-on-slow-consumer (best-effort)"): a server that prints is
\* not held up for ever by clients that do not read, nor by a log that cannot
\* be written, unless it has printed a line that the scanner cannot take.
NeverHeldUp ==
  \A w \in Workers :
    Len(pipe[w]) = PipeCap ~> Len(pipe[w]) < PipeCap \/ reader[w] = "gone"

\* The end of a process is reported on w.Done, which the slot waits for.
ExitIsReported == \A w \in Workers : proc[w] = "exited" ~> ended[w]

\* handlers.go:375, broker.go:30: when its client goes away a tail ends, and the
\* broker forgets its channel.
TailLeaves ==
  \A s \in Tails : handler[s] = "canceled" ~> handler[s] = "off" /\ s \notin subs
=============================================================================
