---------------------------- MODULE ObserveProofs ----------------------------
(***************************************************************************)
(* What a server prints reaches everyone in order and nothing is sent on a *)
(* closed channel, for any number of workers and subscribers, lines and    *)
(* capacities.  ObserveInv is the inductive invariant: it numbers the      *)
(* lines that are on their way (Stream), and says how far each of those    *)
(* who look can have got (Behind).                                         *)
(***************************************************************************)
EXTENDS Observe, SequenceTheorems, TLAPS

-----------------------------------------------------------------------------
(* The queues *)

\* KeepLast keeps the last elements, all of them if there is room.
LEMMA LastOnes ==
  ASSUME NEW S, NEW q \in Seq(S), NEW max \in Nat \ {0}
  PROVE  /\ KeepLast(q, max) \in Seq(S)
         /\ Len(KeepLast(q, max)) = IF Len(q) > max THEN max ELSE Len(q)
         /\ Len(KeepLast(q, max)) <= max
         /\ \A i \in 1..Len(KeepLast(q, max)) :
              KeepLast(q, max)[i] = q[Len(q) - Len(KeepLast(q, max)) + i]
<1>1. CASE Len(q) > max
  <2>1. KeepLast(q, max) = SubSeq(q, Len(q) - max + 1, Len(q))
    BY <1>1 DEF KeepLast
  <2>2. \A i \in Len(q) - max + 1 .. Len(q) : q[i] \in S
    BY <1>1
  <2> DEFINE m == Len(q) - max + 1
  <2>3. m \in Int /\ Len(q) \in Int /\ m <= Len(q) /\ Len(q) - m + 1 = max
    BY <1>1
  <2>4. /\ SubSeq(q, m, Len(q)) \in Seq(S)
        /\ Len(SubSeq(q, m, Len(q))) = max
        /\ \A i \in 1..max : SubSeq(q, m, Len(q))[i] = q[m + i - 1]
    <3> HIDE DEF m
    <3>1. \A i \in m..Len(q) : q[i] \in S
      BY <2>2 DEF m
    <3>2. QED
      BY <2>3, <3>1, SubSeqProperties
  <2>5. \A i \in 1..max : m + i - 1 = Len(q) - max + i
    BY <2>3
  <2>6. QED
    BY <1>1, <2>1, <2>4, <2>5
<1>2. CASE ~(Len(q) > max)
  BY <1>2 DEF KeepLast
<1>3. QED
  BY <1>1, <1>2

LEMMA Elements ==
  ASSUME NEW q \in Seq(EventSet), NEW i \in 1..Len(q)
  PROVE  q[i] \in EventSet /\ q[i].w \in Workers /\ q[i].n \in Nat
<1>1. q[i] \in EventSet
  BY ElementOfSeq
<1>2. QED
  BY <1>1 DEF EventSet

\* What is sent last must be later than what of its worker is queued.
LEMMA AppendInOrder ==
  ASSUME NEW q \in Seq(EventSet), NEW e \in EventSet, Increasing(q),
         \A i \in 1..Len(q) : q[i].w = e.w => q[i].n < e.n
  PROVE  Increasing(Append(q, e))
<1>1. /\ Len(Append(q, e)) = Len(q) + 1
      /\ Append(q, e)[Len(q) + 1] = e
      /\ \A i \in 1..Len(q) : Append(q, e)[i] = q[i]
  BY AppendProperties
<1> DEFINE a == Append(q, e)
<1> SUFFICES ASSUME NEW i \in 1..Len(a), NEW j \in 1..Len(a), i < j, a[i].w = a[j].w
             PROVE  a[i].n < a[j].n
  BY DEF Increasing
<1>2. i \in 1..Len(q) /\ a[i] = q[i]
  BY <1>1
<1>3. CASE j = Len(q) + 1
  BY <1>1, <1>2, <1>3
<1>4. CASE j \in 1..Len(q)
  BY <1>1, <1>2, <1>4 DEF Increasing
<1>5. QED
  BY <1>1, <1>3, <1>4

\* A queue that loses its head stays in order, and the others of the head's
\* worker are later than the head.
LEMMA TailInOrder ==
  ASSUME NEW q \in Seq(EventSet), Increasing(q), q # <<>>
  PROVE  /\ Tail(q) \in Seq(EventSet)
         /\ Len(Tail(q)) = Len(q) - 1
         /\ Head(q) = q[1] /\ Head(q) \in EventSet
         /\ \A i \in 1..Len(Tail(q)) : Tail(q)[i] = q[i + 1] /\ i + 1 \in 1..Len(q)
         /\ Increasing(Tail(q))
         /\ \A i \in 1..Len(Tail(q)) : Tail(q)[i].w = Head(q).w => Head(q).n < Tail(q)[i].n
<1>1. /\ Tail(q) \in Seq(EventSet)
      /\ Len(Tail(q)) = Len(q) - 1
      /\ Head(q) = q[1] /\ Head(q) \in EventSet
      /\ \A i \in 1..Len(Tail(q)) : Tail(q)[i] = q[i + 1] /\ i + 1 \in 1..Len(q)
  BY HeadTailProperties
<1>2. Len(q) \in Nat /\ 1 \in 1..Len(q)
  BY EmptySeq, LenProperties
<1>3. Increasing(Tail(q))
  <2> SUFFICES ASSUME NEW i \in 1..Len(Tail(q)), NEW j \in 1..Len(Tail(q)), i < j,
                      Tail(q)[i].w = Tail(q)[j].w
               PROVE  Tail(q)[i].n < Tail(q)[j].n
    BY DEF Increasing
  <2>1. i + 1 < j + 1 /\ q[i + 1].w = q[j + 1].w
    BY <1>1, <1>2
  <2>2. QED
    BY <1>1, <2>1 DEF Increasing
<1>4. ASSUME NEW i \in 1..Len(Tail(q)), Tail(q)[i].w = Head(q).w
      PROVE  Head(q).n < Tail(q)[i].n
  <2>1. 1 < i + 1 /\ i + 1 \in 1..Len(q) /\ q[i + 1].w = q[1].w
    BY <1>1, <1>2, <1>4
  <2>2. q[1].n < q[i + 1].n
    BY <1>2, <2>1 DEF Increasing
  <2>3. QED
    BY <1>1, <2>2
<1>5. QED
  BY <1>1, <1>3, <1>4

\* So does one of which only the last elements are kept.
LEMMA LastInOrder ==
  ASSUME NEW q \in Seq(EventSet), Increasing(q), NEW max \in Nat \ {0}
  PROVE  Increasing(KeepLast(q, max))
<1> DEFINE k == KeepLast(q, max)
           d == Len(q) - Len(k)
<1>1. /\ Len(k) = (IF Len(q) > max THEN max ELSE Len(q))
      /\ \A i \in 1..Len(k) : k[i] = q[d + i]
  BY LastOnes
<1>2. d \in Nat /\ Len(k) \in Nat /\ Len(q) = d + Len(k)
  BY <1>1, LenProperties
<1> HIDE DEF k, d
<1> SUFFICES ASSUME NEW i \in 1..Len(k), NEW j \in 1..Len(k), i < j, k[i].w = k[j].w
             PROVE  k[i].n < k[j].n
  BY DEF Increasing, k
<1> USE <1>2
<1>3. d + i \in 1..Len(q) /\ d + j \in 1..Len(q) /\ d + i < d + j
  OBVIOUS
<1>4. k[i] = q[d + i] /\ k[j] = q[d + j]
  BY <1>1
<1>5. QED
  BY <1>3, <1>4 DEF Increasing

\* The channel of a worker's events: bounded, and in order.
LEMMA DropOldestKeeps ==
  ASSUME NEW q \in Seq(EventSet), NEW e \in EventSet, Increasing(q), Len(q) <= EventCap,
         \A i \in 1..Len(q) : q[i].w = e.w => q[i].n < e.n
  PROVE  /\ DropOldest(q, e) \in Seq(EventSet)
         /\ Len(DropOldest(q, e)) <= EventCap
         /\ Increasing(DropOldest(q, e))
         /\ \A i \in 1..Len(DropOldest(q, e)) :
              DropOldest(q, e)[i] = e \/ \E j \in 1..Len(q) : DropOldest(q, e)[i] = q[j]
<1> DEFINE r == IF Len(q) >= EventCap THEN Tail(q) ELSE q
<1>0. EventCap \in Nat \ {0}
  BY ObserveAssumption
<1>1. /\ r \in Seq(EventSet) /\ Len(r) < EventCap
      /\ Increasing(r)
      /\ \A i \in 1..Len(r) : \E j \in 1..Len(q) : r[i] = q[j]
  <2>1. CASE Len(q) >= EventCap
    <3>1. q # <<>>
      BY <1>0, <2>1
    <3>2. QED
      BY <1>0, <2>1, <3>1, TailInOrder
  <2>2. CASE ~(Len(q) >= EventCap)
    BY <1>0, <2>2
  <2>3. QED
    BY <2>1, <2>2
<1>2. DropOldest(q, e) = Append(r, e)
  BY DEF DropOldest
<1>3. \A i \in 1..Len(r) : r[i].w = e.w => r[i].n < e.n
  BY <1>1
<1> HIDE DEF r
<1>4. Increasing(Append(r, e))
  BY <1>1, <1>3, AppendInOrder
<1>5. /\ Append(r, e) \in Seq(EventSet)
      /\ Len(Append(r, e)) <= EventCap
      /\ \A i \in 1..Len(Append(r, e)) :
           Append(r, e)[i] = e \/ \E j \in 1..Len(q) : Append(r, e)[i] = q[j]
  BY <1>0, <1>1
<1>6. QED
  BY <1>2, <1>4, <1>5

-----------------------------------------------------------------------------
(* The invariant *)

\* Who closes a channel knows that its sender has stopped.
Sealed ==
  /\ ~panicked
  /\ \A w \in Workers : ended[w] => reader[w] = "gone" /\ broken[w]
  /\ \A w \in Workers : broken[w] => proc[w] = "exited"
  /\ \A s \in Subs : closed[s] => s \notin subs /\ handler[s] \in {"canceled", "off"}

\* The lines on their way to the reader are numbered without a gap.
Stream ==
  \A w \in Workers :
    /\ reader[w] \in {"log", "emit"} => line[w] \in LineSet
    /\ \A i \in 1..Len(buf[w]) : buf[w][i].n = line[w].n + i
    /\ \A i \in 1..Len(pipe[w]) : pipe[w][i].n = line[w].n + Len(buf[w]) + i
    /\ ~broken[w] => printed[w] = line[w].n + Len(buf[w]) + Len(pipe[w])

\* Nobody is ahead of the reader, nor status of the store.
Behind ==
  /\ \A w \in Workers : \A i \in 1..Len(events[w]) : events[w][i].n <= Reached[events[w][i].w]
  /\ \A s \in Subs : \A i \in 1..Len(chan[s]) : chan[s][i].n <= Reached[chan[s][i].w]
  /\ \A s \in Subs : \A w \in Workers : got[s][w] <= Reached[w]
  /\ \A m \in Names : \A i \in 1..Len(recent[m]) : recent[m][i].n <= got[Store][recent[m][i].w]
  /\ \A m \in Names : active[m] # NoEvent => active[m].n <= got[Store][active[m].w]

LogInv == curDay <= today /\ LogIsOpen

ObserveInv ==
  /\ TypeOK
  /\ Sealed
  /\ Stream
  /\ TailIsLatest
  /\ Behind
  /\ InOrder
  /\ LogInv

LEMMA InitInv == Init => ObserveInv
<1> SUFFICES ASSUME Init PROVE ObserveInv
  OBVIOUS
<1> USE ObserveAssumption DEF Init
<1>1. TypeOK
  <2>1. /\ pipe \in [Workers -> Seq(LineSet)] /\ \A w \in Workers : Len(pipe[w]) <= PipeCap
        /\ buf \in [Workers -> Seq(LineSet)] /\ \A w \in Workers : Len(buf[w]) <= PipeCap
        /\ tail \in [Workers -> Seq(LineSet)] /\ \A w \in Workers : Len(tail[w]) <= TailCap
    OBVIOUS
  <2>2. /\ events \in [Workers -> Seq(EventSet)] /\ \A w \in Workers : Len(events[w]) <= EventCap
        /\ chan \in [Subs -> Seq(EventSet)] /\ \A s \in Subs : Len(chan[s]) <= SubCap
        /\ recent \in [Names -> Seq(EventSet)] /\ \A m \in Names : Len(recent[m]) <= RingCap
    OBVIOUS
  <2>3. /\ line \in [Workers -> LineSet \cup {NoLine}]
        /\ active \in [Names -> EventSet \cup {NoEvent}]
        /\ handler \in [Subs -> {"new", "on", "canceled", "off"}]
        /\ got \in [Subs -> [Workers -> Nat]]
    OBVIOUS
  <2>4. subs \subseteq Subs /\ curDay \in 0..Days /\ today \in 0..Days
    BY DEF Subs
  <2>5. QED
    BY <2>1, <2>2, <2>3, <2>4 DEF TypeOK
<1>2. Sealed /\ Stream /\ TailIsLatest
  BY DEF Sealed, Stream, TailIsLatest, NoLine
<1>3. Behind
  BY DEF Behind, Reached, NoLine, Subs
<1>4. InOrder
  BY DEF InOrder, Increasing
<1>5. LogInv
  BY DEF LogInv, LogIsOpen
<1>6. QED
  BY <1>1, <1>2, <1>3, <1>4, <1>5 DEF ObserveInv

-----------------------------------------------------------------------------
(* The types *)

LEMMA LineNumber ==
  ASSUME NEW l \in LineSet \cup {NoLine}
  PROVE  l.n \in Nat
BY DEF LineSet, NoLine

\* It is the line read last, or the one before.
LEMMA ReachedType ==
  ASSUME NEW w \in Workers
  PROVE  /\ TypeOK => /\ Reached[w] \in Int /\ Reached[w] <= line[w].n
                      /\ reader[w] \notin {"log", "emit"} => Reached[w] = line[w].n
                      /\ reader[w] \in {"log", "emit"} => Reached[w] = line[w].n - 1
                      /\ line[w].n \in Nat
         /\ TypeOK' => /\ Reached'[w] \in Int /\ Reached'[w] <= line'[w].n
                       /\ reader'[w] \notin {"log", "emit"} => Reached'[w] = line'[w].n
                       /\ reader'[w] \in {"log", "emit"} => Reached'[w] = line'[w].n - 1
                       /\ line'[w].n \in Nat
<1>1. ASSUME TypeOK
      PROVE  line[w] \in LineSet \cup {NoLine}
  BY <1>1 DEF TypeOK
<1>2. ASSUME TypeOK'
      PROVE  line'[w] \in LineSet \cup {NoLine}
  BY <1>2 DEF TypeOK
<1>3. /\ TypeOK => line[w].n \in Nat
      /\ TypeOK' => line'[w].n \in Nat
  BY <1>1, <1>2, LineNumber
<1>4. QED
  BY <1>3 DEF Reached

LEMMA EventOfIsEvent ==
  ASSUME TypeOK, Stream, NEW w \in Workers, reader[w] \in {"log", "emit"}
  PROVE  EventOf(w) \in EventSet /\ EventOf(w).w = w /\ EventOf(w).n = line[w].n
BY DEF Stream, EventOf, EventSet, LineSet

LEMMA ScanTypes ==
  ASSUME TypeOK, NEW w \in Workers, Scan(w)
  PROVE  TypeOK'
<1> USE DEF TypeOK
<1>1. /\ Head(buf[w]) \in LineSet
      /\ Tail(buf[w]) \in Seq(LineSet)
      /\ Len(Tail(buf[w])) <= PipeCap
  BY HeadTailProperties, ObserveAssumption DEF Scan
<1>2. /\ KeepLast(Append(tail[w], Head(buf[w])), TailCap) \in Seq(LineSet)
      /\ Len(KeepLast(Append(tail[w], Head(buf[w])), TailCap)) <= TailCap
  <2>1. Append(tail[w], Head(buf[w])) \in Seq(LineSet)
    BY <1>1
  <2>2. TailCap \in Nat \ {0}
    BY ObserveAssumption
  <2> HIDE DEF TypeOK
  <2>3. QED
    BY <2>1, <2>2, LastOnes
<1>3. /\ buf' = [buf EXCEPT ![w] = Tail(buf[w])]
      /\ tail' = [tail EXCEPT ![w] = KeepLast(Append(tail[w], Head(buf[w])), TailCap)]
      /\ line' = [line EXCEPT ![w] = Head(buf[w])]
      /\ reader' = [reader EXCEPT ![w] = "log"]
      /\ UNCHANGED <<proc, printed, broken, ended, pipe, events, subVars, storeVars, logVars,
                     panicked>>
  BY DEF Scan, readerFrame
<1>4. /\ buf' \in [Workers -> Seq(LineSet)] /\ \A x \in Workers : Len(buf'[x]) <= PipeCap
      /\ tail' \in [Workers -> Seq(LineSet)] /\ \A x \in Workers : Len(tail'[x]) <= TailCap
      /\ line' \in [Workers -> LineSet \cup {NoLine}]
      /\ reader' \in [Workers -> {"none", "scan", "log", "emit", "gone"}]
  BY <1>1, <1>2, <1>3
<1>5. QED
  BY <1>3, <1>4 DEF subVars, storeVars, logVars

LEMMA EmitTypes ==
  ASSUME TypeOK, Stream, NEW w \in Workers, Emit(w), InOrder, Behind
  PROVE  TypeOK'
<1> DEFINE e == EventOf(w)
<1>1. e \in EventSet /\ e.w = w /\ e.n = line[w].n /\ reader[w] = "emit"
  BY EventOfIsEvent DEF Emit
<1>2. DropOldest(events[w], e) \in Seq(EventSet) /\ Len(DropOldest(events[w], e)) <= EventCap
  <2>1. /\ events[w] \in Seq(EventSet)
        /\ Len(events[w]) <= EventCap
        /\ Increasing(events[w])
    BY DEF TypeOK, InOrder
  <2>2. \A i \in 1..Len(events[w]) : events[w][i].w = e.w => events[w][i].n < e.n
    <3>1. \A i \in 1..Len(events[w]) :
            events[w][i].n \in Nat /\ events[w][i].n <= Reached[events[w][i].w]
      BY Elements DEF TypeOK, Behind
    <3>2. e.n \in Nat /\ Reached[w] = e.n - 1
      BY <1>1, ReachedType DEF EventSet
    <3> HIDE DEF e
    <3>3. QED
      BY <1>1, <3>1, <3>2
  <2> HIDE DEF e
  <2>3. QED
    BY <1>1, <2>1, <2>2, DropOldestKeeps
<1>3. ASSUME NEW s \in Subs, Len(chan[s]) < SubCap
      PROVE  Append(chan[s], e) \in Seq(EventSet) /\ Len(Append(chan[s], e)) <= SubCap
  BY <1>1, <1>3, ObserveAssumption DEF TypeOK
<1> HIDE DEF e
<1>4. /\ events' = [events EXCEPT ![w] = DropOldest(events[w], e)]
      /\ chan' = [s \in Subs |->
           IF s \in subs /\ Len(chan[s]) < SubCap THEN Append(chan[s], e) ELSE chan[s]]
      /\ panicked' \in BOOLEAN
      /\ reader' = [reader EXCEPT ![w] = "scan"]
      /\ UNCHANGED <<proc, printed, broken, ended, pipe, buf, line, tail, subs, closed, handler,
                     got, storeVars, logVars>>
  BY DEF Emit, readerFrame, e, TypeOK
<1>5. /\ events' \in [Workers -> Seq(EventSet)] /\ \A x \in Workers : Len(events'[x]) <= EventCap
  BY <1>2, <1>4 DEF TypeOK
<1>6. chan' \in [Subs -> Seq(EventSet)] /\ \A s \in Subs : Len(chan'[s]) <= SubCap
  BY <1>3, <1>4 DEF TypeOK
<1>7. reader' \in [Workers -> {"none", "scan", "log", "emit", "gone"}]
  BY <1>4 DEF TypeOK
<1>8. QED
  BY <1>4, <1>5, <1>6, <1>7 DEF TypeOK, storeVars, logVars

LEMMA ReceiveTypes ==
  ASSUME TypeOK, NEW s \in Subs, Receive(s)
  PROVE  TypeOK'
<1> DEFINE e == Head(chan[s])
<1>1. /\ e \in EventSet
      /\ Tail(chan[s]) \in Seq(EventSet)
      /\ Len(Tail(chan[s])) <= SubCap
  BY HeadTailProperties, ObserveAssumption DEF Receive, TypeOK
<1>2. /\ chan' = [chan EXCEPT ![s] = Tail(chan[s])]
      /\ got' = [got EXCEPT ![s][e.w] = e.n]
      /\ IF s = Store THEN Apply(e) ELSE UNCHANGED storeVars
      /\ UNCHANGED <<subFrame, subs, closed, handler>>
  BY DEF Receive
<1> HIDE DEF e
<1>3. chan' \in [Subs -> Seq(EventSet)] /\ \A x \in Subs : Len(chan'[x]) <= SubCap
  BY <1>1, <1>2 DEF TypeOK
<1>4. got' \in [Subs -> [Workers -> Nat]]
  BY <1>1, <1>2 DEF TypeOK, EventSet
<1>5. /\ active' \in [Names -> EventSet \cup {NoEvent}]
      /\ recent' \in [Names -> Seq(EventSet)] /\ \A m \in Names : Len(recent'[m]) <= RingCap
  <2>1. CASE s # Store
    BY <1>2, <2>1 DEF TypeOK, storeVars
  <2>2. CASE s = Store
    <3> DEFINE m == NameOf[e.w]
    <3>1. m \in Names
      BY <1>1, ObserveAssumption DEF EventSet
    <3>2. /\ KeepLast(Append(recent[m], e), RingCap) \in Seq(EventSet)
          /\ Len(KeepLast(Append(recent[m], e), RingCap)) <= RingCap
      <4>1. Append(recent[m], e) \in Seq(EventSet) /\ RingCap \in Nat \ {0}
        BY <1>1, <3>1, ObserveAssumption DEF TypeOK
      <4>2. QED
        BY <4>1, LastOnes
    <3>3. Apply(e)
      BY <1>2, <2>2
    <3> HIDE DEF m
    <3>4. active' \in [Names -> EventSet \cup {NoEvent}]
      BY <1>1, <3>1, <3>3 DEF Apply, AfterTiming, TypeOK, m
    <3>5. recent' \in [Names -> Seq(EventSet)] /\ \A x \in Names : Len(recent'[x]) <= RingCap
      BY <1>1, <3>1, <3>2, <3>3 DEF Apply, TypeOK, m
    <3>6. QED
      BY <3>4, <3>5
  <2>3. QED
    BY <2>1, <2>2
<1>6. QED
  BY <1>2, <1>3, <1>4, <1>5 DEF TypeOK, subFrame, workerVars, logVars

LEMMA TypeStep == ObserveInv /\ [Next]_vars => TypeOK'
<1> SUFFICES ASSUME ObserveInv, [Next]_vars PROVE TypeOK'
  OBVIOUS
<1>0. TypeOK /\ Stream /\ InOrder /\ Behind /\ LogInv
  BY DEF ObserveInv
<1> USE DEF TypeOK, workerVars, subVars, storeVars, logVars
<1>1. ASSUME NEW w \in Workers, WorkerStep(w) PROVE TypeOK'
  <2>1. CASE Start(w) \/ Exit(w)
    BY <1>0, <2>1 DEF Start, Exit
  <2>2. CASE PrintLine(w)
    <3> DEFINE l == [n |-> printed[w] + 1, kind |-> Prints[w][printed[w] + 1]]
    <3>1. Prints[w][printed[w] + 1] \in Kinds
      <4>1. Prints[w] \in Seq(Kinds) /\ printed[w] \in Nat /\ printed[w] + 1 <= Len(Prints[w])
        BY <1>0, <2>2, ObserveAssumption DEF PrintLine
      <4>2. QED
        BY <4>1
    <3>2. l \in LineSet
      BY <1>0, <3>1 DEF LineSet
    <3>3. Append(pipe[w], l) \in Seq(LineSet) /\ Len(Append(pipe[w], l)) <= PipeCap
      BY <1>0, <2>2, <3>2, ObserveAssumption DEF PrintLine
    <3>4. pipe' = [pipe EXCEPT ![w] = Append(pipe[w], l)]
      BY <2>2 DEF PrintLine
    <3> HIDE DEF l
    <3>5. pipe' \in [Workers -> Seq(LineSet)] /\ \A x \in Workers : Len(pipe'[x]) <= PipeCap
      BY <1>0, <3>3, <3>4
    <3>6. QED
      BY <1>0, <2>2, <3>5 DEF PrintLine
  <2>3. CASE Fill(w)
    BY <1>0, <2>3, ObserveAssumption DEF Fill, readerFrame
  <2>4. CASE ScanEnds(w)
    BY <1>0, <2>4 DEF ScanEnds, readerFrame
  <2>5. CASE Log(w)
    BY <1>0, <2>5 DEF Log, readerFrame, Opened, OpenErr, DayKept
  <2>6. CASE WaitReturns(w)
    BY <1>0, <2>6, ObserveAssumption DEF WaitReturns
  <2>7. CASE WaitEnds(w)
    BY <1>0, <2>7 DEF WaitEnds
  <2>8. QED
    BY <1>0, <1>1, <2>1, <2>2, <2>3, <2>4, <2>5, <2>6, <2>7, ScanTypes, EmitTypes
       DEF WorkerStep, ReaderStep
<1>2. ASSUME NEW s \in Subs, SubStep(s) PROVE TypeOK'
  <2>1. CASE Subscribe(s) \/ Cancel(s) \/ Unsubscribe(s)
    BY <1>0, <2>1 DEF Subscribe, Cancel, Unsubscribe, Removed, subFrame
  <2>2. CASE TailEnds(s)
    BY <1>0, <2>2, ObserveAssumption DEF TailEnds, subFrame
  <2>3. QED
    BY <1>0, <1>2, <2>1, <2>2, ReceiveTypes DEF SubStep
<1>3. CASE NewDay
  BY <1>0, <1>3, ObserveAssumption DEF NewDay
<1>4. CASE UNCHANGED vars
  BY <1>0, <1>4 DEF vars
<1>5. QED
  BY <1>1, <1>2, <1>3, <1>4 DEF Next

-----------------------------------------------------------------------------
(* Channels that are closed, and the log *)

LEMMA SealedStep == ObserveInv /\ [Next]_vars => Sealed'
<1> SUFFICES ASSUME ObserveInv, [Next]_vars PROVE Sealed'
  OBVIOUS
<1> USE DEF workerVars, subVars, readerFrame, subFrame
<1>0. TypeOK /\ Sealed
  BY DEF ObserveInv
<1>1. ASSUME NEW w \in Workers, WorkerStep(w) PROVE Sealed'
  <2>1. CASE Start(w) \/ Exit(w) \/ PrintLine(w)
    <3>1. /\ UNCHANGED <<panicked, ended, broken, subs, closed, handler>>
          /\ \A x \in Workers : x # w => reader'[x] = reader[x] /\ proc'[x] = proc[x]
          /\ proc[w] = "exited" => UNCHANGED <<reader, proc>>
          /\ proc[w] = "running" => UNCHANGED reader
          /\ proc[w] # "exited"
      BY <1>0, <2>1 DEF Start, Exit, PrintLine, TypeOK
    <3>2. ~broken[w] /\ ~ended[w]
      BY <1>0, <3>1 DEF Sealed
    <3>3. QED
      BY <1>0, <3>1, <3>2 DEF Sealed
  <2>2. CASE Fill(w) \/ Scan(w) \/ ScanEnds(w) \/ Log(w)
    BY <1>0, <2>2 DEF Fill, Scan, ScanEnds, Log, Sealed, TypeOK
  <2>3. CASE Emit(w)
    <3>1. ~panicked /\ ~ended[w] /\ \A s \in subs : ~closed[s]
      BY <1>0, <2>3 DEF Emit, Sealed, TypeOK
    <3>2. panicked' = (panicked \/ ended[w] \/ \E s \in subs : closed[s])
      BY <2>3 DEF Emit
    <3>3. ~panicked'
      BY <3>1, <3>2, Zenon
    <3>4. QED
      BY <1>0, <2>3, <3>1, <3>3 DEF Emit, Sealed, TypeOK
  <2>4. CASE WaitReturns(w)
    BY <1>0, <2>4 DEF WaitReturns, Sealed, TypeOK
  <2>6. CASE WaitEnds(w)
    BY <1>0, <2>6 DEF WaitEnds, StderrDone, Sealed, TypeOK
  <2>5. QED
    BY <1>1, <2>1, <2>2, <2>3, <2>4, <2>6 DEF WorkerStep, ReaderStep
<1>2. ASSUME NEW s \in Subs, SubStep(s) PROVE Sealed'
  <2>1. CASE Subscribe(s)
    BY <1>0, <2>1 DEF Subscribe, Sealed, TypeOK
  <2>2. CASE Cancel(s) \/ TailEnds(s)
    <3>1. /\ UNCHANGED <<panicked, ended, reader, broken, proc, subs, closed>>
          /\ \A x \in Subs : handler'[x] = handler[x]
                              \/ handler[x] = "on" \/ handler'[x] = "off"
          /\ handler'[s] \in {"canceled", "off"}
          /\ \A x \in Subs : x # s => handler'[x] = handler[x]
      BY <1>0, <2>2 DEF Cancel, TailEnds, TypeOK
    <3>2. QED
      BY <1>0, <3>1 DEF Sealed
  <2>5. CASE Receive(s)
    <3>1. UNCHANGED <<panicked, ended, reader, broken, proc, subs, closed, handler>>
      BY <2>5 DEF Receive
    <3>2. QED
      BY <1>0, <3>1 DEF Sealed
  <2>3. CASE Unsubscribe(s)
    BY <1>0, <2>3 DEF Unsubscribe, Removed, Sealed, TypeOK
  <2>4. QED
    BY <1>2, <2>1, <2>2, <2>3, <2>5 DEF SubStep
<1>3. CASE NewDay \/ UNCHANGED vars
  BY <1>0, <1>3 DEF NewDay, vars, Sealed
<1>4. QED
  BY <1>1, <1>2, <1>3 DEF Next

LEMMA LogStep == ObserveInv /\ [Next]_vars => LogInv'
<1> SUFFICES ASSUME ObserveInv, [Next]_vars PROVE LogInv'
  OBVIOUS
<1> USE ObserveAssumption DEF workerVars, subVars, logVars, readerFrame, subFrame, LogInv, LogIsOpen
<1>0. curDay \in Nat /\ today \in Nat /\ LogInv
  BY DEF ObserveInv, TypeOK
<1>1. ASSUME NEW w \in Workers, WorkerStep(w) PROVE LogInv'
  <2>1. CASE Log(w)
    BY <1>0, <2>1 DEF Log, Opened, OpenErr, DayKept
  <2>2. CASE ~Log(w)
    BY <1>0, <1>1, <2>2
       DEF WorkerStep, ReaderStep, Start, Exit, PrintLine, Fill, Scan, ScanEnds, Emit, WaitReturns,
           WaitEnds
  <2>3. QED
    BY <2>1, <2>2
<1>2. ASSUME NEW s \in Subs, SubStep(s) PROVE LogInv'
  BY <1>0, <1>2 DEF SubStep, Subscribe, Cancel, Unsubscribe, Receive, TailEnds
<1>3. CASE NewDay \/ UNCHANGED vars
  BY <1>0, <1>3 DEF NewDay, vars
<1>4. QED
  BY <1>1, <1>2, <1>3 DEF Next

-----------------------------------------------------------------------------
(* The lines on their way, and the tail *)

LEMMA StreamStep == ObserveInv /\ TypeOK' /\ [Next]_vars => Stream' /\ TailIsLatest'
<1> DEFINE Goal == Stream' /\ TailIsLatest'
<1> SUFFICES ASSUME ObserveInv, TypeOK', [Next]_vars PROVE Goal
  OBVIOUS
<1> USE DEF workerVars, readerFrame, subFrame
<1>0. TypeOK /\ Stream /\ TailIsLatest /\ Sealed
  BY DEF ObserveInv
<1>1. ASSUME UNCHANGED <<line, reader, buf, pipe, broken, printed, tail>> PROVE Goal
  BY <1>0, <1>1 DEF Stream, TailIsLatest
<1>2. ASSUME NEW w \in Workers, WorkerStep(w) PROVE Goal
  <2>1. CASE Exit(w) \/ WaitEnds(w)
    BY <1>1, <2>1 DEF Exit, WaitEnds
  <2>2. CASE Start(w) \/ ScanEnds(w) \/ Log(w) \/ Emit(w)
    <3>1. /\ UNCHANGED <<line, buf, pipe, broken, printed, tail>>
          /\ \A x \in Workers : x # w => reader'[x] = reader[x]
          /\ reader'[w] \in {"log", "emit"} => reader[w] \in {"log", "emit"}
      BY <1>0, <2>2 DEF Start, ScanEnds, Log, Emit, TypeOK
    <3>2. QED
      BY <1>0, <3>1 DEF Stream, TailIsLatest
  <2>3. CASE PrintLine(w)
    <3> DEFINE l == [n |-> printed[w] + 1, kind |-> Prints[w][printed[w] + 1]]
    <3>1. /\ pipe' = [pipe EXCEPT ![w] = Append(pipe[w], l)]
          /\ printed' = [printed EXCEPT ![w] = printed[w] + 1]
          /\ UNCHANGED <<line, reader, buf, broken, tail>>
          /\ ~broken[w]
      BY <1>0, <2>3 DEF PrintLine, Sealed
    <3>2. /\ pipe[w] \in Seq(LineSet)
          /\ Append(pipe[w], l)[Len(pipe[w]) + 1] = l
          /\ Len(Append(pipe[w], l)) = Len(pipe[w]) + 1
          /\ \A i \in 1..Len(pipe[w]) : Append(pipe[w], l)[i] = pipe[w][i]
          /\ l.n = printed[w] + 1
      BY <1>0 DEF TypeOK
    <3> HIDE DEF l
    <3>3. TailIsLatest'
      BY <1>0, <3>1 DEF TailIsLatest
    <3>4. ASSUME NEW x \in Workers, x # w
          PROVE  /\ pipe'[x] = pipe[x] /\ printed'[x] = printed[x]
      BY <1>0, <3>1, <3>4 DEF TypeOK
    <3> DEFINE n == line[w].n
               b == Len(buf[w])
               p == Len(pipe[w])
    <3>5. /\ printed'[w] = printed[w] + 1 /\ pipe'[w] = Append(pipe[w], l)
          /\ printed[w] = n + b + p
          /\ n \in Nat /\ b \in Nat /\ p \in Nat
          /\ Len(pipe'[w]) = p + 1
      BY <1>0, <3>1, <3>2 DEF TypeOK, Stream, LineSet, NoLine
    <3>6. Stream'
      <4> SUFFICES ASSUME NEW x \in Workers
                   PROVE  /\ reader[x] \in {"log", "emit"} => line[x] \in LineSet
                          /\ \A i \in 1..Len(buf[x]) : buf[x][i].n = line[x].n + i
                          /\ \A i \in 1..Len(pipe'[x]) :
                               pipe'[x][i].n = line[x].n + Len(buf[x]) + i
                          /\ ~broken[x] =>
                               printed'[x] = line[x].n + Len(buf[x]) + Len(pipe'[x])
        BY <3>1 DEF Stream
      <4>1. CASE x # w
        BY <1>0, <3>4, <4>1 DEF Stream
      <4>2. CASE x = w
        <5>1. \A i \in 1..Len(pipe'[w]) : pipe'[w][i].n = n + b + i
          <6> SUFFICES ASSUME NEW i \in 1..Len(pipe'[w]) PROVE pipe'[w][i].n = n + b + i
            OBVIOUS
          <6>1. CASE i = p + 1
            <7>1. pipe'[w][i].n = printed[w] + 1
              BY <3>2, <3>5, <6>1
            <7> HIDE DEF n, b, p
            <7>2. QED
              BY <3>5, <6>1, <7>1
          <6>2. CASE i # p + 1
            <7>1. i \in 1..p
              <8> HIDE DEF n, b, p
              <8>1. QED
                BY <3>5, <6>2
            <7>2. pipe'[w][i] = pipe[w][i]
              BY <3>2, <3>5, <7>1
            <7>3. pipe[w][i].n = n + b + i
              BY <1>0, <7>1 DEF Stream
            <7>4. QED
              BY <7>2, <7>3
          <6>3. QED
            BY <6>1, <6>2
        <5>2. printed'[w] = n + b + Len(pipe'[w])
          <6> HIDE DEF n, b, p
          <6>1. QED
            BY <3>5
        <5>3. QED
          BY <1>0, <4>2, <5>1, <5>2 DEF Stream
      <4>3. QED
        BY <4>1, <4>2
    <3>7. QED
      BY <3>3, <3>6
  <2>4. CASE Fill(w)
    <3>1. /\ buf' = [buf EXCEPT ![w] = pipe[w]]
          /\ pipe' = [pipe EXCEPT ![w] = <<>>]
          /\ buf[w] = <<>> /\ Len(buf[w]) = 0
          /\ UNCHANGED <<line, reader, broken, printed, tail>>
      BY <2>4 DEF Fill
    <3>2. /\ line[w].n \in Nat /\ Len(pipe[w]) \in Nat
          /\ buf'[w] = pipe[w] /\ pipe'[w] = <<>> /\ Len(pipe'[w]) = 0
          /\ \A x \in Workers : x # w => buf'[x] = buf[x] /\ pipe'[x] = pipe[x]
      BY <1>0, <3>1 DEF TypeOK, LineSet, NoLine
    <3>3. Stream'
      BY <1>0, <3>1, <3>2 DEF Stream
    <3>4. QED
      BY <1>0, <3>1, <3>3 DEF TailIsLatest
  <2>5. CASE Scan(w)
    <3> DEFINE l == Head(buf[w])
               k == KeepLast(Append(tail[w], l), TailCap)
    <3>1. /\ buf' = [buf EXCEPT ![w] = Tail(buf[w])]
          /\ line' = [line EXCEPT ![w] = l]
          /\ tail' = [tail EXCEPT ![w] = k]
          /\ reader' = [reader EXCEPT ![w] = "log"]
          /\ UNCHANGED <<pipe, broken, printed>>
          /\ buf[w] # <<>>
      BY <2>5 DEF Scan
    <3>2. /\ l \in LineSet /\ l = buf[w][1]
          /\ Len(buf[w]) \in Nat \ {0} /\ Len(pipe[w]) \in Nat
          /\ Len(Tail(buf[w])) = Len(buf[w]) - 1
          /\ \A i \in 1..Len(Tail(buf[w])) : Tail(buf[w])[i] = buf[w][i + 1]
      <4>1. buf[w] \in Seq(LineSet) /\ pipe[w] \in Seq(LineSet)
        BY <1>0 DEF TypeOK
      <4>2. QED
        BY <3>1, <4>1, HeadTailProperties, EmptySeq, LenProperties
    <3>3. line[w].n \in Nat /\ l.n = line[w].n + 1
      BY <1>0, <3>2 DEF Stream, TypeOK, LineSet, NoLine
    <3>4. TailCap \in Nat \ {0}
      BY ObserveAssumption
    <3> DEFINE t == tail[w]
               a == Append(tail[w], l)
    <3>5. /\ t \in Seq(LineSet) /\ Len(t) \in Nat
          /\ a \in Seq(LineSet) /\ Len(a) = Len(t) + 1
          /\ a[Len(t) + 1] = l
          /\ \A i \in 1..Len(t) : a[i] = t[i]
      BY <1>0, <3>2 DEF TypeOK
    <3>6. /\ Len(t) = (IF line[w].n < TailCap THEN line[w].n ELSE TailCap)
          /\ \A i \in 1..Len(t) : t[i].n = line[w].n - Len(t) + i
      BY <1>0 DEF TailIsLatest
    <3>7. \A i \in 1..Len(a) : a[i].n = l.n - Len(a) + i
      <4> SUFFICES ASSUME NEW i \in 1..Len(a) PROVE a[i].n = l.n - Len(a) + i
        OBVIOUS
      <4> HIDE DEF a, t, l
      <4>1. CASE i = Len(t) + 1
        BY <3>3, <3>5, <4>1
      <4>2. CASE i # Len(t) + 1
        <5>1. i \in 1..Len(t)
          BY <3>5, <4>2
        <5>2. a[i].n = line[w].n - Len(t) + i
          BY <3>5, <3>6, <5>1
        <5>3. QED
          BY <3>3, <3>5, <5>1, <5>2
      <4>3. QED
        BY <4>1, <4>2
    <3>8. /\ Len(k) = (IF Len(a) > TailCap THEN TailCap ELSE Len(a))
          /\ \A i \in 1..Len(k) : k[i] = a[Len(a) - Len(k) + i]
      <4> HIDE DEF a, t, l
      <4>1. Len(KeepLast(a, TailCap)) = (IF Len(a) > TailCap THEN TailCap ELSE Len(a))
        BY <3>4, <3>5, LastOnes
      <4>2. \A i \in 1..Len(KeepLast(a, TailCap)) :
              KeepLast(a, TailCap)[i] = a[Len(a) - Len(KeepLast(a, TailCap)) + i]
        BY <3>4, <3>5, LastOnes
      <4>3. QED
        BY <4>1, <4>2 DEF a
    <3> HIDE DEF k, a, t, l
    <3>9. /\ Len(k) = (IF l.n < TailCap THEN l.n ELSE TailCap)
          /\ Len(k) \in Nat
      BY <3>3, <3>4, <3>5, <3>6, <3>8
    <3>10. ASSUME NEW i \in 1..Len(k) PROVE k[i].n = l.n - Len(k) + i
      <4>1. /\ Len(a) - Len(k) + i \in 1..Len(a)
            /\ l.n - Len(a) + (Len(a) - Len(k) + i) = l.n - Len(k) + i
        <5>1. Len(k) \in Nat /\ Len(a) \in Nat /\ Len(k) <= Len(a) /\ l.n \in Nat /\ i \in 1..Len(k)
          BY <3>3, <3>4, <3>5, <3>8, <3>9
        <5>2. \A x, y, n \in Nat : \A j \in 1..x : x <= y =>
                y - x + j \in 1..y /\ n - y + (y - x + j) = n - x + j
          OBVIOUS
        <5>3. QED
          BY <5>1, <5>2
      <4>2. QED
        BY <3>7, <3>8, <4>1
    <3>11. TailIsLatest'
      <4>1. ASSUME NEW x \in Workers, x # w PROVE tail'[x] = tail[x] /\ line'[x] = line[x]
        BY <1>0, <3>1, <4>1 DEF TypeOK
      <4>2. tail'[w] = k /\ line'[w] = l
        BY <1>0, <3>1 DEF TypeOK
      <4>3. QED
        BY <1>0, <3>9, <3>10, <4>1, <4>2 DEF TailIsLatest
    <3>12. Stream'
      <4>1. ASSUME NEW x \in Workers, x # w
            PROVE  buf'[x] = buf[x] /\ line'[x] = line[x] /\ reader'[x] = reader[x]
        BY <1>0, <3>1, <4>1 DEF TypeOK
      <4>2. buf'[w] = Tail(buf[w]) /\ line'[w] = l
        BY <1>0, <3>1 DEF TypeOK
      <4>3. \A i \in 1..Len(buf'[w]) : buf'[w][i].n = l.n + i
        <5> SUFFICES ASSUME NEW i \in 1..Len(buf'[w]) PROVE buf'[w][i].n = l.n + i
          OBVIOUS
        <5>1. i \in Nat /\ i + 1 \in 1..Len(buf[w]) /\ buf'[w][i] = buf[w][i + 1]
          BY <3>2, <4>2
        <5>2. buf[w][i + 1].n = line[w].n + (i + 1)
          BY <1>0, <5>1 DEF Stream
        <5>3. QED
          BY <3>3, <5>1, <5>2
      <4>4. l.n + Len(buf'[w]) = line[w].n + Len(buf[w])
        <5>1. Len(buf'[w]) = Len(buf[w]) - 1
          BY <3>2, <4>2
        <5>2. \A n, m \in Nat : (n + 1) + (m - 1) = n + m
          OBVIOUS
        <5>3. QED
          BY <3>2, <3>3, <5>1, <5>2
      <4>5. /\ \A i \in 1..Len(pipe[w]) : pipe[w][i].n = l.n + Len(buf'[w]) + i
            /\ ~broken[w] => printed[w] = l.n + Len(buf'[w]) + Len(pipe[w])
        BY <1>0, <4>4 DEF Stream
      <4>6. QED
        BY <1>0, <3>1, <3>2, <4>1, <4>2, <4>3, <4>5 DEF Stream
    <3>13. QED
      BY <3>11, <3>12
  <2>6. CASE WaitReturns(w)
    <3>1. /\ pipe' = [pipe EXCEPT ![w] = <<>>]
          /\ broken' = [broken EXCEPT ![w] = TRUE]
          /\ UNCHANGED <<line, reader, buf, printed, tail>>
      BY <2>6 DEF WaitReturns
    <3>2. /\ pipe'[w] = <<>> /\ Len(pipe'[w]) = 0 /\ broken'[w]
          /\ \A x \in Workers : x # w => pipe'[x] = pipe[x] /\ broken'[x] = broken[x]
      BY <1>0, <3>1 DEF TypeOK
    <3>3. QED
      BY <1>0, <3>1, <3>2 DEF Stream, TailIsLatest
  <2>7. QED
    BY <1>2, <2>1, <2>2, <2>3, <2>4, <2>5, <2>6 DEF WorkerStep, ReaderStep
<1>3. ASSUME NEW s \in Subs, SubStep(s) PROVE Goal
  BY <1>1, <1>3 DEF SubStep, Subscribe, Cancel, Unsubscribe, Receive, TailEnds
<1>4. CASE NewDay \/ UNCHANGED vars
  BY <1>1, <1>4 DEF NewDay, vars
<1>5. QED
  BY <1>2, <1>3, <1>4 DEF Next

-----------------------------------------------------------------------------
(* The order of what is seen *)

Order == Behind /\ InOrder

\* The reader gets on, and nobody else does.
LEMMA OrderGrows ==
  ASSUME TypeOK, TypeOK', Order, UNCHANGED <<events, chan, got, recent, active>>,
         \A w \in Workers : Reached[w] <= Reached'[w]
  PROVE  Order'
<1>0. \A w \in Workers : /\ Reached[w] \in Int /\ Reached'[w] \in Int /\ line'[w].n \in Int
                         /\ Reached'[w] <= line'[w].n
  BY ReachedType
<1>1. \A w \in Workers : \A i \in 1..Len(events[w]) :
        events[w][i].w \in Workers /\ events[w][i].n \in Nat
  BY Elements DEF TypeOK
<1>2. \A s \in Subs : \A i \in 1..Len(chan[s]) :
        chan[s][i].w \in Workers /\ chan[s][i].n \in Nat
  BY Elements DEF TypeOK
<1>3. \A s \in Subs : \A w \in Workers : got[s][w] \in Nat
  BY DEF TypeOK
<1> HIDE DEF Reached
<1>4. Behind'
  <2>1. \A w \in Workers : \A i \in 1..Len(events[w]) :
          events[w][i].n <= Reached'[events[w][i].w]
    BY <1>0, <1>1 DEF Order, Behind
  <2>2. \A s \in Subs : \A i \in 1..Len(chan[s]) : chan[s][i].n <= Reached'[chan[s][i].w]
    BY <1>0, <1>2 DEF Order, Behind
  <2>3. \A s \in Subs : \A w \in Workers : got[s][w] <= Reached'[w]
    BY <1>0, <1>3 DEF Order, Behind
  <2>4. QED
    BY <2>1, <2>2, <2>3 DEF Order, Behind
<1>5. InOrder'
  <2>1. \A s \in Subs : \A i \in 1..Len(chan[s]) : chan[s][i].n <= line'[chan[s][i].w].n
    BY <1>0, <1>2, <1>4 DEF Behind
  <2>2. QED
    BY <2>1 DEF Order, InOrder
<1>6. QED
  BY <1>4, <1>5 DEF Order

\* A line that is published is later than all that was.
LEMMA EmitOrder ==
  ASSUME TypeOK, TypeOK', Stream, Order, NEW w \in Workers, Emit(w)
  PROVE  Order'
<1>1. PICK e \in EventSet : e = EventOf(w) /\ e.w = w /\ e.n = line[w].n
  BY EventOfIsEvent DEF Emit
<1>2. /\ events' = [events EXCEPT ![w] = DropOldest(events[w], e)]
      /\ chan' = [s \in Subs |->
           IF s \in subs /\ Len(chan[s]) < SubCap THEN Append(chan[s], e) ELSE chan[s]]
      /\ reader[w] = "emit"
      /\ reader' = [reader EXCEPT ![w] = "scan"]
      /\ UNCHANGED <<line, got, active, recent>>
  BY <1>1 DEF Emit, storeVars
<1>3. /\ \A x \in Workers : Reached[x] \in Int /\ Reached'[x] \in Int /\ Reached[x] <= Reached'[x]
      /\ \A x \in Workers : Reached'[x] <= line'[x].n /\ line'[x].n \in Int
      /\ e.n = Reached'[w] /\ e.n = Reached[w] + 1 /\ e.n \in Nat
  <2> HIDE DEF Reached
  <2>1. \A x \in Workers : x # w => reader'[x] = reader[x]
    BY <1>2 DEF TypeOK
  <2>2. reader'[w] = "scan" /\ reader[w] = "emit"
    BY <1>2 DEF TypeOK
  <2>3. \A x \in Workers : line'[x] = line[x]
    BY <1>2
  <2>4. QED
    BY <1>1, <2>1, <2>2, <2>3, ReachedType
<1> HIDE DEF Reached
<1>4. ASSUME NEW x \in Workers
      PROVE  /\ Increasing(events'[x])
             /\ \A i \in 1..Len(events'[x]) : events'[x][i].n <= Reached'[events'[x][i].w]
  <2>1. PICK q \in Seq(EventSet) : q = events[x]
    BY DEF TypeOK
  <2>2. /\ Len(q) <= EventCap /\ Increasing(q)
        /\ \A i \in 1..Len(q) : q[i].n <= Reached[q[i].w]
    BY <2>1 DEF TypeOK, Order, InOrder, Behind
  <2>3. \A i \in 1..Len(q) : q[i].n <= Reached'[q[i].w]
    BY <1>3, <2>2, Elements
  <2>4. CASE x # w
    BY <1>2, <2>1, <2>2, <2>3, <2>4 DEF TypeOK
  <2>5. CASE x = w
    <3>1. \A i \in 1..Len(q) : q[i].w = e.w => q[i].n < e.n
      BY <1>1, <1>3, <2>2, Elements
    <3>2. PICK d : d = DropOldest(q, e)
      OBVIOUS
    <3>3. /\ Increasing(d)
          /\ \A i \in 1..Len(d) : d[i] = e \/ \E j \in 1..Len(q) : d[i] = q[j]
      BY <2>2, <3>1, <3>2, DropOldestKeeps
    <3>4. events'[x] = d
      BY <1>2, <2>1, <2>5, <3>2 DEF TypeOK
    <3>5. ASSUME NEW i \in 1..Len(d) PROVE d[i].n <= Reached'[d[i].w]
      <4>1. CASE d[i] = e
        <5>1. e.n <= Reached'[e.w]
          BY <1>1, <1>3
        <5>2. QED
          BY <4>1, <5>1
      <4>2. CASE d[i] # e
        BY <2>3, <3>3, <4>2
      <4>3. QED
        BY <4>1, <4>2
    <3>6. QED
      BY <3>3, <3>4, <3>5
  <2>6. QED
    BY <2>4, <2>5
<1>5. ASSUME NEW s \in Subs
      PROVE  /\ Increasing(chan'[s])
             /\ \A i \in 1..Len(chan'[s]) : /\ chan'[s][i].n <= Reached'[chan'[s][i].w]
                                            /\ chan'[s][i].n > got[s][chan'[s][i].w]
                                            /\ chan'[s][i].n <= line'[chan'[s][i].w].n
  <2>1. PICK q \in Seq(EventSet) : q = chan[s]
    BY DEF TypeOK
  <2>2. /\ Increasing(q)
        /\ \A i \in 1..Len(q) : q[i].n <= Reached[q[i].w] /\ q[i].n > got[s][q[i].w]
    BY <2>1 DEF Order, InOrder, Behind
  <2>3. \A i \in 1..Len(q) : q[i].n <= Reached'[q[i].w] /\ q[i].n <= line'[q[i].w].n
    BY <1>3, <2>2, Elements
  <2>4. CASE chan'[s] = q
    BY <2>2, <2>3, <2>4
  <2>5. CASE chan'[s] = Append(q, e)
    <3>1. \A i \in 1..Len(q) : q[i].w = e.w => q[i].n < e.n
      BY <1>1, <1>3, <2>2, Elements
    <3>2. PICK d : d = Append(q, e)
      OBVIOUS
    <3>3. /\ Increasing(d)
          /\ \A i \in 1..Len(d) : d[i] = e \/ \E j \in 1..Len(q) : d[i] = q[j]
      <4>1. Increasing(d)
        BY <2>2, <3>1, <3>2, AppendInOrder
      <4>2. \A i \in 1..Len(d) : d[i] = e \/ \E j \in 1..Len(q) : d[i] = q[j]
        BY <3>2
      <4>3. QED
        BY <4>1, <4>2
    <3>4. e.n > got[s][e.w] /\ e.n <= line'[e.w].n
      <4>1. got[s][w] \in Nat /\ got[s][w] <= Reached[w]
        BY DEF TypeOK, Order, Behind
      <4>2. e.n > got[s][w]
        <5>1. e.n = Reached[w] + 1 /\ Reached[w] \in Int
          BY <1>3
        <5>2. QED
          BY <4>1, <5>1
      <4>3. e.n <= line'[w].n
        BY <1>3
      <4>4. QED
        BY <1>1, <4>2, <4>3
    <3>5. ASSUME NEW i \in 1..Len(d)
          PROVE  /\ d[i].n <= Reached'[d[i].w]
                 /\ d[i].n > got[s][d[i].w]
                 /\ d[i].n <= line'[d[i].w].n
      <4>1. CASE d[i] = e
        <5>1. e.n <= Reached'[e.w]
          BY <1>1, <1>3
        <5>2. QED
          BY <3>4, <4>1, <5>1
      <4>2. CASE d[i] # e
        BY <2>2, <2>3, <3>3, <4>2
      <4>3. QED
        BY <4>1, <4>2
    <3>6. QED
      BY <2>5, <3>2, <3>3, <3>5
  <2>6. QED
    BY <1>2, <2>1, <2>4, <2>5
<1>6. Behind'
  <2>1. \A s \in Subs : \A x \in Workers : got[s][x] <= Reached'[x]
    <3>1. \A s \in Subs : \A x \in Workers : got[s][x] \in Nat /\ got[s][x] <= Reached[x]
      BY DEF TypeOK, Order, Behind
    <3>2. QED
      BY <1>3, <3>1
  <2>2. QED
    BY <1>2, <1>4, <1>5, <2>1 DEF Order, Behind
<1>7. InOrder'
  <2>1. \A m \in Names : Increasing(recent'[m])
    BY <1>2 DEF Order, InOrder
  <2>2. QED
    BY <1>2, <1>4, <1>5, <2>1 DEF InOrder
<1>8. QED
  BY <1>6, <1>7 DEF Order

\* What is received is later than what was, and so is what is still to come.
LEMMA ReceiveOrder ==
  ASSUME TypeOK, TypeOK', Order, NEW s \in Subs, Receive(s)
  PROVE  Order'
<1>1. PICK q \in Seq(EventSet) : q = chan[s]
  BY DEF TypeOK
<1>2. /\ Increasing(q) /\ q # <<>>
      /\ \A i \in 1..Len(q) : q[i].n <= Reached[q[i].w] /\ q[i].n > got[s][q[i].w]
      /\ \A i \in 1..Len(q) : q[i].n <= line[q[i].w].n
  BY <1>1 DEF Order, InOrder, Behind, Receive
<1>3. PICK e \in EventSet : e = Head(q)
  BY <1>2, TailInOrder
<1>4. PICK t \in Seq(EventSet) : t = Tail(q)
  BY <1>2, TailInOrder
<1>5. /\ e = q[1] /\ 1 \in 1..Len(q) /\ e.w \in Workers /\ e.n \in Nat
      /\ \A i \in 1..Len(t) : t[i] = q[i + 1] /\ i + 1 \in 1..Len(q)
      /\ Increasing(t)
      /\ \A i \in 1..Len(t) : t[i].w = e.w => e.n < t[i].n
  <2>1. Len(q) \in Nat /\ 1 \in 1..Len(q)
    BY <1>2, EmptySeq, LenProperties
  <2>2. e.w \in Workers /\ e.n \in Nat
    BY DEF EventSet
  <2>3. QED
    BY <1>2, <1>3, <1>4, <2>1, <2>2, TailInOrder
<1>6. /\ chan' = [chan EXCEPT ![s] = t]
      /\ got' = [got EXCEPT ![s][e.w] = e.n]
      /\ IF s = Store THEN Apply(e) ELSE UNCHANGED storeVars
      /\ UNCHANGED <<line, reader, events>>
  BY <1>1, <1>3, <1>4 DEF Receive, subFrame, workerVars
<1>7. Reached' = Reached
  BY <1>6 DEF Reached
<1>8. /\ \A x \in Subs : x # s => chan'[x] = chan[x] /\ got'[x] = got[x]
      /\ chan'[s] = t
      /\ got'[s][e.w] = e.n
      /\ \A w \in Workers : w # e.w => got'[s][w] = got[s][w]
  BY <1>5, <1>6 DEF TypeOK
<1>9. e.n <= Reached[e.w] /\ e.n > got[s][e.w]
  BY <1>2, <1>5
<1>10. \A w \in Workers : got[s][w] \in Nat /\ got'[s][w] \in Nat /\ got[s][w] <= got'[s][w]
  <2>1. got[s] \in [Workers -> Nat] /\ got'[s] \in [Workers -> Nat]
    BY DEF TypeOK
  <2>2. got[s][e.w] <= got'[s][e.w]
    BY <1>5, <1>8, <1>9, <2>1
  <2>3. ASSUME NEW w \in Workers
        PROVE  got[s][w] \in Nat /\ got'[s][w] \in Nat /\ got[s][w] <= got'[s][w]
    <3>1. got[s][w] \in Nat /\ got'[s][w] \in Nat
      BY <2>1
    <3>2. CASE w = e.w
      BY <2>2, <3>1, <3>2
    <3>3. CASE w # e.w
      <4>1. got'[s][w] = got[s][w]
        BY <1>8, <3>3
      <4>2. QED
        BY <3>1, <4>1
    <3>4. QED
      BY <3>2, <3>3
  <2>4. QED
    BY <2>3
<1> HIDE DEF Reached
<1>11. \A i \in 1..Len(t) : /\ t[i].n <= Reached[t[i].w]
                            /\ t[i].n > got'[s][t[i].w]
                            /\ t[i].n <= line[t[i].w].n
  <2> SUFFICES ASSUME NEW i \in 1..Len(t)
               PROVE  /\ t[i].n <= Reached[t[i].w]
                      /\ t[i].n > got'[s][t[i].w]
                      /\ t[i].n <= line[t[i].w].n
    OBVIOUS
  <2>1. /\ t[i].n <= Reached[t[i].w] /\ t[i].n > got[s][t[i].w] /\ t[i].n <= line[t[i].w].n
        /\ t[i].w \in Workers /\ t[i].n \in Nat
    BY <1>2, <1>5, Elements
  <2>2. t[i].n > got'[s][t[i].w]
    <3>1. CASE t[i].w = e.w
      BY <1>5, <1>8, <2>1, <3>1
    <3>2. CASE t[i].w # e.w
      BY <1>8, <2>1, <3>2
    <3>3. QED
      BY <3>1, <3>2
  <2>3. QED
    BY <2>1, <2>2
<1>12. ASSUME NEW m \in Names
       PROVE  /\ Increasing(recent'[m])
              /\ \A i \in 1..Len(recent'[m]) : recent'[m][i].n <= got'[Store][recent'[m][i].w]
              /\ active'[m] # NoEvent => active'[m].n <= got'[Store][active'[m].w]
  <2>1. PICK r \in Seq(EventSet) : r = recent[m]
    BY DEF TypeOK
  <2>2. /\ Increasing(r)
        /\ \A i \in 1..Len(r) : r[i].n <= got[Store][r[i].w]
        /\ active[m] # NoEvent => active[m].n <= got[Store][active[m].w]
        /\ active[m] # NoEvent => active[m] \in EventSet
    BY <2>1 DEF TypeOK, Order, Behind, InOrder
  <2>3. active[m] # NoEvent => active[m].w \in Workers /\ active[m].n \in Nat
    BY <2>2 DEF EventSet
  <2>4. /\ \A i \in 1..Len(r) : r[i].n <= got'[Store][r[i].w]
        /\ active[m] # NoEvent => active[m].n <= got'[Store][active[m].w]
    <3>1. CASE s = Store
      <4>1. ASSUME NEW x \in EventSet, x.n <= got[Store][x.w] PROVE x.n <= got'[Store][x.w]
        <5>1. x.w \in Workers /\ x.n \in Nat
          BY DEF EventSet
        <5>2. QED
          BY <1>10, <3>1, <4>1, <5>1
      <4>2. QED
        BY <2>2, <4>1, Elements
    <3>2. CASE s # Store
      BY <1>8, <2>2, <3>2 DEF Subs
    <3>3. QED
      BY <3>1, <3>2
  <2>5. CASE recent'[m] = r /\ active'[m] = active[m]
    BY <2>2, <2>4, <2>5
  <2>6. CASE s = Store /\ m = NameOf[e.w]
    <3>1. /\ active'[m] = CASE e.kind = "progress" -> e
                            [] e.kind = "timing" -> NoEvent
                            [] OTHER -> active[m]
          /\ recent'[m] = IF e.kind = "timing" THEN KeepLast(Append(r, e), RingCap) ELSE r
      BY <1>6, <2>1, <2>6 DEF Apply, AfterTiming, TypeOK
    <3>2. \A i \in 1..Len(r) : r[i].w = e.w => r[i].n < e.n
      <4>1. got[Store][e.w] \in Nat /\ got[Store][e.w] < e.n /\ e.n \in Nat
        BY <1>5, <1>9, <1>10, <2>6
      <4>2. ASSUME NEW i \in 1..Len(r), r[i].w = e.w PROVE r[i].n < e.n
        <5>1. r[i].n \in Nat /\ r[i].n <= got[Store][e.w]
          BY <2>2, <4>2, Elements
        <5>2. QED
          BY <4>1, <5>1
      <4>3. QED
        BY <4>2
    <3>3. CASE e.kind = "progress"
      <4>1. active'[m] = e /\ recent'[m] = r
        BY <3>1, <3>3
      <4>2. e.n <= got'[Store][e.w]
        BY <1>5, <1>8, <2>6
      <4>3. QED
        BY <1>5, <2>2, <2>4, <3>2, <4>1, <4>2, Elements
    <3>4. CASE e.kind = "timing"
      <4>1. active'[m] = NoEvent
        BY <3>1, <3>4
      <4>2. PICK a \in Seq(EventSet) : a = Append(r, e)
        BY AppendProperties
      <4>3. Increasing(a) /\ RingCap \in Nat \ {0}
        BY <2>2, <3>2, <4>2, AppendInOrder, ObserveAssumption
      <4>4. recent'[m] = KeepLast(a, RingCap)
        BY <3>1, <3>4, <4>2
      <4>5. \A i \in 1..Len(a) : a[i].n <= got'[Store][a[i].w]
        <5> SUFFICES ASSUME NEW i \in 1..Len(a) PROVE a[i].n <= got'[Store][a[i].w]
          OBVIOUS
        <5>1. a[i] = e \/ \E j \in 1..Len(r) : a[i] = r[j]
          BY <4>2
        <5>2. e.n <= got'[Store][e.w]
          BY <1>5, <1>8, <2>6
        <5>3. QED
          BY <2>4, <5>1, <5>2
      <4>6. /\ Len(KeepLast(a, RingCap)) \in Nat /\ Len(a) \in Nat
            /\ Len(KeepLast(a, RingCap)) <= Len(a)
            /\ \A i \in 1..Len(KeepLast(a, RingCap)) :
                 KeepLast(a, RingCap)[i] = a[Len(a) - Len(KeepLast(a, RingCap)) + i]
        <5>1. /\ KeepLast(a, RingCap) \in Seq(EventSet)
              /\ Len(KeepLast(a, RingCap)) = IF Len(a) > RingCap THEN RingCap ELSE Len(a)
              /\ \A i \in 1..Len(KeepLast(a, RingCap)) :
                   KeepLast(a, RingCap)[i] = a[Len(a) - Len(KeepLast(a, RingCap)) + i]
          BY <4>3, LastOnes
        <5>2. Len(KeepLast(a, RingCap)) \in Nat /\ Len(a) \in Nat
          BY <5>1, LenProperties
        <5>3. Len(KeepLast(a, RingCap)) <= Len(a)
          BY <4>3, <5>1, <5>2
        <5>4. QED
          BY <5>1, <5>2, <5>3
      <4>7. \A i \in 1..Len(recent'[m]) : \E j \in 1..Len(a) : recent'[m][i] = a[j]
        <5> SUFFICES ASSUME NEW i \in 1..Len(recent'[m])
                     PROVE  \E j \in 1..Len(a) : recent'[m][i] = a[j]
          OBVIOUS
        <5>1. PICK k \in Nat : k = Len(KeepLast(a, RingCap))
          BY <4>6
        <5>2. Len(a) - k + i \in 1..Len(a) /\ i \in 1..k
          BY <4>4, <4>6, <5>1
        <5>3. QED
          BY <4>4, <4>6, <5>1, <5>2
      <4>8. Increasing(recent'[m])
        BY <4>3, <4>4, LastInOrder
      <4>9. QED
        BY <4>1, <4>5, <4>7, <4>8
    <3>5. CASE e.kind \notin {"progress", "timing"}
      BY <2>5, <3>1, <3>5
    <3>6. QED
      BY <3>3, <3>4, <3>5
  <2>7. CASE s # Store \/ m # NameOf[e.w]
    BY <1>6, <2>1, <2>5, <2>7 DEF Apply, TypeOK, storeVars
  <2>8. QED
    BY <2>6, <2>7
<1>13. Behind'
  <2>1. \A x \in Subs : \A i \in 1..Len(chan'[x]) : chan'[x][i].n <= Reached[chan'[x][i].w]
    BY <1>8, <1>11 DEF Order, Behind
  <2>2. \A x \in Subs : \A w \in Workers : got'[x][w] <= Reached[w]
    BY <1>8, <1>9 DEF Order, Behind
  <2>3. QED
    BY <1>6, <1>7, <1>12, <2>1, <2>2 DEF Order, Behind
<1>14. InOrder'
  <2>1. \A x \in Subs : \A i \in 1..Len(chan'[x]) :
          chan'[x][i].n > got'[x][chan'[x][i].w] /\ chan'[x][i].n <= line[chan'[x][i].w].n
    BY <1>8, <1>11 DEF Order, InOrder
  <2>2. \A x \in Subs : Increasing(chan'[x])
    BY <1>5, <1>8 DEF Order, InOrder
  <2>3. QED
    BY <1>6, <1>12, <2>1, <2>2 DEF Order, InOrder
<1>15. QED
  BY <1>13, <1>14 DEF Order

LEMMA OrderStep == ObserveInv /\ TypeOK' /\ [Next]_vars => Order'
<1> SUFFICES ASSUME ObserveInv, TypeOK', [Next]_vars PROVE Order'
  OBVIOUS
<1>0. TypeOK /\ Stream /\ Order
  BY DEF ObserveInv, Order
<1> USE DEF workerVars, subVars, storeVars, readerFrame, subFrame
<1>1. ASSUME UNCHANGED <<line, reader, events, chan, got, recent, active>> PROVE Order'
  <2>1. \A w \in Workers : Reached[w] <= Reached'[w]
    <3>1. Reached' = Reached
      BY <1>1 DEF Reached
    <3>2. QED
      BY <1>0, <3>1, ReachedType
  <2>2. QED
    BY <1>0, <1>1, <2>1, OrderGrows
<1>2. ASSUME NEW w \in Workers, WorkerStep(w) PROVE Order'
  <2>1. CASE Start(w) \/ ScanEnds(w) \/ Log(w)
    <3>1. /\ UNCHANGED <<line, events, chan, got, recent, active>>
          /\ \A x \in Workers : x # w => reader'[x] = reader[x]
          /\ reader'[w] \in {"log", "emit"} => reader[w] \in {"log", "emit"}
      BY <1>0, <2>1 DEF Start, ScanEnds, Log, TypeOK
    <3>2. \A x \in Workers : Reached[x] <= Reached'[x]
      BY <1>0, <3>1, ReachedType
    <3>3. QED
      BY <1>0, <3>1, <3>2, OrderGrows
  <2>2. CASE Scan(w)
    <3>1. /\ UNCHANGED <<events, chan, got, recent, active>>
          /\ \A x \in Workers : x # w => reader'[x] = reader[x] /\ line'[x] = line[x]
          /\ reader[w] = "scan" /\ reader'[w] = "log" /\ line'[w] = Head(buf[w])
          /\ buf[w] # <<>>
      BY <1>0, <2>2 DEF Scan, TypeOK
    <3>2. line'[w].n = line[w].n + 1
      <4>1. buf[w] \in Seq(LineSet)
        BY <1>0 DEF TypeOK
      <4>2. Head(buf[w]) = buf[w][1] /\ 1 \in 1..Len(buf[w])
        BY <3>1, <4>1, HeadTailProperties, EmptySeq, LenProperties
      <4>3. QED
        BY <1>0, <3>1, <4>2 DEF Stream
    <3>3. \A x \in Workers : Reached[x] <= Reached'[x]
      <4>1. Reached[w] = line[w].n /\ Reached'[w] = line'[w].n - 1 /\ line[w].n \in Nat
        BY <1>0, <3>1, ReachedType
      <4>2. QED
        BY <1>0, <3>1, <3>2, <4>1, ReachedType
    <3>4. QED
      BY <1>0, <3>1, <3>3, OrderGrows
  <2>3. CASE Emit(w)
    BY <1>0, <2>3, EmitOrder
  <2>4. CASE Exit(w) \/ PrintLine(w) \/ Fill(w) \/ WaitReturns(w) \/ WaitEnds(w)
    BY <1>1, <2>4 DEF Exit, PrintLine, Fill, WaitReturns, WaitEnds
  <2>5. QED
    BY <1>2, <2>1, <2>2, <2>3, <2>4 DEF WorkerStep, ReaderStep
<1>3. ASSUME NEW s \in Subs, SubStep(s) PROVE Order'
  <2>1. CASE Subscribe(s) \/ Cancel(s) \/ Unsubscribe(s)
    BY <1>1, <2>1 DEF Subscribe, Cancel, Unsubscribe
  <2>2. CASE Receive(s)
    BY <1>0, <2>2, ReceiveOrder
  <2>3. CASE TailEnds(s)
    <3>1. /\ UNCHANGED <<line, reader, events, got, recent, active>>
          /\ Reached' = Reached
          /\ \A x \in Subs : x # s => chan'[x] = chan[x]
          /\ chan'[s] = <<>> /\ Len(chan'[s]) = 0
      BY <1>0, <2>3 DEF TailEnds, TypeOK, Reached
    <3>2. Behind'
      BY <1>0, <3>1 DEF Order, Behind
    <3>3. InOrder'
      BY <1>0, <3>1 DEF Order, InOrder, Increasing
    <3>4. QED
      BY <3>2, <3>3 DEF Order
  <2>4. QED
    BY <1>3, <2>1, <2>2, <2>3 DEF SubStep
<1>4. CASE NewDay \/ UNCHANGED vars
  BY <1>1, <1>4 DEF NewDay, vars
<1>5. QED
  BY <1>2, <1>3, <1>4 DEF Next

-----------------------------------------------------------------------------
(* The theorems *)

\* The invariant is inductive, so it always holds.
THEOREM ObserveSafety == Spec => []ObserveInv
<1>1. ObserveInv /\ [Next]_vars => ObserveInv'
  BY TypeStep, SealedStep, StreamStep, OrderStep, LogStep DEF ObserveInv, Order
<1>2. QED
  BY InitInv, <1>1, PTL DEF Spec

\* Every queue stays within its capacity, for any number of servers that print
\* what they like, and of clients that read as slowly as they like.
THEOREM QueuesAreBounded == Spec => []TypeOK
BY ObserveSafety, PTL DEF ObserveInv

\* Neither the exit of a server nor a client that goes away ever makes the
\* daemon send on a closed channel.
THEOREM ClosedIsNotSentTo == Spec => []NoSendOnClosed
<1>1. ObserveInv => NoSendOnClosed
  BY DEF ObserveInv, Sealed, NoSendOnClosed
<1>2. QED
  BY <1>1, ObserveSafety, PTL

\* Whatever is dropped on the way, nobody sees lines out of order or twice.
THEOREM EventsStayInOrder == Spec => []InOrder
BY ObserveSafety, PTL DEF ObserveInv

\* The tail that explains a failed load is the end of what was read.
THEOREM TailIsTheEnd == Spec => []TailIsLatest
BY ObserveSafety, PTL DEF ObserveInv

\* The log is never written to after it was closed, whenever opening fails.
THEOREM LogStaysOpen == Spec => []LogIsOpen
<1>1. ObserveInv => LogIsOpen
  BY DEF ObserveInv, LogInv
<1>2. QED
  BY <1>1, ObserveSafety, PTL

\* What is read after w.Done has been closed does not change any more.
THEOREM TailIsFinal == Spec => DoneIsFinal
<1>1. ObserveInv /\ [Next]_vars =>
        [\A w \in Workers : ended[w] => tail'[w] = tail[w] /\ events'[w] = events[w]]_vars
  <2> SUFFICES ASSUME ObserveInv, [Next]_vars, NEW w \in Workers, ended[w]
               PROVE  tail'[w] = tail[w] /\ events'[w] = events[w]
    OBVIOUS
  <2>0. TypeOK /\ reader[w] = "gone"
    BY DEF ObserveInv, Sealed
  <2>1. ASSUME NEW x \in Workers, WorkerStep(x) PROVE tail'[w] = tail[w] /\ events'[w] = events[w]
    <3>1. CASE Scan(x) \/ Emit(x)
      BY <2>0, <3>1 DEF Scan, Emit, readerFrame, TypeOK
    <3>2. CASE ~Scan(x) /\ ~Emit(x)
      BY <2>1, <3>2 DEF WorkerStep, ReaderStep, Start, Exit, PrintLine, Fill, ScanEnds, Log,
                        WaitReturns, WaitEnds, readerFrame
    <3>3. QED
      BY <3>1, <3>2
  <2>2. ASSUME NEW s \in Subs, SubStep(s) PROVE tail'[w] = tail[w] /\ events'[w] = events[w]
    BY <2>2 DEF SubStep, Subscribe, Cancel, Unsubscribe, Receive, TailEnds, subFrame, workerVars
  <2>3. CASE NewDay \/ UNCHANGED vars
    BY <2>3 DEF NewDay, vars, workerVars
  <2>4. QED
    BY <2>1, <2>2, <2>3 DEF Next
<1>2. QED
  BY <1>1, ObserveSafety, PTL DEF Spec, DoneIsFinal
-----------------------------------------------------------------------------
(* What cmd.Wait loses *)

\* What a server has printed is read, in the scanner's buffer or in the pipe,
\* but for what was in the pipe when it was closed; and a reader gives up only
\* when its buffer is empty or begins with a line that is too long.
Account(w) ==
  /\ proc[w] = "new" => reader[w] = "none"
  /\ line[w].n + Len(buf[w]) + Len(pipe[w]) <= printed[w]
  /\ printed[w] <= line[w].n + Len(buf[w]) + PipeCap
  /\ reader[w] = "gone" => buf[w] = <<>> \/ Head(buf[w]).kind = "long"

Accounts == \A w \in Workers : Account(w)

\* The accounts start even.
LEMMA AccountInit == Init => Accounts
  BY ObserveAssumption DEF Init, Accounts, Account, NoLine

\* The numbers that an account is about.
LEMMA AccountTypes ==
  ASSUME TypeOK, NEW w \in Workers
  PROVE  /\ line[w].n \in Nat /\ printed[w] \in Nat /\ PipeCap \in Nat
         /\ buf[w] \in Seq(LineSet) /\ Len(buf[w]) \in Nat
         /\ pipe[w] \in Seq(LineSet) /\ Len(pipe[w]) \in Nat /\ Len(pipe[w]) <= PipeCap
<1>1. line[w] \in LineSet \cup {NoLine}
  BY DEF TypeOK
<1>2. QED
  BY <1>1, LineNumber, LenProperties, ObserveAssumption DEF TypeOK

\* The worker's own step.
LEMMA AccountOwn ==
  ASSUME ObserveInv, NEW w \in Workers, Account(w), WorkerStep(w)
  PROVE  Account(w)'
<1> USE DEF ObserveInv, TypeOK, Account
<1>0. /\ line[w].n \in Nat /\ printed[w] \in Nat /\ PipeCap \in Nat
      /\ buf[w] \in Seq(LineSet) /\ Len(buf[w]) \in Nat
      /\ pipe[w] \in Seq(LineSet) /\ Len(pipe[w]) \in Nat /\ Len(pipe[w]) <= PipeCap
  BY AccountTypes
<1>1. CASE Start(w)
  BY <1>1 DEF Start
<1>2. CASE PrintLine(w)
  <2>1. ~broken[w]
    BY <1>2 DEF PrintLine, Sealed
  <2>2. printed[w] = line[w].n + Len(buf[w]) + Len(pipe[w])
    BY <2>1 DEF Stream
  <2>3. /\ Len(pipe'[w]) = Len(pipe[w]) + 1 /\ printed'[w] = printed[w] + 1
        /\ Len(pipe[w]) < PipeCap
        /\ line' = line /\ buf' = buf /\ reader' = reader /\ proc' = proc
    BY <1>0, <1>2, AppendProperties DEF PrintLine
  <2>4. QED
    BY <1>0, <2>2, <2>3
<1>3. CASE Exit(w)
  BY <1>3 DEF Exit
<1>4. CASE Fill(w)
  <2>1. /\ buf[w] = <<>> /\ buf'[w] = pipe[w] /\ pipe'[w] = <<>> /\ ~broken[w]
        /\ line' = line /\ printed' = printed /\ proc' = proc /\ reader' = reader
        /\ reader[w] = "scan"
    BY <1>4 DEF Fill, readerFrame
  <2>2. Len(buf[w]) = 0 /\ Len(pipe'[w]) = 0
    BY <2>1
  <2>3. printed[w] = line[w].n + Len(buf[w]) + Len(pipe[w])
    BY <2>1 DEF Stream
  <2>4. QED
    BY <1>0, <2>1, <2>2, <2>3
<1>5. CASE Scan(w)
  <2>1. /\ Len(buf'[w]) = Len(buf[w]) - 1 /\ line'[w] = buf[w][1]
        /\ 1 \in 1..Len(buf[w])
    BY <1>0, <1>5, HeadTailProperties DEF Scan
  <2>2. line'[w].n = line[w].n + 1
    BY <2>1 DEF Stream
  <2>3. /\ reader[w] = "scan" /\ reader'[w] = "log"
        /\ pipe' = pipe /\ printed' = printed /\ proc' = proc
    BY <1>5 DEF Scan, readerFrame
  <2>4. line'[w].n + Len(buf'[w]) = line[w].n + Len(buf[w])
    <3>1. PICK a \in Nat : a = line[w].n
      BY <1>0
    <3>2. PICK b \in Nat : b = Len(buf[w])
      BY <1>0
    <3>3. line'[w].n = a + 1 /\ Len(buf'[w]) = b - 1
      BY <2>1, <2>2, <3>1, <3>2
    <3>4. (a + 1) + (b - 1) = a + b
      OBVIOUS
    <3> HIDE DEF ObserveInv, TypeOK, Account
    <3>5. QED
      BY <3>1, <3>2, <3>3, <3>4, Zenon
  <2>5. PICK n \in Nat : n = line[w].n + Len(buf[w])
    BY <1>0
  <2>6. /\ n + Len(pipe'[w]) <= printed'[w]
        /\ printed'[w] <= n + PipeCap
    BY <2>3, <2>5
  <2> HIDE DEF ObserveInv, TypeOK
  <2>7. QED
    BY <1>0, <2>3, <2>4, <2>5, <2>6
<1>6. CASE ScanEnds(w)
  BY <1>6 DEF ScanEnds, readerFrame
<1>7. CASE Log(w) \/ Emit(w)
  BY <1>7 DEF Log, Emit, readerFrame
<1>8. CASE WaitReturns(w)
  <2>1. /\ Len(pipe'[w]) = 0
        /\ line' = line /\ buf' = buf /\ reader' = reader /\ proc' = proc
        /\ printed' = printed
    BY <1>8 DEF WaitReturns
  <2>2. QED
    BY <1>0, <2>1
<1>9. CASE WaitEnds(w)
  BY <1>9 DEF WaitEnds
<1>10. QED
  BY <1>1, <1>2, <1>3, <1>4, <1>5, <1>6, <1>7, <1>8, <1>9 DEF WorkerStep, ReaderStep

\* Nobody else's step touches it.
LEMMA AccountStep == ObserveInv /\ Accounts /\ [Next]_vars => Accounts'
<1> SUFFICES ASSUME ObserveInv, Accounts, [Next]_vars, NEW w \in Workers PROVE Account(w)'
  BY DEF Accounts
<1>0. Account(w)
  BY DEF Accounts
<1>1. ASSUME UNCHANGED <<proc[w], printed[w], pipe[w], buf[w], reader[w], line[w]>>
      PROVE  Account(w)'
  BY <1>0, <1>1 DEF Account
<1>2. ASSUME NEW x \in Workers, WorkerStep(x) PROVE Account(w)'
  <2>1. CASE x = w
    BY <1>0, <1>2, <2>1, AccountOwn
  <2>2. CASE x # w
    <3>1. UNCHANGED <<proc[w], printed[w], pipe[w], buf[w], reader[w], line[w]>>
      BY <1>2, <2>2 DEF WorkerStep, ReaderStep, Start, Exit, PrintLine, Fill, Scan, ScanEnds,
                        Log, Emit, WaitReturns, WaitEnds, readerFrame, ObserveInv, TypeOK
    <3>2. QED
      BY <1>1, <3>1
  <2>3. QED
    BY <2>1, <2>2
<1>3. ASSUME NEW s \in Subs, SubStep(s) PROVE Account(w)'
  BY <1>1, <1>3 DEF SubStep, Subscribe, Cancel, Unsubscribe, Receive, TailEnds, subFrame,
                    workerVars
<1>4. CASE NewDay \/ UNCHANGED vars
  BY <1>1, <1>4 DEF NewDay, vars, workerVars
<1>5. QED
  BY <1>2, <1>3, <1>4 DEF Next

\* worker.go:129: cmd.Wait closes the pipe under its reader, so the tail that
\* explains a worker's end may lack the last lines.  It lacks no more of them
\* than a pipe holds, unless the reader gave up at a line that was too long.
THEOREM LossIsBounded ==
  Spec => [](\A w \in Workers : ended[w] =>
               \/ buf[w] # <<>> /\ Head(buf[w]).kind = "long"
               \/ printed[w] - line[w].n \in 0..PipeCap)
<1> DEFINE Bounded ==
      \A w \in Workers : ended[w] =>
        \/ buf[w] # <<>> /\ Head(buf[w]).kind = "long"
        \/ printed[w] - line[w].n \in 0..PipeCap
<1>1. ObserveInv /\ Accounts => Bounded
  <2> SUFFICES ASSUME ObserveInv, Accounts, NEW w \in Workers, ended[w],
                      ~(buf[w] # <<>> /\ Head(buf[w]).kind = "long")
               PROVE  printed[w] - line[w].n \in 0..PipeCap
    OBVIOUS
  <2>1. reader[w] = "gone"
    BY DEF ObserveInv, Sealed
  <2>2. buf[w] = <<>>
    BY <2>1 DEF Accounts, Account
  <2>3. /\ line[w].n \in Nat /\ printed[w] \in Nat /\ PipeCap \in Nat
        /\ Len(buf[w]) = 0 /\ Len(pipe[w]) \in Nat
    BY <2>2, AccountTypes DEF ObserveInv
  <2>4. Account(w)
    BY DEF Accounts
  <2>5. /\ line[w].n + Len(buf[w]) + Len(pipe[w]) <= printed[w]
        /\ printed[w] <= line[w].n + Len(buf[w]) + PipeCap
    BY <2>4, Zenon DEF Account
  <2>6. \A a, b, c, p \in Nat : a + 0 + c <= b /\ b <= a + 0 + p => b - a \in 0..p
    OBVIOUS
  <2> HIDE DEF Bounded
  <2>7. QED
    BY <2>3, <2>5, <2>6
<1> HIDE DEF Bounded
<1>2. Spec => []Bounded
  BY <1>1, AccountInit, AccountStep, ObserveSafety, PTL DEF Spec
<1>3. QED
  BY <1>2 DEF Bounded

-----------------------------------------------------------------------------
(* The safety half of NeverHeldUp                                          *)

\* How many steps the reader of w may still take before it must look at its
\* pipe again: a line is scanned, logged and published.
Ahead(w) ==
  3 * Len(buf[w]) + (IF reader[w] = "log" THEN 2 ELSE IF reader[w] = "emit" THEN 1 ELSE 0)

\* Each of them is one less, and nobody else's step makes them more.
GoesOn(w) ==
  /\ Ahead(w) \in 0..(3 * PipeCap + 2)
  /\ Scan(w) \/ Log(w) \/ Emit(w) => Ahead(w)' < Ahead(w)
  /\ Fill(w) => Len(pipe'[w]) = 0
  /\ ~ReaderStep(w) => Ahead(w)' = Ahead(w)

\* For any workers, subscribers, capacities and failures of the log: between two
\* looks at its pipe a reader takes a bounded number of steps, which neither a
\* client that does not read, nor a full queue, nor midnight makes more (the
\* liveness half, that it takes them, is NeverHeldUp).
THEOREM ReaderGetsOn == Spec => [][\A w \in Workers : GoesOn(w)]_vars
<1>1. ASSUME ObserveInv, Accounts, [Next]_vars, NEW w \in Workers PROVE GoesOn(w)
  <2> USE DEF ObserveInv, TypeOK
  <2>1. Len(buf[w]) \in 0..PipeCap /\ PipeCap \in Nat
    <3>1. buf[w] \in Seq(LineSet) /\ Len(buf[w]) <= PipeCap
      BY <1>1
    <3>2. QED
      BY <3>1, LenProperties, ObserveAssumption
  <2>2. Ahead(w) \in 0..(3 * PipeCap + 2)
    <3> HIDE DEF ObserveInv, TypeOK
    <3>1. PICK k \in 0..PipeCap : k = Len(buf[w])
      BY <2>1
    <3>2. PICK r \in 0..2 :
            r = IF reader[w] = "log" THEN 2 ELSE IF reader[w] = "emit" THEN 1 ELSE 0
      OBVIOUS
    <3>3. Ahead(w) = 3 * k + r
      BY <3>1, <3>2, Zenon DEF Ahead
    <3>4. 3 * k + r \in 0..(3 * PipeCap + 2)
      BY <2>1
    <3>5. QED
      BY <3>3, <3>4, Zenon
  <2>3. ASSUME Scan(w) PROVE Ahead(w)' < Ahead(w)
    <3>1. Len(buf'[w]) = Len(buf[w]) - 1
      BY <1>1, <2>3, HeadTailProperties DEF Scan
    <3>2. reader[w] = "scan" /\ reader'[w] = "log"
      BY <1>1, <2>3 DEF Scan
    <3>3. QED
      BY <2>1, <3>1, <3>2 DEF Ahead
  <2>4. ASSUME Log(w) \/ Emit(w) PROVE Ahead(w)' < Ahead(w)
    <3>1. buf'[w] = buf[w]
      BY <2>4 DEF Log, Emit
    <3>2. \/ reader[w] = "log" /\ reader'[w] \in {"emit", "scan"}
          \/ reader[w] = "emit" /\ reader'[w] = "scan"
      BY <1>1, <2>4 DEF Log, Emit
    <3> HIDE DEF ObserveInv, TypeOK
    <3>3. PICK k \in Int : k = 3 * Len(buf[w])
      BY <2>1
    <3>4. k = 3 * Len(buf'[w])
      BY <3>1, <3>3, Zenon
    <3>5. CASE reader[w] = "log"
      <4>1. Ahead(w) = k + 2
        BY <3>3, <3>5 DEF Ahead
      <4>2. Ahead(w)' = k + 1 \/ Ahead(w)' = k + 0
        BY <3>2, <3>4, <3>5 DEF Ahead
      <4>3. QED
        BY <4>1, <4>2
    <3>6. CASE reader[w] = "emit"
      <4>1. Ahead(w) = k + 1
        BY <3>3, <3>6 DEF Ahead
      <4>2. Ahead(w)' = k + 0
        BY <3>2, <3>4, <3>6 DEF Ahead
      <4>3. QED
        BY <4>1, <4>2
    <3>7. QED
      BY <3>2, <3>5, <3>6
  <2>5. Fill(w) => Len(pipe'[w]) = 0
    BY <1>1 DEF Fill
  <2>6. ASSUME ~ReaderStep(w) PROVE Ahead(w)' = Ahead(w)
    <3>1. ASSUME NEW x \in Workers, WorkerStep(x) PROVE Ahead(w)' = Ahead(w)
      <4>1. CASE Start(x)
        <5>1. buf' = buf /\ reader' = [reader EXCEPT ![x] = "scan"]
          BY <4>1 DEF Start
        <5>2. reader[x] \notin {"log", "emit"}
          BY <1>1, <4>1 DEF Start, Accounts, Account
        <5>3. QED
          BY <1>1, <5>1, <5>2 DEF Ahead
      <4>2. CASE Exit(x) \/ PrintLine(x) \/ WaitReturns(x) \/ WaitEnds(x)
        BY <4>2 DEF Exit, PrintLine, WaitReturns, WaitEnds, Ahead
      <4>3. CASE ReaderStep(x)
        <5>1. x # w
          BY <2>6, <4>3
        <5>2. buf'[w] = buf[w] /\ reader'[w] = reader[w]
          BY <1>1, <4>3, <5>1 DEF ReaderStep, Fill, Scan, ScanEnds, Log, Emit
        <5>3. QED
          BY <5>2 DEF Ahead
      <4>4. QED
        BY <3>1, <4>1, <4>2, <4>3 DEF WorkerStep
    <3>2. ASSUME NEW s \in Subs, SubStep(s) PROVE Ahead(w)' = Ahead(w)
      BY <3>2 DEF SubStep, Subscribe, Cancel, Unsubscribe, Receive, TailEnds, subFrame,
                  workerVars, Ahead
    <3>3. CASE NewDay \/ UNCHANGED vars
      BY <3>3 DEF NewDay, vars, workerVars, Ahead
    <3>4. QED
      BY <1>1, <3>1, <3>2, <3>3 DEF Next
  <2>7. QED
    BY <2>2, <2>3, <2>4, <2>5, <2>6 DEF GoesOn
<1> DEFINE All == \A w \in Workers : GoesOn(w)
<1>2. ObserveInv /\ Accounts /\ [Next]_vars => [All]_vars
  BY <1>1
<1> HIDE DEF All
<1>3. Spec => [][All]_vars
  BY <1>2, AccountInit, AccountStep, ObserveSafety, PTL DEF Spec
<1>4. QED
  BY <1>3 DEF All

-----------------------------------------------------------------------------
(* Completions that the store does not hear of                             *)

\* What of q was printed by w is of the kind that w has printed.
AsPrinted(w, q) == \A i \in 1..Len(q) : q[i].w = w => q[i].kind = Prints[w][q[i].n]

\* Nothing on its way from a server to the store changes its kind ...
Genuine(w) ==
  /\ \A i \in 1..Len(pipe[w]) : pipe[w][i].kind = Prints[w][pipe[w][i].n]
  /\ \A i \in 1..Len(buf[w]) : buf[w][i].kind = Prints[w][buf[w][i].n]
  /\ reader[w] \in {"log", "emit"} => line[w].kind = Prints[w][line[w].n]
  /\ AsPrinted(w, chan[Store])

\* ... and the store, which never leaves, files it under the name of its worker.
Filed ==
  /\ \A w \in Workers : Genuine(w)
  /\ \A m \in Names : active[m] # NoEvent => active[m].w \in Workers /\ NameOf[active[m].w] = m
  /\ Store \in subs /\ handler[Store] = "on"

\* A queue of what was printed stays one when such an event is added to its end.
LEMMA PrintedAppend ==
  ASSUME NEW w \in Workers, NEW q \in Seq(EventSet), NEW e \in EventSet, AsPrinted(w, q),
         e.w = w => e.kind = Prints[w][e.n]
  PROVE  AsPrinted(w, Append(q, e))
<1>1. /\ Len(Append(q, e)) = Len(q) + 1 /\ Len(q) \in Nat
      /\ Append(q, e)[Len(q) + 1] = e
      /\ \A i \in 1..Len(q) : Append(q, e)[i] = q[i]
  BY AppendProperties, LenProperties
<1>2. \A i \in 1..Len(Append(q, e)) : i = Len(q) + 1 \/ i \in 1..Len(q)
  BY <1>1
<1>3. QED
  BY <1>1, <1>2 DEF AsPrinted

\* The tail of a queue of what was printed is one.
LEMMA PrintedTail ==
  ASSUME NEW w \in Workers, NEW q \in Seq(EventSet), q # <<>>, AsPrinted(w, q)
  PROVE  AsPrinted(w, Tail(q))
<1>1. /\ Len(Tail(q)) = Len(q) - 1 /\ Len(q) \in Nat
      /\ \A i \in 1..Len(Tail(q)) : Tail(q)[i] = q[i + 1]
  BY HeadTailProperties, LenProperties
<1>2. \A i \in 1..Len(Tail(q)) : i + 1 \in 1..Len(q)
  BY <1>1
<1>3. QED
  BY <1>1, <1>2 DEF AsPrinted

\* At first there is nothing to misfile.
LEMMA FiledInit == Init => Filed
  BY ObserveAssumption DEF Init, Filed, Genuine, AsPrinted, Subs

\* The lines of the worker that takes the step.
LEMMA GenuineOwn ==
  ASSUME ObserveInv, NEW w \in Workers, Genuine(w), WorkerStep(w)
  PROVE  Genuine(w)'
<1> USE DEF ObserveInv, TypeOK, Genuine, readerFrame, subVars
<1>1. CASE Start(w) \/ Exit(w) \/ ScanEnds(w) \/ WaitReturns(w) \/ WaitEnds(w)
  <2>1. /\ UNCHANGED <<buf, line, chan>>
        /\ pipe'[w] = pipe[w] \/ pipe'[w] = <<>>
        /\ reader'[w] \in {"log", "emit"} => reader[w] \in {"log", "emit"}
    BY <1>1 DEF Start, Exit, ScanEnds, WaitReturns, WaitEnds
  <2>2. QED
    BY <2>1
<1>2. CASE PrintLine(w)
  <2>1. PICK l : l = [n |-> printed[w] + 1, kind |-> Prints[w][printed[w] + 1]]
    OBVIOUS
  <2>2. /\ pipe'[w] = Append(pipe[w], l) /\ l.kind = Prints[w][l.n]
        /\ UNCHANGED <<buf, reader, line, chan>>
    BY <1>2, <2>1 DEF PrintLine
  <2>3. \A i \in 1..Len(pipe'[w]) : pipe'[w][i] = l \/ \E j \in 1..Len(pipe[w]) : pipe'[w][i] = pipe[w][j]
    BY <2>2
  <2>4. QED
    BY <2>2, <2>3
<1>3. CASE Fill(w)
  BY <1>3 DEF Fill
<1>4. CASE Scan(w)
  <2>1. /\ buf[w] \in Seq(LineSet) /\ buf[w] # <<>>
        /\ buf'[w] = Tail(buf[w]) /\ line'[w] = Head(buf[w])
        /\ UNCHANGED <<pipe, chan>>
    BY <1>4 DEF Scan
  <2>2. /\ line'[w] = buf[w][1] /\ 1 \in 1..Len(buf[w])
        /\ \A i \in 1..Len(buf'[w]) : buf'[w][i] = buf[w][i + 1] /\ i + 1 \in 1..Len(buf[w])
    BY <2>1, HeadTailProperties
  <2>3. \A i \in 1..Len(buf[w]) : buf[w][i].kind = Prints[w][buf[w][i].n]
    OBVIOUS
  <2>4. line'[w].kind = Prints[w][line'[w].n]
    <3>1. buf[w][1].kind = Prints[w][buf[w][1].n]
      BY <2>2, <2>3
    <3>2. line'[w] = buf[w][1]
      BY <2>2
    <3>3. QED
      BY <3>1, <3>2, Zenon
  <2>5. ASSUME NEW i \in 1..Len(buf'[w]) PROVE buf'[w][i].kind = Prints[w][buf'[w][i].n]
    <3>1. PICK j \in 1..Len(buf[w]) : buf'[w][i] = buf[w][j]
      BY <2>2
    <3>2. QED
      BY <2>3, <3>1, Zenon
  <2>6. AsPrinted(w, chan'[Store])
    BY <2>1
  <2>7. QED
    BY <2>1, <2>4, <2>5, <2>6
<1>5. CASE Log(w)
  BY <1>5 DEF Log
<1>6. CASE Emit(w)
  <2>1. PICK e \in EventSet : e = EventOf(w) /\ e.kind = line[w].kind /\ e.n = line[w].n
    BY <1>6, EventOfIsEvent DEF Emit, EventOf
  <2>2. /\ chan'[Store] = chan[Store] \/ chan'[Store] = Append(chan[Store], e)
        /\ chan[Store] \in Seq(EventSet)
    BY <1>6, <2>1 DEF Emit, Subs
  <2>3. AsPrinted(w, chan'[Store])
    <3>1. AsPrinted(w, chan[Store]) /\ e.kind = Prints[w][e.n]
      BY <1>6, <2>1 DEF Emit
    <3>2. AsPrinted(w, Append(chan[Store], e))
      BY <2>2, <3>1, PrintedAppend
    <3>3. QED
      BY <2>2, <3>1, <3>2, Zenon
  <2>4. UNCHANGED <<pipe, buf, line>> /\ reader'[w] = "scan"
    BY <1>6 DEF Emit
  <2>5. QED
    BY <2>3, <2>4
<1>7. QED
  BY <1>1, <1>2, <1>3, <1>4, <1>5, <1>6 DEF WorkerStep, ReaderStep

\* What the store holds after it has received an event.
LEMMA FiledReceive ==
  ASSUME ObserveInv, Filed, NEW s \in Subs, Receive(s)
  PROVE  Filed'
<1> USE DEF ObserveInv, TypeOK
<1>1. UNCHANGED <<pipe, buf, reader, line, subs, handler>>
  BY DEF Receive, subFrame, workerVars
<1>2. ASSUME NEW w \in Workers PROVE AsPrinted(w, chan'[Store])
  <2>1. chan[Store] \in Seq(EventSet) /\ AsPrinted(w, chan[Store])
    BY DEF Subs, Filed, Genuine
  <2>2. CASE s = Store
    BY <2>1, <2>2, PrintedTail DEF Receive
  <2>3. CASE s # Store
    BY <2>1, <2>3 DEF Receive, Subs
  <2>4. QED
    BY <2>2, <2>3
<1>3. \A w \in Workers : Genuine(w)'
  BY <1>1, <1>2 DEF Filed, Genuine
<1>4. ASSUME NEW m \in Names, active'[m] # NoEvent
      PROVE  active'[m].w \in Workers /\ NameOf[active'[m].w] = m
  <2>1. CASE s # Store \/ active'[m] = active[m]
    BY <1>4, <2>1 DEF Receive, storeVars, Filed
  <2>2. CASE s = Store /\ active'[m] # active[m]
    <3>1. PICK e \in EventSet : e = Head(chan[Store])
      BY <2>2, TailInOrder DEF Receive, InOrder
    <3>2. m = NameOf[e.w] /\ active'[m] = e
      BY <1>4, <2>2, <3>1 DEF Receive, Apply, AfterTiming
    <3>3. QED
      BY <3>2 DEF EventSet
  <2>3. QED
    BY <2>1, <2>2
<1>5. QED
  BY <1>1, <1>3, <1>4 DEF Filed

\* Every step keeps kinds and names: the events are copied, and only the store's
\* own steps touch what it holds.
LEMMA FiledStep == ObserveInv /\ Filed /\ [Next]_vars => Filed'
<1> SUFFICES ASSUME ObserveInv, Filed, [Next]_vars PROVE Filed'
  OBVIOUS
<1>1. ASSUME NEW x \in Workers, WorkerStep(x) PROVE Filed'
  <2>1. UNCHANGED <<active, subs, handler>>
    BY <1>1 DEF WorkerStep, ReaderStep, Start, Exit, PrintLine, Fill, Scan, ScanEnds, Log, Emit,
                WaitReturns, WaitEnds, readerFrame, subVars, storeVars
  <2>2. Genuine(x)'
    BY <1>1, GenuineOwn DEF Filed
  <2>3. ASSUME NEW w \in Workers, w # x PROVE Genuine(w)'
    <3>1. UNCHANGED <<pipe[w], buf[w], reader[w], line[w]>>
      BY <1>1, <2>3 DEF WorkerStep, ReaderStep, Start, Exit, PrintLine, Fill, Scan, ScanEnds,
                        Log, Emit, WaitReturns, WaitEnds, readerFrame, ObserveInv, TypeOK
    <3>2. CASE chan'[Store] = chan[Store]
      BY <3>1, <3>2 DEF Filed, Genuine, AsPrinted
    <3>3. CASE chan'[Store] # chan[Store]
      <4>1. Emit(x)
        BY <1>1, <3>3 DEF WorkerStep, ReaderStep, Start, Exit, PrintLine, Fill, Scan, ScanEnds,
                          Log, WaitReturns, WaitEnds, subVars
      <4>2. PICK e \in EventSet : e = EventOf(x) /\ e.w = x
        BY <4>1, EventOfIsEvent DEF Emit, ObserveInv
      <4>3. chan'[Store] = Append(chan[Store], e) /\ chan[Store] \in Seq(EventSet)
        BY <3>3, <4>1, <4>2 DEF Emit, ObserveInv, TypeOK, Subs
      <4>4. AsPrinted(w, chan'[Store])
        BY <2>3, <4>2, <4>3, PrintedAppend DEF Filed, Genuine
      <4>5. QED
        BY <3>1, <4>4 DEF Filed, Genuine
    <3>4. QED
      BY <3>2, <3>3
  <2>4. QED
    BY <2>1, <2>2, <2>3 DEF Filed
<1>2. ASSUME NEW s \in Subs, SubStep(s) PROVE Filed'
  <2>1. CASE Receive(s)
    BY <2>1, FiledReceive
  <2>2. CASE ~Receive(s)
    <3>1. s # Store
      BY <1>2, <2>2, ObserveAssumption
         DEF SubStep, Subscribe, Cancel, Unsubscribe, TailEnds, Filed
    <3>2. /\ UNCHANGED <<active, pipe, buf, reader, line>>
          /\ chan'[Store] = chan[Store] /\ Store \in subs' /\ handler'[Store] = "on"
      BY <1>2, <2>2, <3>1 DEF SubStep, Subscribe, Cancel, Unsubscribe, TailEnds, Removed, Filed,
                              subFrame, workerVars, storeVars, ObserveInv, TypeOK, Subs
    <3>3. QED
      BY <3>2 DEF Filed, Genuine, AsPrinted
  <2>3. QED
    BY <2>1, <2>2
<1>3. CASE NewDay \/ UNCHANGED vars
  BY <1>3 DEF NewDay, vars, workerVars, subVars, storeVars, Filed, Genuine, AsPrinted
<1>4. QED
  BY <1>1, <1>2, <1>3 DEF Next

\* A completion becomes missed when it is reported, when it is lost on its way,
\* or when an earlier request comes to be shown.
LEMMA NewlyMissed ==
  ASSUME NEW w \in Workers, NEW n \in Missed(w)', n \notin Missed(w),
         \A k \in Shown(w)' : k < n => k \in Shown(w),
         OnItsWay(w, n) => OnItsWay(w, n)'
  PROVE  n \in 1..Reached'[w] /\ n \notin 1..Reached[w] /\ Prints[w][n] = "timing"
BY DEF Missed

\* What is received is no more on its way, but then it counts.
LEMMA ReceiveMisses ==
  ASSUME ObserveInv, Filed, NEW s \in Subs, Receive(s), NEW w \in Workers
  PROVE  Missed(w)' \subseteq Missed(w)
<1> USE DEF ObserveInv, TypeOK
<1>1. CASE s # Store
  <2>1. UNCHANGED <<active, reader, line>> /\ chan'[Store] = chan[Store]
    BY <1>1 DEF Receive, Subs, subFrame, workerVars, storeVars
  <2>2. QED
    BY <2>1 DEF Missed, Shown, OnItsWay, Reached
<1>2. CASE s = Store
  <2>1. PICK q \in Seq(EventSet) : q = chan[Store]
    BY DEF Subs
  <2>2. /\ q # <<>> /\ Increasing(q)
        /\ chan'[Store] = Tail(q)
        /\ Apply(Head(q))
        /\ Reached' = Reached
    BY <1>2, <2>1 DEF Receive, InOrder, subFrame, workerVars, Reached
  <2>3. PICK e \in EventSet : e = Head(q) /\ e = q[1]
    BY <2>2, TailInOrder
  <2>4. PICK t \in Seq(EventSet) : t = Tail(q)
    BY <2>2, TailInOrder
  <2>5. /\ \A i \in 1..Len(t) : t[i] = q[i + 1] /\ i + 1 \in 1..Len(q)
        /\ \A i \in 1..Len(t) : t[i].w = e.w => e.n < t[i].n
        /\ Len(t) = Len(q) - 1 /\ Len(q) \in Nat /\ 1 \in 1..Len(q)
    BY <2>2, <2>3, <2>4, TailInOrder, EmptySeq, LenProperties
  <2>6. e.w \in Workers /\ e.n \in Nat
    BY DEF EventSet
  <2>7. ASSUME NEW i \in 1..Len(q), i # 1
        PROVE  \E j \in 1..Len(t) : t[j] = q[i]
    <3>1. i - 1 \in 1..Len(t) /\ (i - 1) + 1 = i
      BY <2>5, <2>7
    <3>2. QED
      BY <2>5, <3>1
  <2>8. ASSUME NEW m \in Names, active'[m] # NoEvent
        PROVE  active'[m] = active[m] \/ (active'[m] = e /\ e.kind = "progress")
    BY <2>2, <2>3, <2>8 DEF Apply, AfterTiming
  <2>9. Shown(w)' \subseteq Shown(w)
    <3> SUFFICES ASSUME NEW k \in Shown(w)' PROVE k \in Shown(w)
      OBVIOUS
    <3>1. CASE \E m \in Names : active'[m] # NoEvent /\ active'[m].w = w /\ k = active'[m].n
      <4>1. PICK m \in Names : active'[m] # NoEvent /\ active'[m].w = w /\ k = active'[m].n
        BY <3>1
      <4>2. CASE active'[m] = active[m]
        BY <4>1, <4>2 DEF Shown
      <4>3. CASE active'[m] = e /\ e.kind = "progress"
        BY <2>1, <2>3, <2>5, <4>1, <4>3 DEF Shown
      <4>4. QED
        BY <2>8, <4>1, <4>2, <4>3
    <3>2. CASE \E i \in 1..Len(t) : t[i].w = w /\ t[i].kind = "progress" /\ k = t[i].n
      <4>1. PICK i \in 1..Len(t) : t[i].w = w /\ t[i].kind = "progress" /\ k = t[i].n
        BY <3>2
      <4>2. PICK j \in 1..Len(q) : q[j] = t[i]
        BY <2>5
      <4>3. QED
        BY <2>1, <4>1, <4>2 DEF Shown
    <3>3. QED
      BY <2>2, <2>4, <3>1, <3>2 DEF Shown
  <2> SUFFICES ASSUME NEW n \in Missed(w)', n \notin Missed(w) PROVE FALSE
    OBVIOUS
  <2>10. /\ n \in 1..Reached[w] /\ Prints[w][n] = "timing" /\ ~OnItsWay(w, n)'
         /\ \E k \in Shown(w)' : k < n
    BY <2>2 DEF Missed
  <2>11. OnItsWay(w, n)
    BY <2>9, <2>10 DEF Missed
  <2>12. e.w = w /\ e.n = n
    <3>1. PICK i \in 1..Len(q) : q[i].w = w /\ q[i].n = n
      BY <2>1, <2>11 DEF OnItsWay
    <3>2. i = 1
      <4> SUFFICES ASSUME i # 1 PROVE FALSE
        OBVIOUS
      <4>1. PICK j \in 1..Len(t) : t[j] = q[i]
        BY <2>7
      <4>2. chan'[Store] = t
        BY <2>2, <2>4
      <4>3. QED
        BY <2>10, <3>1, <4>1, <4>2 DEF OnItsWay
    <3>3. QED
      BY <2>3, <3>1, <3>2
  <2>13. e.kind = "timing"
    BY <2>1, <2>3, <2>5, <2>10, <2>12 DEF Filed, Genuine, AsPrinted
  <2>14. PICK k \in Shown(w)' : k < n
    BY <2>10
  <2>15. CASE \E i \in 1..Len(t) : t[i].w = w /\ k = t[i].n
    <3>1. PICK i \in 1..Len(t) : t[i].w = w /\ k = t[i].n
      BY <2>15
    <3>2. n < k /\ k \in Nat /\ n \in Nat
      BY <2>5, <2>6, <2>12, <3>1, Elements
    <3>3. QED
      BY <2>14, <3>2
  <2>16. CASE \E m \in Names : active'[m] # NoEvent /\ active'[m].w = w
    <3>1. PICK m \in Names : active'[m] # NoEvent /\ active'[m].w = w
      BY <2>16
    <3>2. active'[m] = active[m] /\ NameOf[w] = m
      BY <2>8, <2>13, <3>1 DEF Filed
    <3>3. active'[m] = NoEvent
      BY <2>2, <2>3, <2>12, <2>13, <3>2 DEF Apply, AfterTiming
    <3>4. QED
      BY <3>1, <3>3
  <2>17. QED
    BY <2>2, <2>4, <2>14, <2>15, <2>16 DEF Shown
<1>3. QED
  BY <1>1, <1>2

\* What is published is on its way, unless there was no room for it.
LEMMA EmitMisses ==
  ASSUME ObserveInv, Filed, NEW x \in Workers, Emit(x), NEW w \in Workers,
         NEW n \in Missed(w)', n \notin Missed(w)
  PROVE  x = w /\ n = line[w].n /\ Len(chan[Store]) = SubCap
<1> USE DEF ObserveInv, TypeOK
<1>1. PICK e \in EventSet : e = EventOf(x) /\ e.w = x /\ e.n = line[x].n
  BY EventOfIsEvent DEF Emit
<1>2. PICK q \in Seq(EventSet) : q = chan[Store]
  BY DEF Subs
<1>3. /\ chan'[Store] = IF Len(q) < SubCap THEN Append(q, e) ELSE q
      /\ UNCHANGED <<line, active>>
      /\ reader[x] = "emit" /\ reader' = [reader EXCEPT ![x] = "scan"]
  BY <1>1, <1>2 DEF Emit, storeVars, Filed, Subs
<1>4. /\ Reached'[x] = line[x].n /\ Reached[x] = line[x].n - 1 /\ line[x].n \in Nat
      /\ w # x => Reached'[w] = Reached[w]
  <2>1. Reached[x] = line[x].n - 1 /\ line[x].n \in Nat
    BY <1>3, ReachedType
  <2>2. reader'[x] = "scan" /\ (w # x => reader'[w] = reader[w]) /\ line' = line
    BY <1>3
  <2>3. Reached'[x] = line[x].n /\ (w # x => Reached'[w] = Reached[w])
    BY <2>2 DEF Reached
  <2>4. QED
    BY <2>1, <2>3
<1>5. PICK d : d = chan'[Store]
  OBVIOUS
<1>6. /\ \A i \in 1..Len(q) : i \in 1..Len(d) /\ d[i] = q[i]
      /\ \A i \in 1..Len(d) : d[i] = e \/ \E j \in 1..Len(q) : d[i] = q[j]
      /\ Len(q) < SubCap => \E i \in 1..Len(d) : d[i] = e
  <2>1. CASE Len(q) < SubCap
    <3>1. d = Append(q, e)
      BY <1>3, <1>5, <2>1
    <3>2. /\ Len(d) = Len(q) + 1 /\ Len(q) \in Nat /\ d[Len(q) + 1] = e
          /\ \A i \in 1..Len(q) : d[i] = q[i]
      BY <3>1, AppendProperties, LenProperties
    <3>3. \A i \in 1..Len(d) : i = Len(q) + 1 \/ i \in 1..Len(q)
      BY <3>2
    <3>4. Len(q) + 1 \in 1..Len(d) /\ \A i \in 1..Len(q) : i \in 1..Len(d)
      BY <3>2
    <3>5. QED
      BY <3>2, <3>3, <3>4
  <2>2. CASE ~(Len(q) < SubCap)
    BY <1>3, <1>5, <2>2
  <2>3. QED
    BY <2>1, <2>2
<1>7. \A k \in Shown(w)' : k \in Shown(w) \/ (w = x /\ k = line[x].n)
  <2> SUFFICES ASSUME NEW k \in Shown(w)' PROVE k \in Shown(w) \/ (w = x /\ k = line[x].n)
    OBVIOUS
  <2>1. CASE \E m \in Names : active'[m] # NoEvent /\ active'[m].w = w /\ k = active'[m].n
    BY <1>3, <2>1 DEF Shown
  <2>2. CASE \E i \in 1..Len(d) : d[i].w = w /\ d[i].kind = "progress" /\ k = d[i].n
    <3>1. PICK i \in 1..Len(d) : d[i].w = w /\ d[i].kind = "progress" /\ k = d[i].n
      BY <2>2
    <3>2. CASE d[i] = e
      BY <1>1, <3>1, <3>2
    <3>3. CASE \E j \in 1..Len(q) : d[i] = q[j]
      BY <1>2, <3>1, <3>3 DEF Shown
    <3>4. QED
      BY <1>6, <3>2, <3>3
  <2>3. QED
    BY <1>5, <2>1, <2>2 DEF Shown
<1>8. OnItsWay(w, n) => OnItsWay(w, n)'
  BY <1>2, <1>5, <1>6 DEF OnItsWay
<1>9. n \in 1..Reached'[w] /\ ~OnItsWay(w, n)'
  BY DEF Missed
<1>10. \A k \in Shown(w)' : k < n => k \in Shown(w)
  <2> SUFFICES ASSUME NEW k \in Shown(w)', k < n, w = x, k = line[x].n PROVE FALSE
    BY <1>7
  <2>1. n \in 1..line[x].n
    BY <1>4, <1>9
  <2>2. QED
    BY <1>4, <2>1
<1>11. n \notin 1..Reached[w]
  BY <1>8, <1>10, NewlyMissed
<1>12. w = x
  BY <1>4, <1>9, <1>11
<1>13. n = line[x].n
  BY <1>4, <1>9, <1>11, <1>12
<1>14. ~(Len(q) < SubCap)
  BY <1>1, <1>5, <1>6, <1>9, <1>12, <1>13 DEF OnItsWay
<1>15. Len(q) = SubCap
  <2>1. Len(q) \in Nat /\ Len(q) <= SubCap /\ SubCap \in Nat
    BY <1>2, LenProperties, ObserveAssumption DEF Subs
  <2>2. QED
    BY <1>14, <2>1
<1>16. QED
  BY <1>2, <1>12, <1>13, <1>15

\* Of all steps only that of a reader that finds the channel full makes the
\* store miss a completion.
LEMMA MissedStep ==
  ASSUME ObserveInv, Filed, [Next]_vars, NEW w \in Workers,
         NEW n \in Missed(w)', n \notin Missed(w)
  PROVE  Emit(w) /\ n = line[w].n /\ Len(chan[Store]) = SubCap
<1>0. ASSUME UNCHANGED active, chan'[Store] = chan[Store]
      PROVE  n \in 1..Reached'[w] /\ n \notin 1..Reached[w] /\ Prints[w][n] = "timing"
  <2>1. Shown(w)' = Shown(w)
    BY <1>0 DEF Shown
  <2>2. OnItsWay(w, n)' = OnItsWay(w, n)
    BY <1>0 DEF OnItsWay
  <2>3. QED
    BY <2>1, <2>2, NewlyMissed
<1>1. ASSUME UNCHANGED active, chan'[Store] = chan[Store], Reached'[w] = Reached[w] PROVE FALSE
  BY <1>0, <1>1
<1> USE DEF ObserveInv, TypeOK
<1>2. ASSUME NEW x \in Workers, WorkerStep(x)
      PROVE  Emit(w) /\ n = line[w].n /\ Len(chan[Store]) = SubCap
  <2>1. CASE Start(x) \/ Exit(x) \/ PrintLine(x) \/ Fill(x) \/ ScanEnds(x) \/ WaitReturns(x) \/ WaitEnds(x)
    <3>1. /\ UNCHANGED <<active, chan, line>>
          /\ reader'[w] = reader[w] \/ {reader[w], reader'[w]} \cap {"log", "emit"} = {}
      BY <2>1, <1>2 DEF Start, Exit, PrintLine, Fill, ScanEnds, WaitReturns, WaitEnds, readerFrame,
                        subVars, storeVars, Accounts, Account
    <3>2. Reached'[w] = Reached[w]
      BY <3>1 DEF Reached
    <3>3. QED
      BY <1>1, <3>1, <3>2
  <2>2. CASE Scan(x)
    <3>1. UNCHANGED <<active, chan>>
      BY <2>2 DEF Scan, subVars, storeVars
    <3>2. Reached'[w] = Reached[w]
      <4>1. CASE w = x
        <5>1. /\ line'[w] = Head(buf[w]) /\ buf[w] # <<>> /\ buf[w] \in Seq(LineSet)
              /\ reader[w] = "scan" /\ reader'[w] = "log"
          BY <2>2, <4>1 DEF Scan
        <5>2. line'[w] = buf[w][1] /\ 1 \in 1..Len(buf[w])
          BY <5>1, HeadTailProperties, EmptySeq, LenProperties
        <5>3. line'[w].n = line[w].n + 1
          BY <5>2 DEF Stream
        <5>4. line[w].n \in Nat
          BY ReachedType
        <5>5. QED
          <6>1. Reached'[w] = line'[w].n - 1 /\ Reached[w] = line[w].n
            BY <5>1 DEF Reached
          <6>2. QED
            BY <5>3, <5>4, <6>1
      <4>2. CASE w # x
        BY <2>2, <4>2 DEF Scan, Reached
      <4>3. QED
        BY <4>1, <4>2
    <3>3. QED
      BY <1>1, <3>1, <3>2
  <2>3. CASE Log(x)
    <3>1. UNCHANGED <<active, chan, line>> /\ reader[x] = "log"
      BY <2>3 DEF Log, subVars, storeVars
    <3>2. CASE reader'[w] = reader[w] \/ reader'[w] = "emit"
      <4>1. Reached'[w] = Reached[w]
        BY <2>3, <3>1, <3>2 DEF Log, Reached
      <4>2. QED
        BY <1>1, <3>1, <4>1
    <3>3. CASE reader'[w] # reader[w] /\ reader'[w] # "emit"
      <4>1. w = x /\ reader[w] = "log" /\ reader'[w] = "scan" /\ ~IsEvent(line[w])
        BY <2>3, <3>3 DEF Log
      <4>2. Prints[w][line[w].n] # "timing"
        BY <4>1 DEF Filed, Genuine, IsEvent
      <4>3. n \in 1..Reached'[w] /\ n \notin 1..Reached[w] /\ Prints[w][n] = "timing"
        BY <1>0, <3>1
      <4>4. Reached'[w] = line[w].n /\ Reached[w] = line[w].n - 1 /\ line[w].n \in Nat
        BY <3>1, <4>1, ReachedType DEF Reached
      <4>5. n = line[w].n
        BY <4>3, <4>4
      <4>6. QED
        BY <4>2, <4>3, <4>5
    <3>4. QED
      BY <3>2, <3>3
  <2>4. CASE Emit(x)
    BY <2>4, EmitMisses
  <2>5. QED
    BY <1>2, <2>1, <2>2, <2>3, <2>4 DEF WorkerStep, ReaderStep
<1>3. ASSUME NEW s \in Subs, SubStep(s) PROVE FALSE
  <2>1. CASE Receive(s)
    BY <2>1, ReceiveMisses
  <2>2. CASE ~Receive(s)
    <3>1. s # Store
      BY <1>3, <2>2, ObserveAssumption DEF SubStep, Subscribe, Cancel, Unsubscribe, TailEnds, Filed
    <3>2. UNCHANGED <<active, reader, line>> /\ chan'[Store] = chan[Store]
      BY <1>3, <2>2, <3>1 DEF SubStep, Subscribe, Cancel, Unsubscribe, TailEnds, subFrame,
                              workerVars, storeVars, Subs
    <3>3. QED
      BY <1>1, <3>2 DEF Reached
  <2>3. QED
    BY <2>1, <2>2
<1>4. CASE NewDay \/ UNCHANGED vars
  <2>1. UNCHANGED <<active, reader, line, chan>>
    BY <1>4 DEF NewDay, vars, workerVars, subVars, storeVars
  <2>2. QED
    BY <1>1, <2>1 DEF Reached
<1>5. QED
  BY <1>2, <1>3, <1>4 DEF Next

\* For any workers of a name, channels and tails: status goes on showing a
\* request whose completion its worker has reported only if the store's channel
\* had no room when it did.
THEOREM OnlyDropsAreMissed == Spec => MissedIsDropped
<1> DEFINE D == \A w \in Workers : \A n \in Missed(w)' \ Missed(w) :
                  Emit(w) /\ n = line[w].n /\ Len(chan[Store]) = SubCap
<1>1. ObserveInv /\ Filed /\ [Next]_vars => [D]_vars
  BY MissedStep
<1>2. Spec => []Filed
  BY FiledInit, FiledStep, ObserveSafety, PTL DEF Spec
<1>3. QED
  BY <1>1, <1>2, ObserveSafety, PTL DEF Spec, MissedIsDropped

\* A completion is published while the store's channel is full.
Dropped ==
  \E w \in Workers : Emit(w) /\ line[w].kind = "timing" /\ Len(chan[Store]) = SubCap

\* A store that is never behind by a whole channel misses no completion: once it
\* has received what is on its way it shows no request as active that is over.
THEOREM StatusIsRight == Spec /\ [][~Dropped]_vars => [](\A w \in Workers : Missed(w) = {})
<1> DEFINE None == \A w \in Workers : Missed(w) = {}
<1>1. Init => None
  <2>1. Init => \A w \in Workers : Reached[w] = 0
    BY DEF Init, Reached, NoLine
  <2>2. QED
    BY <2>1 DEF Missed
<1>2. ASSUME ObserveInv, Filed, None, [Next]_vars, [~Dropped]_vars PROVE None'
  <2> SUFFICES ASSUME NEW w \in Workers, NEW n \in Missed(w)' PROVE FALSE
    OBVIOUS
  <2>1. n \notin Missed(w)
    BY <1>2
  <2>2. Emit(w) /\ n = line[w].n /\ Len(chan[Store]) = SubCap
    BY <1>2, <2>1, MissedStep
  <2>3. Prints[w][n] = "timing"
    BY DEF Missed
  <2>4. line[w].kind = "timing" /\ vars' # vars
    <3>1. reader[w] = "emit" /\ reader'[w] = "scan"
      BY <1>2, <2>2 DEF Emit, ObserveInv, TypeOK
    <3>2. QED
      BY <1>2, <2>2, <2>3, <3>1 DEF Filed, Genuine, vars, workerVars
  <2>5. QED
    BY <1>2, <2>2, <2>4 DEF Dropped
<1>3. Spec => []Filed
  BY FiledInit, FiledStep, ObserveSafety, PTL DEF Spec
<1>4. QED
  BY <1>1, <1>2, <1>3, ObserveSafety, PTL DEF Spec
=============================================================================
