--------------------------- MODULE Streams_proofs ----------------------------
(* Theorems about the streams of one control connection (ControlStream): where a    *)
(* stream is counted, what its halves still owe, and the places it takes.           *)
EXTENDS ControlStream, FiniteSetTheorems, TLAPS

-----------------------------------------------------------------------------
(* The streams of one control connection *)

Controls == Kinds \X (Stream \cup Nat)
OpenSteps == {"none", "dial", "dialled", "reply", "refuse", "over", "refused"}
StreamState ==
  [fin : {"no", "ending", "over"}, reason : {"none", "closed", "gone", "eof", "conn"},
   dataC : Seq(Nat), pump : {"off", "read", "put"}, chunk : Nat, sent : Nat, said : Nat,
   upBuf : Seq(Nat), worker : {"off", "take", "put"}, lifted : Nat, upC : Seq(Nat),
   up : {"off", "take"}, got : Seq(Nat), out : Seq(Nat)]

SocketFrames == Controls \cup (Stream \X Nat)
Requests == [queue : Seq(Controls), reader : Stream \cup {"free"}, busy : Controls,
             open : [Stream -> OpenSteps]]
WriterState ==
  [highC : Seq(Controls), wire : Seq(SocketFrames), at : {"drain", "wait", "write", "clear", "off"},
   frame : SocketFrames, wake : BOOLEAN, locked : BOOLEAN, latches : SUBSET SocketFrames,
   subscribed : BOOLEAN]
StreamTyped ==
  /\ link \in {"open", "closing", "closed", "gone"}
  /\ asked \in [open : SUBSET Stream, close : SUBSET Stream, subs : Nat, plain : Nat]
  /\ req \in Requests /\ w \in WriterState
  /\ streams \in SUBSET Stream /\ IsFiniteSet(streams)
  /\ st \in [Stream -> StreamState]

\* A stream is asked for once, and its request is in the queue until it is dialled.
AskedOnce ==
  /\ \A s \in Stream : s \notin asked.open => req.open[s] = "none"
  /\ \A i \in 1 .. Len(req.queue) : req.queue[i][1] = "open" =>
       req.queue[i][2] \in asked.open /\ req.open[req.queue[i][2]] = "none"
  /\ \A i, j \in 1 .. Len(req.queue) :
       req.queue[i][1] = "open" /\ req.queue[i] = req.queue[j] => i = j

Unended == {s \in Opened : st[s].fin = "no"}

\* The streams of the connection are opened, and every one that nobody has ended is among
\* them.
PlacesKept ==
  /\ Unended \subseteq streams /\ streams \subseteq Opened
  /\ workers = Cardinality(Unended)
  /\ link = "gone" => streams = {}

\* What the client sent on a stream is, in order, with the backend, in the two buffers and
\* with the worker between them, as long as nobody has ended the stream.
UpLine(r) ==
  LET g == Len(r.got) c == Len(r.upC) b == Len(r.upBuf)
      l == IF r.worker = "put" THEN 1 ELSE 0
  IN /\ \A i \in 1 .. c : r.upC[i] = g + i
     /\ r.worker = "put" => r.lifted = g + c + 1
     /\ \A i \in 1 .. b : r.upBuf[i] = g + c + l + i
     /\ r.said = g + c + l + b
UpSound(r) ==
  /\ \A i \in 1 .. Len(r.got) : r.got[i] = i
  /\ r.fin = "no" => UpLine(r)

\* The socket has the data in order, and at most an end behind them.
EndWritten(r) == Len(r.out) > 0 /\ r.out[Len(r.out)] = End
EndsAfter(r, k) == r.fin = "over" /\ (r.reason = "eof" => r.sent = k)
OutSound(r, in) ==
  /\ \A i \in 1 .. Len(r.out) : r.out[i] = i \/ (i = Len(r.out) /\ r.out[i] = End)
  /\ EndWritten(r) => ~in /\ EndsAfter(r, Len(r.out) - 1)

\* Behind t items that were taken the queue goes on with the next, up to what the backend
\* has sent, or up to the end item.
NoEndYet(r, t) ==
  LET q == Len(r.dataC)
  IN /\ \A j \in 1 .. q : r.dataC[j] = t + j
     /\ t + q <= r.sent
     /\ r.pump = "put" => r.chunk = t + q + 1 /\ r.sent = r.chunk
     /\ r.pump = "read" \/ r.reason = "eof" => r.sent = t + q
EndQueued(r, t) ==
  \E e \in 1 .. Len(r.dataC) :
    /\ r.dataC[e] = End /\ EndsAfter(r, t + e - 1)
    /\ \A j \in 1 .. e - 1 : r.dataC[j] = t + j
Line(r, t) == NoEndYet(r, t) \/ EndQueued(r, t)

\* With an item x in the writer's hand, or with none.
FlowIdle(r) == EndWritten(r) \/ Line(r, Len(r.out))
FlowBusy(r, x) ==
  /\ ~EndWritten(r)
  /\ \/ x = End /\ EndsAfter(r, Len(r.out))
     \/ x = Len(r.out) + 1 /\ Line(r, Len(r.out) + 1)

InHand(s) == w.at = "write" /\ w.frame[1] = s
Flow(r, s) ==
  /\ InHand(s) => FlowBusy(r, w.frame[2])
  /\ w.at # "off" /\ ~InHand(s) => FlowIdle(r)

Stage(r, open) ==
  /\ open \notin {"reply", "over"} => r = FreshStream
  /\ open = "reply" => r.pump = "off" /\ r.worker = "off" /\ r.up = "off" /\ r.sent = 0
  /\ r.reason = "eof" => open = "over" /\ r.pump = "off"
  /\ r.fin = "no" => r.reason = "none"

StreamSound(r, s) ==
  /\ Stage(r, req.open[s]) /\ UpSound(r) /\ OutSound(r, s \in streams) /\ Flow(r, s)

\* A control frame is nobody's item.
StreamInv ==
  /\ StreamTyped /\ AskedOnce /\ PlacesKept /\ \A s \in Stream : StreamSound(st[s], s)

-----------------------------------------------------------------------------
(* Sequences and records *)

LEMMA AppendFacts ==
  ASSUME NEW T, NEW q \in Seq(T), NEW x \in T
  PROVE  /\ Append(q, x) \in Seq(T) /\ Len(Append(q, x)) = Len(q) + 1 /\ Len(q) \in Nat
         /\ \A i \in 1 .. Len(q) : Append(q, x)[i] = q[i] /\ q[i] \in T
         /\ Append(q, x)[Len(q) + 1] = x
OBVIOUS

LEMMA TailFacts ==
  ASSUME NEW T, NEW q \in Seq(T), q # <<>>
  PROVE  /\ Tail(q) \in Seq(T) /\ Len(q) \in Nat \ {0} /\ Len(Tail(q)) = Len(q) - 1
         /\ Head(q) = q[1] /\ q[1] \in T
         /\ \A i \in 1 .. Len(q) - 1 : Tail(q)[i] = q[i + 1]
OBVIOUS

\* A stream nobody has opened.
LEMMA FreshSound ==
  /\ FreshStream \in StreamState /\ UpSound(FreshStream) /\ OutSound(FreshStream, TRUE)
  /\ Line(FreshStream, 0) /\ ~EndWritten(FreshStream)
<1>1. FreshStream \in StreamState
  BY DEF FreshStream, StreamState
<1>2. UpSound(FreshStream)
  BY DEF FreshStream, UpSound, UpLine
<1>3. ~EndWritten(FreshStream)
  BY DEF FreshStream, EndWritten
<1>4. OutSound(FreshStream, TRUE)
  BY <1>3 DEF FreshStream, OutSound
<1>5. NoEndYet(FreshStream, 0)
  BY DEF FreshStream, NoEndYet
<1> QED BY <1>1, <1>2, <1>3, <1>4, <1>5 DEF Line

\* What the socket, the queue and the pump hold stays as it is.
LEMMA SameFlow ==
  ASSUME NEW r, NEW q, NEW s, NEW in \in BOOLEAN,
         q.fin = r.fin, q.reason = r.reason, q.out = r.out, q.dataC = r.dataC,
         q.pump = r.pump, q.chunk = r.chunk, q.sent = r.sent,
         OutSound(r, in), Flow(r, s)
  PROVE  OutSound(q, in) /\ Flow(q, s)
<1>1. OutSound(q, in)
  BY DEF OutSound, EndWritten, EndsAfter
<1>2. EndWritten(q) = EndWritten(r) /\ \A t : Line(q, t) <=> Line(r, t)
  BY DEF EndWritten, Line, NoEndYet, EndQueued, EndsAfter
<1>3. FlowIdle(r) => FlowIdle(q)
  BY <1>2 DEF FlowIdle
<1>4. \A x : FlowBusy(r, x) => FlowBusy(q, x)
  BY <1>2 DEF FlowBusy, EndsAfter
<1> QED BY <1>1, <1>3, <1>4 DEF Flow

LEMMA SameUp ==
  ASSUME NEW r, NEW q, UpSound(r), q.got = r.got, q.upC = r.upC, q.upBuf = r.upBuf,
         q.worker = r.worker, q.lifted = r.lifted, q.said = r.said,
         q.fin = r.fin \/ q.fin # "no"
  PROVE  UpSound(q)
BY DEF UpSound, UpLine

\* Whoever ends a stream: a pump that saw the backend's own end has queued everything.
LEMMA EndedFlow ==
  ASSUME NEW r \in StreamState, NEW q \in StreamState, NEW s, NEW in \in BOOLEAN,
         r.fin = "no", q.fin = "ending", q.out = r.out, q.dataC = r.dataC, q.sent = r.sent,
         q.chunk = r.chunk, q.pump = r.pump \/ (q.pump = "off" /\ r.pump = "read"),
         q.reason = "eof" => r.pump = "read" /\ q.pump = "off",
         r.reason # "eof",
         OutSound(r, in), Flow(r, s)
  PROVE  OutSound(q, in) /\ Flow(q, s)
<1>1. ~EndWritten(r) /\ ~EndWritten(q)
  BY DEF OutSound, EndWritten, EndsAfter
<1>2. OutSound(q, in)
  BY <1>1 DEF OutSound
<1>3. \A t : Line(r, t) => Line(q, t)
  <2> SUFFICES ASSUME NEW t, Line(r, t) PROVE Line(q, t)
    OBVIOUS
  <2>1. NoEndYet(r, t)
    BY DEF Line, EndQueued, EndsAfter
  <2>2. NoEndYet(q, t)
    BY <2>1 DEF NoEndYet
  <2> QED BY <2>2 DEF Line
<1>4. FlowIdle(r) => FlowIdle(q)
  BY <1>1, <1>3 DEF FlowIdle
<1>5. \A x : FlowBusy(r, x) => FlowBusy(q, x)
  BY <1>1, <1>3 DEF FlowBusy, EndsAfter
<1> QED BY <1>2, <1>4, <1>5 DEF Flow

\* The end item goes behind what is queued.
LEMMA EndPutFlow ==
  ASSUME NEW r \in StreamState, NEW q \in StreamState, NEW s, NEW in \in BOOLEAN,
         r.fin = "ending", q.fin = "over", q.out = r.out, q.dataC = Append(r.dataC, End),
         q.sent = r.sent, q.reason = r.reason,
         OutSound(r, in), Flow(r, s)
  PROVE  OutSound(q, in) /\ Flow(q, s)
<1>1. ~EndWritten(r) /\ ~EndWritten(q)
  BY DEF OutSound, EndWritten, EndsAfter
<1>2. OutSound(q, in)
  BY <1>1 DEF OutSound
<1>3. /\ Len(q.dataC) = Len(r.dataC) + 1 /\ Len(r.dataC) \in Nat
      /\ \A i \in 1 .. Len(r.dataC) : q.dataC[i] = r.dataC[i]
      /\ q.dataC[Len(r.dataC) + 1] = End
  BY AppendFacts, SMTT(60) DEF StreamState, End
<1>4. \A t \in Nat : Line(r, t) => Line(q, t)
  <2> SUFFICES ASSUME NEW t \in Nat, Line(r, t) PROVE Line(q, t)
    OBVIOUS
  <2>1. NoEndYet(r, t)
    BY DEF Line, EndQueued, EndsAfter
  <2> DEFINE e == Len(r.dataC) + 1
  <2>2. e \in 1 .. Len(q.dataC) /\ q.dataC[e] = End
    BY <1>3
  <2>3. EndsAfter(q, t + e - 1)
    BY <1>3, <2>1 DEF EndsAfter, NoEndYet
  <2>4. \A j \in 1 .. e - 1 : q.dataC[j] = t + j
    BY <1>3, <2>1 DEF NoEndYet
  <2> QED BY <2>2, <2>3, <2>4 DEF Line, EndQueued
<1>5. Len(r.out) \in Nat /\ Len(r.out) + 1 \in Nat
  <2>1. r.out \in Seq(Nat)
    BY DEF StreamState
  <2> QED BY <2>1
<1>6. FlowIdle(r) => FlowIdle(q)
  BY <1>1, <1>4, <1>5 DEF FlowIdle
<1>7. \A x : FlowBusy(r, x) => FlowBusy(q, x)
  BY <1>1, <1>4, <1>5 DEF FlowBusy, EndsAfter
<1> QED BY <1>2, <1>6, <1>7 DEF Flow

\* A stream that is over without an end item: its connection is closed.
LEMMA OverFlow ==
  ASSUME NEW r \in StreamState, NEW q \in StreamState, NEW s, NEW in \in BOOLEAN,
         NEW rest \in BOOLEAN, rest => in,
         r.fin # "over", q.fin = "over", q.out = r.out, q.dataC = r.dataC, q.chunk = r.chunk,
         q.sent = r.sent, q.pump = r.pump, q.reason = r.reason \/ q.reason = "conn",
         OutSound(r, in), Flow(r, s)
  PROVE  OutSound(q, rest) /\ Flow(q, s)
<1>1. ~EndWritten(r) /\ ~EndWritten(q)
  BY DEF OutSound, EndWritten, EndsAfter
<1>2. OutSound(q, rest)
  BY <1>1 DEF OutSound
<1>3. \A t : Line(r, t) => Line(q, t)
  <2> SUFFICES ASSUME NEW t, Line(r, t) PROVE Line(q, t)
    OBVIOUS
  <2>1. NoEndYet(r, t)
    BY DEF Line, EndQueued, EndsAfter
  <2>2. NoEndYet(q, t)
    BY <2>1 DEF NoEndYet
  <2> QED BY <2>2 DEF Line
<1>4. FlowIdle(r) => FlowIdle(q)
  BY <1>1, <1>3 DEF FlowIdle
<1>5. \A x : FlowBusy(r, x) => FlowBusy(q, x)
  BY <1>1, <1>3 DEF FlowBusy, EndsAfter
<1> QED BY <1>2, <1>4, <1>5 DEF Flow

\* The pump reads an item, puts it into the queue, or drops it with its stream.
LEMMA PumpReadFlow ==
  ASSUME NEW r \in StreamState, NEW q \in StreamState, NEW s, NEW in \in BOOLEAN,
         r.fin = "no", r.pump = "read", r.reason = "none",
         q.fin = r.fin, q.reason = r.reason, q.out = r.out, q.dataC = r.dataC,
         q.pump = "put", q.sent = r.sent + 1, q.chunk = r.sent + 1,
         OutSound(r, in), Flow(r, s)
  PROVE  OutSound(q, in) /\ Flow(q, s)
<1>1. ~EndWritten(r) /\ ~EndWritten(q)
  BY DEF OutSound, EndWritten, EndsAfter
<1>2. OutSound(q, in)
  BY <1>1 DEF OutSound
<1>3. r.dataC \in Seq(Nat) /\ r.out \in Seq(Nat) /\ r.sent \in Nat
  BY DEF StreamState
<1>4. \A t \in Nat : Line(r, t) => Line(q, t)
  <2> SUFFICES ASSUME NEW t \in Nat, Line(r, t) PROVE Line(q, t)
    OBVIOUS
  <2>1. NoEndYet(r, t)
    BY DEF Line, EndQueued, EndsAfter
  <2>2. NoEndYet(q, t)
    BY <1>3, <2>1 DEF NoEndYet
  <2> QED BY <2>2 DEF Line
<1>5. Len(r.out) \in Nat /\ Len(r.out) + 1 \in Nat
  BY <1>3
<1>6. FlowIdle(r) => FlowIdle(q)
  BY <1>1, <1>4, <1>5 DEF FlowIdle
<1>7. \A x : FlowBusy(r, x) => FlowBusy(q, x)
  BY <1>1, <1>4, <1>5 DEF FlowBusy, EndsAfter
<1> QED BY <1>2, <1>6, <1>7 DEF Flow

LEMMA PumpPutFlow ==
  ASSUME NEW r \in StreamState, NEW q \in StreamState, NEW s, NEW in \in BOOLEAN,
         r.pump = "put", r.reason # "eof",
         q.fin = r.fin, q.reason = r.reason, q.out = r.out, q.dataC = Append(r.dataC, r.chunk),
         q.pump \in {"read", "off"}, q.sent = r.sent,
         OutSound(r, in), Flow(r, s)
  PROVE  OutSound(q, in) /\ Flow(q, s)
<1>1. EndWritten(r) = EndWritten(q)
  BY DEF EndWritten
<1>2. OutSound(q, in)
  BY <1>1 DEF OutSound, EndsAfter
<1>3. r.out \in Seq(Nat) /\ r.dataC \in Seq(Nat) /\ r.chunk \in Nat /\ r.sent \in Nat
  BY DEF StreamState
<1>4. /\ Len(q.dataC) = Len(r.dataC) + 1 /\ Len(r.dataC) \in Nat
      /\ \A i \in 1 .. Len(r.dataC) : q.dataC[i] = r.dataC[i]
      /\ q.dataC[Len(r.dataC) + 1] = r.chunk
  BY <1>3, AppendFacts
<1>5. \A t \in Nat : Line(r, t) => Line(q, t)
  <2> SUFFICES ASSUME NEW t \in Nat, Line(r, t) PROVE Line(q, t)
    OBVIOUS
  <2>1. CASE NoEndYet(r, t)
    <3>1. NoEndYet(q, t)
      BY <1>3, <1>4, <2>1 DEF NoEndYet
    <3> QED BY <3>1 DEF Line
  <2>2. CASE EndQueued(r, t)
    <3>1. PICK e \in 1 .. Len(r.dataC) :
            /\ r.dataC[e] = End /\ EndsAfter(r, t + e - 1)
            /\ \A j \in 1 .. e - 1 : r.dataC[j] = t + j
      BY <2>2 DEF EndQueued
    <3>2. e \in 1 .. Len(q.dataC) /\ q.dataC[e] = End /\ EndsAfter(q, t + e - 1)
      BY <1>4, <3>1 DEF EndsAfter
    <3>3. \A j \in 1 .. e - 1 : q.dataC[j] = t + j
      BY <1>4, <3>1
    <3> QED BY <3>2, <3>3 DEF Line, EndQueued
  <2> QED BY <2>1, <2>2 DEF Line
<1>6. Len(r.out) \in Nat /\ Len(r.out) + 1 \in Nat
  BY <1>3
<1>7. FlowIdle(r) => FlowIdle(q)
  BY <1>1, <1>5, <1>6 DEF FlowIdle
<1>8. \A x : FlowBusy(r, x) => FlowBusy(q, x)
  BY <1>1, <1>5, <1>6 DEF FlowBusy, EndsAfter
<1> QED BY <1>2, <1>7, <1>8 DEF Flow

\* A pump that stops, or begins to read with nothing sent, moves nothing.
LEMMA PumpTurnFlow ==
  ASSUME NEW r \in StreamState, NEW q \in StreamState, NEW s, NEW in \in BOOLEAN,
         r.reason # "eof", q.fin = r.fin, q.reason = r.reason, q.out = r.out,
         q.dataC = r.dataC, q.sent = r.sent,
         q.pump = "off" \/ (q.pump = "read" /\ r.sent = 0),
         OutSound(r, in), Flow(r, s)
  PROVE  OutSound(q, in) /\ Flow(q, s)
<1>1. EndWritten(r) = EndWritten(q)
  BY DEF EndWritten
<1>2. OutSound(q, in)
  BY <1>1 DEF OutSound, EndsAfter
<1>3. r.out \in Seq(Nat) /\ r.dataC \in Seq(Nat) /\ r.sent \in Nat
  BY DEF StreamState
<1>4. \A t \in Nat : Line(r, t) => Line(q, t)
  <2> SUFFICES ASSUME NEW t \in Nat, Line(r, t) PROVE Line(q, t)
    OBVIOUS
  <2>1. CASE NoEndYet(r, t)
    <3>1. Len(r.dataC) \in Nat
      BY <1>3
    <3>2. NoEndYet(q, t)
      BY <1>3, <2>1, <3>1 DEF NoEndYet
    <3> QED BY <3>2 DEF Line
  <2>2. CASE EndQueued(r, t)
    <3>1. EndQueued(q, t)
      BY <2>2 DEF EndQueued, EndsAfter
    <3> QED BY <3>1 DEF Line
  <2> QED BY <2>1, <2>2 DEF Line
<1>5. Len(r.out) \in Nat /\ Len(r.out) + 1 \in Nat
  BY <1>3
<1>6. FlowIdle(r) => FlowIdle(q)
  BY <1>1, <1>4, <1>5 DEF FlowIdle
<1>7. \A x : FlowBusy(r, x) => FlowBusy(q, x)
  BY <1>1, <1>4, <1>5 DEF FlowBusy, EndsAfter
<1> QED BY <1>2, <1>6, <1>7 DEF Flow

\* The writer takes the first item of the queue, ...
LEMMA TakenFlow ==
  ASSUME NEW r \in StreamState, NEW q \in StreamState, NEW in \in BOOLEAN,
         r.dataC # <<>>, q.fin = r.fin, q.reason = r.reason, q.out = r.out,
         q.dataC = Tail(r.dataC), q.pump = r.pump, q.chunk = r.chunk, q.sent = r.sent,
         OutSound(r, in), in, FlowIdle(r)
  PROVE  OutSound(q, in) /\ FlowBusy(q, Head(r.dataC))
<1>1. ~EndWritten(r) /\ ~EndWritten(q)
  BY DEF OutSound, EndWritten
<1>2. OutSound(q, in)
  BY <1>1 DEF OutSound
<1>3. r.out \in Seq(Nat) /\ r.dataC \in Seq(Nat) /\ r.sent \in Nat
  BY DEF StreamState
<1> DEFINE n == Len(r.out)
<1>4. n \in Nat
  BY <1>3
<1>5. /\ Len(r.dataC) \in Nat \ {0} /\ Len(q.dataC) = Len(r.dataC) - 1
      /\ Head(r.dataC) = r.dataC[1]
      /\ \A i \in 1 .. Len(r.dataC) - 1 : q.dataC[i] = r.dataC[i + 1]
  BY <1>3, TailFacts
<1>6. Line(r, n)
  BY <1>1 DEF FlowIdle
<1>7. CASE NoEndYet(r, n)
  <2>1. Head(r.dataC) = n + 1
    BY <1>5, <1>7 DEF NoEndYet
  <2> HIDE DEF n
  <2>2. NoEndYet(q, n + 1)
    <3> DEFINE k == Len(r.dataC)
    <3>1. k \in Nat \ {0} /\ Len(q.dataC) = k - 1 /\ (n + 1) + (k - 1) = n + k
      <4>1. \A a \in Nat, b \in Nat \ {0} : (a + 1) + (b - 1) = a + b
        OBVIOUS
      <4> QED BY <1>4, <1>5, <4>1
    <3>2. /\ \A j \in 1 .. k : r.dataC[j] = n + j
          /\ n + k <= r.sent
          /\ r.pump = "put" => r.chunk = n + k + 1 /\ r.sent = r.chunk
          /\ r.pump = "read" \/ r.reason = "eof" => r.sent = n + k
      BY <1>7 DEF NoEndYet
    <3> HIDE DEF k
    <3>3. ASSUME NEW j \in 1 .. k - 1 PROVE q.dataC[j] = (n + 1) + j
      <4>1. j + 1 \in 1 .. k /\ n + (j + 1) = (n + 1) + j
        BY <1>4, <3>1
      <4> QED BY <1>5, <3>2, <4>1 DEF k
    <3> QED BY <3>1, <3>2, <3>3 DEF NoEndYet
  <2>3. Line(q, n + 1) /\ n = Len(q.out)
    BY <2>2 DEF Line, n
  <2> QED BY <1>1, <1>2, <2>1, <2>3 DEF FlowBusy
<1>8. CASE EndQueued(r, n)
  <2> HIDE DEF n
  <2>1. PICK e \in 1 .. Len(r.dataC) :
          /\ r.dataC[e] = End /\ EndsAfter(r, n + e - 1)
          /\ \A j \in 1 .. e - 1 : r.dataC[j] = n + j
    BY <1>8 DEF EndQueued
  <2>2. CASE e = 1
    <3>1. Head(r.dataC) = End /\ EndsAfter(q, n) /\ n = Len(q.out)
      BY <1>4, <1>5, <2>1, <2>2 DEF EndsAfter, n
    <3> QED BY <1>1, <1>2, <3>1 DEF FlowBusy
  <2>3. CASE e # 1
    <3>1. Head(r.dataC) = n + 1
      BY <1>5, <2>1, <2>3
    <3>2. e - 1 \in 1 .. Len(q.dataC) /\ q.dataC[e - 1] = End
      BY <1>5, <2>1, <2>3
    <3>3. EndsAfter(q, (n + 1) + (e - 1) - 1)
      <4>1. (n + 1) + (e - 1) - 1 = n + e - 1
        BY <1>4
      <4> QED BY <2>1, <4>1 DEF EndsAfter
    <3>4. ASSUME NEW j \in 1 .. (e - 1) - 1 PROVE q.dataC[j] = (n + 1) + j
      <4>1. /\ j + 1 \in 1 .. e - 1 /\ n + (j + 1) = (n + 1) + j
            /\ j \in 1 .. Len(r.dataC) - 1
        BY <1>4, <1>5, <2>1
      <4> QED BY <1>5, <2>1, <4>1
    <3>5. Line(q, n + 1) /\ n = Len(q.out)
      BY <3>2, <3>3, <3>4 DEF Line, EndQueued, n
    <3> QED BY <1>1, <1>2, <3>1, <3>5 DEF FlowBusy
  <2> QED BY <2>2, <2>3
<1> QED BY <1>6, <1>7, <1>8 DEF Line

\* ... and writes it; with the end the stream leaves the connection.
LEMMA WrittenFlow ==
  ASSUME NEW r \in StreamState, NEW q \in StreamState, NEW x \in Nat, NEW in \in BOOLEAN,
         q.fin = r.fin, q.reason = r.reason, q.out = Append(r.out, x),
         q.dataC = r.dataC, q.pump = r.pump, q.chunk = r.chunk, q.sent = r.sent,
         OutSound(r, in), FlowBusy(r, x)
  PROVE  /\ x # End => OutSound(q, in)
         /\ x = End => OutSound(q, FALSE)
         /\ FlowIdle(q)
<1> DEFINE n == Len(r.out)
<1>1. r.out \in Seq(Nat) /\ n \in Nat
  BY DEF StreamState
<1>2. /\ Len(q.out) = n + 1 /\ q.out[n + 1] = x
      /\ \A i \in 1 .. n : q.out[i] = r.out[i]
  BY <1>1, AppendFacts
<1>3. \A i \in 1 .. n : r.out[i] = i
  BY <1>1 DEF OutSound, FlowBusy, EndWritten
<1>4. x = End \/ x = n + 1
  BY DEF FlowBusy
<1>5. \A t : Line(r, t) => Line(q, t)
  BY DEF Line, NoEndYet, EndQueued, EndsAfter
<1>6. EndWritten(q) <=> x = End
  BY <1>1, <1>2 DEF EndWritten
<1>7. \A i \in 1 .. n + 1 : q.out[i] = i \/ (i = n + 1 /\ q.out[i] = End)
  <2> SUFFICES ASSUME NEW i \in 1 .. n + 1 PROVE q.out[i] = i \/ (i = n + 1 /\ q.out[i] = End)
    OBVIOUS
  <2>1. CASE i = n + 1
    BY <1>2, <1>4, <2>1
  <2>2. CASE i # n + 1
    <3>1. i \in 1 .. n
      BY <1>1, <2>2
    <3> QED BY <1>2, <1>3, <3>1
  <2> QED BY <2>1, <2>2
<1>8. CASE x = End
  <2>1. EndsAfter(r, n)
    BY <1>1, <1>8 DEF FlowBusy, End
  <2>2. EndsAfter(q, Len(q.out) - 1)
    BY <1>1, <1>2, <2>1 DEF EndsAfter
  <2> QED BY <1>2, <1>6, <1>7, <1>8, <2>2 DEF OutSound, FlowIdle
<1>9. CASE x # End
  <2>1. Line(q, Len(q.out))
    BY <1>2, <1>5, <1>9 DEF FlowBusy
  <2> QED BY <1>2, <1>6, <1>7, <1>9, <2>1 DEF OutSound, FlowIdle
<1> QED BY <1>8, <1>9

\* The client's frames, through the worker's buffer, the worker and the backend's queue.
LEMMA UpMoves ==
  ASSUME NEW r \in StreamState, NEW q \in StreamState, UpSound(r), q.fin = r.fin,
         \/ /\ q.said = r.said + 1 /\ q.upBuf = Append(r.upBuf, r.said + 1)
            /\ q.worker = r.worker /\ q.lifted = r.lifted /\ q.upC = r.upC /\ q.got = r.got
         \/ /\ r.worker = "take" /\ r.upBuf # <<>>
            /\ q.worker = "put" /\ q.lifted = Head(r.upBuf) /\ q.upBuf = Tail(r.upBuf)
            /\ q.said = r.said /\ q.upC = r.upC /\ q.got = r.got
         \/ /\ r.worker = "put"
            /\ q.worker = "take" /\ q.upC = Append(r.upC, r.lifted)
            /\ q.said = r.said /\ q.upBuf = r.upBuf /\ q.got = r.got
         \/ /\ r.upC # <<>> /\ r.fin = "no"
            /\ q.upC = Tail(r.upC) /\ q.got = Append(r.got, Head(r.upC))
            /\ q.worker = r.worker /\ q.lifted = r.lifted /\ q.upBuf = r.upBuf
            /\ q.said = r.said
  PROVE  UpSound(q)
<1> DEFINE g == Len(r.got)
           c == Len(r.upC)
           b == Len(r.upBuf)
           l == IF r.worker = "put" THEN 1 ELSE 0
<1>1. /\ r.got \in Seq(Nat) /\ r.upC \in Seq(Nat) /\ r.upBuf \in Seq(Nat)
      /\ r.lifted \in Nat /\ r.said \in Nat
  BY DEF StreamState
<1>2. g \in Nat /\ c \in Nat /\ b \in Nat /\ l \in {0, 1}
  BY <1>1
<1>3. \A i \in 1 .. g : r.got[i] = i
  BY DEF UpSound
<1>4. ASSUME r.fin = "no"
      PROVE  /\ \A i \in 1 .. c : r.upC[i] = g + i
             /\ r.worker = "put" => r.lifted = g + c + 1
             /\ \A i \in 1 .. b : r.upBuf[i] = g + c + l + i
             /\ r.said = g + c + l + b
  BY <1>4 DEF UpSound, UpLine
<1>5. CASE /\ q.said = r.said + 1 /\ q.upBuf = Append(r.upBuf, r.said + 1)
           /\ q.worker = r.worker /\ q.lifted = r.lifted /\ q.upC = r.upC /\ q.got = r.got
  <2>1. /\ Len(q.upBuf) = b + 1 /\ q.upBuf[b + 1] = r.said + 1
        /\ \A i \in 1 .. b : q.upBuf[i] = r.upBuf[i]
    BY <1>1, <1>5, AppendFacts
  <2>2. ASSUME r.fin = "no" PROVE UpLine(q)
    <3> HIDE DEF g, c, b, l
    <3>1. \A i \in 1 .. b + 1 : q.upBuf[i] = g + c + l + i
      BY <1>2, <1>4, <2>1, <2>2
    <3>2. q.said = g + c + l + (b + 1)
      BY <1>2, <1>4, <1>5, <2>2
    <3> QED BY <1>4, <1>5, <2>1, <2>2, <3>1, <3>2 DEF UpLine, g, c, b, l
  <2> QED BY <1>3, <1>5, <2>2 DEF UpSound
<1>6. CASE /\ r.worker = "take" /\ r.upBuf # <<>>
           /\ q.worker = "put" /\ q.lifted = Head(r.upBuf) /\ q.upBuf = Tail(r.upBuf)
           /\ q.said = r.said /\ q.upC = r.upC /\ q.got = r.got
  <2>1. /\ b # 0 /\ Len(q.upBuf) = b - 1 /\ Head(r.upBuf) = r.upBuf[1]
        /\ \A i \in 1 .. b - 1 : q.upBuf[i] = r.upBuf[i + 1]
    BY <1>1, <1>6, TailFacts
  <2>2. ASSUME r.fin = "no" PROVE UpLine(q)
    <3>1. l = 0
      BY <1>6
    <3> HIDE DEF g, c, b, l
    <3>2. q.lifted = g + c + 1
      BY <1>2, <1>4, <1>6, <2>1, <2>2, <3>1
    <3>3. ASSUME NEW i \in 1 .. b - 1 PROVE q.upBuf[i] = g + c + 1 + i
      <4>1. i + 1 \in 1 .. b /\ g + c + 0 + (i + 1) = g + c + 1 + i
        BY <1>2
      <4> QED BY <1>4, <2>1, <2>2, <3>1, <4>1
    <3>4. q.said = g + c + 1 + (b - 1)
      BY <1>2, <1>4, <1>6, <2>2, <3>1
    <3> QED BY <1>4, <1>6, <2>1, <2>2, <3>2, <3>3, <3>4 DEF UpLine, g, c
  <2> QED BY <1>3, <1>6, <2>2 DEF UpSound
<1>7. CASE /\ r.worker = "put"
           /\ q.worker = "take" /\ q.upC = Append(r.upC, r.lifted)
           /\ q.said = r.said /\ q.upBuf = r.upBuf /\ q.got = r.got
  <2>1. /\ Len(q.upC) = c + 1 /\ q.upC[c + 1] = r.lifted
        /\ \A i \in 1 .. c : q.upC[i] = r.upC[i]
    BY <1>1, <1>7, AppendFacts
  <2>2. ASSUME r.fin = "no" PROVE UpLine(q)
    <3>1. l = 1
      BY <1>7
    <3> HIDE DEF g, c, b, l
    <3>2. \A i \in 1 .. c + 1 : q.upC[i] = g + i
      BY <1>2, <1>4, <1>7, <2>1, <2>2
    <3>3. \A i \in 1 .. b : q.upBuf[i] = g + (c + 1) + 0 + i
      BY <1>2, <1>4, <1>7, <2>2, <3>1
    <3>4. q.said = g + (c + 1) + 0 + b
      BY <1>2, <1>4, <1>7, <2>2, <3>1
    <3> QED BY <1>7, <2>1, <3>2, <3>3, <3>4 DEF UpLine, g, b
  <2> QED BY <1>3, <1>7, <2>2 DEF UpSound
<1>8. CASE /\ r.upC # <<>> /\ r.fin = "no"
           /\ q.upC = Tail(r.upC) /\ q.got = Append(r.got, Head(r.upC))
           /\ q.worker = r.worker /\ q.lifted = r.lifted /\ q.upBuf = r.upBuf
           /\ q.said = r.said
  <2>1. /\ c # 0 /\ Len(q.upC) = c - 1 /\ Head(r.upC) = r.upC[1] /\ r.upC[1] \in Nat
        /\ \A i \in 1 .. c - 1 : q.upC[i] = r.upC[i + 1]
    BY <1>1, <1>8, TailFacts
  <2>2. /\ Len(q.got) = g + 1 /\ q.got[g + 1] = r.upC[1]
        /\ \A i \in 1 .. g : q.got[i] = r.got[i]
    BY <1>1, <1>8, <2>1, AppendFacts
  <2> HIDE DEF g, c, b, l
  <2>3. r.upC[1] = g + 1
    BY <1>2, <1>4, <1>8, <2>1
  <2>4. \A i \in 1 .. g + 1 : q.got[i] = i
    BY <1>2, <1>3, <2>2, <2>3
  <2>5. UpLine(q)
    <3>1. ASSUME NEW i \in 1 .. c - 1 PROVE q.upC[i] = (g + 1) + i
      <4>1. i + 1 \in 1 .. c /\ g + (i + 1) = (g + 1) + i
        BY <1>2
      <4> QED BY <1>4, <1>8, <2>1, <4>1
    <3>2. (g + 1) + (c - 1) = g + c
      BY <1>2
    <3>3. r.worker = "put" => q.lifted = (g + 1) + (c - 1) + 1
      BY <1>4, <1>8, <3>2
    <3>4. \A i \in 1 .. b : q.upBuf[i] = (g + 1) + (c - 1) + l + i
      BY <1>4, <1>8, <3>2
    <3>5. q.said = (g + 1) + (c - 1) + l + b
      BY <1>4, <1>8, <3>2
    <3> QED BY <1>8, <2>1, <2>2, <3>1, <3>3, <3>4, <3>5 DEF UpLine, b, l
  <2> QED BY <2>2, <2>4, <2>5 DEF UpSound
<1> QED BY <1>5, <1>6, <1>7, <1>8

-----------------------------------------------------------------------------
(* Steps *)

LEMMA UnendedFinite ==
  ASSUME StreamInv
  PROVE  IsFiniteSet(Unended) /\ Cardinality(Unended) \in Nat /\ Unended \subseteq Stream
<1>1. IsFiniteSet(Unended)
  BY FS_Subset DEF StreamInv, StreamTyped, PlacesKept
<1> QED BY <1>1, FS_CardinalityType DEF Unended, Opened

\* A control frame is in the writer's hand for no stream.
LEMMA NoneInHand ==
  ASSUME w.frame \in Controls, NEW s \in Stream
  PROVE  w.frame[1] # s
BY StreamNames DEF Controls

\* Steps that leave the streams alone, and the item in the writer's hand.
LEMMA QuietKept ==
  ASSUME StreamInv, UNCHANGED <<asked, streams, workers, st>>,
         link' \in {"open", "closing", "closed", "gone"}, link' = "gone" => link = "gone",
         req' \in Requests, req'.open = req.open, req'.queue = req.queue,
         w' \in WriterState,
         \A s \in Stream :
           /\ InHand(s)' => InHand(s) /\ w'.frame = w.frame
           /\ w'.at # "off" /\ ~InHand(s)' => w.at # "off" /\ ~InHand(s)
  PROVE  StreamInv'
<1>1. StreamTyped'
  BY DEF StreamInv, StreamTyped
<1>2. AskedOnce'
  BY DEF StreamInv, AskedOnce
<1>3. Opened' = Opened /\ Unended' = Unended
  BY DEF Opened, Unended
<1>4. PlacesKept'
  BY <1>3 DEF StreamInv, PlacesKept
<1>5. ASSUME NEW s \in Stream PROVE StreamSound(st[s], s)'
  <2>1. Flow(st[s], s)'
    BY DEF StreamInv, StreamSound, Flow
  <2> QED BY <2>1 DEF StreamInv, StreamSound
<1> QED BY <1>1, <1>2, <1>4, <1>5 DEF StreamInv

\* A goroutine of an opened stream moves the stream on, or ends it and gives its place back.
LEMMA StreamEditKept ==
  ASSUME StreamInv, NEW s \in Opened, NEW q \in StreamState, st' = [st EXCEPT ![s] = q],
         UNCHANGED <<link, asked, streams>>,
         req' \in Requests, req'.open = req.open, req'.queue = req.queue,
         w' \in WriterState, w'.at = w.at, w'.frame = w.frame,
         \/ (q.fin = "no" <=> st[s].fin = "no") /\ workers' = workers
         \/ st[s].fin = "no" /\ q.fin # "no" /\ workers' = workers - 1,
         StreamSound(q, s)
  PROVE  StreamInv'
<1>1. s \in Stream /\ st \in [Stream -> StreamState]
  BY DEF Opened, StreamInv, StreamTyped
<1>2. st'[s] = q /\ \A t \in Stream \ {s} : st'[t] = st[t]
  BY <1>1
<1>3. StreamTyped'
  BY <1>1 DEF StreamInv, StreamTyped
<1>4. AskedOnce'
  BY DEF StreamInv, AskedOnce
<1>5. Opened' = Opened
  BY DEF Opened
<1>6. PlacesKept'
  <2>1. CASE (q.fin = "no" <=> st[s].fin = "no") /\ workers' = workers
    <3>1. Unended' = Unended
      BY <1>1, <1>2, <1>5, <2>1 DEF Unended, Opened
    <3> QED BY <1>5, <2>1, <3>1 DEF StreamInv, PlacesKept
  <2>2. CASE st[s].fin = "no" /\ q.fin # "no" /\ workers' = workers - 1
    <3>1. Unended' = Unended \ {s} /\ s \in Unended
      BY <1>1, <1>2, <1>5, <2>2 DEF Unended, Opened
    <3>2. Cardinality(Unended \ {s}) = Cardinality(Unended) - 1
      BY <3>1, UnendedFinite, FS_RemoveElement
    <3> QED BY <1>5, <2>2, <3>1, <3>2 DEF StreamInv, PlacesKept
  <2> QED BY <2>1, <2>2
<1>7. ASSUME NEW t \in Stream, NEW r, StreamSound(r, t) PROVE StreamSound(r, t)'
  <2>1. InHand(t)' = InHand(t)
    BY DEF InHand
  <2>2. Flow(r, t)'
    BY <1>7, <2>1 DEF StreamSound, Flow
  <2> QED BY <1>7, <2>2 DEF StreamSound
<1>8. \A t \in Stream : StreamSound(st[t], t)'
  BY <1>1, <1>2, <1>7 DEF StreamInv
<1> QED BY <1>3, <1>4, <1>6, <1>8 DEF StreamInv

\* The dispatcher and the executor of a stream that is not registered yet.
LEMMA StageKept ==
  ASSUME StreamInv, NEW s \in Stream, NEW to \in OpenSteps,
         req.open[s] \notin {"reply", "over"}, to \notin {"reply", "over"},
         UNCHANGED <<link, asked, streams, workers, st>>,
         req' \in Requests, req'.open = [req.open EXCEPT ![s] = to],
         w' \in WriterState, w'.at = w.at, w'.frame = w.frame, AskedOnce'
  PROVE  StreamInv'
<1>1. req.open \in [Stream -> OpenSteps]
  BY DEF StreamInv, StreamTyped, Requests
<1>2. StreamTyped'
  BY DEF StreamInv, StreamTyped
<1>3. Opened' = Opened /\ Unended' = Unended
  BY <1>1 DEF Opened, Unended
<1>4. PlacesKept'
  BY <1>3 DEF StreamInv, PlacesKept
<1>5. ASSUME NEW t \in Stream PROVE StreamSound(st[t], t)'
  <2>1. Flow(st[t], t)'
    BY DEF StreamInv, StreamSound, Flow, InHand
  <2>2. Stage(st[t], req.open[t])'
    <3>1. CASE t = s
      BY <1>1, <3>1 DEF StreamInv, StreamSound, Stage
    <3>2. CASE t # s
      BY <1>1, <3>2 DEF StreamInv, StreamSound
    <3> QED BY <3>1, <3>2
  <2> QED BY <2>1, <2>2 DEF StreamInv, StreamSound
<1> QED BY <1>2, <1>4, <1>5 DEF StreamInv

\* The client asks.
LEMMA AskKept ==
  ASSUME StreamInv, NEW r \in Controls, Request(r),
         asked' \in [open : SUBSET Stream, close : SUBSET Stream, subs : Nat, plain : Nat],
         asked.open \subseteq asked'.open,
         r[1] = "open" => r[2] \in asked'.open /\ r[2] \notin asked.open
  PROVE  StreamInv'
<1>1. /\ UNCHANGED <<w, streams, workers, st>>
      /\ link' \in {"open", "closing"} /\ link = "open"
      /\ req' = req \/ req' = [req EXCEPT !.queue = Append(req.queue, r)]
  BY DEF Request
<1>2. req \in Requests /\ req.queue \in Seq(Controls)
  BY DEF StreamInv, StreamTyped, Requests
<1>3. Append(req.queue, r) \in Seq(Controls)
  BY <1>2, AppendFacts
<1>4. req' \in Requests /\ req'.open = req.open
  BY <1>1, <1>2, <1>3 DEF Requests
<1>5. StreamTyped'
  BY <1>1, <1>4 DEF StreamInv, StreamTyped
<1>6. AskedOnce'
  <2>1. CASE req' = req
    BY <2>1 DEF StreamInv, AskedOnce
  <2>2. CASE req' = [req EXCEPT !.queue = Append(req.queue, r)]
    <3> DEFINE q == req'.queue
               n == Len(req.queue)
    <3>1. q = Append(req.queue, r)
      BY <1>2, <2>2 DEF Requests
    <3>2. /\ Len(q) = n + 1 /\ n \in Nat /\ q[n + 1] = r
          /\ \A i \in 1 .. n : q[i] = req.queue[i]
      BY <1>2, <3>1, AppendFacts
    <3>3. \A s \in Stream : s \notin asked.open => req.open[s] = "none"
      BY DEF StreamInv, AskedOnce
    <3>4. \A i \in 1 .. n : req.queue[i][1] = "open" =>
            req.queue[i][2] \in asked.open /\ req.open[req.queue[i][2]] = "none"
      BY DEF StreamInv, AskedOnce
    <3>5. \A i, j \in 1 .. n : req.queue[i][1] = "open" /\ req.queue[i] = req.queue[j] => i = j
      BY DEF StreamInv, AskedOnce
    <3>6. asked'.open \subseteq Stream
      OBVIOUS
    <3> HIDE DEF q, n
    <3>7. ASSUME NEW i \in 1 .. n + 1, q[i][1] = "open"
          PROVE  q[i][2] \in asked'.open /\ req.open[q[i][2]] = "none"
      <4>1. CASE i = n + 1
        BY <3>2, <3>3, <3>6, <3>7, <4>1
      <4>2. CASE i # n + 1
        <5>1. i \in 1 .. n
          BY <3>2, <4>2
        <5> QED BY <3>2, <3>4, <3>7, <5>1
      <4> QED BY <4>1, <4>2
    <3>8. ASSUME NEW i \in 1 .. n, r[1] = "open" PROVE q[i] # r
      BY <3>2, <3>4, <3>8
    <3>9. ASSUME NEW i \in 1 .. n + 1, NEW j \in 1 .. n + 1, q[i][1] = "open", q[i] = q[j]
          PROVE  i = j
      <4>1. i = n + 1 \/ i \in 1 .. n
        BY <3>2
      <4>2. j = n + 1 \/ j \in 1 .. n
        BY <3>2
      <4>3. CASE i \in 1 .. n /\ j \in 1 .. n
        BY <3>2, <3>5, <3>9, <4>3
      <4>4. CASE i \in 1 .. n /\ j = n + 1
        BY <3>2, <3>8, <3>9, <4>4
      <4>5. CASE i = n + 1 /\ j \in 1 .. n
        BY <3>2, <3>8, <3>9, <4>5
      <4> QED BY <4>1, <4>2, <4>3, <4>4, <4>5
    <3>10. \A s \in Stream : s \notin asked'.open => req'.open[s] = "none"
      BY <1>4, <3>3
    <3>11. \A i \in 1 .. Len(q) : q[i][1] = "open" =>
             q[i][2] \in asked'.open /\ req'.open[q[i][2]] = "none"
      BY <1>4, <3>2, <3>7
    <3>12. \A i, j \in 1 .. Len(q) : q[i][1] = "open" /\ q[i] = q[j] => i = j
      BY <3>2, <3>9
    <3> QED BY <3>10, <3>11, <3>12 DEF AskedOnce, q
  <2> QED BY <1>1, <2>1, <2>2
<1>7. Opened' = Opened /\ Unended' = Unended
  BY <1>1, <1>4 DEF Opened, Unended
<1>8. PlacesKept'
  BY <1>1, <1>7 DEF StreamInv, PlacesKept
<1>9. ASSUME NEW s \in Stream PROVE StreamSound(st[s], s)'
  BY <1>1, <1>4 DEF StreamInv, StreamSound, Flow, InHand
<1> QED BY <1>5, <1>6, <1>8, <1>9 DEF StreamInv

-----------------------------------------------------------------------------
(* The actions *)

LEMMA AsksKept ==
  ASSUME StreamInv, AskSub \/ AskPlain \/ \E s \in Stream : AskOpen(s) \/ AskClose(s)
  PROVE  StreamInv'
<1>1. asked \in [open : SUBSET Stream, close : SUBSET Stream, subs : Nat, plain : Nat]
  BY DEF StreamInv, StreamTyped
<1>2. CASE AskSub
  <2>1. <<"sub", asked.subs + 1>> \in Controls /\ <<"sub", asked.subs + 1>>[1] # "open"
    BY <1>1 DEF Controls, Kinds
  <2>2. asked' = [asked EXCEPT !.subs = @ + 1] /\ Request(<<"sub", asked.subs + 1>>)
    BY <1>2 DEF AskSub
  <2>3. asked' \in [open : SUBSET Stream, close : SUBSET Stream, subs : Nat, plain : Nat]
        /\ asked'.open = asked.open
    BY <1>1, <2>2
  <2> QED BY <2>1, <2>2, <2>3, AskKept
<1>3. CASE AskPlain
  <2>1. <<"plain", asked.plain + 1>> \in Controls /\ <<"plain", asked.plain + 1>>[1] # "open"
    BY <1>1 DEF Controls, Kinds
  <2>2. asked' = [asked EXCEPT !.plain = @ + 1] /\ Request(<<"plain", asked.plain + 1>>)
    BY <1>3 DEF AskPlain
  <2>3. asked' \in [open : SUBSET Stream, close : SUBSET Stream, subs : Nat, plain : Nat]
        /\ asked'.open = asked.open
    BY <1>1, <2>2
  <2> QED BY <2>1, <2>2, <2>3, AskKept
<1>4. ASSUME NEW s \in Stream, AskOpen(s) PROVE StreamInv'
  <2>1. <<"open", s>> \in Controls
    BY DEF Controls, Kinds
  <2>2. /\ asked' = [asked EXCEPT !.open = @ \cup {s}] /\ Request(<<"open", s>>)
        /\ s \notin asked.open
    BY <1>4 DEF AskOpen
  <2>3. /\ asked' \in [open : SUBSET Stream, close : SUBSET Stream, subs : Nat, plain : Nat]
        /\ asked'.open = asked.open \cup {s}
    BY <1>1, <2>2
  <2> QED BY <2>1, <2>2, <2>3, AskKept
<1>5. ASSUME NEW s \in Stream, AskClose(s) PROVE StreamInv'
  <2>1. <<"close", s>> \in Controls /\ <<"close", s>>[1] # "open"
    BY DEF Controls, Kinds
  <2>2. asked' = [asked EXCEPT !.close = @ \cup {s}] /\ Request(<<"close", s>>)
    BY <1>5 DEF AskClose
  <2>3. /\ asked' \in [open : SUBSET Stream, close : SUBSET Stream, subs : Nat, plain : Nat]
        /\ asked'.open = asked.open
    BY <1>1, <2>2
  <2> QED BY <2>1, <2>2, <2>3, AskKept
<1> QED BY <1>2, <1>3, <1>4, <1>5

\* A frame is queued, or the connection is closed.
LEMMA SendHighFacts ==
  ASSUME StreamInv, NEW f \in Controls, SendHigh(f)
  PROVE  w' \in WriterState /\ w'.at = w.at /\ w'.frame = w.frame
<1>1. w \in WriterState /\ w.highC \in Seq(Controls)
  BY DEF StreamInv, StreamTyped, WriterState
<1>2. Append(w.highC, f) \in Seq(Controls)
  BY <1>1, AppendFacts
<1> QED BY <1>1, <1>2 DEF SendHigh, WriterState

\* What a step of a stream's goroutines starts from.
LEMMA StreamFacts ==
  ASSUME StreamInv, NEW s \in Stream
  PROVE  /\ st[s] \in StreamState /\ StreamSound(st[s], s)
         /\ req \in Requests /\ w \in WriterState /\ streams \subseteq Opened
         /\ Opened \subseteq Stream
         /\ st[s].pump # "off" \/ st[s].worker # "off" \/ st[s].up # "off" \/ st[s].fin # "no"
              => s \in Opened /\ req.open[s] \in {"reply", "over"}
         /\ s \in Opened => req.open[s] \in {"reply", "over"}
         /\ (s \in streams) \in BOOLEAN
<1>1. /\ st[s] \in StreamState /\ StreamSound(st[s], s) /\ req \in Requests
      /\ w \in WriterState /\ streams \subseteq Opened
  BY DEF StreamInv, StreamTyped, PlacesKept
<1>2. req.open[s] \notin {"reply", "over"} => st[s] = FreshStream
  BY <1>1 DEF StreamSound, Stage
<1> QED BY <1>1, <1>2 DEF FreshStream, Opened

\* A frame of the client's for a stream.
LEMMA StreamDataKept ==
  ASSUME StreamInv, NEW s \in Stream, StreamData(s)
  PROVE  StreamInv'
<1> DEFINE r == [st[s] EXCEPT !.said = @ + 1]
<1>1. /\ s \in Opened /\ UNCHANGED <<link, asked, streams>>
      /\ \/ /\ s \notin streams /\ SendHigh(<<"notice", 0>>)
            /\ st' = [st EXCEPT ![s] = r] /\ UNCHANGED <<req, workers>>
         \/ /\ s \in streams
            /\ st' = [st EXCEPT ![s] = [r EXCEPT !.upBuf = Append(@, r.said)]]
            /\ UNCHANGED <<req, w, workers>>
         \/ /\ s \in streams
            /\ Finish(s, r, "gone")
            /\ req' = [req EXCEPT !.reader = s] /\ UNCHANGED w
  BY DEF StreamData
<1>2. /\ st[s] \in StreamState /\ StreamSound(st[s], s) /\ req \in Requests /\ w \in WriterState
      /\ req.open[s] \in {"reply", "over"} /\ (s \in streams) \in BOOLEAN
  BY <1>1, StreamFacts
<1>3. /\ r \in StreamState /\ r.said = st[s].said + 1 /\ r.fin = st[s].fin
      /\ r.reason = st[s].reason /\ r.out = st[s].out /\ r.dataC = st[s].dataC
      /\ r.pump = st[s].pump /\ r.chunk = st[s].chunk /\ r.sent = st[s].sent
      /\ r.upBuf = st[s].upBuf /\ r.worker = st[s].worker /\ r.lifted = st[s].lifted
      /\ r.upC = st[s].upC /\ r.got = st[s].got /\ r.up = st[s].up
  <2>1. st[s].said \in Nat /\ st[s].said + 1 \in Nat
    BY <1>2 DEF StreamState
  <2>2. r \in StreamState
    BY <1>2, <2>1 DEF StreamState
  <2> QED BY <1>2, <2>2 DEF StreamState
<1> HIDE DEF r
<1>4. OutSound(r, s \in streams) /\ Flow(r, s)
  BY <1>2, <1>3, SameFlow DEF StreamSound
<1>5. UpSound(st[s]) /\ Stage(r, req.open[s])
  BY <1>2, <1>3 DEF StreamSound, Stage
<1>6. CASE /\ s \notin streams /\ SendHigh(<<"notice", 0>>)
           /\ st' = [st EXCEPT ![s] = r] /\ UNCHANGED <<req, workers>>
  <2>1. st[s].fin # "no"
    BY <1>1, <1>6 DEF StreamInv, PlacesKept, Unended
  <2>2. UpSound(r)
    BY <1>3, <1>5, <2>1 DEF UpSound
  <2>3. <<"notice", 0>> \in Controls
    BY DEF Controls, Kinds
  <2>4. w' \in WriterState /\ w'.at = w.at /\ w'.frame = w.frame
    BY <1>6, <2>3, SendHighFacts
  <2> QED BY <1>1, <1>2, <1>3, <1>4, <1>5, <1>6, <2>1, <2>2, <2>4, StreamEditKept DEF StreamSound
<1>7. CASE /\ s \in streams
           /\ st' = [st EXCEPT ![s] = [r EXCEPT !.upBuf = Append(@, r.said)]]
           /\ UNCHANGED <<req, w, workers>>
  <2> DEFINE q == [r EXCEPT !.upBuf = Append(@, r.said)]
  <2>1. r.upBuf \in Seq(Nat) /\ r.said \in Nat /\ st[s].said \in Nat
    BY <1>2, <1>3 DEF StreamState
  <2>2. Append(r.upBuf, r.said) \in Seq(Nat)
    BY <2>1, AppendFacts
  <2>3. /\ q \in StreamState /\ q.said = st[s].said + 1 /\ q.fin = st[s].fin
        /\ q.reason = st[s].reason /\ q.out = st[s].out /\ q.dataC = st[s].dataC
        /\ q.pump = st[s].pump /\ q.chunk = st[s].chunk /\ q.sent = st[s].sent
        /\ q.upBuf = Append(st[s].upBuf, st[s].said + 1) /\ q.worker = st[s].worker
        /\ q.lifted = st[s].lifted /\ q.up = st[s].up
        /\ q.upC = st[s].upC /\ q.got = st[s].got
    BY <1>3, <2>2 DEF StreamState
  <2>4. st' = [st EXCEPT ![s] = q]
    BY <1>7
  <2> HIDE DEF q
  <2>5. UpSound(q)
    BY <1>2, <1>5, <2>3, UpMoves
  <2>6. OutSound(q, s \in streams) /\ Flow(q, s)
    BY <1>2, <2>3, SameFlow DEF StreamSound
  <2>7. Stage(q, req.open[s])
    BY <1>2, <2>3 DEF StreamSound, Stage
  <2> QED BY <1>1, <1>2, <1>7, <2>3, <2>4, <2>5, <2>6, <2>7, StreamEditKept DEF StreamSound
<1>8. CASE /\ s \in streams
           /\ Finish(s, r, "gone")
           /\ req' = [req EXCEPT !.reader = s] /\ UNCHANGED w
  <2>1. req' \in Requests /\ req'.open = req.open /\ req'.queue = req.queue
    BY <1>2, <1>8 DEF Requests
  <2>2. CASE r.fin = "no"
    <3> DEFINE q == [r EXCEPT !.fin = "ending", !.reason = "gone"]
    <3>1. /\ q \in StreamState /\ q.fin = "ending" /\ q.reason = "gone"
          /\ q.out = r.out /\ q.dataC = r.dataC /\ q.sent = r.sent /\ q.chunk = r.chunk
          /\ q.pump = r.pump /\ q.worker = r.worker /\ q.up = r.up
          /\ q.got = st[s].got
      BY <1>3 DEF StreamState
    <3>2. st' = [st EXCEPT ![s] = q] /\ workers' = workers - 1
      BY <1>8, <2>2 DEF Finish
    <3> HIDE DEF q
    <3>3. r.reason # "eof"
      BY <1>2, <1>3, <2>2 DEF StreamSound, Stage
    <3>4. OutSound(q, s \in streams) /\ Flow(q, s)
      BY <1>2, <1>3, <1>4, <2>2, <3>1, <3>3, EndedFlow
    <3>5. UpSound(q)
      BY <1>5, <3>1 DEF UpSound
    <3>6. Stage(q, req.open[s])
      BY <1>2, <1>5, <3>1 DEF Stage
    <3> QED BY <1>1, <1>2, <1>3, <1>8, <2>1, <2>2, <3>1, <3>2, <3>4, <3>5, <3>6, StreamEditKept DEF StreamSound
  <2>3. CASE r.fin # "no"
    <3>1. st' = [st EXCEPT ![s] = r] /\ workers' = workers
      BY <1>8, <2>3 DEF Finish
    <3>2. UpSound(r)
      BY <1>3, <1>5, <2>3 DEF UpSound
    <3> QED BY <1>1, <1>2, <1>3, <1>4, <1>5, <1>8, <2>1, <2>3, <3>1, <3>2, StreamEditKept DEF StreamSound
  <2> QED BY <2>2, <2>3
<1> QED BY <1>1, <1>6, <1>7, <1>8

\* Whoever ends a stream, for whatever reason; only the pump sees the backend's own end.
LEMMA FinishKept ==
  ASSUME StreamInv, NEW s \in Opened, NEW r \in StreamState,
         NEW reason \in {"closed", "gone", "eof"}, Finish(s, r, reason),
         UNCHANGED <<link, asked, streams, w>>,
         req' \in Requests, req'.open = req.open, req'.queue = req.queue,
         r.fin = st[s].fin, r.reason = st[s].reason, r.out = st[s].out, r.dataC = st[s].dataC,
         r.chunk = st[s].chunk, r.sent = st[s].sent, r.said = st[s].said, r.got = st[s].got,
         r.upC = st[s].upC, r.upBuf = st[s].upBuf, r.lifted = st[s].lifted,
         r.worker \in {st[s].worker, "off"}, r.up \in {st[s].up, "off"},
         r.pump = st[s].pump \/ (r.pump = "off" /\ st[s].pump = "read"),
         reason = "eof" => st[s].pump = "read" /\ r.pump = "off"
  PROVE  StreamInv'
<1>1. /\ st[s] \in StreamState /\ StreamSound(st[s], s) /\ w \in WriterState
      /\ req.open[s] \in {"reply", "over"} /\ (s \in streams) \in BOOLEAN
  BY StreamFacts DEF Opened
<1>2. /\ UpSound(st[s]) /\ OutSound(st[s], s \in streams) /\ Flow(st[s], s)
      /\ Stage(st[s], req.open[s])
  BY <1>1 DEF StreamSound
<1>3. st[s].pump = "read" => st[s].reason # "eof" /\ req.open[s] = "over"
  BY <1>1, <1>2 DEF Stage
<1>4. CASE r.fin = "no"
  <2> DEFINE q == [r EXCEPT !.fin = "ending", !.reason = reason]
  <2>1. /\ q \in StreamState /\ q.fin = "ending" /\ q.reason = reason
        /\ q.out = r.out /\ q.dataC = r.dataC /\ q.sent = r.sent /\ q.chunk = r.chunk
        /\ q.pump = r.pump /\ q.worker = r.worker /\ q.up = r.up
        /\ q.got = r.got
    BY DEF StreamState
  <2>2. st' = [st EXCEPT ![s] = q] /\ workers' = workers - 1
    BY <1>4 DEF Finish
  <2> HIDE DEF q
  <2>3. st[s].reason # "eof"
    BY <1>2, <1>4 DEF Stage
  <2>4. OutSound(q, s \in streams) /\ Flow(q, s)
    <3>1. /\ q.out = st[s].out /\ q.dataC = st[s].dataC /\ q.sent = st[s].sent
          /\ q.chunk = st[s].chunk /\ st[s].fin = "no" /\ q.fin = "ending"
          /\ q.pump = st[s].pump \/ (q.pump = "off" /\ st[s].pump = "read")
          /\ q.reason = "eof" => st[s].pump = "read" /\ q.pump = "off"
      BY <1>4, <2>1
    <3> QED BY <1>1, <1>2, <2>1, <2>3, <3>1, EndedFlow
  <2>5. UpSound(q)
    BY <1>2, <2>1 DEF UpSound
  <2>6. Stage(q, req.open[s])
    BY <1>1, <1>2, <1>3, <2>1 DEF Stage
  <2> QED BY <1>1, <1>4, <2>1, <2>2, <2>4, <2>5, <2>6, StreamEditKept DEF StreamSound
<1>5. CASE r.fin # "no"
  <2>1. st' = [st EXCEPT ![s] = r] /\ workers' = workers
    BY <1>5 DEF Finish
  <2>2. UpSound(r)
    BY <1>2, <1>5 DEF UpSound
  <2>3. OutSound(r, s \in streams) /\ Flow(r, s)
    <3>1. CASE r.pump = st[s].pump
      BY <1>1, <1>2, <3>1, SameFlow
    <3>2. CASE r.pump = "off" /\ st[s].pump = "read"
      BY <1>1, <1>2, <1>3, <3>2, PumpTurnFlow
    <3> QED BY <3>1, <3>2
  <2>4. Stage(r, req.open[s])
    BY <1>1, <1>2, <1>3, <1>5 DEF Stage
  <2> QED BY <1>1, <1>5, <2>1, <2>2, <2>3, <2>4, StreamEditKept DEF StreamSound
<1> QED BY <1>4, <1>5

LEMMA PumpKept ==
  ASSUME StreamInv, NEW s \in Stream, Pump(s)
  PROVE  StreamInv'
<1>1. /\ st[s] \in StreamState /\ StreamSound(st[s], s) /\ req \in Requests /\ w \in WriterState
      /\ (s \in streams) \in BOOLEAN
  BY StreamFacts
<1>2. /\ UpSound(st[s]) /\ OutSound(st[s], s \in streams) /\ Flow(st[s], s)
      /\ Stage(st[s], req.open[s])
  BY <1>1 DEF StreamSound
<1>3. st[s].pump # "off"
  BY DEF Pump, PumpReads, PumpPuts, PumpEnds
<1>4. s \in Opened /\ req.open[s] = "over" /\ st[s].reason # "eof"
  BY <1>2, <1>3, StreamFacts DEF Stage
<1>5. CASE PumpReads(s)
  <2> DEFINE q == [st[s] EXCEPT !.pump = "put", !.sent = @ + 1, !.chunk = st[s].sent + 1]
  <2>1. /\ st' = [st EXCEPT ![s] = q] /\ UNCHANGED <<link, asked, req, w, streams, workers>>
        /\ st[s].pump = "read" /\ st[s].fin = "no"
    BY <1>5 DEF PumpReads, Stopped
  <2>2. st[s].sent \in Nat /\ st[s].sent + 1 \in Nat
    BY <1>1 DEF StreamState
  <2>3. q \in StreamState
    BY <1>1, <2>2 DEF StreamState
  <2>4. /\ q.fin = st[s].fin /\ q.reason = st[s].reason /\ q.out = st[s].out
        /\ q.dataC = st[s].dataC /\ q.pump = "put" /\ q.sent = st[s].sent + 1
        /\ q.chunk = st[s].sent + 1 /\ q.got = st[s].got /\ q.upC = st[s].upC
        /\ q.upBuf = st[s].upBuf /\ q.worker = st[s].worker /\ q.lifted = st[s].lifted
        /\ q.said = st[s].said /\ q.up = st[s].up
    BY <1>1 DEF StreamState
  <2> HIDE DEF q
  <2>5. st[s].reason = "none"
    BY <1>2, <2>1 DEF Stage
  <2>6. OutSound(q, s \in streams) /\ Flow(q, s)
    BY <1>1, <1>2, <2>1, <2>3, <2>4, <2>5, PumpReadFlow
  <2>7. UpSound(q)
    BY <1>2, <2>4, SameUp
  <2>8. Stage(q, req.open[s])
    BY <1>2, <1>4, <2>4, <2>5 DEF Stage
  <2> QED BY <1>1, <1>4, <2>1, <2>3, <2>4, <2>6, <2>7, <2>8, StreamEditKept DEF StreamSound
<1>6. CASE PumpPuts(s)
  <2>1. /\ st[s].pump = "put" /\ UNCHANGED <<link, asked, req, streams, workers>>
        /\ w' = w \/ w' = [w EXCEPT !.wake = TRUE]
    BY <1>6 DEF PumpPuts
  <2>2. w' \in WriterState /\ w'.at = w.at /\ w'.frame = w.frame
    BY <1>1, <2>1 DEF WriterState
  <2>3. CASE st' = [st EXCEPT ![s].pump = IF Stopped(s) THEN "off" ELSE "read",
                              ![s].dataC = Append(@, st[s].chunk)]
    <3> DEFINE p == IF Stopped(s) THEN "off" ELSE "read"
    <3> DEFINE q == [st[s] EXCEPT !.pump = p, !.dataC = Append(@, st[s].chunk)]
    <3>1. st' = [st EXCEPT ![s] = q] /\ p \in {"off", "read"}
      BY <2>3
    <3>2. Append(st[s].dataC, st[s].chunk) \in Seq(Nat)
      <4>1. st[s].dataC \in Seq(Nat) /\ st[s].chunk \in Nat
        BY <1>1 DEF StreamState
      <4> QED BY <4>1, AppendFacts
    <3> HIDE DEF p
    <3>3. q \in StreamState
      BY <1>1, <3>1, <3>2 DEF StreamState
    <3>4. /\ q.fin = st[s].fin /\ q.reason = st[s].reason /\ q.out = st[s].out
          /\ q.dataC = Append(st[s].dataC, st[s].chunk) /\ q.pump \in {"off", "read"}
          /\ q.sent = st[s].sent /\ q.got = st[s].got /\ q.upC = st[s].upC
          /\ q.upBuf = st[s].upBuf /\ q.worker = st[s].worker /\ q.lifted = st[s].lifted
          /\ q.said = st[s].said /\ q.up = st[s].up
      BY <1>1, <3>1 DEF StreamState
    <3> HIDE DEF q
    <3>5. OutSound(q, s \in streams) /\ Flow(q, s)
      BY <1>1, <1>2, <1>4, <2>1, <3>3, <3>4, PumpPutFlow
    <3>6. UpSound(q)
      BY <1>2, <3>4, SameUp
    <3>7. Stage(q, req.open[s])
      BY <1>2, <1>4, <3>4 DEF Stage
    <3> QED BY <1>1, <1>4, <2>1, <2>2, <3>1, <3>3, <3>4, <3>5, <3>6, <3>7, StreamEditKept DEF StreamSound
  <2>4. CASE st' = [st EXCEPT ![s].pump = "off"]
    <3> DEFINE q == [st[s] EXCEPT !.pump = "off"]
    <3>1. st' = [st EXCEPT ![s] = q]
      BY <2>4
    <3>2. q \in StreamState
      BY <1>1 DEF StreamState
    <3>3. /\ q.fin = st[s].fin /\ q.reason = st[s].reason /\ q.out = st[s].out
          /\ q.dataC = st[s].dataC /\ q.pump = "off"
          /\ q.sent = st[s].sent /\ q.got = st[s].got /\ q.upC = st[s].upC
          /\ q.upBuf = st[s].upBuf /\ q.worker = st[s].worker /\ q.lifted = st[s].lifted
          /\ q.said = st[s].said /\ q.up = st[s].up
      BY <1>1 DEF StreamState
    <3> HIDE DEF q
    <3>4. OutSound(q, s \in streams) /\ Flow(q, s)
      BY <1>1, <1>2, <1>4, <3>2, <3>3, PumpTurnFlow
    <3>5. UpSound(q)
      BY <1>2, <3>3, SameUp
    <3>6. Stage(q, req.open[s])
      BY <1>2, <1>4, <3>3 DEF Stage
    <3> QED BY <1>1, <1>4, <2>1, <2>2, <3>1, <3>2, <3>3, <3>4, <3>5, <3>6, StreamEditKept DEF StreamSound
  <2> QED BY <1>6, <2>3, <2>4 DEF PumpPuts
<1>7. CASE PumpEnds(s)
  <2> DEFINE r == [st[s] EXCEPT !.pump = "off"]
  <2>1. /\ st[s].pump = "read" /\ UNCHANGED <<link, asked, req, w, streams>>
        /\ \E reason \in {"eof", "gone"} : Finish(s, r, reason)
    BY <1>7 DEF PumpEnds
  <2>2. r \in StreamState
    BY <1>1 DEF StreamState
  <2>3. /\ r.fin = st[s].fin /\ r.reason = st[s].reason /\ r.out = st[s].out
        /\ r.dataC = st[s].dataC /\ r.chunk = st[s].chunk /\ r.pump = "off"
        /\ r.sent = st[s].sent /\ r.got = st[s].got /\ r.upC = st[s].upC
        /\ r.upBuf = st[s].upBuf /\ r.worker = st[s].worker /\ r.lifted = st[s].lifted
        /\ r.said = st[s].said /\ r.up = st[s].up
    BY <1>1 DEF StreamState
  <2> HIDE DEF r
  <2> QED BY <1>1, <1>4, <2>1, <2>2, <2>3, FinishKept
<1> QED BY <1>5, <1>6, <1>7 DEF Pump

LEMMA FinishPutsEndKept ==
  ASSUME StreamInv, NEW s \in Stream, FinishPutsEnd(s)
  PROVE  StreamInv'
<1>1. /\ st[s] \in StreamState /\ StreamSound(st[s], s) /\ req \in Requests /\ w \in WriterState
      /\ (s \in streams) \in BOOLEAN
  BY StreamFacts
<1>2. /\ UpSound(st[s]) /\ OutSound(st[s], s \in streams) /\ Flow(st[s], s)
      /\ Stage(st[s], req.open[s])
  BY <1>1 DEF StreamSound
<1>3. st[s].fin = "ending" /\ UNCHANGED <<link, asked, req, streams, workers>>
  BY DEF FinishPutsEnd
<1>4. s \in Opened
  BY <1>3, StreamFacts
<1>5. CASE /\ st' = [st EXCEPT ![s].fin = "over", ![s].dataC = Append(@, End)]
           /\ w' = [w EXCEPT !.wake = TRUE]
  <2> DEFINE q == [st[s] EXCEPT !.fin = "over", !.dataC = Append(@, End)]
  <2>1. st' = [st EXCEPT ![s] = q]
    BY <1>5
  <2>2. Append(st[s].dataC, End) \in Seq(Nat)
    <3>1. st[s].dataC \in Seq(Nat) /\ End \in Nat
      BY <1>1 DEF StreamState, End
    <3> QED BY <3>1, AppendFacts
  <2>3. q \in StreamState
    BY <1>1, <2>2 DEF StreamState
  <2>4. /\ q.fin = "over" /\ q.reason = st[s].reason /\ q.out = st[s].out
        /\ q.dataC = Append(st[s].dataC, End) /\ q.pump = st[s].pump
        /\ q.sent = st[s].sent /\ q.got = st[s].got /\ q.upC = st[s].upC
        /\ q.upBuf = st[s].upBuf /\ q.worker = st[s].worker /\ q.lifted = st[s].lifted
        /\ q.said = st[s].said /\ q.up = st[s].up
    BY <1>1 DEF StreamState
  <2> HIDE DEF q
  <2>5. OutSound(q, s \in streams) /\ Flow(q, s)
    BY <1>1, <1>2, <1>3, <2>3, <2>4, EndPutFlow
  <2>6. UpSound(q)
    BY <1>2, <2>4, SameUp
  <2>7. Stage(q, req.open[s])
    BY <1>2, <1>4, <2>4, StreamFacts DEF Stage
  <2>8. w' \in WriterState /\ w'.at = w.at /\ w'.frame = w.frame
    BY <1>1, <1>5 DEF WriterState
  <2> QED BY <1>1, <1>3, <1>4, <2>1, <2>3, <2>4, <2>5, <2>6, <2>7, <2>8, StreamEditKept DEF StreamSound
<1>6. CASE st' = [st EXCEPT ![s].fin = "over"] /\ UNCHANGED w
  <2> DEFINE q == [st[s] EXCEPT !.fin = "over"]
  <2>1. st' = [st EXCEPT ![s] = q]
    BY <1>6
  <2>2. q \in StreamState
    BY <1>1 DEF StreamState
  <2>3. /\ q.fin = "over" /\ q.reason = st[s].reason /\ q.out = st[s].out
        /\ q.dataC = st[s].dataC /\ q.pump = st[s].pump /\ q.chunk = st[s].chunk
        /\ q.sent = st[s].sent /\ q.got = st[s].got /\ q.upC = st[s].upC
        /\ q.upBuf = st[s].upBuf /\ q.worker = st[s].worker /\ q.lifted = st[s].lifted
        /\ q.said = st[s].said /\ q.up = st[s].up
    BY <1>1 DEF StreamState
  <2> HIDE DEF q
  <2>4. OutSound(q, s \in streams) /\ Flow(q, s)
    BY <1>1, <1>2, <1>3, <2>2, <2>3, OverFlow, ZenonT(60)
  <2>5. UpSound(q)
    BY <1>2, <2>3, SameUp
  <2>6. Stage(q, req.open[s])
    BY <1>2, <1>4, <2>3, StreamFacts DEF Stage
  <2> QED BY <1>1, <1>3, <1>4, <1>6, <2>1, <2>2, <2>3, <2>4, <2>5, <2>6, StreamEditKept DEF StreamSound
<1> QED BY <1>5, <1>6 DEF FinishPutsEnd

\* The upstream worker and the goroutine that writes to the backend.
LEMMA UpstreamKept ==
  ASSUME StreamInv, NEW s \in Stream, UpWorker(s) \/ Up(s)
  PROVE  StreamInv'
<1>1. /\ st[s] \in StreamState /\ StreamSound(st[s], s) /\ req \in Requests /\ w \in WriterState
      /\ (s \in streams) \in BOOLEAN
  BY StreamFacts
<1>2. /\ UpSound(st[s]) /\ OutSound(st[s], s \in streams) /\ Flow(st[s], s)
      /\ Stage(st[s], req.open[s])
  BY <1>1 DEF StreamSound
<1>3. s \in Opened /\ req.open[s] = "over"
  <2>1. st[s].worker # "off" \/ st[s].up # "off"
    BY DEF UpWorker, Up, WorkerTakes, WorkerPuts, WorkerStalls, WorkerStops, UpWrites, UpFails, UpStops
  <2> QED BY <1>2, <2>1, StreamFacts DEF Stage
<1>4. /\ st[s].upBuf \in Seq(Nat) /\ st[s].upC \in Seq(Nat) /\ st[s].got \in Seq(Nat)
      /\ st[s].lifted \in Nat
  BY <1>1 DEF StreamState
<1>5. ASSUME NEW q \in StreamState, st' = [st EXCEPT ![s] = q],
             UNCHANGED <<link, asked, req, w, streams, workers>>,
             q.fin = st[s].fin, q.reason = st[s].reason, q.out = st[s].out,
             q.dataC = st[s].dataC, q.pump = st[s].pump, q.chunk = st[s].chunk,
             q.sent = st[s].sent, UpSound(q)
      PROVE  StreamInv'
  <2>1. OutSound(q, s \in streams) /\ Flow(q, s)
    BY <1>1, <1>2, <1>5, SameFlow
  <2>2. Stage(q, req.open[s])
    BY <1>2, <1>3, <1>5 DEF Stage
  <2> QED BY <1>1, <1>3, <1>5, <2>1, <2>2, StreamEditKept DEF StreamSound
<1>6. CASE WorkerTakes(s)
  <2> DEFINE q == [st[s] EXCEPT !.worker = "put", !.lifted = Head(st[s].upBuf), !.upBuf = Tail(@)]
  <2>1. /\ st' = [st EXCEPT ![s] = q] /\ UNCHANGED <<link, asked, req, w, streams, workers>>
        /\ st[s].worker = "take" /\ st[s].upBuf # <<>>
    BY <1>6 DEF WorkerTakes
  <2>2. Head(st[s].upBuf) \in Nat /\ Tail(st[s].upBuf) \in Seq(Nat)
    BY <1>4, <2>1, TailFacts
  <2>3. q \in StreamState
    BY <1>1, <2>2 DEF StreamState
  <2>4. /\ q.fin = st[s].fin /\ q.reason = st[s].reason /\ q.out = st[s].out
        /\ q.dataC = st[s].dataC /\ q.pump = st[s].pump /\ q.chunk = st[s].chunk
        /\ q.sent = st[s].sent
    BY <1>1 DEF StreamState
  <2>5. /\ q.worker = "put" /\ q.lifted = Head(st[s].upBuf) /\ q.upBuf = Tail(st[s].upBuf)
        /\ q.said = st[s].said /\ q.upC = st[s].upC /\ q.got = st[s].got
    BY <1>1 DEF StreamState
  <2> HIDE DEF q
  <2>6. UpSound(q)
    BY <1>1, <1>2, <2>1, <2>3, <2>4, <2>5, UpMoves
  <2> QED BY <1>5, <2>1, <2>3, <2>4, <2>6
<1>7. CASE WorkerPuts(s)
  <2> DEFINE q == [st[s] EXCEPT !.worker = "take", !.upC = Append(@, st[s].lifted)]
  <2>1. /\ st' = [st EXCEPT ![s] = q] /\ UNCHANGED <<link, asked, req, w, streams, workers>>
        /\ st[s].worker = "put"
    BY <1>7 DEF WorkerPuts
  <2>2. Append(st[s].upC, st[s].lifted) \in Seq(Nat)
    BY <1>4, AppendFacts
  <2>3. q \in StreamState
    BY <1>1, <2>2 DEF StreamState
  <2>4. /\ q.fin = st[s].fin /\ q.reason = st[s].reason /\ q.out = st[s].out
        /\ q.dataC = st[s].dataC /\ q.pump = st[s].pump /\ q.chunk = st[s].chunk
        /\ q.sent = st[s].sent
    BY <1>1 DEF StreamState
  <2>5. /\ q.worker = "take" /\ q.upC = Append(st[s].upC, st[s].lifted)
        /\ q.said = st[s].said /\ q.upBuf = st[s].upBuf /\ q.got = st[s].got
    BY <1>1 DEF StreamState
  <2> HIDE DEF q
  <2>6. UpSound(q)
    BY <1>1, <1>2, <2>1, <2>3, <2>4, <2>5, UpMoves
  <2> QED BY <1>5, <2>1, <2>3, <2>4, <2>6
<1>8. CASE WorkerStalls(s)
  <2> DEFINE r == [st[s] EXCEPT !.worker = "off"]
  <2>1. UNCHANGED <<link, asked, req, w, streams>> /\ Finish(s, r, "gone")
    BY <1>8 DEF WorkerStalls
  <2>2. r \in StreamState
    BY <1>1 DEF StreamState
  <2>3. /\ r.fin = st[s].fin /\ r.reason = st[s].reason /\ r.out = st[s].out
        /\ r.dataC = st[s].dataC /\ r.chunk = st[s].chunk /\ r.pump = st[s].pump
        /\ r.sent = st[s].sent /\ r.got = st[s].got /\ r.upC = st[s].upC
        /\ r.upBuf = st[s].upBuf /\ r.worker = "off" /\ r.lifted = st[s].lifted
        /\ r.said = st[s].said /\ r.up = st[s].up
    BY <1>1 DEF StreamState
  <2> HIDE DEF r
  <2> QED BY <1>1, <1>3, <2>1, <2>2, <2>3, FinishKept
<1>9. CASE WorkerStops(s) \/ UpStops(s)
  <2> PICK q \in {[st[s] EXCEPT !.worker = "off"], [st[s] EXCEPT !.up = "off"]} :
          st' = [st EXCEPT ![s] = q] /\ UNCHANGED <<link, asked, req, w, streams, workers>>
    BY <1>9 DEF WorkerStops, UpStops
  <2>2. q \in StreamState
    BY <1>1, ZenonT(60) DEF StreamState
  <2>3. /\ q.fin = st[s].fin /\ q.reason = st[s].reason /\ q.out = st[s].out
        /\ q.dataC = st[s].dataC /\ q.pump = st[s].pump /\ q.chunk = st[s].chunk
        /\ q.sent = st[s].sent
    BY <1>1 DEF StreamState
  <2>4. st[s].fin # "no" /\ q.got = st[s].got
    BY <1>1, <1>9 DEF WorkerStops, UpStops, Stopped, StreamState
  <2>5. UpSound(q)
    BY <1>2, <2>3, <2>4 DEF UpSound
  <2> QED BY <1>5, <2>2, <2>3, <2>5
<1>10. CASE UpWrites(s)
  <2> DEFINE q == [st[s] EXCEPT !.upC = Tail(@), !.got = Append(@, Head(st[s].upC))]
  <2>1. /\ st' = [st EXCEPT ![s] = q] /\ UNCHANGED <<link, asked, req, w, streams, workers>>
        /\ st[s].upC # <<>> /\ st[s].fin = "no"
    BY <1>10 DEF UpWrites, Stopped
  <2>2. Tail(st[s].upC) \in Seq(Nat) /\ Append(st[s].got, Head(st[s].upC)) \in Seq(Nat)
    <3>1. Tail(st[s].upC) \in Seq(Nat) /\ Head(st[s].upC) \in Nat
      BY <1>4, <2>1, TailFacts, SMTT(60)
    <3> QED BY <1>4, <3>1, AppendFacts
  <2>3. q \in StreamState
    BY <1>1, <2>2 DEF StreamState
  <2>4. /\ q.fin = st[s].fin /\ q.reason = st[s].reason /\ q.out = st[s].out
        /\ q.dataC = st[s].dataC /\ q.pump = st[s].pump /\ q.chunk = st[s].chunk
        /\ q.sent = st[s].sent
    BY <1>1 DEF StreamState
  <2>5. /\ q.upC = Tail(st[s].upC) /\ q.got = Append(st[s].got, Head(st[s].upC))
        /\ q.worker = st[s].worker /\ q.lifted = st[s].lifted /\ q.upBuf = st[s].upBuf
        /\ q.said = st[s].said
    BY <1>1 DEF StreamState
  <2> HIDE DEF q
  <2>6. UpSound(q)
    BY <1>1, <1>2, <2>1, <2>3, <2>4, <2>5, UpMoves
  <2> QED BY <1>5, <2>1, <2>3, <2>4, <2>6
<1>11. CASE UpFails(s)
  <2> DEFINE r == [st[s] EXCEPT !.up = "off"]
  <2>1. UNCHANGED <<link, asked, req, w, streams>> /\ Finish(s, r, "gone")
    BY <1>11 DEF UpFails
  <2>2. r \in StreamState
    BY <1>1 DEF StreamState
  <2>3. /\ r.fin = st[s].fin /\ r.reason = st[s].reason /\ r.out = st[s].out
        /\ r.dataC = st[s].dataC /\ r.chunk = st[s].chunk /\ r.pump = st[s].pump
        /\ r.sent = st[s].sent /\ r.got = st[s].got /\ r.upC = st[s].upC
        /\ r.upBuf = st[s].upBuf /\ r.worker = st[s].worker /\ r.lifted = st[s].lifted
        /\ r.said = st[s].said /\ r.up = "off"
    BY <1>1 DEF StreamState
  <2> HIDE DEF r
  <2> QED BY <1>1, <1>3, <2>1, <2>2, <2>3, FinishKept
<1> QED BY <1>6, <1>7, <1>8, <1>9, <1>10, <1>11 DEF UpWorker, Up

LEMMA DispatchKept ==
  ASSUME StreamInv, Dispatch
  PROVE  StreamInv'
<1>1. /\ req \in Requests /\ req.queue \in Seq(Controls) /\ w \in WriterState
      /\ req.open \in [Stream -> OpenSteps] /\ asked.open \subseteq Stream
  BY DEF StreamInv, StreamTyped, Requests
<1> DEFINE r == Head(req.queue)
           n == Len(req.queue)
           q == Tail(req.queue)
<1>2. /\ req.queue # <<>> /\ UNCHANGED <<link, asked, w, streams, workers, st>>
      /\ req' = IF r[1] = "open"
                THEN [req EXCEPT !.queue = q, !.open[r[2]] = "dial"]
                ELSE [req EXCEPT !.queue = q, !.busy = r]
  BY DEF Dispatch
<1>3. /\ q \in Seq(Controls) /\ n \in Nat \ {0} /\ Len(q) = n - 1 /\ r = req.queue[1]
      /\ r \in Controls /\ \A i \in 1 .. n - 1 : q[i] = req.queue[i + 1]
  BY <1>1, <1>2, TailFacts
<1>4. /\ \A s \in Stream : s \notin asked.open => req.open[s] = "none"
      /\ \A i \in 1 .. n : req.queue[i][1] = "open" =>
           req.queue[i][2] \in asked.open /\ req.open[req.queue[i][2]] = "none"
      /\ \A i, j \in 1 .. n :
           req.queue[i][1] = "open" /\ req.queue[i] = req.queue[j] => i = j
  BY DEF StreamInv, AskedOnce
<1>5. \A i \in 1 .. n : req.queue[i] \in Controls
  BY <1>1
<1> HIDE DEF r, n, q
<1>6. \A i, j \in 1 .. n - 1 : q[i][1] = "open" /\ q[i] = q[j] => i = j
  <2> SUFFICES ASSUME NEW i \in 1 .. n - 1, NEW j \in 1 .. n - 1, q[i][1] = "open", q[i] = q[j]
               PROVE  i = j
    OBVIOUS
  <2>1. i + 1 \in 1 .. n /\ j + 1 \in 1 .. n
    BY <1>3
  <2>2. i + 1 = j + 1
    BY <1>3, <1>4, <2>1
  <2> QED BY <1>3, <2>2
<1>7. CASE r[1] = "open"
  <2>1. r[2] \in asked.open /\ r[2] \in Stream /\ req.open[r[2]] = "none"
    BY <1>1, <1>3, <1>4, <1>7
  <2>2. req' = [req EXCEPT !.queue = q, !.open[r[2]] = "dial"]
    BY <1>2, <1>7
  <2>3. req' \in Requests /\ req'.queue = q /\ req'.open = [req.open EXCEPT ![r[2]] = "dial"]
    BY <1>1, <1>3, <2>1, <2>2 DEF Requests, OpenSteps
  <2>4. AskedOnce'
    <3>1. \A s \in Stream : s \notin asked.open => req'.open[s] = "none"
      BY <1>1, <1>4, <2>1, <2>3
    <3>2. ASSUME NEW i \in 1 .. n - 1, q[i][1] = "open"
          PROVE  q[i][2] \in asked.open /\ req'.open[q[i][2]] = "none"
      <4>1. i + 1 \in 1 .. n /\ i + 1 # 1 /\ 1 \in 1 .. n /\ q[i] = req.queue[i + 1]
        BY <1>3
      <4>2. q[i][2] \in asked.open /\ req.open[q[i][2]] = "none"
        BY <1>4, <3>2, <4>1
      <4>3. q[i] # r
        BY <1>3, <1>4, <3>2, <4>1
      <4>4. q[i][2] # r[2]
        <5>1. q[i] \in Controls /\ r \in Controls
          BY <1>3, <1>5, <4>1
        <5>2. q[i] = <<q[i][1], q[i][2]>> /\ r = <<r[1], r[2]>>
          BY <5>1 DEF Controls
        <5> QED BY <1>7, <3>2, <4>3, <5>2
      <4> QED BY <1>1, <2>3, <4>2, <4>4
    <3> QED BY <1>2, <1>3, <1>6, <2>3, <3>1, <3>2 DEF AskedOnce
  <2>5. "dial" \in OpenSteps /\ "dial" \notin {"reply", "over"} /\ req.open[r[2]] \notin {"reply", "over"}
    BY <2>1 DEF OpenSteps
  <2> QED BY <1>1, <1>2, <2>1, <2>3, <2>4, <2>5, StageKept
<1>8. CASE r[1] # "open"
  <2>1. req' = [req EXCEPT !.queue = q, !.busy = r]
    BY <1>2, <1>8
  <2>2. req' \in Requests /\ req'.queue = q /\ req'.open = req.open
    BY <1>1, <1>3, <2>1 DEF Requests
  <2>3. ASSUME NEW i \in 1 .. n - 1, q[i][1] = "open"
        PROVE  q[i][2] \in asked.open /\ req.open[q[i][2]] = "none"
    <3>1. i + 1 \in 1 .. n /\ q[i] = req.queue[i + 1]
      BY <1>3
    <3> QED BY <1>4, <2>3, <3>1
  <2>4. AskedOnce'
    BY <1>2, <1>3, <1>4, <1>6, <2>2, <2>3 DEF AskedOnce
  <2>5. StreamTyped'
    BY <1>2, <2>2 DEF StreamInv, StreamTyped
  <2>6. Opened' = Opened /\ Unended' = Unended
    BY <1>2, <2>2 DEF Opened, Unended
  <2>7. PlacesKept'
    BY <1>2, <2>6 DEF StreamInv, PlacesKept
  <2>8. ASSUME NEW s \in Stream PROVE StreamSound(st[s], s)'
    BY <1>2, <2>2 DEF StreamInv, StreamSound, Flow, InHand
  <2> QED BY <2>4, <2>5, <2>7, <2>8 DEF StreamInv
<1> QED BY <1>7, <1>8

\* The dispatcher's answers, a stream it closes, and what it holds subMu for.
LEMMA BusyKept ==
  ASSUME StreamInv, DoPlain \/ CloseUnknown \/ CloseStream \/ CloseReturns
                      \/ SubscribeLocks \/ SubscribeReplies
  PROVE  StreamInv'
<1>1. /\ req \in Requests /\ w \in WriterState /\ req.busy \in Controls /\ Free \in Controls
      /\ w.highC \in Seq(Controls) /\ streams \subseteq Opened /\ Opened \subseteq Stream
      /\ link \in {"open", "closing", "closed", "gone"}
  BY DEF StreamInv, StreamTyped, Requests, WriterState, Free, Controls, Kinds, PlacesKept, Opened
<1>2. ASSUME NEW kind \in Kinds PROVE [req.busy EXCEPT ![1] = kind] \in Controls
  BY <1>1 DEF Controls
<1>3. ASSUME NEW b \in Controls, req' = [req EXCEPT !.busy = b],
             UNCHANGED <<link, asked, streams, workers, st>>,
             w' \in WriterState, w'.at = w.at, w'.frame = w.frame
      PROVE  StreamInv'
  <2>1. req' \in Requests /\ req'.open = req.open /\ req'.queue = req.queue
    BY <1>1, <1>3 DEF Requests
  <2> QED BY <1>1, <1>3, <2>1, QuietKept DEF InHand
<1>4. CASE DoPlain \/ CloseUnknown \/ CloseReturns
  <2>1. SendHigh(req.busy) /\ req' = [req EXCEPT !.busy = Free]
        /\ UNCHANGED <<link, asked, streams, workers, st>>
    BY <1>4 DEF DoPlain, CloseUnknown, CloseReturns, Answer
  <2> QED BY <1>1, <1>3, <2>1, SendHighFacts
<1>5. CASE SubscribeLocks
  <2> DEFINE b == [req.busy EXCEPT ![1] = "subscribed"]
  <2>1. /\ w' = [w EXCEPT !.locked = TRUE, !.latches = @ \cup {req.busy}, !.subscribed = TRUE]
        /\ req' = [req EXCEPT !.busy = b]
        /\ UNCHANGED <<link, asked, streams, workers, st>>
    BY <1>5 DEF SubscribeLocks
  <2>2. w' \in WriterState /\ w'.at = w.at /\ w'.frame = w.frame
    BY <1>1, <2>1 DEF WriterState, SocketFrames
  <2>3. b \in Controls
    BY <1>2 DEF Kinds
  <2> HIDE DEF b
  <2> QED BY <1>3, <2>1, <2>2, <2>3
<1>6. CASE SubscribeReplies
  <2>1. /\ \/ w' = [w EXCEPT !.locked = FALSE, !.highC = Append(@, <<"sub", req.busy[2]>>)]
           \/ w' = [w EXCEPT !.locked = FALSE]
        /\ req' = [req EXCEPT !.busy = Free]
        /\ UNCHANGED <<link, asked, streams, workers, st>>
    BY <1>6 DEF SubscribeReplies
  <2>2. <<"sub", req.busy[2]>> \in Controls
    BY <1>1 DEF Controls, Kinds
  <2>3. Append(w.highC, <<"sub", req.busy[2]>>) \in Seq(Controls)
    BY <1>1, <2>2, AppendFacts
  <2>4. w' \in WriterState /\ w'.at = w.at /\ w'.frame = w.frame
    BY <1>1, <2>1, <2>3 DEF WriterState
  <2> QED BY <1>1, <1>3, <2>1, <2>4
<1>7. CASE CloseStream
  <2> DEFINE s == req.busy[2]
             b == [req.busy EXCEPT ![1] = "closing"]
  <2>1. /\ s \in Opened /\ Finish(s, st[s], "closed") /\ req' = [req EXCEPT !.busy = b]
        /\ UNCHANGED <<link, asked, w, streams>>
    BY <1>1, <1>7 DEF CloseStream
  <2>2. b \in Controls
    BY <1>2 DEF Kinds
  <2> HIDE DEF b, s
  <2>3. req' \in Requests /\ req'.open = req.open /\ req'.queue = req.queue
    BY <1>1, <2>1, <2>2 DEF Requests
  <2>4. st[s] \in StreamState
    BY <1>1, <2>1, StreamFacts
  <2> QED BY <2>1, <2>3, <2>4, FinishKept
<1> QED BY <1>4, <1>5, <1>6, <1>7

LEMMA ExecutorKept ==
  ASSUME StreamInv, NEW s \in Stream, Executor(s)
  PROVE  StreamInv'
<1>1. /\ req \in Requests /\ w \in WriterState /\ req.open \in [Stream -> OpenSteps]
      /\ streams \subseteq Opened /\ Opened \subseteq Stream /\ IsFiniteSet(streams)
      /\ streams \subseteq Stream
      /\ workers = Cardinality(Unended) /\ Unended \subseteq streams
      /\ st \in [Stream -> StreamState] /\ StreamSound(st[s], s)
  BY DEF StreamInv, StreamTyped, Requests, PlacesKept, Opened
<1>2. req.open[s] \in {"dial", "dialled", "reply", "refuse"}
  BY DEF Executor, OpenDials, OpenRegisters, OpenReplies
<1>3. /\ \A t \in Stream : t \notin asked.open => req.open[t] = "none"
      /\ \A i \in 1 .. Len(req.queue) : req.queue[i][1] = "open" =>
           req.queue[i][2] \in asked.open /\ req.open[req.queue[i][2]] = "none"
      /\ \A i, j \in 1 .. Len(req.queue) :
           req.queue[i][1] = "open" /\ req.queue[i] = req.queue[j] => i = j
  BY DEF StreamInv, AskedOnce
<1>4. asked.open \subseteq Stream
  BY DEF StreamInv, StreamTyped
<1>5. ASSUME NEW to \in OpenSteps, req' = [req EXCEPT !.open[s] = to], UNCHANGED asked
      PROVE  /\ req' \in Requests /\ req'.queue = req.queue
             /\ req'.open = [req.open EXCEPT ![s] = to] /\ AskedOnce'
  <2>1. /\ req' \in Requests /\ req'.queue = req.queue
        /\ req'.open = [req.open EXCEPT ![s] = to]
    BY <1>1, <1>5 DEF Requests
  <2>2. \A t \in Stream : t \notin asked.open => req'.open[t] = "none"
    BY <1>1, <1>2, <1>3, <2>1
  <2>3. \A i \in 1 .. Len(req.queue) : req.queue[i][1] = "open" =>
           req.queue[i][2] \in asked.open /\ req'.open[req.queue[i][2]] = "none"
    BY <1>1, <1>2, <1>3, <1>4, <2>1
  <2> QED BY <1>3, <1>5, <2>1, <2>2, <2>3 DEF AskedOnce
<1>6. CASE OpenDials(s)
  <2>1. PICK to \in {"dialled", "refuse"} :
          /\ req.open[s] = "dial" /\ req' = [req EXCEPT !.open[s] = to]
          /\ UNCHANGED <<link, asked, w, streams, workers, st>>
    BY <1>6 DEF OpenDials
  <2>2. to \in OpenSteps
    BY DEF OpenSteps
  <2> QED BY <1>1, <1>5, <2>1, <2>2, StageKept
<1>7. CASE OpenRegisters(s)
  <2>1. /\ req.open[s] = "dialled" /\ UNCHANGED <<link, asked, w, st>>
        /\ \/ req' = [req EXCEPT !.open[s] = "refuse"] /\ UNCHANGED <<streams, workers>>
           \/ /\ streams' = streams \cup {s} /\ workers' = workers + 1
              /\ req' = [req EXCEPT !.open[s] = "reply"] /\ link # "gone"
    BY <1>7 DEF OpenRegisters
  <2>2. CASE req' = [req EXCEPT !.open[s] = "refuse"] /\ UNCHANGED <<streams, workers>>
    <3>1. "refuse" \in OpenSteps
      BY DEF OpenSteps
    <3> QED BY <1>1, <1>5, <2>1, <2>2, <3>1, StageKept
  <2>3. CASE /\ streams' = streams \cup {s} /\ workers' = workers + 1
             /\ req' = [req EXCEPT !.open[s] = "reply"] /\ link # "gone"
    <3>1. /\ req' \in Requests /\ req'.open = [req.open EXCEPT ![s] = "reply"] /\ AskedOnce'
      BY <1>5, <2>1, <2>3 DEF OpenSteps
    <3>2. IsFiniteSet(streams')
      BY <1>1, <2>3, FS_AddElement
    <3>3. StreamTyped'
      BY <1>1, <2>1, <2>3, <3>1, <3>2 DEF StreamInv, StreamTyped
    <3>4. st[s] = FreshStream
      BY <1>1, <2>1 DEF StreamSound, Stage
    <3>5. s \notin Opened /\ Opened' = Opened \cup {s} /\ Unended' = Unended \cup {s}
      BY <1>1, <2>1, <3>1, <3>4 DEF Opened, Unended, FreshStream
    <3>6. Cardinality(Unended \cup {s}) = Cardinality(Unended) + 1
      <4>1. IsFiniteSet(Unended) /\ s \notin Unended
        BY <3>5, UnendedFinite DEF Unended
      <4> QED BY <4>1, FS_AddElement
    <3>7. PlacesKept'
      BY <1>1, <2>1, <2>3, <3>5, <3>6 DEF PlacesKept
    <3>8. Flow(st[s], s)'
      BY <1>1, <2>1 DEF StreamSound, Flow, InHand
    <3>9. StreamSound(st[s], s)'
      <4>1. (s \in streams)' = TRUE
        BY <2>3
      <4>2. OutSound(st[s], s \in streams)'
        BY <2>1, <3>4, <4>1, FreshSound
      <4>3. UpSound(st[s])'
        BY <2>1, <3>4, FreshSound
      <4>4. Stage(st[s], req.open[s])'
        BY <1>1, <2>1, <3>1, <3>4 DEF Stage, FreshStream
      <4> QED BY <3>8, <4>2, <4>3, <4>4 DEF StreamSound
    <3>10. ASSUME NEW t \in Stream \ {s} PROVE StreamSound(st[t], t)'
      <4>1. req'.open[t] = req.open[t] /\ (t \in streams') = (t \in streams)
        BY <1>1, <2>3, <3>1
      <4>2. StreamSound(st[t], t)
        BY DEF StreamInv
      <4>3. Flow(st[t], t)'
        BY <2>1, <4>2 DEF StreamSound, Flow, InHand
      <4> QED BY <2>1, <4>1, <4>2, <4>3 DEF StreamSound
    <3> QED BY <3>1, <3>3, <3>7, <3>9, <3>10 DEF StreamInv
  <2> QED BY <2>1, <2>2, <2>3
<1>8. CASE OpenReplies(s)
  <2>1. w' \in WriterState /\ w'.at = w.at /\ w'.frame = w.frame
    <3>1. <<"open", s>> \in Controls
      BY DEF Controls, Kinds
    <3> QED BY <1>8, <3>1, SendHighFacts DEF OpenReplies
  <2>2. UNCHANGED <<link, asked, streams, workers>>
    BY <1>8 DEF OpenReplies
  <2>3. CASE req.open[s] = "refuse" /\ req' = [req EXCEPT !.open[s] = "refused"] /\ UNCHANGED st
    <3>1. "refused" \in OpenSteps
      BY DEF OpenSteps
    <3> QED BY <1>1, <1>5, <2>1, <2>2, <2>3, <3>1, StageKept
  <2>4. CASE /\ req.open[s] = "reply" /\ req' = [req EXCEPT !.open[s] = "over"]
             /\ st' = [st EXCEPT ![s].pump = "read", ![s].worker = "take", ![s].up = "take"]
    <3> DEFINE q == [st[s] EXCEPT !.pump = "read", !.worker = "take", !.up = "take"]
    <3>1. /\ req' \in Requests /\ req'.open = [req.open EXCEPT ![s] = "over"] /\ AskedOnce'
      BY <1>5, <2>2, <2>4 DEF OpenSteps
    <3>2. st' = [st EXCEPT ![s] = q] /\ st[s] \in StreamState
      BY <1>1, <2>4
    <3>3. q \in StreamState
      BY <3>2 DEF StreamState
    <3>4. /\ q.fin = st[s].fin /\ q.reason = st[s].reason /\ q.out = st[s].out
          /\ q.dataC = st[s].dataC /\ q.pump = "read" /\ q.chunk = st[s].chunk
          /\ q.sent = st[s].sent /\ q.got = st[s].got /\ q.upC = st[s].upC
          /\ q.upBuf = st[s].upBuf /\ q.worker = "take" /\ q.said = st[s].said
      BY <3>2 DEF StreamState
    <3> HIDE DEF q
    <3>5. /\ UpSound(st[s]) /\ OutSound(st[s], s \in streams) /\ Flow(st[s], s)
          /\ Stage(st[s], "reply") /\ (s \in streams) \in BOOLEAN
      BY <1>1, <2>4 DEF StreamSound
    <3>6. /\ st[s].sent = 0 /\ st[s].worker = "off" /\ st[s].reason # "eof"
          /\ st[s].fin = "no" => st[s].reason = "none"
      BY <3>5 DEF Stage
    <3>7. OutSound(q, s \in streams) /\ Flow(q, s)
      BY <3>2, <3>3, <3>4, <3>5, <3>6, PumpTurnFlow
    <3>8. UpSound(q)
      BY <3>4, <3>5, <3>6 DEF UpSound, UpLine
    <3>9. Stage(q, "over")
      BY <3>4, <3>6 DEF Stage
    <3>10. StreamTyped'
      BY <1>1, <2>1, <2>2, <3>1, <3>2, <3>3 DEF StreamInv, StreamTyped
    <3>11. st'[s] = q /\ \A t \in Stream \ {s} : st'[t] = st[t]
      BY <1>1, <3>2
    <3>12. Opened' = Opened /\ Unended' = Unended
      BY <1>1, <2>4, <3>1, <3>4, <3>11 DEF Opened, Unended
    <3>13. PlacesKept'
      BY <2>2, <3>12 DEF StreamInv, PlacesKept
    <3>14. StreamSound(st[s], s)'
      <4>1. Flow(st[s], s)'
        BY <2>1, <3>7, <3>11 DEF Flow, InHand
      <4>2. Stage(st[s], req.open[s])'
        BY <1>1, <3>1, <3>9, <3>11
      <4> QED BY <2>2, <3>7, <3>8, <3>11, <4>1, <4>2 DEF StreamSound
    <3>15. ASSUME NEW t \in Stream \ {s} PROVE StreamSound(st[t], t)'
      <4>1. StreamSound(st[t], t) /\ req'.open[t] = req.open[t]
        BY <1>1, <3>1 DEF StreamInv
      <4>2. Flow(st[t], t)'
        BY <2>1, <3>11, <4>1 DEF StreamSound, Flow, InHand
      <4> QED BY <2>2, <3>11, <4>1, <4>2 DEF StreamSound
    <3> QED BY <3>1, <3>10, <3>13, <3>14, <3>15 DEF StreamInv
  <2> QED BY <1>8, <2>3, <2>4 DEF OpenReplies
<1> QED BY <1>6, <1>7, <1>8 DEF Executor

\* The reader, the client, the closing and the writer, with control frames in hand.
LEMMA QuietStepsKept ==
  ASSUME StreamInv, ReaderReturns \/ ReaderEnds \/ CloseChannel \/ ClientReads
  PROVE  StreamInv'
<1>1. /\ req \in Requests /\ w \in WriterState /\ w.wire \in Seq(SocketFrames)
      /\ link \in {"open", "closing", "closed", "gone"}
  BY DEF StreamInv, StreamTyped, WriterState
<1>2. CASE ReaderReturns
  <2>1. /\ req' = [req EXCEPT !.reader = "free"] /\ UNCHANGED <<link, asked, w, streams, workers, st>>
    BY <1>2 DEF ReaderReturns
  <2>2. req' \in Requests /\ req'.open = req.open /\ req'.queue = req.queue
    BY <1>1, <2>1 DEF Requests
  <2> QED BY <1>1, <2>1, <2>2, QuietKept DEF InHand
<1>3. CASE ReaderEnds \/ CloseChannel
  <2>1. /\ link' \in {"closing", "closed"} /\ UNCHANGED <<asked, req, w, streams, workers, st>>
    BY <1>3 DEF ReaderEnds, CloseChannel
  <2> QED BY <1>1, <2>1, QuietKept DEF InHand
<1>4. CASE ClientReads
  <2>1. /\ w' = [w EXCEPT !.wire = Tail(w.wire)] /\ w.wire # <<>>
        /\ UNCHANGED <<link, asked, req, streams, workers, st>>
    BY <1>4 DEF ClientReads
  <2>2. Tail(w.wire) \in Seq(SocketFrames)
    BY <1>1, <2>1, TailFacts
  <2>3. w' \in WriterState /\ w'.at = w.at /\ w'.frame = w.frame
    BY <1>1, <2>1, <2>2 DEF WriterState
  <2> QED BY <1>1, <2>1, <2>3, QuietKept DEF InHand
<1> QED BY <1>2, <1>3, <1>4

LEMMA WriterKept ==
  ASSUME StreamInv, WriterTakesHigh \/ WriterFindsNothing \/ WriterWakes \/ WriteControl
                      \/ ClearConfirm \/ WriteFails \/ WriterEnds
  PROVE  StreamInv'
<1>1. /\ req \in Requests /\ w \in WriterState /\ w.wire \in Seq(SocketFrames) /\ w.frame \in SocketFrames
      /\ w.highC \in Seq(Controls) /\ w.latches \subseteq SocketFrames
      /\ link \in {"open", "closing", "closed", "gone"}
  BY DEF StreamInv, StreamTyped, WriterState
<1>2. CASE WriterTakesHigh
  <2>1. /\ w.at \in {"drain", "wait"} /\ w.highC # <<>>
        /\ w' = [w EXCEPT !.at = "write", !.frame = Head(w.highC), !.highC = Tail(w.highC)]
        /\ UNCHANGED <<link, asked, req, streams, workers, st>>
    BY <1>2 DEF WriterTakesHigh
  <2>2. Tail(w.highC) \in Seq(Controls) /\ Head(w.highC) \in Controls
    BY <1>1, <2>1, TailFacts
  <2>3. w' \in WriterState /\ w'.at = "write" /\ w'.frame \in Controls
    BY <1>1, <2>1, <2>2 DEF WriterState, SocketFrames
  <2>4. ASSUME NEW s \in Stream PROVE ~InHand(s)' /\ ~InHand(s) /\ w.at # "off"
    <3>1. w'.frame[1] # s
      BY <2>3, StreamNames DEF Controls
    <3> QED BY <2>1, <3>1 DEF InHand
  <2> QED BY <1>1, <2>1, <2>3, <2>4, QuietKept
<1>3. CASE WriterFindsNothing \/ WriterWakes \/ ClearConfirm
  <2>1. /\ w.at \in {"drain", "wait", "clear"}
        /\ \/ w' = [w EXCEPT !.at = "wait"]
           \/ w' = [w EXCEPT !.at = "drain", !.wake = FALSE]
           \/ w' = [w EXCEPT !.at = "drain", !.latches = w.latches \ {w.frame}]
        /\ UNCHANGED <<link, asked, req, streams, workers, st>>
    BY <1>3 DEF WriterFindsNothing, WriterWakes, ClearConfirm, Steps
  <2>2. w' \in WriterState /\ w'.at \in {"drain", "wait"}
    BY <1>1, <2>1, ZenonT(60) DEF WriterState
  <2>3. ASSUME NEW s \in Stream PROVE ~InHand(s)' /\ ~InHand(s) /\ w.at # "off"
    BY <2>1, <2>2 DEF InHand
  <2> QED BY <1>1, <2>1, <2>2, <2>3, QuietKept
<1>4. CASE WriteControl
  <2>1. /\ w.at = "write" /\ w.frame[1] \notin Stream
        /\ w' = [w EXCEPT !.wire = Append(w.wire, w.frame),
                          !.at = IF w.frame[1] = "sub" THEN "clear" ELSE "drain"]
        /\ UNCHANGED <<link, asked, req, streams, workers, st>>
    BY <1>4 DEF WriteControl
  <2>2. Append(w.wire, w.frame) \in Seq(SocketFrames)
    BY <1>1, AppendFacts
  <2>3. w' \in WriterState /\ w'.at \in {"drain", "clear"}
    BY <1>1, <2>1, <2>2 DEF WriterState
  <2>4. ASSUME NEW s \in Stream PROVE ~InHand(s)' /\ ~InHand(s) /\ w.at # "off"
    BY <2>1, <2>3 DEF InHand
  <2> QED BY <1>1, <2>1, <2>3, <2>4, QuietKept
<1>5. CASE WriteFails \/ WriterEnds
  <2>1. /\ w' = [w EXCEPT !.at = "off"]
        /\ link' = link \/ link' = "closing"
        /\ UNCHANGED <<asked, req, streams, workers, st>>
    BY <1>5 DEF WriteFails, WriterEnds
  <2>2. w' \in WriterState /\ w'.at = "off"
    BY <1>1, <2>1 DEF WriterState
  <2>3. ASSUME NEW s \in Stream PROVE ~InHand(s)'
    BY <2>2 DEF InHand
  <2> QED BY <1>1, <2>1, <2>2, <2>3, QuietKept
<1> QED BY <1>2, <1>3, <1>4, <1>5

\* The writer takes one item of a stream into its hand.
LEMMA WriterTakesDataKept ==
  ASSUME StreamInv, NEW s \in Stream, WriterTakesData(s)
  PROVE  StreamInv'
<1>1. /\ w.at = "drain" /\ s \in streams /\ st[s].dataC # <<>>
      /\ w' = [w EXCEPT !.at = "write", !.frame = <<s, Head(st[s].dataC)>>]
      /\ st' = [st EXCEPT ![s].dataC = Tail(@)]
      /\ UNCHANGED <<link, asked, req, streams, workers>>
  BY DEF WriterTakesData, Steps
<1>2. /\ st[s] \in StreamState /\ StreamSound(st[s], s) /\ w \in WriterState
      /\ req.open[s] \in {"reply", "over"} /\ st \in [Stream -> StreamState]
  BY <1>1, StreamFacts DEF StreamInv, StreamTyped
<1> DEFINE q == [st[s] EXCEPT !.dataC = Tail(st[s].dataC)]
<1>3. st[s].dataC \in Seq(Nat)
  BY <1>2 DEF StreamState
<1>4. Tail(st[s].dataC) \in Seq(Nat) /\ Head(st[s].dataC) \in Nat
  BY <1>1, <1>3, TailFacts
<1>5. /\ q \in StreamState /\ q.fin = st[s].fin /\ q.reason = st[s].reason /\ q.out = st[s].out
      /\ q.dataC = Tail(st[s].dataC) /\ q.pump = st[s].pump /\ q.chunk = st[s].chunk
      /\ q.sent = st[s].sent /\ q.said = st[s].said /\ q.upBuf = st[s].upBuf
      /\ q.worker = st[s].worker /\ q.lifted = st[s].lifted /\ q.upC = st[s].upC
      /\ q.up = st[s].up /\ q.got = st[s].got
  BY <1>2, <1>4 DEF StreamState
<1>6. st' = [st EXCEPT ![s] = q]
  BY <1>1
<1> HIDE DEF q
<1>7. st'[s] = q /\ \A t \in Stream \ {s} : st'[t] = st[t]
  BY <1>2, <1>6
<1>8. /\ w' \in WriterState /\ w'.at = "write" /\ w'.frame[1] = s
      /\ w'.frame[2] = Head(st[s].dataC)
  <2>1. <<s, Head(st[s].dataC)>> \in SocketFrames
    BY <1>4 DEF SocketFrames
  <2> QED BY <1>1, <1>2, <2>1 DEF WriterState
<1>9. StreamTyped'
  BY <1>1, <1>2, <1>5, <1>6, <1>8 DEF StreamInv, StreamTyped
<1>10. AskedOnce'
  BY <1>1 DEF StreamInv, AskedOnce
<1>11. Opened' = Opened /\ Unended' = Unended
  BY <1>1, <1>5, <1>7 DEF Opened, Unended
<1>12. PlacesKept'
  BY <1>1, <1>11 DEF StreamInv, PlacesKept
<1>13. StreamSound(st[s], s)'
  <2>1. OutSound(st[s], TRUE) /\ FlowIdle(st[s])
    <3>1. OutSound(st[s], s \in streams) /\ Flow(st[s], s)
      BY <1>2 DEF StreamSound
    <3>2. ~InHand(s)
      BY <1>1 DEF InHand
    <3> QED BY <1>1, <3>1, <3>2 DEF Flow
  <2>2. OutSound(q, TRUE) /\ FlowBusy(q, Head(st[s].dataC))
    BY <1>1, <1>2, <1>5, <2>1, TakenFlow
  <2>3. Flow(st[s], s)'
    BY <1>7, <1>8, <2>2 DEF Flow, InHand
  <2>4. OutSound(st[s], s \in streams)'
    BY <1>1, <1>7, <2>2
  <2>5. UpSound(q)
    BY <1>2, <1>5, SameUp DEF StreamSound
  <2>6. Stage(q, req.open[s])
    BY <1>2, <1>5 DEF StreamSound, Stage
  <2> QED BY <1>1, <1>7, <2>3, <2>4, <2>5, <2>6 DEF StreamSound
<1>14. ASSUME NEW t \in Stream \ {s} PROVE StreamSound(st[t], t)'
  <2>1. StreamSound(st[t], t)
    BY DEF StreamInv
  <2>2. Flow(st[t], t)'
    BY <1>1, <1>7, <1>8, <2>1 DEF StreamSound, Flow, InHand
  <2> QED BY <1>1, <1>7, <2>1, <2>2 DEF StreamSound
<1> QED BY <1>9, <1>10, <1>12, <1>13, <1>14 DEF StreamInv

\* The writer writes it; a written end takes the stream out of the connection.
LEMMA WriteStreamItemKept ==
  ASSUME StreamInv, WriteStreamItem, NEW s, NEW x, s = w.frame[1], x = w.frame[2]
  PROVE  StreamInv'
<1> DEFINE q == [st[s] EXCEPT !.out = Append(st[s].out, x)]
<1>1. /\ w.at = "write" /\ s \in Stream
      /\ w' = [w EXCEPT !.wire = Append(w.wire, w.frame), !.at = "drain"]
      /\ st' = [st EXCEPT ![s].out = Append(@, x)]
      /\ streams' = IF x = End THEN streams \ {s} ELSE streams
      /\ UNCHANGED <<link, asked, req, workers>>
  BY DEF WriteStreamItem
<1>2. /\ st[s] \in StreamState /\ StreamSound(st[s], s) /\ w \in WriterState
      /\ req \in Requests /\ st \in [Stream -> StreamState] /\ streams \in SUBSET Stream
      /\ IsFiniteSet(streams) /\ w.frame \in SocketFrames /\ w.wire \in Seq(SocketFrames)
  BY <1>1, StreamFacts DEF StreamInv, StreamTyped, WriterState
<1>3. x \in Nat
  <2>1. w.frame \notin Controls
    BY <1>1, NoneInHand
  <2> QED BY <1>2, <2>1 DEF SocketFrames
<1>4. st[s].out \in Seq(Nat)
  BY <1>2 DEF StreamState
<1>5. Append(st[s].out, x) \in Seq(Nat)
  BY <1>3, <1>4, AppendFacts
<1>6. /\ q \in StreamState /\ q.fin = st[s].fin /\ q.reason = st[s].reason
      /\ q.out = Append(st[s].out, x)
      /\ q.dataC = st[s].dataC /\ q.pump = st[s].pump /\ q.chunk = st[s].chunk
      /\ q.sent = st[s].sent /\ q.said = st[s].said /\ q.upBuf = st[s].upBuf
      /\ q.worker = st[s].worker /\ q.lifted = st[s].lifted /\ q.upC = st[s].upC
      /\ q.up = st[s].up /\ q.got = st[s].got
  BY <1>2, <1>5 DEF StreamState
<1>7. st' = [st EXCEPT ![s] = q]
  BY <1>1
<1> HIDE DEF q
<1>8. st'[s] = q /\ \A t \in Stream \ {s} : st'[t] = st[t]
  BY <1>1, <1>2, <1>7
<1>9. w' \in WriterState /\ w'.at = "drain"
  <2>1. Append(w.wire, w.frame) \in Seq(SocketFrames)
    BY <1>2, AppendFacts
  <2> QED BY <1>1, <1>2, <2>1 DEF WriterState
<1>10. FlowBusy(st[s], x) /\ OutSound(st[s], s \in streams)
  BY <1>1, <1>2 DEF StreamSound, Flow, InHand
<1>11. req.open[s] \in {"reply", "over"}
  <2>1. ~FlowBusy(FreshStream, x)
    BY DEF FlowBusy, FreshStream, EndsAfter, Line, NoEndYet, EndQueued
  <2> QED BY <1>2, <1>10, <2>1 DEF StreamSound, Stage
<1>12. StreamTyped'
  <2>1. IsFiniteSet(streams') /\ streams' \in SUBSET Stream
    BY <1>1, <1>2, FS_RemoveElement
  <2>2. st' \in [Stream -> StreamState]
    BY <1>2, <1>6, <1>7
  <2>3. link' = link /\ asked' = asked /\ req' \in Requests
    BY <1>1, <1>2
  <2> QED BY <1>9, <2>1, <2>2, <2>3 DEF StreamInv, StreamTyped
<1>13. AskedOnce'
  BY <1>1 DEF StreamInv, AskedOnce
<1>14. Opened' = Opened /\ Unended' = Unended
  <2>1. \A t \in Stream : st'[t].fin = st[t].fin
    BY <1>6, <1>8
  <2> QED BY <1>1, <2>1 DEF Opened, Unended
<1>15. PlacesKept'
  <2>1. x = End => s \notin Unended
    <3>1. ASSUME x = End PROVE st[s].fin = "over"
      BY <1>4, <1>10, <3>1 DEF FlowBusy, EndsAfter, End
    <3> QED BY <3>1 DEF Unended
  <2> QED BY <1>1, <1>14, <2>1 DEF StreamInv, PlacesKept
<1>16. StreamSound(st[s], s)'
  <2>1. /\ x # End => OutSound(q, s \in streams)
        /\ x = End => OutSound(q, FALSE)
        /\ FlowIdle(q)
    <3>1. /\ st[s] \in StreamState /\ q \in StreamState /\ x \in Nat
          /\ (s \in streams) \in BOOLEAN
          /\ q.fin = st[s].fin /\ q.reason = st[s].reason /\ q.out = Append(st[s].out, x)
          /\ q.dataC = st[s].dataC /\ q.pump = st[s].pump /\ q.chunk = st[s].chunk
          /\ q.sent = st[s].sent
          /\ OutSound(st[s], s \in streams) /\ FlowBusy(st[s], x)
      BY <1>2, <1>3, <1>6, <1>10
    <3> QED BY ONLY <3>1, WrittenFlow, Zenon
  <2>2. OutSound(q, s \in streams') /\ FlowIdle(q)
    <3>1. CASE x = End
      <4>1. (s \in streams') = FALSE
        BY <1>1, <3>1
      <4> QED BY <2>1, <3>1, <4>1
    <3>2. CASE x # End
      <4>1. streams' = streams
        BY <1>1, <3>2
      <4> QED BY <2>1, <3>2, <4>1
    <3> QED BY <3>1, <3>2
  <2>3. UpSound(q)
    BY <1>2, <1>6, SameUp DEF StreamSound
  <2>4. Stage(q, req.open[s])
    BY <1>2, <1>6, <1>11 DEF StreamSound, Stage
  <2>5. Flow(st[s], s)'
    BY <1>8, <1>9, <2>2 DEF Flow, InHand
  <2>6. st'[s] = q /\ req' = req
    BY <1>1, <1>8
  <2> QED BY <2>2, <2>3, <2>4, <2>5, <2>6 DEF StreamSound
<1>17. ASSUME NEW t \in Stream \ {s} PROVE StreamSound(st[t], t)'
  <2>1. StreamSound(st[t], t) /\ ~InHand(t) /\ ~InHand(t)'
    BY <1>1, <1>9 DEF StreamInv, InHand
  <2>2. Flow(st[t], t)'
    BY <1>1, <1>8, <2>1 DEF StreamSound, Flow
  <2>3. (t \in streams') = (t \in streams)
    BY <1>1
  <2> QED BY <1>1, <1>8, <2>1, <2>2, <2>3 DEF StreamSound
<1> QED BY <1>12, <1>13, <1>15, <1>16, <1>17 DEF StreamInv

\* close takes the streams that nobody has ended with it; the places of their workers are
\* all that was given out.
LEMMA TeardownKept ==
  ASSUME StreamInv, Teardown
  PROVE  StreamInv'
<1>1. /\ link' = "gone" /\ streams' = {} /\ UNCHANGED <<asked, req>>
      /\ w' = [w EXCEPT !.latches = {}, !.subscribed = FALSE]
      /\ st' = [s \in Stream |->
                  IF s \in {t \in streams : st[t].fin = "no"}
                  THEN [st[s] EXCEPT !.fin = "over", !.reason = "conn"] ELSE st[s]]
      /\ workers' = workers - Cardinality({t \in streams : st[t].fin = "no"})
  BY DEF Teardown
<1>2. /\ req \in Requests /\ w \in WriterState /\ st \in [Stream -> StreamState]
      /\ Unended \subseteq streams /\ streams \subseteq Opened /\ Opened \subseteq Stream
      /\ workers = Cardinality(Unended)
  BY DEF StreamInv, StreamTyped, PlacesKept, Opened
<1>3. {t \in streams : st[t].fin = "no"} = Unended
  BY <1>2 DEF Unended
<1>4. w' \in WriterState /\ w'.at = w.at /\ w'.frame = w.frame
  BY <1>1, <1>2 DEF WriterState
<1>5. ASSUME NEW s \in Unended
      PROVE  /\ st'[s] \in StreamState /\ st'[s].fin = "over" /\ st'[s].reason = "conn"
             /\ st'[s].dataC = st[s].dataC /\ st'[s].pump = st[s].pump
             /\ st'[s].chunk = st[s].chunk /\ st'[s].sent = st[s].sent
             /\ st'[s].out = st[s].out /\ st'[s].got = st[s].got
             /\ st'[s].worker = st[s].worker /\ st'[s].up = st[s].up
  <2>1. s \in Stream /\ st[s] \in StreamState
    BY <1>2 DEF Unended
  <2>2. st'[s] = [st[s] EXCEPT !.fin = "over", !.reason = "conn"]
    BY <1>1, <1>3, <2>1
  <2> QED BY <2>1, <2>2 DEF StreamState
<1>6. ASSUME NEW s \in Stream \ Unended PROVE st'[s] = st[s]
  BY <1>1, <1>3
<1>7. StreamTyped'
  <2>1. st' \in [Stream -> StreamState]
    <3>1. \A s \in Stream : st'[s] \in StreamState
      BY <1>2, <1>5, <1>6
    <3> QED BY <1>1, <3>1
  <2>2. IsFiniteSet(streams')
    BY <1>1, FS_EmptySet
  <2> QED BY <1>1, <1>2, <1>4, <2>1, <2>2 DEF StreamInv, StreamTyped
<1>8. AskedOnce'
  BY <1>1 DEF StreamInv, AskedOnce
<1>9. PlacesKept'
  <2>1. Opened' = Opened
    BY <1>1 DEF Opened
  <2>2. Unended' = {}
    BY <1>2, <1>5, <1>6, <2>1 DEF Unended
  <2>3. workers' = 0 /\ Cardinality({}) = 0
    <3>1. workers' = workers - Cardinality(Unended) /\ Cardinality(Unended) \in Nat
      BY <1>1, <1>3, UnendedFinite
    <3> QED BY <1>2, <3>1, FS_EmptySet
  <2> QED BY <1>1, <2>2, <2>3 DEF PlacesKept
<1>10. ASSUME NEW s \in Unended PROVE StreamSound(st[s], s)'
  <2>1. /\ s \in Stream /\ st[s] \in StreamState /\ StreamSound(st[s], s) /\ s \in streams
        /\ req.open[s] \in {"reply", "over"} /\ st[s].fin = "no"
    BY <1>2 DEF Unended, StreamInv, Opened
  <2>2. OutSound(st[s], TRUE) /\ Flow(st[s], s)
    BY <2>1 DEF StreamSound
  <2>3. OutSound(st'[s], FALSE) /\ Flow(st'[s], s)
    BY <1>5, <2>1, <2>2, OverFlow
  <2>4. Flow(st[s], s)'
    BY <1>4, <2>3 DEF Flow, InHand
  <2>5. UpSound(st'[s])
    BY <1>5, <2>1 DEF StreamSound, UpSound
  <2>6. Stage(st'[s], req.open[s])
    BY <1>5, <2>1 DEF StreamSound, Stage
  <2>7. OutSound(st[s], s \in streams)'
    BY <1>1, <2>3 DEF OutSound
  <2> QED BY <1>1, <2>3, <2>4, <2>5, <2>6, <2>7 DEF StreamSound
<1>11. ASSUME NEW s \in Stream \ Unended PROVE StreamSound(st[s], s)'
  <2>1. StreamSound(st[s], s) /\ st'[s] = st[s]
    BY <1>6 DEF StreamInv
  <2>2. Flow(st[s], s)'
    BY <1>4, <2>1 DEF StreamSound, Flow, InHand
  <2>3. OutSound(st[s], s \in streams)
    BY <2>1 DEF StreamSound
  <2>4. OutSound(st[s], s \in streams)'
    BY <1>1, <2>1, <2>3 DEF OutSound
  <2> QED BY <1>1, <2>1, <2>2, <2>3, <2>4 DEF StreamSound
<1> QED BY <1>7, <1>8, <1>9, <1>10, <1>11 DEF StreamInv

LEMMA StreamInvInit == StreamInit => StreamInv
<1> SUFFICES ASSUME StreamInit PROVE StreamInv
  OBVIOUS
<1>1. StreamTyped
  <2>1. req \in Requests
    BY DEF StreamInit, Requests, Controls, Kinds, Free, OpenSteps
  <2>2. w \in WriterState
    BY DEF StreamInit, WriterState, SocketFrames, Controls, Kinds, Free
  <2>3. st \in [Stream -> StreamState]
    BY FreshSound DEF StreamInit
  <2>4. IsFiniteSet(streams)
    BY FS_EmptySet DEF StreamInit
  <2>5. link = "open" /\ streams = {}
        /\ asked \in [open : SUBSET Stream, close : SUBSET Stream, subs : Nat, plain : Nat]
    BY DEF StreamInit
  <2> QED BY <2>1, <2>2, <2>3, <2>4, <2>5 DEF StreamTyped
<1>2. AskedOnce
  BY DEF StreamInit, AskedOnce
<1>3. PlacesKept
  <2>1. Opened = {} /\ Unended = {}
    BY DEF StreamInit, Opened, Unended
  <2> QED BY <2>1, FS_EmptySet DEF StreamInit, PlacesKept
<1>4. ASSUME NEW s \in Stream PROVE StreamSound(st[s], s)
  <2>1. st[s] = FreshStream /\ req.open[s] = "none" /\ w.at = "drain" /\ (s \in streams) = FALSE
    BY DEF StreamInit
  <2>2. Stage(st[s], req.open[s])
    BY <2>1 DEF Stage, FreshStream
  <2>3. OutSound(FreshStream, FALSE)
    BY FreshSound DEF OutSound
  <2>4. Flow(st[s], s)
    <3>1. Len(FreshStream.out) = 0
      BY DEF FreshStream
    <3> QED BY <2>1, <3>1, FreshSound DEF Flow, FlowIdle, InHand
  <2> QED BY <2>1, <2>2, <2>3, <2>4, FreshSound DEF StreamSound
<1> QED BY <1>1, <1>2, <1>3, <1>4 DEF StreamInv

LEMMA StreamInvStep == StreamInv /\ [StreamNext]_streamVars => StreamInv'
<1> SUFFICES ASSUME StreamInv, [StreamNext]_streamVars PROVE StreamInv'
  OBVIOUS
<1>1. CASE Asks
  BY <1>1, AsksKept, StreamDataKept DEF Asks
<1>2. CASE ReaderReturns \/ ReaderEnds \/ ClientReads
  BY <1>2, QuietStepsKept
<1>3. CASE DispatcherRuns
  BY <1>3, DispatchKept, BusyKept DEF DispatcherRuns
<1>4. CASE WriterRuns
  <2>1. CASE WriteStreamItem
    BY <2>1, WriteStreamItemKept
  <2>2. CASE \E s \in Stream : WriterTakesData(s)
    BY <2>2, WriterTakesDataKept
  <2> QED BY <1>4, <2>1, <2>2, WriterKept DEF WriterRuns
<1>5. CASE Closing
  BY <1>5, QuietStepsKept, TeardownKept DEF Closing
<1>6. ASSUME NEW s \in Stream, Executor(s) \/ FinishPutsEnd(s) \/ Pump(s) \/ UpWorker(s) \/ Up(s)
      PROVE  StreamInv'
  BY <1>6, ExecutorKept, FinishPutsEndKept, PumpKept, UpstreamKept
<1>7. CASE UNCHANGED streamVars
  BY <1>7 DEF streamVars, StreamInv, StreamTyped, AskedOnce, PlacesKept, Unended, Opened,
              StreamSound, Flow, InHand
<1> QED BY <1>1, <1>2, <1>3, <1>4, <1>5, <1>6, <1>7 DEF StreamNext

\* The streams of a connection keep their books: a place in subs or pending belongs to one
\* stream that is not over, a stream is answered once, nothing but the frames between its
\* open and its end is on the way, in order, and a goroutine of it only does what its
\* stage allows (opStreamOpen, runStreamOpen, backendPump, upWorker, finish in internal/control).
THEOREM StreamsKept == StreamSpec => []StreamInv
BY StreamInvInit, StreamInvStep, PTL DEF StreamSpec

LEMMA InOrder ==
  ASSUME StreamInv
  PROVE  StreamsAgree /\ DataThenEnd /\ UpstreamWithoutGaps
<1>1. PlacesMatchStreams
  BY DEF StreamInv, PlacesKept, PlacesMatchStreams, Unended
<1>2. NoStreamOutlivesConnection
  BY DEF StreamInv, PlacesKept, NoStreamOutlivesConnection, Unended
<1>3. UpstreamWithoutGaps
  BY DEF StreamInv, StreamSound, UpSound, UpstreamWithoutGaps
<1>4. DataThenEnd
  <2> SUFFICES ASSUME NEW s \in Stream
               PROVE  LET n == Len(st[s].out)
                          ended == n > 0 /\ st[s].out[n] = End
                          m == IF ended THEN n - 1 ELSE n
                      IN /\ \A i \in 1 .. m : st[s].out[i] = i
                         /\ ended /\ st[s].reason = "eof" => m = st[s].sent
    BY DEF DataThenEnd
  <2>1. OutSound(st[s], s \in streams) /\ Len(st[s].out) \in Nat
    <3>1. st[s].out \in Seq(Nat)
      BY DEF StreamInv, StreamTyped, StreamState
    <3> QED BY <3>1 DEF StreamInv, StreamSound
  <2>2. CASE EndWritten(st[s])
    BY <2>1, <2>2 DEF OutSound, EndWritten, EndsAfter
  <2>3. CASE ~EndWritten(st[s])
    BY <2>1, <2>3 DEF OutSound, EndWritten
  <2> QED BY <2>2, <2>3
<1> QED BY <1>1, <1>2, <1>3, <1>4 DEF StreamsAgree

\* The places of the workers and the streams of a connection belong together while one
\* ends and another is dialled, and no stream outlives the connection, not even one whose
\* dial was under way (opStreamOpen, runStreamOpen, finish, close in internal/control).
THEOREM PlacesAgree == StreamSpec => []StreamsAgree
BY StreamsKept, InOrder, PTL

-----------------------------------------------------------------------------
(* The limits *)

\* The opens that wait for their dial or for their answer.
Dialling == {s \in Stream : req.open[s] \in {"dial", "dialled", "reply", "refuse"}}

Room(r) == Len(r.dataC) <= StreamQueue /\ Len(r.upBuf) <= UpWorkerItems /\ Len(r.upC) <= StreamUpItems

\* What is in flight is a finite set, or there would be nothing to count.
Limits ==
  /\ Len(w.highC) <= HighQueue /\ \A s \in Stream : Room(st[s])
  /\ Cardinality(streams) <= MaxStreams /\ workers <= MaxUpWorkers
  /\ IsFiniteSet(Dialling) /\ Inflight <= MaxInflight

\* highC, in any step: as it was, with a frame more where there was room, or with one less.
HighMoves ==
  \/ w'.highC = w.highC
  \/ Len(w.highC) < HighQueue /\ \E f \in Controls : w'.highC = Append(w.highC, f)
  \/ w.highC # <<>> /\ w'.highC = Tail(w.highC)

LEMMA SendHighMoves ==
  ASSUME StreamInv, NEW f \in Controls, SendHigh(f)
  PROVE  HighMoves
<1>1. w \in WriterState
  BY DEF StreamInv, StreamTyped
<1>2. [w EXCEPT !.highC = Append(@, f)].highC = Append(w.highC, f)
  BY <1>1 DEF WriterState
<1> QED
  BY <1>2 DEF SendHigh, HighMoves

LEMMA HighStep ==
  ASSUME StreamInv, StreamNext
  PROVE  HighMoves
<1>0. w \in WriterState /\ req \in Requests /\ req.busy \in Controls
  BY DEF StreamInv, StreamTyped, Requests
<1>1. CASE AskSub \/ AskPlain \/ (\E s \in Stream : AskOpen(s) \/ AskClose(s)) \/ ReaderReturns \/ ReaderEnds
            \/ Dispatch \/ CloseStream \/ CloseChannel
  BY <1>1 DEF AskSub, AskPlain, AskOpen, AskClose, Request, ReaderReturns, ReaderEnds, Dispatch, CloseStream,
              CloseChannel, HighMoves
<1>2. ASSUME NEW s \in Stream, StreamData(s) PROVE HighMoves
  <2>1. <<"notice", 0>> \in Controls
    BY DEF Controls, Kinds
  <2>2. w' = w \/ SendHigh(<<"notice", 0>>)
    BY <1>2 DEF StreamData
  <2>3. w' = w => HighMoves
    BY DEF HighMoves
  <2> QED
    BY <2>1, <2>2, <2>3, SendHighMoves
<1>3. CASE DoPlain \/ CloseUnknown \/ CloseReturns
  <2>1. SendHigh(req.busy)
    BY <1>3 DEF DoPlain, CloseUnknown, CloseReturns, Answer
  <2> QED
    BY <1>0, <2>1, SendHighMoves
<1>4. CASE SubscribeLocks
  <2>1. w' = [w EXCEPT !.locked = TRUE, !.latches = @ \cup {req.busy}, !.subscribed = TRUE]
    BY <1>4 DEF SubscribeLocks
  <2> QED
    BY <1>0, <2>1 DEF WriterState, HighMoves
<1>5. CASE SubscribeReplies
  <2>1. \/ Len(w.highC) < HighQueue /\ w' = [w EXCEPT !.locked = FALSE, !.highC = Append(@, <<"sub", req.busy[2]>>)]
        \/ w' = [w EXCEPT !.locked = FALSE]
    BY <1>5 DEF SubscribeReplies
  <2>2. <<"sub", req.busy[2]>> \in Controls
    BY <1>0 DEF Controls, Kinds
  <2> QED
    BY <1>0, <2>1, <2>2 DEF WriterState, HighMoves
<1>6. ASSUME NEW s \in Stream, Executor(s) \/ FinishPutsEnd(s) \/ Pump(s) \/ UpWorker(s) \/ Up(s)
      PROVE  HighMoves
  <2>1. CASE OpenReplies(s)
    <3>1. <<"open", s>> \in Controls
      BY DEF Controls, Kinds
    <3>2. SendHigh(<<"open", s>>)
      BY <2>1 DEF OpenReplies
    <3> QED
      BY <3>1, <3>2, SendHighMoves
  <2>2. CASE OpenDials(s) \/ OpenRegisters(s) \/ PumpReads(s) \/ PumpEnds(s) \/ UpWorker(s) \/ Up(s)
    <3>1. w' = w
      BY <2>2 DEF OpenDials, OpenRegisters, PumpReads, PumpEnds, UpWorker, WorkerTakes, WorkerPuts, WorkerStalls,
                  WorkerStops, Up, UpWrites, UpFails, UpStops
    <3> QED
      BY <3>1 DEF HighMoves
  <2>3. CASE FinishPutsEnd(s) \/ PumpPuts(s)
    <3>1. w' = w \/ w' = [w EXCEPT !.wake = TRUE]
      BY <2>3 DEF FinishPutsEnd, PumpPuts
    <3> QED
      BY <1>0, <3>1 DEF WriterState, HighMoves
  <2> QED
    BY <1>6, <2>1, <2>2, <2>3 DEF Executor, Pump
<1>7. CASE WriterRuns \/ ClientReads
  <2>1. CASE WriterTakesHigh
    <3>1. w.highC # <<>> /\ w' = [w EXCEPT !.at = "write", !.frame = Head(w.highC), !.highC = Tail(@)]
      BY <2>1 DEF WriterTakesHigh
    <3> QED
      BY <1>0, <3>1 DEF WriterState, HighMoves
  <2>2. CASE ~WriterTakesHigh
    <3>1. \/ w' = w \/ (\E at : w' = [w EXCEPT !.at = at])
          \/ (\E at, f : w' = [w EXCEPT !.at = at, !.frame = f])
          \/ (\E at, v : w' = [w EXCEPT !.at = at, !.wake = v])
          \/ (\E at, v : w' = [w EXCEPT !.wire = v, !.at = at])
          \/ (\E at, v : w' = [w EXCEPT !.at = at, !.latches = v])
          \/ (\E v : w' = [w EXCEPT !.wire = v])
      <4>1. CASE WriterFindsNothing \/ WriteFails \/ WriterEnds
        BY <4>1 DEF WriterFindsNothing, WriteFails, WriterEnds
      <4>2. CASE WriterWakes
        BY <4>2 DEF WriterWakes
      <4>3. CASE WriteControl \/ WriteStreamItem
        BY <4>3 DEF WriteControl, WriteStreamItem
      <4>4. CASE ClearConfirm
        BY <4>4 DEF ClearConfirm
      <4>5. CASE ClientReads
        BY <4>5 DEF ClientReads
      <4>6. CASE \E s \in Stream : WriterTakesData(s)
        BY <4>6 DEF WriterTakesData
      <4> QED
        BY <1>7, <2>2, <4>1, <4>2, <4>3, <4>4, <4>5, <4>6 DEF WriterRuns
    <3>2. w'.highC = w.highC
      BY <1>0, <3>1 DEF WriterState
    <3> QED
      BY <3>2 DEF HighMoves
  <2> QED
    BY <2>1, <2>2
<1>8. CASE Teardown
  <2>1. w' = [w EXCEPT !.latches = {}, !.subscribed = FALSE]
    BY <1>8 DEF Teardown
  <2> QED
    BY <1>0, <2>1 DEF WriterState, HighMoves
<1> QED
  BY <1>1, <1>2, <1>3, <1>4, <1>5, <1>6, <1>7, <1>8 DEF StreamNext, Asks, DispatcherRuns, Closing

LEMMA HighLimited ==
  ASSUME StreamInv, Len(w.highC) <= HighQueue, StreamNext
  PROVE  Len(w.highC)' <= HighQueue
<1>1. w.highC \in Seq(Controls) /\ Len(w.highC) \in Nat /\ HighQueue \in Nat
  BY StreamAssumption DEF StreamInv, StreamTyped, WriterState
<1>2. HighMoves
  BY HighStep
<1>3. \A f \in Controls : Len(Append(w.highC, f)) = Len(w.highC) + 1
  BY <1>1, AppendFacts
<1>4. w.highC # <<>> => Len(Tail(w.highC)) = Len(w.highC) - 1
  BY <1>1, TailFacts
<1>5. CASE w'.highC = w.highC
  BY <1>5
<1>6. CASE Len(w.highC) < HighQueue /\ \E f \in Controls : w'.highC = Append(w.highC, f)
  <2>1. Len(w'.highC) = Len(w.highC) + 1
    BY <1>3, <1>6
  <2> QED
    BY <1>1, <1>6, <2>1
<1>7. CASE w.highC # <<>> /\ w'.highC = Tail(w.highC)
  <2>1. Len(w'.highC) = Len(w.highC) - 1
    BY <1>4, <1>7
  <2> QED
    BY <1>1, <2>1
<1> QED
  BY <1>2, <1>5, <1>6, <1>7 DEF HighMoves

\* The queues of one stream.
LEMMA RoomEdit ==
  ASSUME StreamInv, \A t \in Stream : Room(st[t]), NEW s \in Stream, NEW q, st' = [st EXCEPT ![s] = q], Room(q)
  PROVE  \A t \in Stream : Room(st'[t])
BY DEF StreamInv, StreamTyped

LEMMA RoomFinish ==
  ASSUME StreamInv, \A t \in Stream : Room(st[t]), NEW s \in Stream, NEW r \in StreamState, NEW reason,
         Finish(s, r, reason), Room(r)
  PROVE  \A t \in Stream : Room(st'[t])
<1> DEFINE q == IF r.fin = "no" THEN [r EXCEPT !.fin = "ending", !.reason = reason] ELSE r
<1>1. st' = [st EXCEPT ![s] = q]
  BY DEF Finish
<1>2. q.dataC = r.dataC /\ q.upBuf = r.upBuf /\ q.upC = r.upC
  BY DEF StreamState
<1> HIDE DEF q
<1>3. Room(q)
  BY <1>2 DEF Room
<1> QED
  BY <1>1, <1>3, RoomEdit

\* An item goes into a queue that has room, or out of one.
LEMMA RoomMoves ==
  ASSUME NEW r \in StreamState, Room(r), NEW x \in Nat
  PROVE  /\ r.dataC \in Seq(Nat) /\ r.upBuf \in Seq(Nat) /\ r.upC \in Seq(Nat)
         /\ Len(r.dataC) < StreamQueue => Len(Append(r.dataC, x)) <= StreamQueue
         /\ Len(r.upBuf) < UpWorkerItems => Len(Append(r.upBuf, x)) <= UpWorkerItems
         /\ Len(r.upC) < StreamUpItems => Len(Append(r.upC, x)) <= StreamUpItems
         /\ r.dataC # <<>> => Len(Tail(r.dataC)) <= StreamQueue
         /\ r.upBuf # <<>> => Len(Tail(r.upBuf)) <= UpWorkerItems
         /\ r.upC # <<>> => Len(Tail(r.upC)) <= StreamUpItems
<1>1. r.dataC \in Seq(Nat) /\ r.upBuf \in Seq(Nat) /\ r.upC \in Seq(Nat)
  BY DEF StreamState
<1>2. StreamQueue \in Nat /\ UpWorkerItems \in Nat /\ StreamUpItems \in Nat
  BY StreamAssumption
<1>3. ASSUME NEW q \in Seq(Nat), NEW n \in Nat, Len(q) <= n
      PROVE  /\ Len(q) < n => Len(Append(q, x)) <= n
             /\ q # <<>> => Len(Tail(q)) <= n
  <2>1. Len(q) \in Nat /\ Len(Append(q, x)) = Len(q) + 1
    BY AppendFacts
  <2>2. q # <<>> => Len(Tail(q)) = Len(q) - 1
    BY TailFacts
  <2> QED
    BY <1>3, <2>1, <2>2
<1>4. /\ Len(r.dataC) < StreamQueue => Len(Append(r.dataC, x)) <= StreamQueue
      /\ r.dataC # <<>> => Len(Tail(r.dataC)) <= StreamQueue
  BY <1>1, <1>2, <1>3 DEF Room
<1>5. /\ Len(r.upBuf) < UpWorkerItems => Len(Append(r.upBuf, x)) <= UpWorkerItems
      /\ r.upBuf # <<>> => Len(Tail(r.upBuf)) <= UpWorkerItems
  BY <1>1, <1>2, <1>3 DEF Room
<1>6. /\ Len(r.upC) < StreamUpItems => Len(Append(r.upC, x)) <= StreamUpItems
      /\ r.upC # <<>> => Len(Tail(r.upC)) <= StreamUpItems
  BY <1>1, <1>2, <1>3 DEF Room
<1> QED
  BY <1>1, <1>4, <1>5, <1>6

\* What a stream of the next state has of what it had.
SameQueues(q, r) == q.dataC = r.dataC /\ q.upBuf = r.upBuf /\ q.upC = r.upC

LEMMA RoomSame ==
  ASSUME NEW q, NEW r, Room(r), SameQueues(q, r)
  PROVE  Room(q)
BY DEF Room, SameQueues

LEMMA RoomLimited ==
  ASSUME StreamInv, \A t \in Stream : Room(st[t]), StreamNext
  PROVE  \A t \in Stream : Room(st'[t])
<1>0. st \in [Stream -> StreamState] /\ req \in Requests /\ w \in WriterState
  BY DEF StreamInv, StreamTyped
<1>1. CASE AskSub \/ AskPlain \/ (\E s \in Stream : AskOpen(s) \/ AskClose(s)) \/ ReaderReturns \/ ReaderEnds
            \/ Dispatch \/ DoPlain \/ CloseUnknown \/ CloseReturns \/ SubscribeLocks \/ SubscribeReplies
            \/ WriterTakesHigh \/ WriterFindsNothing \/ WriterWakes \/ WriteControl
            \/ ClearConfirm \/ WriteFails \/ WriterEnds \/ ClientReads \/ CloseChannel
            \/ \E s \in Stream : OpenDials(s) \/ OpenRegisters(s)
  <2>1. st' = st
    BY <1>1 DEF AskSub, AskPlain, AskOpen, AskClose, Request, ReaderReturns, ReaderEnds, Dispatch, DoPlain,
       CloseUnknown, CloseReturns, SubscribeLocks, SubscribeReplies, WriterTakesHigh, WriterFindsNothing,
       WriterWakes, WriteControl, ClearConfirm, WriteFails, WriterEnds, ClientReads, CloseChannel,
       OpenDials, OpenRegisters
  <2> QED
    BY <2>1
<1>2. ASSUME NEW s \in Stream, StreamData(s) PROVE \A t \in Stream : Room(st'[t])
  <2> DEFINE r == [st[s] EXCEPT !.said = @ + 1]
  <2>1. \/ st' = [st EXCEPT ![s] = r]
        \/ Len(r.upBuf) < UpWorkerItems /\ st' = [st EXCEPT ![s] = [r EXCEPT !.upBuf = Append(@, r.said)]]
        \/ Finish(s, r, "gone")
    BY <1>2 DEF StreamData
  <2>2. r \in StreamState /\ SameQueues(r, st[s]) /\ r.said \in Nat
    <3>1. st[s] \in StreamState /\ st[s].said + 1 \in Nat
      BY <1>0 DEF StreamState
    <3> QED
      BY <3>1 DEF StreamState, SameQueues
  <2> HIDE DEF r
  <2>3. Room(r)
    BY <1>2, <2>2, RoomSame
  <2>4. CASE st' = [st EXCEPT ![s] = r]
    BY <2>3, <2>4, RoomEdit
  <2>5. CASE Len(r.upBuf) < UpWorkerItems /\ st' = [st EXCEPT ![s] = [r EXCEPT !.upBuf = Append(@, r.said)]]
    <3>1. PICK b : b = Append(r.upBuf, r.said)
      OBVIOUS
    <3>2. Len(b) <= UpWorkerItems
      BY <2>2, <2>3, <2>5, <3>1, RoomMoves
    <3>3. Room([r EXCEPT !.upBuf = b])
      BY <2>2, <2>3, <3>2 DEF StreamState, Room
    <3>4. st' = [st EXCEPT ![s] = [r EXCEPT !.upBuf = b]]
      BY <2>5, <3>1
    <3> QED
      BY <3>3, <3>4, RoomEdit
  <2>6. CASE Finish(s, r, "gone")
    BY <2>2, <2>3, <2>6, RoomFinish
  <2> QED
    BY <2>1, <2>4, <2>5, <2>6
<1>3. CASE CloseStream
  <2>1. PICK s : s = req.busy[2]
    OBVIOUS
  <2>2. Finish(s, st[s], "closed") /\ s \in streams
    BY <1>3, <2>1 DEF CloseStream
  <2>3. s \in Stream /\ st[s] \in StreamState
    BY <1>0, <2>2 DEF StreamInv, StreamTyped
  <2> QED
    BY <2>2, <2>3, RoomFinish
<1>4. ASSUME NEW s \in Stream,
             OpenReplies(s) \/ FinishPutsEnd(s) \/ Pump(s) \/ UpWorker(s) \/ Up(s) \/ WriterTakesData(s)
      PROVE  \A t \in Stream : Room(st'[t])
  <2>0. st[s] \in StreamState /\ Room(st[s]) /\ st[s].chunk \in Nat /\ st[s].lifted \in Nat /\ End \in Nat
    BY <1>0, <1>4 DEF StreamState, End
  <2>1. CASE OpenReplies(s) /\ st' # st
    <3>1. st' = [st EXCEPT ![s] = [st[s] EXCEPT !.pump = "read", !.worker = "take", !.up = "take"]]
      BY <1>0, <2>1 DEF OpenReplies
    <3>2. SameQueues([st[s] EXCEPT !.pump = "read", !.worker = "take", !.up = "take"], st[s])
      BY <2>0 DEF StreamState, SameQueues
    <3> QED
      BY <2>0, <3>1, <3>2, RoomEdit, RoomSame
  <2>2. CASE PumpReads(s)
    <3>1. st' = [st EXCEPT ![s] = [st[s] EXCEPT !.pump = "put", !.sent = @ + 1, !.chunk = st[s].sent + 1]]
      BY <1>0, <2>2 DEF PumpReads
    <3>2. SameQueues([st[s] EXCEPT !.pump = "put", !.sent = @ + 1, !.chunk = st[s].sent + 1], st[s])
      BY <2>0 DEF StreamState, SameQueues
    <3> QED
      BY <2>0, <3>1, <3>2, RoomEdit, RoomSame
  <2>3. CASE WorkerStops(s) \/ UpStops(s) \/ (PumpPuts(s) /\ st' = [st EXCEPT ![s].pump = "off"])
             \/ (FinishPutsEnd(s) /\ st' = [st EXCEPT ![s].fin = "over"])
    <3>1. PICK q \in {[st[s] EXCEPT !.worker = "off"], [st[s] EXCEPT !.up = "off"], [st[s] EXCEPT !.pump = "off"],
                      [st[s] EXCEPT !.fin = "over"]} : st' = [st EXCEPT ![s] = q]
      BY <1>0, <2>3 DEF WorkerStops, UpStops
    <3>2. SameQueues(q, st[s])
      BY <2>0, <3>1 DEF StreamState, SameQueues
    <3> QED
      BY <2>0, <3>1, <3>2, RoomEdit, RoomSame
  <2>4. CASE FinishPutsEnd(s) /\ Len(st[s].dataC) < StreamQueue
             /\ st' = [st EXCEPT ![s].fin = "over", ![s].dataC = Append(@, End)]
    <3>1. PICK b : b = Append(st[s].dataC, End)
      OBVIOUS
    <3>2. Len(b) <= StreamQueue
      BY <2>0, <2>4, <3>1, RoomMoves
    <3>3. Room([st[s] EXCEPT !.fin = "over", !.dataC = b])
      BY <2>0, <3>2 DEF StreamState, Room
    <3>4. st' = [st EXCEPT ![s] = [st[s] EXCEPT !.fin = "over", !.dataC = b]]
      BY <1>0, <2>4, <3>1
    <3> QED
      BY <3>3, <3>4, RoomEdit
  <2>5. CASE PumpPuts(s) /\ Len(st[s].dataC) < StreamQueue
             /\ st' = [st EXCEPT ![s].pump = IF Stopped(s) THEN "off" ELSE "read",
                                 ![s].dataC = Append(@, st[s].chunk)]
    <3>1. PICK b, p : b = Append(st[s].dataC, st[s].chunk) /\ p = IF Stopped(s) THEN "off" ELSE "read"
      OBVIOUS
    <3>2. Len(b) <= StreamQueue
      BY <2>0, <2>5, <3>1, RoomMoves
    <3>3. PICK n : n = [st[s] EXCEPT !.pump = p, !.dataC = b]
      OBVIOUS
    <3>4. n.dataC = b /\ n.upBuf = st[s].upBuf /\ n.upC = st[s].upC
      BY <2>0, <3>3 DEF StreamState
    <3>5. Room(n)
      BY <2>0, <3>2, <3>4 DEF Room
    <3>6. st' = [st EXCEPT ![s] = n]
      BY <1>0, <2>5, <3>1, <3>3
    <3> QED
      BY <3>5, <3>6, RoomEdit
  <2>6. CASE PumpEnds(s) \/ WorkerStalls(s) \/ UpFails(s)
    <3>1. PICK q \in {[st[s] EXCEPT !.worker = "off"], [st[s] EXCEPT !.up = "off"], [st[s] EXCEPT !.pump = "off"]} :
            \E reason : Finish(s, q, reason)
      BY <2>6 DEF PumpEnds, WorkerStalls, UpFails
    <3>2. SameQueues(q, st[s]) /\ q \in StreamState
      BY <2>0, <3>1 DEF StreamState, SameQueues
    <3> QED
      BY <2>0, <3>1, <3>2, RoomFinish, RoomSame
  <2>7. CASE WorkerTakes(s)
    <3>1. PICK b, c : b = Tail(st[s].upBuf) /\ c = Head(st[s].upBuf)
      OBVIOUS
    <3>2. st[s].upBuf # <<>> /\ Len(b) <= UpWorkerItems
      BY <2>0, <2>7, <3>1, RoomMoves DEF WorkerTakes
    <3>3. Room([st[s] EXCEPT !.worker = "put", !.lifted = c, !.upBuf = b])
      BY <2>0, <3>2 DEF StreamState, Room
    <3>4. st' = [st EXCEPT ![s] = [st[s] EXCEPT !.worker = "put", !.lifted = c, !.upBuf = b]]
      BY <1>0, <2>7, <3>1 DEF WorkerTakes
    <3> QED
      BY <3>3, <3>4, RoomEdit
  <2>8. CASE WorkerPuts(s)
    <3>1. PICK b : b = Append(st[s].upC, st[s].lifted)
      OBVIOUS
    <3>2. Len(b) <= StreamUpItems
      BY <2>0, <2>8, <3>1, RoomMoves DEF WorkerPuts
    <3>3. Room([st[s] EXCEPT !.worker = "take", !.upC = b])
      BY <2>0, <3>2 DEF StreamState, Room
    <3>4. st' = [st EXCEPT ![s] = [st[s] EXCEPT !.worker = "take", !.upC = b]]
      BY <1>0, <2>8, <3>1 DEF WorkerPuts
    <3> QED
      BY <3>3, <3>4, RoomEdit
  <2>9. CASE UpWrites(s)
    <3>1. PICK b, c : b = Tail(st[s].upC) /\ c = Append(st[s].got, Head(st[s].upC))
      OBVIOUS
    <3>2. Len(b) <= StreamUpItems
      BY <2>0, <2>9, <3>1, RoomMoves DEF UpWrites
    <3>3. Room([st[s] EXCEPT !.upC = b, !.got = c])
      BY <2>0, <3>2 DEF StreamState, Room
    <3>4. st' = [st EXCEPT ![s] = [st[s] EXCEPT !.upC = b, !.got = c]]
      BY <1>0, <2>9, <3>1 DEF UpWrites
    <3> QED
      BY <3>3, <3>4, RoomEdit
  <2>10. CASE WriterTakesData(s)
    <3>1. PICK b : b = Tail(st[s].dataC)
      OBVIOUS
    <3>2. Len(b) <= StreamQueue
      BY <2>0, <2>10, <3>1, RoomMoves DEF WriterTakesData
    <3>3. Room([st[s] EXCEPT !.dataC = b])
      BY <2>0, <3>2 DEF StreamState, Room
    <3>4. st' = [st EXCEPT ![s] = [st[s] EXCEPT !.dataC = b]]
      BY <1>0, <2>10, <3>1 DEF WriterTakesData
    <3> QED
      BY <3>3, <3>4, RoomEdit
  <2>11. CASE st' = st
    BY <2>11
  <2>12. PumpPuts(s) => \/ Len(st[s].dataC) < StreamQueue
                           /\ st' = [st EXCEPT ![s].pump = IF Stopped(s) THEN "off" ELSE "read",
                                               ![s].dataC = Append(@, st[s].chunk)]
                        \/ st' = [st EXCEPT ![s].pump = "off"]
    BY DEF PumpPuts
  <2>13. FinishPutsEnd(s) => \/ Len(st[s].dataC) < StreamQueue
                                /\ st' = [st EXCEPT ![s].fin = "over", ![s].dataC = Append(@, End)]
                             \/ st' = [st EXCEPT ![s].fin = "over"]
    BY DEF FinishPutsEnd
  <2> QED
    BY <1>4, <2>1, <2>2, <2>3, <2>4, <2>5, <2>6, <2>7, <2>8, <2>9, <2>10, <2>11, <2>12, <2>13
       DEF Pump, UpWorker, Up
<1>5. CASE WriteStreamItem
  <2>1. PICK s, b : s = w.frame[1] /\ b = Append(st[s].out, w.frame[2])
    OBVIOUS
  <2>2. s \in Stream /\ st' = [st EXCEPT ![s] = [st[s] EXCEPT !.out = b]]
    BY <1>0, <1>5, <2>1 DEF WriteStreamItem
  <2>3. SameQueues([st[s] EXCEPT !.out = b], st[s])
    <3>1. st[s] \in StreamState
      BY <1>0, <2>2
    <3> QED
      BY <3>1 DEF StreamState, SameQueues
  <2> QED
    BY <2>2, <2>3, RoomEdit, RoomSame
<1>6. CASE Teardown
  <2>1. \A t \in Stream : st'[t] = st[t] \/ st'[t] = [st[t] EXCEPT !.fin = "over", !.reason = "conn"]
    BY <1>6 DEF Teardown
  <2>2. ASSUME NEW t \in Stream PROVE SameQueues(st'[t], st[t])
    <3>1. st[t] \in StreamState
      BY <1>0
    <3> QED
      BY <2>1, <3>1 DEF StreamState, SameQueues
  <2> QED
    BY <2>2, RoomSame
<1> QED
  BY <1>1, <1>2, <1>3, <1>4, <1>5, <1>6 DEF StreamNext, Asks, DispatcherRuns, Closing, Executor, WriterRuns

\* The streams of the connection, and the server's workers: only a registration adds one,
\* and it has looked at the limits.
LEMMA PlacesLimited ==
  ASSUME StreamInv, Limits, StreamNext
  PROVE  Cardinality(streams)' <= MaxStreams /\ workers' <= MaxUpWorkers
<1>0. /\ IsFiniteSet(streams) /\ Cardinality(streams) \in Nat /\ Cardinality(streams) <= MaxStreams
      /\ workers \in Nat /\ workers <= MaxUpWorkers /\ MaxStreams \in Nat /\ MaxUpWorkers \in Nat
  <2>1. IsFiniteSet(streams) /\ workers \in Nat
    BY UnendedFinite DEF StreamInv, StreamTyped, PlacesKept
  <2> QED
    BY <2>1, FS_CardinalityType, StreamAssumption DEF Limits
<1>1. CASE streams' = streams /\ workers' = workers
  BY <1>0, <1>1
<1>2. CASE streams' = streams /\ workers' \in {workers, workers - 1}
  BY <1>0, <1>2
<1>3. CASE \E s \in Stream : OpenRegisters(s)
  <2>1. PICK s \in Stream : OpenRegisters(s)
    BY <1>3
  <2>2. CASE ~TooManyStreams /\ ~(workers >= MaxUpWorkers) /\ streams' = streams \cup {s} /\ workers' = workers + 1
    <3>1. Cardinality(streams \cup {s}) = Cardinality(streams) \/ Cardinality(streams \cup {s}) = Cardinality(streams) + 1
      BY <1>0, FS_AddElement
    <3>2. Cardinality(streams) < MaxStreams
      BY <1>0, <2>2 DEF TooManyStreams
    <3>3. Cardinality(streams)' <= MaxStreams
      BY <1>0, <2>2, <3>1, <3>2
    <3> QED
      BY <1>0, <2>2, <3>3
  <2> QED
    BY <1>1, <2>1, <2>2 DEF OpenRegisters
<1>4. CASE WriteStreamItem
  <2>1. streams' \subseteq streams /\ workers' = workers
    BY <1>4 DEF WriteStreamItem
  <2>2. Cardinality(streams') <= Cardinality(streams) /\ Cardinality(streams') \in Nat
    BY <1>0, <2>1, FS_Subset, FS_CardinalityType
  <2> QED
    BY <1>0, <2>1, <2>2
<1>5. CASE Teardown
  <2> DEFINE live == {s \in streams : st[s].fin = "no"}
  <2>1. streams' = {} /\ workers' = workers - Cardinality(live)
    BY <1>5 DEF Teardown
  <2>2. Cardinality(live) \in Nat
    <3>1. live \subseteq streams
      OBVIOUS
    <3> QED
      BY <1>0, <3>1, FS_Subset, FS_CardinalityType
  <2>3. Cardinality(streams') = 0
    BY <2>1, FS_EmptySet
  <2> QED
    BY <1>0, <2>1, <2>2, <2>3
<1>6. ASSUME NEW s, NEW r, NEW reason, Finish(s, r, reason) PROVE workers' \in {workers, workers - 1}
  BY <1>6 DEF Finish
<1>7. ASSUME NEW s \in Stream, StreamData(s) \/ Pump(s) \/ UpWorker(s) \/ Up(s)
      PROVE  streams' = streams /\ workers' \in {workers, workers - 1}
  <2>1. CASE PumpEnds(s) \/ WorkerStalls(s) \/ UpFails(s) \/ StreamData(s)
    BY <1>6, <2>1 DEF PumpEnds, WorkerStalls, UpFails, StreamData
  <2> QED
    BY <1>7, <2>1 DEF Pump, PumpReads, PumpPuts, UpWorker, WorkerTakes, WorkerPuts, WorkerStops, Up, UpWrites, UpStops
<1>8. CASE CloseStream
  <2>1. streams' = streams /\ Finish(req.busy[2], st[req.busy[2]], "closed")
    BY <1>8 DEF CloseStream
  <2> QED
    BY <1>2, <1>6, <2>1
<1>9. ASSUME NEW s \in Stream, FinishPutsEnd(s) \/ OpenDials(s) \/ OpenReplies(s) \/ WriterTakesData(s)
      PROVE  streams' = streams /\ workers' = workers
  BY <1>9 DEF FinishPutsEnd, OpenDials, OpenReplies, WriterTakesData
<1>10. CASE AskSub \/ AskPlain \/ (\E s \in Stream : AskOpen(s) \/ AskClose(s)) \/ ReaderReturns \/ ReaderEnds
            \/ Dispatch \/ DoPlain \/ CloseUnknown \/ CloseReturns \/ SubscribeLocks \/ SubscribeReplies
            \/ WriterTakesHigh \/ WriterFindsNothing \/ WriterWakes \/ WriteControl
            \/ ClearConfirm \/ WriteFails \/ WriterEnds \/ ClientReads \/ CloseChannel
  <2>1. streams' = streams /\ workers' = workers
    BY <1>10 DEF AskSub, AskPlain, AskOpen, AskClose, Request, ReaderReturns, ReaderEnds, Dispatch, DoPlain,
       CloseUnknown, CloseReturns, Answer, SubscribeLocks, SubscribeReplies, WriterTakesHigh, WriterFindsNothing,
       WriterWakes, WriteControl, ClearConfirm, WriteFails, WriterEnds, ClientReads, CloseChannel
  <2> QED
    BY <1>1, <2>1
<1>11. CASE \E s \in Stream : StreamData(s) \/ Pump(s) \/ UpWorker(s) \/ Up(s)
  BY <1>2, <1>7, <1>11
<1>12. CASE \E s \in Stream : FinishPutsEnd(s) \/ OpenDials(s) \/ OpenReplies(s) \/ WriterTakesData(s)
  BY <1>1, <1>9, <1>12
<1> QED
  BY <1>3, <1>4, <1>5, <1>8, <1>10, <1>11, <1>12
     DEF StreamNext, Asks, DispatcherRuns, Closing, Executor, WriterRuns

-----------------------------------------------------------------------------
\* Requests in flight: what is queued, what the dispatcher does, and what is dialled.
Busy(r) == IF r = Free THEN 0 ELSE 1

LEMMA InflightFacts ==
  ASSUME StreamInv, Limits
  PROVE  /\ req \in Requests /\ req.queue \in Seq(Controls) /\ Len(req.queue) \in Nat /\ Busy(req.busy) \in {0, 1}
         /\ IsFiniteSet(Dialling) /\ Cardinality(Dialling) \in Nat /\ MaxInflight \in Nat
         /\ Inflight = Len(req.queue) + Busy(req.busy) + Cardinality(Dialling) /\ Inflight <= MaxInflight
<1>1. req \in Requests /\ req.queue \in Seq(Controls) /\ Len(req.queue) \in Nat
  BY DEF StreamInv, StreamTyped, Requests
<1>2. IsFiniteSet(Dialling) /\ Cardinality(Dialling) \in Nat
  BY FS_CardinalityType DEF Limits
<1>3. Inflight = Len(req.queue) + Busy(req.busy) + Cardinality(Dialling)
  BY DEF Inflight, Busy, Dialling
<1> QED
  BY <1>1, <1>2, <1>3, StreamAssumption DEF Limits, Busy

LEMMA InflightLess ==
  ASSUME StreamInv, Limits, Len(req'.queue) \in Nat, Len(req'.queue) <= Len(req.queue),
         req.busy = Free => req'.busy = Free, Dialling' \subseteq Dialling
  PROVE  IsFiniteSet(Dialling)' /\ Inflight' <= MaxInflight
<1>1. /\ Len(req.queue) \in Nat /\ Busy(req.busy) \in {0, 1} /\ IsFiniteSet(Dialling) /\ Cardinality(Dialling) \in Nat
      /\ Inflight = Len(req.queue) + Busy(req.busy) + Cardinality(Dialling) /\ Inflight <= MaxInflight
      /\ MaxInflight \in Nat
  BY InflightFacts
<1>2. /\ IsFiniteSet(Dialling') /\ Cardinality(Dialling') <= Cardinality(Dialling) /\ Cardinality(Dialling') \in Nat
  BY <1>1, FS_Subset, FS_CardinalityType
<1>3. Busy(req'.busy) \in {0, 1} /\ Busy(req'.busy) <= Busy(req.busy)
  BY DEF Busy
<1>4. Inflight' = Len(req'.queue) + Busy(req'.busy) + Cardinality(Dialling')
  BY DEF Inflight, Busy, Dialling
<1>5. Inflight' <= Inflight /\ Inflight \in Nat /\ Inflight' \in Nat
  <2> DEFINE a == Len(req.queue)       b == Busy(req.busy)     c == Cardinality(Dialling)
             d == Len(req'.queue)      e == Busy(req'.busy)    f == Cardinality(Dialling')
  <2>1. /\ a \in Nat /\ b \in {0, 1} /\ c \in Nat /\ d \in Nat /\ e \in {0, 1} /\ f \in Nat
        /\ d <= a /\ e <= b /\ f <= c /\ Inflight = a + b + c /\ Inflight' = d + e + f
    BY <1>1, <1>2, <1>3, <1>4
  <2> HIDE DEF a, b, c, d, e, f
  <2> QED BY <2>1
<1> QED
  BY <1>1, <1>2, <1>5

LEMMA InflightLimited ==
  ASSUME StreamInv, Limits, StreamNext
  PROVE  IsFiniteSet(Dialling)' /\ Inflight' <= MaxInflight
<1>0. /\ req \in Requests /\ req.queue \in Seq(Controls) /\ Len(req.queue) \in Nat /\ Busy(req.busy) \in {0, 1}
      /\ IsFiniteSet(Dialling) /\ Cardinality(Dialling) \in Nat /\ MaxInflight \in Nat
      /\ Inflight = Len(req.queue) + Busy(req.busy) + Cardinality(Dialling) /\ Inflight <= MaxInflight
      /\ req.open \in [Stream -> OpenSteps]
  BY InflightFacts DEF Requests
<1>1. ASSUME NEW r \in Controls, Request(r) PROVE IsFiniteSet(Dialling)' /\ Inflight' <= MaxInflight
  <2>1. CASE Inflight = MaxInflight /\ req' = req
    <3>1. req'.queue = req.queue /\ req'.busy = req.busy /\ req'.open = req.open
      BY <2>1
    <3>2. Dialling' = Dialling
      BY <3>1 DEF Dialling
    <3> QED
      BY <1>0, <3>1, <3>2, InflightLess
  <2>2. CASE Inflight # MaxInflight /\ req' = [req EXCEPT !.queue = Append(@, r)]
    <3>1. req'.queue = Append(req.queue, r) /\ req'.busy = req.busy /\ req'.open = req.open
      BY <1>0, <2>2 DEF Requests
    <3>2. Len(req'.queue) = Len(req.queue) + 1
      BY <1>0, <3>1, AppendFacts
    <3>3. Dialling' = Dialling
      BY <3>1 DEF Dialling
    <3>4. Inflight' = Len(req'.queue) + Busy(req'.busy) + Cardinality(Dialling')
      BY DEF Inflight, Busy, Dialling
    <3>5. Inflight' = Inflight + 1 /\ Inflight \in Nat
      BY <1>0, <3>1, <3>2, <3>3, <3>4
    <3>6. Inflight' <= MaxInflight
      BY <1>0, <2>2, <3>5
    <3> QED
      BY <1>0, <3>3, <3>6
  <2> QED
    BY <1>1, <2>1, <2>2 DEF Request
<1>2. CASE AskSub \/ AskPlain \/ (\E s \in Stream : AskOpen(s) \/ AskClose(s))
  <2>1. asked.subs \in Nat /\ asked.plain \in Nat
    BY DEF StreamInv, StreamTyped
  <2>2. /\ <<"sub", asked.subs + 1>> \in Controls /\ <<"plain", asked.plain + 1>> \in Controls
        /\ \A s \in Stream : <<"open", s>> \in Controls /\ <<"close", s>> \in Controls
    BY <2>1 DEF Controls, Kinds
  <2> QED
    BY <1>1, <1>2, <2>2 DEF AskSub, AskPlain, AskOpen, AskClose
<1>3. CASE Dispatch
  <2> DEFINE r == Head(req.queue)
             q == Tail(req.queue)
  <2>1. /\ req.busy = Free /\ req.queue # <<>>
        /\ req' = IF r[1] = "open"
                  THEN [req EXCEPT !.queue = q, !.open[r[2]] = "dial"]
                  ELSE [req EXCEPT !.queue = q, !.busy = r]
    BY <1>3 DEF Dispatch
  <2>2. Len(q) = Len(req.queue) - 1 /\ Len(req.queue) \in Nat \ {0} /\ r = req.queue[1]
    BY <1>0, <2>1, TailFacts
  <2> HIDE DEF r, q
  <2>3. Inflight' = Len(req'.queue) + Busy(req'.busy) + Cardinality(Dialling')
    BY DEF Inflight, Busy, Dialling
  <2>4. CASE r[1] = "open"
    <3>1. r[2] \in Stream /\ req.open[r[2]] = "none"
      BY <1>0, <2>2, <2>4 DEF StreamInv, StreamTyped, AskedOnce
    <3>2. req' = [req EXCEPT !.queue = q, !.open[r[2]] = "dial"]
      BY <2>1, <2>4
    <3>3. req'.queue = q /\ req'.busy = Free /\ req'.open = [req.open EXCEPT ![r[2]] = "dial"]
      BY <1>0, <2>1, <3>2 DEF Requests
    <3>4. Dialling' = Dialling \cup {r[2]} /\ r[2] \notin Dialling
      BY <1>0, <3>1, <3>3 DEF Dialling
    <3>5. IsFiniteSet(Dialling') /\ Cardinality(Dialling') = Cardinality(Dialling) + 1
      BY <1>0, <3>4, FS_AddElement
    <3>6. Busy(req'.busy) = 0 /\ Busy(req.busy) = 0
      BY <2>1, <3>3 DEF Busy
    <3> QED
      BY <1>0, <2>2, <2>3, <3>3, <3>5, <3>6
  <2>5. CASE r[1] # "open"
    <3>1. req' = [req EXCEPT !.queue = q, !.busy = r]
      BY <2>1, <2>5
    <3>2. req'.queue = q /\ req'.busy = r /\ req'.open = req.open
      BY <1>0, <3>1 DEF Requests
    <3>3. Dialling' = Dialling
      BY <3>2 DEF Dialling
    <3>4. Busy(req'.busy) \in {0, 1} /\ Busy(req.busy) = 0
      BY <2>1 DEF Busy
    <3> QED
      BY <1>0, <2>2, <2>3, <3>2, <3>3, <3>4
  <2> QED
    BY <2>4, <2>5
<1>4. ASSUME req'.queue = req.queue, req'.open = req.open, req.busy = Free => req'.busy = Free
      PROVE  IsFiniteSet(Dialling)' /\ Inflight' <= MaxInflight
  <2>1. Dialling' = Dialling
    BY <1>4 DEF Dialling
  <2> QED
    BY <1>0, <1>4, <2>1, InflightLess
<1>5. CASE DoPlain \/ CloseUnknown \/ CloseReturns \/ SubscribeReplies
  <2>1. req' = [req EXCEPT !.busy = Free]
    BY <1>5 DEF DoPlain, CloseUnknown, CloseReturns, SubscribeReplies, Answer
  <2>2. req'.queue = req.queue /\ req'.open = req.open /\ req'.busy = Free
    BY <1>0, <2>1 DEF Requests
  <2> QED
    BY <1>4, <2>2
<1>6. CASE CloseStream \/ SubscribeLocks
  <2>1. req.busy[1] \in {"close", "sub"} /\ \E v : req' = [req EXCEPT !.busy[1] = v]
    BY <1>6 DEF CloseStream, SubscribeLocks
  <2>2. req.busy # Free
    BY <2>1 DEF Free
  <2>3. req'.queue = req.queue /\ req'.open = req.open
    BY <1>0, <2>1 DEF Requests
  <2> QED
    BY <1>4, <2>2, <2>3
<1>7. CASE ReaderReturns \/ \E s \in Stream : StreamData(s)
  <2>1. req' = req \/ \E v : req' = [req EXCEPT !.reader = v]
    BY <1>7 DEF ReaderReturns, StreamData
  <2>2. req'.queue = req.queue /\ req'.open = req.open /\ req'.busy = req.busy
    BY <1>0, <2>1 DEF Requests
  <2> QED
    BY <1>4, <2>2
<1>8. ASSUME NEW s \in Stream, Executor(s) PROVE IsFiniteSet(Dialling)' /\ Inflight' <= MaxInflight
  <2>1. req.open[s] \in {"dial", "dialled", "reply", "refuse"} /\ \E to : req' = [req EXCEPT !.open[s] = to]
    BY <1>8 DEF Executor, OpenDials, OpenRegisters, OpenReplies
  <2>2. PICK to : req' = [req EXCEPT !.open[s] = to]
    BY <2>1
  <2>3. req'.queue = req.queue /\ req'.busy = req.busy /\ req'.open = [req.open EXCEPT ![s] = to]
    BY <1>0, <2>2 DEF Requests
  <2>4. Dialling' \subseteq Dialling
    BY <1>0, <2>1, <2>3 DEF Dialling
  <2> QED
    BY <1>0, <2>3, <2>4, InflightLess
<1>9. CASE req' = req
  BY <1>4, <1>9
<1>10. ASSUME NEW s \in Stream, FinishPutsEnd(s) \/ Pump(s) \/ UpWorker(s) \/ Up(s) \/ WriterTakesData(s)
       PROVE  req' = req
  BY <1>10 DEF FinishPutsEnd, Pump, PumpReads, PumpPuts, PumpEnds, UpWorker, WorkerTakes, WorkerPuts, WorkerStalls,
     WorkerStops, Up, UpWrites, UpFails, UpStops, WriterTakesData
<1>11. CASE ReaderEnds \/ WriterTakesHigh \/ WriterFindsNothing \/ WriterWakes \/ WriteControl \/ WriteStreamItem
            \/ ClearConfirm \/ WriteFails \/ WriterEnds \/ ClientReads \/ CloseChannel \/ Teardown
  <2>1. req' = req
    BY <1>11 DEF ReaderEnds, WriterTakesHigh, WriterFindsNothing, WriterWakes, WriteControl, WriteStreamItem,
       ClearConfirm, WriteFails, WriterEnds, ClientReads, CloseChannel, Teardown
  <2> QED
    BY <1>9, <2>1
<1> QED
  BY <1>2, <1>3, <1>5, <1>6, <1>7, <1>8, <1>9, <1>10, <1>11
     DEF StreamNext, Asks, DispatcherRuns, Closing, WriterRuns

-----------------------------------------------------------------------------

LEMMA LimitsInit == StreamInit => Limits
<1> SUFFICES ASSUME StreamInit PROVE Limits
  OBVIOUS
<1>1. /\ w.highC = <<>> /\ streams = {} /\ workers = 0 /\ req.queue = <<>> /\ req.busy = Free
      /\ req.open = [s \in Stream |-> "none"] /\ st = [s \in Stream |-> FreshStream]
  BY DEF StreamInit
<1>2. Dialling = {}
  BY <1>1 DEF Dialling
<1>3. IsFiniteSet(Dialling) /\ Cardinality({}) = 0
  BY <1>2, FS_EmptySet
<1>4. Inflight = 0
  <2>1. Inflight = Len(req.queue) + (IF req.busy = Free THEN 0 ELSE 1) + Cardinality(Dialling)
    BY DEF Inflight, Dialling
  <2> QED
    BY <1>1, <1>2, <1>3, <2>1
<1>5. \A n \in {MaxStreams, MaxUpWorkers, HighQueue, MaxInflight, StreamQueue, UpWorkerItems, StreamUpItems} : 0 <= n
  BY StreamAssumption
<1>6. \A s \in Stream : Room(st[s])
  BY <1>1, <1>5 DEF Room, FreshStream
<1> QED
  BY <1>1, <1>3, <1>4, <1>5, <1>6 DEF Limits

LEMMA LimitsStep == StreamInv /\ Limits /\ [StreamNext]_streamVars => Limits'
<1> SUFFICES ASSUME StreamInv, Limits, [StreamNext]_streamVars PROVE Limits'
  OBVIOUS
<1>1. CASE StreamNext
  <2>1. Len(w.highC)' <= HighQueue
    BY <1>1, HighLimited DEF Limits
  <2>2. \A s \in Stream : Room(st'[s])
    BY <1>1, RoomLimited DEF Limits
  <2>3. Cardinality(streams)' <= MaxStreams /\ workers' <= MaxUpWorkers
    BY <1>1, PlacesLimited
  <2>4. IsFiniteSet(Dialling)' /\ Inflight' <= MaxInflight
    BY <1>1, InflightLimited
  <2> QED
    BY <2>1, <2>2, <2>3, <2>4 DEF Limits, Room
<1>2. CASE UNCHANGED streamVars
  BY <1>2 DEF streamVars, Limits, Room, Dialling, Inflight
<1> QED
  BY <1>1, <1>2

LEMMA StreamTypes == StreamInv /\ Limits => StreamTypeOK
<1> SUFFICES ASSUME StreamInv, Limits PROVE StreamTypeOK
  OBVIOUS
<1>1. workers \in 0 .. MaxUpWorkers
  <2>1. workers \in Nat /\ MaxUpWorkers \in Nat
    BY UnendedFinite, StreamAssumption DEF StreamInv, PlacesKept
  <2> QED
    BY <2>1 DEF Limits
<1>2. link \in {"open", "closing", "closed", "gone"}
  BY DEF StreamInv, StreamTyped
<1> QED
  BY <1>1, <1>2 DEF Limits, Room, StreamTypeOK

\* The queues of a connection and of its streams, the requests in flight, the streams of a
\* connection and the workers of the server keep their limits, also when executors that
\* have dialled at the same time register one after the other (opStreamOpen's second look
\* at the limits, sendHigh, upWorker and pump in internal/control). For any limits.
THEOREM LimitsHold == StreamSpec => []StreamTypeOK
BY StreamInvInit, StreamInvStep, LimitsInit, LimitsStep, StreamTypes, PTL DEF StreamSpec

==============================================================================
