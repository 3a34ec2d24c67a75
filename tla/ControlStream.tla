---------------------------- MODULE ControlStream ----------------------------
(***************************************************************************)
(* One control-plane connection of the daemon (internal/control): its reader,  *)
(* its dispatcher, the executors that open streams, the one writer of the    *)
(* socket, and per stream the two pumps and the upstream worker.             *)
(*                                                                         *)
(* The reader never waits for a slow stream: a frame goes into the worker's   *)
(* buffer or ends the stream. The writer takes control frames first, then     *)
(* one item of a stream. finish ends a stream: the channel done, the backend,   *)
(* then the end item behind the data. close ends the connection.             *)
(*                                                                         *)
(* Frames carry the number they were produced with. Events are EventBus's;     *)
(* here a subscription is only the mutex it takes and the latch its            *)
(* confirmation clears. The client is external: it sends what it likes, in     *)
(* any order, and may read slowly, stop reading or vanish.                   *)
(***************************************************************************)
EXTENDS Integers, Sequences, FiniteSets

CONSTANTS
  Stream,          \* streams the client may open
  MaxStreams,      \* streams of a connection
  MaxUpWorkers,    \* streams of the server
  HighQueue,       \* room in highC
  MaxInflight,     \* requests in flight
  StreamQueue,     \* room in a stream's dataC
  UpWorkerItems,   \* room in a stream's upBuf
  StreamUpItems,   \* room in a stream's upC
  Wire,            \* room in the socket
  MaxDown,         \* bound: items a backend sends
  MaxUp,           \* bound: frames the client sends on a stream
  MaxSubs,         \* bound: subscriptions asked for
  MaxAsks          \* bound: requests

ASSUME StreamAssumption ==
  /\ \A n \in {MaxStreams, MaxUpWorkers, HighQueue, MaxInflight, StreamQueue,
               UpWorkerItems, StreamUpItems, Wire} : n \in Nat \ {0}
  /\ \A n \in {MaxDown, MaxUp, MaxSubs, MaxAsks} : n \in Nat

\* Frames and requests are of these kinds; the number of a stream is none of them.
Kinds == {"free", "open", "close", "closing", "sub", "subscribed", "plain", "notice"}
ASSUME StreamNames == Stream \cap Kinds = {}

VARIABLES
  link,     \* the connection: open, closing (goodbye), closed (channel closed), gone
  asked,    \* what the client has asked for
  req,      \* reqC, the reader, the dispatcher, and the executor of each stream.open
  w,        \* highC, the socket, the writer and its wake token, and what subMu guards
  streams,    \* c.streams
  workers,  \* the server's count of upstream workers
  st        \* each stream, with the frames written for it

streamVars == <<link, asked, req, w, streams, workers, st>>

Free == <<"free", 0>>
End == 0    \* the end item; data items count from 1

\* fin: no, ending (done and the backend closed), over.
FreshStream == [fin |-> "no", reason |-> "none", dataC |-> <<>>, pump |-> "off", chunk |-> 0,
                sent |-> 0, said |-> 0, upBuf |-> <<>>, worker |-> "off", lifted |-> 0,
                upC |-> <<>>, up |-> "off", got |-> <<>>, out |-> <<>>]

StreamInit ==
  /\ link = "open"
  /\ asked = [open |-> {}, close |-> {}, subs |-> 0, plain |-> 0]
  /\ req = [queue |-> <<>>, reader |-> "free", busy |-> Free, open |-> [s \in Stream |-> "none"]]
  /\ w = [highC |-> <<>>, wire |-> <<>>, at |-> "drain", frame |-> Free, wake |-> FALSE,
          locked |-> FALSE, latches |-> {}, subscribed |-> FALSE]
  /\ streams = {} /\ workers = 0
  /\ st = [s \in Stream |-> FreshStream]

IsClosed == link \in {"closed", "gone"}
Opened == {s \in Stream : req.open[s] \in {"reply", "over"}}
Inflight == Len(req.queue) + (IF req.busy = Free THEN 0 ELSE 1)
              + Cardinality({s \in Stream : req.open[s] \in {"dial", "dialled", "reply", "refuse"}})

\* sendHigh returns once there is room or the connection is closed.
SendHigh(frame) ==
  \/ Len(w.highC) < HighQueue /\ w' = [w EXCEPT !.highC = Append(@, frame)]
  \/ IsClosed /\ UNCHANGED w

-----------------------------------------------------------------------------
(* finish: once per stream; whoever comes second waits for the first       *)

\* The stream s after r, which a goroutine of it ends for this reason.
Finish(s, r, reason) ==
  /\ st' = [st EXCEPT ![s] = IF r.fin = "no" THEN [r EXCEPT !.fin = "ending", !.reason = reason] ELSE r]
  /\ workers' = IF r.fin = "no" THEN workers - 1 ELSE workers

FinishPutsEnd(s) ==
  /\ st[s].fin = "ending"
  /\ \/ /\ Len(st[s].dataC) < StreamQueue
        /\ st' = [st EXCEPT ![s].fin = "over", ![s].dataC = Append(@, End)]
        /\ w' = [w EXCEPT !.wake = TRUE]
     \/ /\ IsClosed
        /\ st' = [st EXCEPT ![s].fin = "over"] /\ UNCHANGED w
  /\ UNCHANGED <<link, asked, req, streams, workers>>

-----------------------------------------------------------------------------
(* The client's frames, as the reader takes them                           *)

Asked == Cardinality(asked.open) + Cardinality(asked.close) + asked.subs + asked.plain

Request(r) ==
  /\ link = "open" /\ req.reader = "free" /\ Asked < MaxAsks
  /\ IF Inflight = MaxInflight
     THEN link' = "closing" /\ UNCHANGED req
     ELSE req' = [req EXCEPT !.queue = Append(@, r)] /\ UNCHANGED link
  /\ UNCHANGED <<w, streams, workers, st>>

AskOpen(s) ==
  /\ s \notin asked.open /\ Request(<<"open", s>>)
  /\ asked' = [asked EXCEPT !.open = @ \cup {s}]

AskClose(s) ==
  /\ s \in asked.open \ asked.close /\ Request(<<"close", s>>)
  /\ asked' = [asked EXCEPT !.close = @ \cup {s}]

AskSub ==
  /\ asked.subs < MaxSubs /\ Request(<<"sub", asked.subs + 1>>)
  /\ asked' = [asked EXCEPT !.subs = @ + 1]

AskPlain ==
  /\ Request(<<"plain", asked.plain + 1>>)
  /\ asked' = [asked EXCEPT !.plain = @ + 1]

\* A frame for a stream: into the worker's buffer; too many frames or bytes end
\* the stream. A frame for a stream that is not there is answered with a notice.
StreamData(s) ==
  LET r == [st[s] EXCEPT !.said = @ + 1] IN
  /\ link = "open" /\ req.reader = "free"
  /\ s \in Opened /\ st[s].said < MaxUp
  /\ \/ /\ s \notin streams /\ SendHigh(<<"notice", 0>>)
        /\ st' = [st EXCEPT ![s] = r] /\ UNCHANGED <<req, workers>>
     \/ /\ s \in streams /\ Len(r.upBuf) < UpWorkerItems
        /\ st' = [st EXCEPT ![s] = [r EXCEPT !.upBuf = Append(@, r.said)]]
        /\ UNCHANGED <<req, w, workers>>
     \/ /\ s \in streams /\ Len(r.upBuf) = UpWorkerItems
        /\ Finish(s, r, "gone")
        /\ req' = [req EXCEPT !.reader = s] /\ UNCHANGED w
  /\ UNCHANGED <<link, asked, streams>>

ReaderReturns ==
  /\ req.reader \in Stream /\ st[req.reader].fin = "over"
  /\ req' = [req EXCEPT !.reader = "free"]
  /\ UNCHANGED <<link, asked, w, streams, workers, st>>

\* The client says goodbye, breaks the protocol or vanishes.
ReaderEnds ==
  /\ link = "open" /\ req.reader = "free"
  /\ link' = "closing"
  /\ UNCHANGED <<asked, req, w, streams, workers, st>>

-----------------------------------------------------------------------------
(* The dispatcher and the executors of stream.open                         *)

\* Its select may choose a request although the connection is closed.
Dispatch ==
  /\ req.busy = Free /\ req.queue # <<>>
  /\ LET r == Head(req.queue) IN
       req' = IF r[1] = "open"
              THEN [req EXCEPT !.queue = Tail(@), !.open[r[2]] = "dial"]
              ELSE [req EXCEPT !.queue = Tail(@), !.busy = r]
  /\ UNCHANGED <<link, asked, w, streams, workers, st>>

Answer(r) == SendHigh(r) /\ req' = [req EXCEPT !.busy = Free]

DoPlain ==
  /\ req.busy[1] = "plain" /\ Answer(req.busy)
  /\ UNCHANGED <<link, asked, streams, workers, st>>

CloseUnknown ==
  /\ req.busy[1] = "close" /\ req.busy[2] \notin streams /\ Answer(req.busy)
  /\ UNCHANGED <<link, asked, streams, workers, st>>

CloseStream ==
  /\ req.busy[1] = "close" /\ req.busy[2] \in streams
  /\ Finish(req.busy[2], st[req.busy[2]], "closed")
  /\ req' = [req EXCEPT !.busy[1] = "closing"]
  /\ UNCHANGED <<link, asked, w, streams>>

CloseReturns ==
  /\ req.busy[1] = "closing" /\ st[req.busy[2]].fin = "over" /\ Answer(req.busy)
  /\ UNCHANGED <<link, asked, streams, workers, st>>

\* opSubscribe sets its latch and keeps subMu until its confirmation is queued.
SubscribeLocks ==
  /\ req.busy[1] = "sub" /\ ~w.locked
  /\ w' = [w EXCEPT !.locked = TRUE, !.latches = @ \cup {req.busy}, !.subscribed = TRUE]
  /\ req' = [req EXCEPT !.busy[1] = "subscribed"]
  /\ UNCHANGED <<link, asked, streams, workers, st>>

SubscribeReplies ==
  /\ req.busy[1] = "subscribed"
  /\ \/ /\ Len(w.highC) < HighQueue
        /\ w' = [w EXCEPT !.locked = FALSE, !.highC = Append(@, <<"sub", req.busy[2]>>)]
     \/ IsClosed /\ w' = [w EXCEPT !.locked = FALSE]
  /\ req' = [req EXCEPT !.busy = Free]
  /\ UNCHANGED <<link, asked, streams, workers, st>>

TooManyStreams == Cardinality(streams) >= MaxStreams

OpenDials(s) ==
  /\ req.open[s] = "dial"
  /\ \E to \in {"dialled", "refuse"} :
       /\ TooManyStreams => to = "refuse"       \* a failed dial is refused, too
       /\ req' = [req EXCEPT !.open[s] = to]
  /\ UNCHANGED <<link, asked, w, streams, workers, st>>

\* Mutant: no second look at the limits after the dial.
OpenRegistersUnchecked(s) ==
  /\ req.open[s] = "dialled"
  /\ IF link = "gone"
     THEN req' = [req EXCEPT !.open[s] = "refuse"] /\ UNCHANGED <<streams, workers>>
     ELSE /\ streams' = streams \cup {s} /\ workers' = workers + 1
          /\ req' = [req EXCEPT !.open[s] = "reply"]
  /\ UNCHANGED <<link, asked, w, st>>

\* Mutant: no look at the connection either.
OpenRegistersLate(s) ==
  /\ req.open[s] = "dialled"
  /\ IF TooManyStreams \/ workers >= MaxUpWorkers
     THEN req' = [req EXCEPT !.open[s] = "refuse"] /\ UNCHANGED <<streams, workers>>
     ELSE /\ streams' = streams \cup {s} /\ workers' = workers + 1
          /\ req' = [req EXCEPT !.open[s] = "reply"]
  /\ UNCHANGED <<link, asked, w, st>>

\* After the dial, under streamsMu: close may have run, another open may have
\* taken the place.
OpenRegisters(s) ==
  /\ req.open[s] = "dialled"
  /\ IF link = "gone" \/ TooManyStreams \/ workers >= MaxUpWorkers
     THEN req' = [req EXCEPT !.open[s] = "refuse"] /\ UNCHANGED <<streams, workers>>
     ELSE /\ streams' = streams \cup {s} /\ workers' = workers + 1
          /\ req' = [req EXCEPT !.open[s] = "reply"]
  /\ UNCHANGED <<link, asked, w, st>>

\* Mutant: a refused stream gets no answer.
OpenRepliesIfOpened(s) ==
  /\ req.open[s] = "reply"
  /\ SendHigh(<<"open", s>>)
  /\ req' = [req EXCEPT !.open[s] = "over"]
  /\ st' = [st EXCEPT ![s].pump = "read", ![s].worker = "take", ![s].up = "take"]
  /\ UNCHANGED <<link, asked, streams, workers>>

OpenReplies(s) ==
  /\ req.open[s] \in {"reply", "refuse"}
  /\ SendHigh(<<"open", s>>)
  /\ IF req.open[s] = "reply"
     THEN /\ req' = [req EXCEPT !.open[s] = "over"]
          /\ st' = [st EXCEPT ![s].pump = "read", ![s].worker = "take", ![s].up = "take"]
     ELSE req' = [req EXCEPT !.open[s] = "refused"] /\ UNCHANGED st
  /\ UNCHANGED <<link, asked, streams, workers>>

-----------------------------------------------------------------------------
(* The goroutines of a stream. A select whose cases are both ready takes     *)
(* either: with done closed the data may still move.                        *)

Stopped(s) == st[s].fin # "no"

PumpReads(s) ==
  /\ st[s].pump = "read" /\ ~Stopped(s) /\ st[s].sent < MaxDown
  /\ st' = [st EXCEPT ![s].pump = "put", ![s].sent = @ + 1, ![s].chunk = st[s].sent + 1]
  /\ UNCHANGED <<link, asked, req, w, streams, workers>>

\* Mutant: the pump waits for room whatever becomes of its stream.
PumpPutsOnly(s) ==
  /\ st[s].pump = "put" /\ Len(st[s].dataC) < StreamQueue
  /\ st' = [st EXCEPT ![s].pump = IF Stopped(s) THEN "off" ELSE "read",
                      ![s].dataC = Append(@, st[s].chunk)]
  /\ w' = [w EXCEPT !.wake = TRUE]
  /\ UNCHANGED <<link, asked, req, streams, workers>>

PumpPuts(s) ==
  /\ st[s].pump = "put"
  /\ \/ /\ Len(st[s].dataC) < StreamQueue
        /\ st' = [st EXCEPT ![s].pump = IF Stopped(s) THEN "off" ELSE "read",
                            ![s].dataC = Append(@, st[s].chunk)]
        /\ w' = [w EXCEPT !.wake = TRUE]
     \/ Stopped(s) /\ st' = [st EXCEPT ![s].pump = "off"] /\ UNCHANGED w
  /\ UNCHANGED <<link, asked, req, streams, workers>>

\* Mutant: the backend's end is noticed while an item still waits for room.
PumpEndsEarly(s) ==
  /\ st[s].pump \in {"read", "put"}
  /\ \E reason \in {"eof", "gone"} : Finish(s, [st[s] EXCEPT !.pump = "off"], reason)
  /\ UNCHANGED <<link, asked, req, w, streams>>

\* The backend ends its stream ("eof", told to the client as closed), or the
\* read fails.
PumpEnds(s) ==
  /\ st[s].pump = "read"
  /\ \E reason \in {"eof", "gone"} : Finish(s, [st[s] EXCEPT !.pump = "off"], reason)
  /\ UNCHANGED <<link, asked, req, w, streams>>

WorkerTakes(s) ==
  /\ st[s].worker = "take" /\ st[s].upBuf # <<>>
  /\ st' = [st EXCEPT ![s].worker = "put", ![s].lifted = Head(st[s].upBuf), ![s].upBuf = Tail(@)]
  /\ UNCHANGED <<link, asked, req, w, streams, workers>>

\* Mutant: an item for which there is no room takes the place of the last one.
WorkerOverwrites(s) ==
  /\ st[s].worker = "put"
  /\ st' = [st EXCEPT ![s].worker = "take",
                      ![s].upC = Append(IF Len(@) < StreamUpItems THEN @ ELSE SubSeq(@, 1, Len(@) - 1), st[s].lifted)]
  /\ UNCHANGED <<link, asked, req, w, streams, workers>>

WorkerPuts(s) ==
  /\ st[s].worker = "put" /\ Len(st[s].upC) < StreamUpItems
  /\ st' = [st EXCEPT ![s].worker = "take", ![s].upC = Append(@, st[s].lifted)]
  /\ UNCHANGED <<link, asked, req, w, streams, workers>>

\* No room in upC for UpStallTimeout.
WorkerStalls(s) ==
  /\ st[s].worker = "put" /\ Len(st[s].upC) = StreamUpItems
  /\ Finish(s, [st[s] EXCEPT !.worker = "off"], "gone")
  /\ UNCHANGED <<link, asked, req, w, streams>>

WorkerStops(s) ==
  /\ st[s].worker = "take" /\ Stopped(s)
  /\ st' = [st EXCEPT ![s].worker = "off"]
  /\ UNCHANGED <<link, asked, req, w, streams, workers>>

UpWrites(s) ==
  /\ st[s].up = "take" /\ st[s].upC # <<>> /\ ~Stopped(s)
  /\ st' = [st EXCEPT ![s].upC = Tail(@), ![s].got = Append(@, Head(st[s].upC))]
  /\ UNCHANGED <<link, asked, req, w, streams, workers>>

\* The backend is closed, broken or does not read for streamUpTimeout.
UpFails(s) ==
  /\ st[s].up = "take" /\ st[s].upC # <<>>
  /\ Finish(s, [st[s] EXCEPT !.up = "off"], "gone")
  /\ UNCHANGED <<link, asked, req, w, streams>>

UpStops(s) ==
  /\ st[s].up = "take" /\ Stopped(s) /\ st[s].upC = <<>>
  /\ st' = [st EXCEPT ![s].up = "off"]
  /\ UNCHANGED <<link, asked, req, w, streams, workers>>

-----------------------------------------------------------------------------
(* The writer                                                              *)

WriterTakesHigh ==
  /\ w.at \in {"drain", "wait"} /\ w.highC # <<>>
  /\ w' = [w EXCEPT !.at = "write", !.frame = Head(w.highC), !.highC = Tail(@)]
  /\ UNCHANGED <<link, asked, req, streams, workers, st>>

\* With highC drained, step reads c.sub under subMu and takes one item of some
\* stream, or waits for control frames and the wake token.
Steps == w.at = "drain" /\ w.highC = <<>> /\ ~w.locked

WriterTakesData(s) ==
  /\ Steps /\ s \in streams /\ st[s].dataC # <<>>
  /\ w' = [w EXCEPT !.at = "write", !.frame = <<s, Head(st[s].dataC)>>]
  /\ st' = [st EXCEPT ![s].dataC = Tail(@)]
  /\ UNCHANGED <<link, asked, req, streams, workers>>

WriterFindsNothing ==
  /\ Steps /\ \A s \in streams : st[s].dataC = <<>>
  /\ w' = [w EXCEPT !.at = "wait"]
  /\ UNCHANGED <<link, asked, req, streams, workers, st>>

WriterWakes ==
  /\ w.at = "wait" /\ w.wake
  /\ w' = [w EXCEPT !.at = "drain", !.wake = FALSE]
  /\ UNCHANGED <<link, asked, req, streams, workers, st>>

\* After a written confirmation the writer wants subMu to clear its latch.
WriteControl ==
  /\ w.at = "write" /\ w.frame[1] \notin Stream /\ Len(w.wire) < Wire /\ ~IsClosed
  /\ w' = [w EXCEPT !.wire = Append(@, w.frame), !.at = IF w.frame[1] = "sub" THEN "clear" ELSE "drain"]
  /\ UNCHANGED <<link, asked, req, streams, workers, st>>

\* A written end takes the stream out of c.streams.
WriteStreamItem ==
  /\ w.at = "write" /\ w.frame[1] \in Stream /\ Len(w.wire) < Wire /\ ~IsClosed
  /\ w' = [w EXCEPT !.wire = Append(@, w.frame), !.at = "drain"]
  /\ st' = [st EXCEPT ![w.frame[1]].out = Append(@, w.frame[2])]
  /\ streams' = IF w.frame[2] = End THEN streams \ {w.frame[1]} ELSE streams
  /\ UNCHANGED <<link, asked, req, workers>>

ClearConfirm ==
  /\ w.at = "clear" /\ ~w.locked
  /\ w' = [w EXCEPT !.at = "drain", !.latches = @ \ {w.frame}]
  /\ UNCHANGED <<link, asked, req, streams, workers, st>>

\* The watchdog: the client has not read for writeStallTimeout.
WriteFails ==
  /\ w.at = "write" /\ (Len(w.wire) = Wire \/ IsClosed)
  /\ w' = [w EXCEPT !.at = "off"]
  /\ link' = IF link = "open" THEN "closing" ELSE link
  /\ UNCHANGED <<asked, req, streams, workers, st>>

WriterEnds ==
  /\ w.at = "wait" /\ IsClosed
  /\ w' = [w EXCEPT !.at = "off"]
  /\ UNCHANGED <<link, asked, req, streams, workers, st>>

ClientReads ==
  /\ w.wire # <<>>
  /\ w' = [w EXCEPT !.wire = Tail(@)]
  /\ UNCHANGED <<link, asked, req, streams, workers, st>>

-----------------------------------------------------------------------------
(* close: goodbye and up to 500ms for the writer, then the channel, then the    *)
(* streams under streamsMu, then the subscription under subMu                *)

CloseChannel ==
  /\ link = "closing" /\ link' = "closed"
  /\ UNCHANGED <<asked, req, w, streams, workers, st>>

\* Mutant: the streams that close ends keep their places.
TeardownKeeps ==
  LET live == {s \in streams : st[s].fin = "no"} IN
  /\ link = "closed" /\ link' = "gone"
  /\ \A s \in streams : st[s].fin # "ending"
  /\ st' = [s \in Stream |-> IF s \in live THEN [st[s] EXCEPT !.fin = "over", !.reason = "conn"]
                                           ELSE st[s]]
  /\ streams' = {}
  /\ ~w.locked /\ w' = [w EXCEPT !.latches = {}, !.subscribed = FALSE]
  /\ UNCHANGED <<asked, req, workers>>

\* teardown waits for a finish that has begun, and that one no longer waits;
\* subMu is free as soon as the dispatcher has seen the closed channel.
Teardown ==
  LET live == {s \in streams : st[s].fin = "no"} IN
  /\ link = "closed" /\ link' = "gone"
  /\ \A s \in streams : st[s].fin # "ending"
  /\ st' = [s \in Stream |-> IF s \in live THEN [st[s] EXCEPT !.fin = "over", !.reason = "conn"]
                                           ELSE st[s]]
  /\ workers' = workers - Cardinality(live)
  /\ streams' = {}
  /\ ~w.locked /\ w' = [w EXCEPT !.latches = {}, !.subscribed = FALSE]
  /\ UNCHANGED <<asked, req>>

-----------------------------------------------------------------------------
Asks == AskSub \/ AskPlain \/ \E s \in Stream : AskOpen(s) \/ AskClose(s) \/ StreamData(s)
DispatcherRuns == Dispatch \/ DoPlain \/ CloseUnknown \/ CloseStream \/ CloseReturns
                \/ SubscribeLocks \/ SubscribeReplies
Executor(s) == OpenDials(s) \/ OpenRegisters(s) \/ OpenReplies(s)
Pump(s) == PumpReads(s) \/ PumpPuts(s) \/ PumpEnds(s)
UpWorker(s) == WorkerTakes(s) \/ WorkerPuts(s) \/ WorkerStalls(s) \/ WorkerStops(s)
Up(s) == UpWrites(s) \/ UpFails(s) \/ UpStops(s)
WriterRuns == WriterTakesHigh \/ WriterFindsNothing \/ WriterWakes \/ WriteControl
                \/ WriteStreamItem \/ ClearConfirm \/ WriteFails \/ WriterEnds
                \/ \E s \in Stream : WriterTakesData(s)
Closing == CloseChannel \/ Teardown

StreamNext ==
  \/ Asks \/ ReaderReturns \/ ReaderEnds \/ DispatcherRuns \/ WriterRuns \/ ClientReads \/ Closing
  \/ \E s \in Stream : Executor(s) \/ FinishPutsEnd(s) \/ Pump(s) \/ UpWorker(s) \/ Up(s)

StreamSpec == StreamInit /\ [][StreamNext]_streamVars

\* Goroutines run; dials, writes and stalls have deadlines; the client reads.
StreamFairness ==
  /\ WF_streamVars(ReaderReturns) /\ WF_streamVars(DispatcherRuns) /\ WF_streamVars(WriterRuns)
  /\ WF_streamVars(ClientReads) /\ WF_streamVars(Closing)
  /\ \A s \in Stream :
       WF_streamVars(\/ Executor(s) \/ FinishPutsEnd(s) \/ PumpPuts(s) \/ UpWorker(s) \/ Up(s)
                     \/ PumpEnds(s) /\ Stopped(s))

-----------------------------------------------------------------------------
(* Properties                                                              *)

\* The queues, the streams of a connection and the server's workers keep their limits,
\* also when two executors register at the same time.
StreamTypeOK ==
  /\ link \in {"open", "closing", "closed", "gone"}
  /\ Len(w.highC) <= HighQueue /\ Inflight <= MaxInflight
  /\ Cardinality(streams) <= MaxStreams /\ workers \in 0 .. MaxUpWorkers
  /\ \A s \in Stream : /\ Len(st[s].dataC) <= StreamQueue
                       /\ Len(st[s].upBuf) <= UpWorkerItems /\ Len(st[s].upC) <= StreamUpItems

\* A worker's place is given back once per stream, whichever of the goroutines
\* that end a stream came first, and not before it ends.
PlacesMatchStreams ==
  workers = Cardinality({s \in Opened : st[s].fin = "no"})

\* On the socket, a stream's data come in order and without a gap; its end is
\* the last frame; after the backend's own end nothing it sent is missing.
DataThenEnd ==
  \A s \in Stream :
    LET n == Len(st[s].out)
        ended == n > 0 /\ st[s].out[n] = End
        m == IF ended THEN n - 1 ELSE n
    IN /\ \A i \in 1 .. m : st[s].out[i] = i
       /\ ended /\ st[s].reason = "eof" => m = st[s].sent

\* The backend gets the client's frames in order and without a gap.
UpstreamWithoutGaps ==
  \A s \in Stream : \A i \in 1 .. Len(st[s].got) : st[s].got[i] = i

\* A connection that has been cleaned up has no stream that nobody ends, not
\* even one whose dial was under way.
NoStreamOutlivesConnection ==
  link = "gone" => \A s \in Opened : st[s].fin # "no"

\* The places of the workers and the streams of a connection belong together, also
\* while one ends and another is dialled.
StreamsAgree == PlacesMatchStreams /\ NoStreamOutlivesConnection

\* While the connection is open and its client reads, every request is answered.
RequestsAreAnswered ==
  []<>((Inflight = 0 /\ w.highC = <<>>) \/ link # "open")

\* A stream that ends is over in the end, and its three goroutines with it.
EndedStreamsGo ==
  \A s \in Stream : []<>(st[s].fin # "no" /\ req.open[s] = "over" =>
    st[s].fin = "over" /\ st[s].pump = "off" /\ st[s].worker = "off" /\ st[s].up = "off")

\* What the code does not keep: what the client sent on a stream before it closed it reaches the backend.
SentBeforeCloseArrives ==
  \A s \in Stream : (st[s].fin = "over" /\ st[s].reason = "closed" /\ st[s].up = "off") =>
    st[s].got = [i \in 1 .. st[s].said |-> i]

\* What the code does not keep: a connection that is gone is no subscriber of the bus.
GoneHasNoSubscriber == link = "gone" => ~w.subscribed
=============================================================================
