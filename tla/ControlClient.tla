---------------------------- MODULE ControlClient ----------------------------
(***************************************************************************)
(* The Go client of the control plane (internal/control/client.go) with the    *)
(* adapter that makes one of its streams a connection (streamConn in          *)
(* internal/daemon/term_remote.go). One reader takes the server's frames in     *)
(* order; a stream whose buffer is full makes it wait. The command opens the    *)
(* stream, reads it to its end and closes it, on goroutines of their own.     *)
(*                                                                         *)
(* The server is external: it answers, sends data and an end, says goodbye, or   *)
(* the connection breaks without a word. Data frames are numbered.            *)
(***************************************************************************)
EXTENDS Integers, Sequences

CONSTANTS RecvRoom, \* room in a stream's recv
          MaxData   \* bound: data frames
ASSUME ClientAssumption == RecvRoom \in Nat \ {0} /\ MaxData \in Nat

VARIABLES
  server,   \* what the server has done: answered, data frames sent, ended, gone
  wire,     \* frames on their way
  client,   \* closed: the channel; reader: run, blocked, gone; open: the OpenStream call;
            \* known: the stream is in streams; shut: the call of streamConn.Close
  stream,   \* recv, the end channel, the recorded reason, the payload the reader holds
  reading   \* streamConn.Read: what it has returned, and the reason it ended with

clientVars == <<server, wire, client, stream, reading>>

ClientInit ==
  /\ server = [answer |-> "none", sent |-> 0, ended |-> FALSE, gone |-> FALSE]
  /\ wire = <<>>
  /\ client = [closed |-> FALSE, reader |-> "run", open |-> "idle", known |-> FALSE, shut |-> "no"]
  /\ stream = [recv |-> <<>>, end |-> "none", mark |-> "none", held |-> 0]
  /\ reading = [got |-> <<>>, reason |-> "none"]

Frame(type, n) == [type |-> type, n |-> n]
Sends(frame) == wire' = Append(wire, frame) /\ UNCHANGED <<client, stream, reading>>

-----------------------------------------------------------------------------
ServerAnswers ==
  /\ client.open = "pending" /\ server.answer = "none" /\ ~server.gone
  /\ \E ok \in BOOLEAN :
       /\ server' = [server EXCEPT !.answer = IF ok THEN "ok" ELSE "refused"]
       /\ Sends(Frame("rsp", IF ok THEN 1 ELSE 0))

ServerSendsData ==
  /\ server.answer = "ok" /\ ~server.ended /\ ~server.gone /\ server.sent < MaxData
  /\ server' = [server EXCEPT !.sent = @ + 1]
  /\ Sends(Frame("data", server.sent + 1))

ServerEndsStream ==
  /\ server.answer = "ok" /\ ~server.ended /\ ~server.gone
  /\ server' = [server EXCEPT !.ended = TRUE]
  /\ Sends(Frame("end", 0))

ServerSaysGoodbye ==
  /\ ~server.gone
  /\ server' = [server EXCEPT !.gone = TRUE]
  /\ Sends(Frame("goodbye", 0))

\* The daemon dies, or its write watchdog closes the socket.
ConnectionBreaks ==
  /\ ~server.gone
  /\ server' = [server EXCEPT !.gone = TRUE]
  /\ Sends(Frame("eof", 0))

-----------------------------------------------------------------------------
(* The reader                                                              *)

Arrived(type) == client.reader = "run" /\ wire # <<>> /\ Head(wire).type = type

\* The answer of stream.open puts the stream into streams before anyone else sees it.
ReadsAnswer ==
  /\ Arrived("rsp") /\ wire' = Tail(wire)
  /\ client' = [client EXCEPT
       !.known = client.open = "pending" /\ Head(wire).n = 1,
       !.open = IF @ # "pending" THEN @ ELSE IF Head(wire).n = 1 THEN "open" ELSE "failed"]
  /\ UNCHANGED <<server, stream, reading>>

\* Mutant: a frame that finds the buffer full is dropped.
ReadsDataDropping ==
  /\ Arrived("data") /\ wire' = Tail(wire)
  /\ stream' = IF client.known /\ Len(stream.recv) < RecvRoom
               THEN [stream EXCEPT !.recv = Append(@, Head(wire).n)] ELSE stream
  /\ UNCHANGED <<server, client, reading>>

ReadsData ==
  /\ Arrived("data") /\ wire' = Tail(wire)
  /\ IF ~client.known THEN UNCHANGED <<client, stream>>
     ELSE IF Len(stream.recv) < RecvRoom
     THEN stream' = [stream EXCEPT !.recv = Append(@, Head(wire).n)] /\ UNCHANGED client
     ELSE /\ stream' = [stream EXCEPT !.held = Head(wire).n]
          /\ client' = [client EXCEPT !.reader = "blocked"]
  /\ UNCHANGED <<server, reading>>

DeliversHeld ==
  /\ client.reader = "blocked"
  /\ client' = [client EXCEPT !.reader = "run"]
  /\ \/ /\ Len(stream.recv) < RecvRoom
        /\ stream' = [stream EXCEPT !.recv = Append(@, stream.held), !.held = 0]
     \/ client.closed /\ stream' = [stream EXCEPT !.held = 0]
  /\ UNCHANGED <<server, wire, reading>>

\* Mutant: the reason is recorded, whoever waits for the end is not told.
ReadsEndQuietly ==
  /\ Arrived("end") /\ wire' = Tail(wire)
  /\ stream' = [stream EXCEPT !.mark = IF client.known /\ @ = "none" THEN "closed" ELSE @]
  /\ UNCHANGED <<server, client, reading>>

ReadsEnd ==
  /\ Arrived("end") /\ wire' = Tail(wire)
  /\ IF client.known
     THEN stream' = [stream EXCEPT !.end = "closed",
                                   !.mark = IF @ = "none" THEN "closed" ELSE @]
     ELSE UNCHANGED stream
  /\ UNCHANGED <<server, client, reading>>

MarkConn == IF client.known /\ stream.mark = "none" THEN "conn" ELSE stream.mark

ReadsGoodbye ==
  /\ Arrived("goodbye") /\ wire' = Tail(wire)
  /\ client' = [client EXCEPT !.closed = TRUE, !.reader = "gone"]
  /\ stream' = [stream EXCEPT !.mark = MarkConn]
  /\ UNCHANGED <<server, reading>>

\* A read error ends the reader; readerDone marks the streams, closed stays open.
ReadsError ==
  /\ client.reader = "run"
  /\ Arrived("eof") \/ client.closed
  /\ client' = [client EXCEPT !.reader = "gone"]
  /\ stream' = [stream EXCEPT !.mark = MarkConn]
  /\ UNCHANGED <<server, wire, reading>>

Reader == ReadsAnswer \/ ReadsData \/ DeliversHeld \/ ReadsEnd \/ ReadsGoodbye \/ ReadsError

-----------------------------------------------------------------------------
(* The command                                                             *)

OpenStream ==
  /\ client.open = "idle" /\ ~client.closed
  /\ client' = [client EXCEPT !.open = "pending"]
  /\ UNCHANGED <<server, wire, stream, reading>>

OpenStreamFails ==
  /\ client.open = "pending" /\ client.closed
  /\ client' = [client EXCEPT !.open = "failed"]
  /\ UNCHANGED <<server, wire, stream, reading>>

\* Read's select takes any case that is ready; an end, or the closed connection,
\* makes it drain recv first.
Reads == client.open = "open" /\ reading.reason = "none"

ReadReceives ==
  /\ Reads /\ stream.recv # <<>>
  /\ reading' = [reading EXCEPT !.got = Append(@, Head(stream.recv))]
  /\ stream' = [stream EXCEPT !.recv = Tail(@)]
  /\ UNCHANGED <<server, wire, client>>

ReadEnds(reason) ==
  /\ reading' = [reading EXCEPT !.got = @ \o stream.recv, !.reason = reason]
  /\ stream' = [stream EXCEPT !.recv = <<>>]
  /\ UNCHANGED <<server, wire, client>>

ReadSeesEnd == Reads /\ stream.end # "none" /\ ReadEnds(stream.end)
ReadSeesClosed == Reads /\ client.closed /\ ReadEnds("conn")

\* Close closes the client at once, while a goroutine asks for stream.close.
ClientCloseBegins ==
  /\ client.open = "open" /\ client.shut = "no"
  /\ client' = [client EXCEPT !.shut = "closing"]
  /\ UNCHANGED <<server, wire, stream, reading>>

\* Mutant: the close waits for the reader to put down what it holds.
CloseClientLater ==
  /\ client.shut = "closing" /\ ~client.closed /\ client.reader # "blocked"
  /\ client' = [client EXCEPT !.closed = TRUE]
  /\ stream' = [stream EXCEPT !.mark = MarkConn]
  /\ UNCHANGED <<server, wire, reading>>

CloseClient ==
  /\ client.shut = "closing" /\ ~client.closed
  /\ client' = [client EXCEPT !.closed = TRUE]
  /\ stream' = [stream EXCEPT !.mark = MarkConn]
  /\ UNCHANGED <<server, wire, reading>>

ClientCloses ==
  /\ client.shut = "closing" /\ client.closed
  /\ client' = [client EXCEPT !.shut = "done"]
  /\ UNCHANGED <<server, wire, stream, reading>>

Server == ServerAnswers \/ ServerSendsData \/ ServerEndsStream \/ ServerSaysGoodbye \/ ConnectionBreaks
Command == OpenStreamFails \/ ReadSeesEnd \/ ReadSeesClosed \/ CloseClient \/ ClientCloses

ClientNext == Server \/ Reader \/ OpenStream \/ ClientCloseBegins \/ Command \/ ReadReceives
ClientSpec == ClientInit /\ [][ClientNext]_clientVars
\* A command that closes its stream may have stopped to read it.
ReadsOn == client.shut = "no" /\ ReadReceives
ClientFairness == WF_clientVars(Reader) /\ WF_clientVars(Command) /\ WF_clientVars(ReadsOn)
FairClientSpec == ClientSpec /\ ClientFairness

-----------------------------------------------------------------------------
(* Properties                                                              *)

\* Until the command closes it, Read returns the data in order and without a gap,
\* whatever it and the reader do at the same time; when the stream's end is what ended it, it has returned all.
ReadsAllBeforeEnd ==
  /\ client.shut = "no" => \A i \in 1 .. Len(reading.got) : reading.got[i] = i
  /\ reading.reason = "closed" /\ stream.mark = "closed" => Len(reading.got) = server.sent

\* Close gets out although the reader waits for a command that no longer reads.
CloseGetsOut == []<>(client.shut = "no" \/ (client.shut = "done" /\ client.reader = "gone"))

\* A read that the server's end or goodbye reaches comes to an end.
ReadComesToEnd ==
  (client.open = "open" /\ (server.ended \/ (server.gone /\ \E i \in 1 .. Len(wire) : wire[i].type = "goodbye")))
     ~> (reading.reason # "none")

\* Whoever waits on a connection that is gone is woken up (client.go:83: 对端关闭;
\* term_remote.go:212: 连接级断开). It does not hold: nothing closes c.closed when
\* the reader ends on an error.
LossIsNoticed == (client.open = "open" /\ server.gone) ~> (reading.reason # "none")
=============================================================================
