------------------------------ MODULE TermLeg ------------------------------
(***************************************************************************)
(* The writer of one raw leg of a terminal session (pkg/term/term_leg.go). *)
(* The session keeps its output in a ring of bytes; the writer sends the   *)
(* attach handshake (ATTACHED, the screen reset, a replay of the ring,     *)
(* REPLAY-DONE) and then goes on from the ring, control frames first.  A   *)
(* write that times out does not break the leg: the half of the frame that *)
(* is not out yet is kept (torn) and goes first the next time.  When the   *)
(* session ends, or another client takes the leg's place, the writer       *)
(* drains the ring and sends ENDED before it closes the connection.        *)
(*                                                                         *)
(* Output is counted in units; a unit is known by its position, a frame of *)
(* data by where it begins and ends.                                       *)
(***************************************************************************)
EXTENDS Naturals, Sequences

CONSTANTS
    RingSize,     \* units the ring holds
    Replay,       \* units a leg may lag behind, and the most that is replayed
    Chunk,        \* units one frame of data takes at most (termDataChunk)
    MaxOut,       \* bound: units the program writes
    MaxFrames,    \* bound: control frames queued
    MaxTimeouts   \* bound: writes that time out

ASSUME TermLegRing ==
    RingSize \in Nat \ {0} /\ Replay \in 1 .. RingSize /\ Chunk \in Nat \ {0}
ASSUME TermLegBounds == {MaxOut, MaxFrames, MaxTimeouts} \subseteq Nat

Data(from, to) == <<"data", from, to>>
Control(k) == <<"control", k, k>>
Attached == <<"attached", 0, 0>>
Reset == <<"reset", 0, 0>>
ReplayDone == <<"replayed", 0, 0>>
Ended == <<"ended", 0, 0>>
NoFrame == <<"none", 0, 0>>

VARIABLES
    output,   \* written: units so far; done: the session has ended
    out,      \* the leg's queue (legOut): frames; ended, quit: how it is to end;
              \* wake: the token of the wake channel
    leg,      \* the writer: at, off, sent and end of the replay, the frames it
              \* took, torn, stalled, removed from the session
    conn,     \* "open" | "gone" (the client left) | "closed" (by the server)
    got,      \* the frames the client has received
    spent     \* frames queued and time-outs so far; skipped: the units the writer
              \* passed over on purpose; from: where its last drain began

termLegVars == <<output, out, leg, conn, got, spent>>

Oldest == IF output.written > RingSize THEN output.written - RingSize ELSE 0

TermLegInit ==
    \E w \in 0 .. MaxOut :
        /\ output = [written |-> w, done |-> FALSE]
        /\ out = [frames |-> <<>>, ended |-> FALSE, quit |-> FALSE, wake |-> FALSE]
        /\ leg = [at |-> "attached", off |-> 0, end |-> w,
                  sent |-> IF w > Replay THEN w - Replay ELSE 0,
                  items |-> <<>>, torn |-> NoFrame, stalled |-> FALSE, removed |-> FALSE]
        /\ conn = "open"
        /\ got = <<>>
        /\ spent = [frames |-> 0, timeouts |-> 0, skipped |-> {}, from |-> 0]

----------------------------------------------------------------------------
(* The session around the leg.                                              *)

(* The pump has read a unit from the program: into the ring, wake the leg. *)
ProgramWrites ==
    /\ ~output.done /\ output.written < MaxOut
    /\ output' = [output EXCEPT !.written = @ + 1]
    /\ out' = [out EXCEPT !.wake = ~leg.removed \/ @]
    /\ UNCHANGED <<leg, conn, got, spent>>

(* A STATE, or an answer of the read loop, is queued for the leg.           *)
FrameQueued ==
    /\ ~leg.removed /\ spent.frames < MaxFrames
    /\ spent' = [spent EXCEPT !.frames = @ + 1]
    /\ out' = [out EXCEPT !.frames = Append(@, Control(spent.frames + 1)), !.wake = TRUE]
    /\ UNCHANGED <<output, leg, conn, got>>

(* Mutant: the writer is not woken.                                         *)
LegEndedQuietly(done) ==
    /\ ~leg.removed
    /\ output' = [output EXCEPT !.done = done]
    /\ leg' = [leg EXCEPT !.removed = TRUE]
    /\ out' = [out EXCEPT !.ended = TRUE]
    /\ UNCHANGED <<conn, got, spent>>

(* endLegLocked with a reason the client is told: the session ends (finish) *)
(* or another client takes over; ENDED is to follow all that is queued.     *)
LegEnded(done) ==
    /\ ~leg.removed
    /\ output' = [output EXCEPT !.done = done]
    /\ leg' = [leg EXCEPT !.removed = TRUE]
    /\ out' = [out EXCEPT !.ended = TRUE, !.wake = TRUE]
    /\ UNCHANGED <<conn, got, spent>>

(* endLegLocked without one: evicted to make room, or the client left.      *)
LegDropped(left) ==
    /\ ~leg.removed
    /\ leg' = [leg EXCEPT !.removed = TRUE]
    /\ out' = [out EXCEPT !.quit = TRUE, !.wake = TRUE]
    /\ conn' = IF left /\ conn = "open" THEN "gone" ELSE conn
    /\ UNCHANGED <<output, got, spent>>

----------------------------------------------------------------------------
(* One write (writeFrameOnce): what is torn goes first.                     *)

(* Mutant: a frame that is tried again goes out after its torn half.        *)
DeliveryTwice(frame) == IF leg.torn = NoFrame THEN <<frame>> ELSE <<leg.torn, frame>>

(* What the client receives when the write succeeds.  A caller that tries   *)
(* the torn frame again gets it delivered once.                             *)
Delivery(frame) ==
    CASE leg.torn = NoFrame -> <<frame>>
      [] leg.torn = frame -> <<frame>>
      [] OTHER -> <<leg.torn, frame>>

Delivers(frame, next) ==
    /\ conn = "open"
    /\ got' = got \o Delivery(frame)
    /\ leg' = [next EXCEPT !.torn = NoFrame]
    /\ UNCHANGED <<conn, out, spent>>

(* The write times out: in the frame itself, or still in the torn one, and  *)
(* then nothing of the new frame is kept.                                   *)
TimesOut(frame, next) ==
    /\ conn = "open" /\ spent.timeouts < MaxTimeouts
    /\ spent' = [spent EXCEPT !.timeouts = @ + 1]
    /\ \/ /\ leg' = [next EXCEPT !.torn = frame, !.stalled = TRUE]
          /\ got' = IF leg.torn \in {NoFrame, frame} THEN got ELSE Append(got, leg.torn)
       \/ /\ leg.torn \notin {NoFrame, frame}
          /\ leg' = [next EXCEPT !.stalled = TRUE]
          /\ UNCHANGED got
    /\ UNCHANGED <<conn, out>>

(* The leg is taken out of the session (endLegLocked is idempotent) and its *)
(* connection closed; no ENDED.                                             *)
Breaks ==
    /\ leg' = [leg EXCEPT !.at = "exit", !.removed = TRUE]
    /\ out' = [out EXCEPT !.quit = TRUE]
    /\ conn' = "closed"
    /\ UNCHANGED <<got, spent>>

(* A hard error, or a stall that lasted too long (noteStall over the limit; *)
(* the first time-out only starts the clock).                               *)
Fails ==
    \/ conn = "gone" /\ Breaks
    \/ conn = "open" /\ leg.stalled /\ spent.timeouts < MaxTimeouts /\ Breaks

(* rawWriteFrame: a time-out is reported as success, the outer loop goes on.*)
RawWrite(frame, next) ==
    \/ Delivers(frame, [next EXCEPT !.stalled = FALSE])
    \/ TimesOut(frame, next)
    \/ Fails

Goes(at) == [leg EXCEPT !.at = at]

----------------------------------------------------------------------------
(* The writer: handshake.                                                   *)

SendsAttached ==
    /\ leg.at = "attached" /\ RawWrite(Attached, Goes("reset")) /\ UNCHANGED output

SendsReset ==
    /\ leg.at = "reset" /\ RawWrite(Reset, Goes("replay")) /\ UNCHANGED output

Later(a, b) == IF a < b THEN b ELSE a
\* Mutant: a frame is filled up beyond what was written.
ChunkEndFull(from) == from + Chunk
ChunkEnd(from) == IF from + Chunk < output.written THEN from + Chunk ELSE output.written
Skip(from, to) == {p \in 0 .. MaxOut : from <= p /\ p < to}
Passes(from, to) == spent' = [spent EXCEPT !.skipped = @ \cup Skip(from, to)]

(* The next chunk of the replay, from what the ring still holds, and as     *)
(* long as a frame may be: it may go beyond the end of the replay when the  *)
(* program has written meanwhile.  It counts as sent unless the leg fails.  *)
SendsReplay ==
    LET from == Later(leg.sent, Oldest) IN
    /\ leg.at = "replay" /\ leg.sent < leg.end
    /\ ~leg.removed /\ ~output.done
    /\ IF leg.sent < from
         THEN /\ leg' = [leg EXCEPT !.sent = from]
              /\ Passes(leg.sent, from)
              /\ UNCHANGED <<out, conn, got>>
         ELSE RawWrite(Data(from, ChunkEnd(from)), [leg EXCEPT !.sent = ChunkEnd(from)])
    /\ UNCHANGED output

(* The replay is over.  The leg being ended, the rest is left to the drain; *)
(* otherwise live output begins at the end of the replay: all of it was     *)
(* sent, or the budget of time is used up and the rest is passed over.      *)
ReplayEnds ==
    /\ leg.at = "replay"
    /\ \/ /\ leg.sent < leg.end /\ leg.removed
          /\ leg' = [leg EXCEPT !.at = "replayed", !.off = leg.sent]
          /\ UNCHANGED spent
       \/ /\ leg' = [leg EXCEPT !.at = "replayed", !.off = leg.end]
          /\ Passes(leg.sent, leg.end)
    /\ UNCHANGED <<output, out, conn, got>>

SendsReplayDone ==
    /\ leg.at = "replayed" /\ RawWrite(ReplayDone, Goes("live")) /\ UNCHANGED output

----------------------------------------------------------------------------
(* The writer: live.  take() hands out the queue, or, when it is empty, how *)
(* the leg is to end.                                                       *)

Closes == conn' = (IF conn = "open" THEN "closed" ELSE conn)

TakesFrames(at) ==
    /\ ~out.quit /\ out.frames # <<>>
    /\ leg' = [leg EXCEPT !.at = at, !.items = out.frames]
    /\ out' = [out EXCEPT !.frames = <<>>]
    /\ UNCHANGED <<conn, spent>>

(* Mutant: no drain before ENDED.                                           *)
TakesEndedAtOnce ==
    /\ ~out.quit /\ out.frames = <<>> /\ out.ended
    /\ leg' = Goes("end")
    /\ spent' = [spent EXCEPT !.from = leg.off]
    /\ UNCHANGED <<out, conn>>

TakesEnded ==
    /\ ~out.quit /\ out.frames = <<>> /\ out.ended
    /\ leg' = Goes("drain")
    /\ spent' = [spent EXCEPT !.from = leg.off]
    /\ UNCHANGED <<out, conn>>

TakesQuit ==
    /\ out.quit
    /\ leg' = Goes("exit")
    /\ Closes
    /\ UNCHANGED <<out, spent>>

TakesNothing(at) ==
    /\ ~out.quit /\ out.frames = <<>> /\ ~out.ended
    /\ leg' = Goes(at)
    /\ UNCHANGED <<out, conn, spent>>

Takes ==
    /\ leg.at = "live"
    /\ TakesFrames("items") \/ TakesEnded \/ TakesQuit \/ TakesNothing("peek")
    /\ UNCHANGED <<output, got>>

(* Control frames; those taken when the ring was already refused ("last")   *)
(* are the last thing that is written.                                      *)
SendsItem ==
    /\ leg.at \in {"items", "last items"} /\ leg.items # <<>>
    /\ RawWrite(Head(leg.items), [leg EXCEPT !.items = Tail(@)])
    /\ UNCHANGED output

ItemsSent ==
    /\ leg.items = <<>>
    /\ \/ leg.at = "items" /\ leg' = Goes("live") /\ UNCHANGED conn
       \/ leg.at = "last items" /\ leg' = Goes("exit") /\ Closes
    /\ UNCHANGED <<output, out, got, spent>>

(* Where the leg goes on in the ring: no more than a replay behind.         *)
CaughtUp == IF output.written > Replay THEN Later(leg.off, output.written - Replay) ELSE leg.off

(* peekRingChunk and the write: the position is advanced (commitRingChunk)  *)
(* whenever rawWriteFrame returns true.  With nothing to send the writer    *)
(* waits for the wake channel, unless it is stalled.                        *)
SendsLive ==
    /\ leg.at = "peek" /\ ~leg.removed /\ ~output.done
    /\ IF leg.off < CaughtUp
         THEN /\ leg' = [leg EXCEPT !.off = CaughtUp]
              /\ Passes(leg.off, CaughtUp)
              /\ UNCHANGED <<out, conn, got>>
         ELSE IF leg.off >= output.written
         THEN /\ leg' = IF leg.stalled THEN Goes("live") ELSE Goes("wait")
              /\ UNCHANGED <<out, conn, got, spent>>
         ELSE RawWrite(Data(leg.off, ChunkEnd(leg.off)),
                       [leg EXCEPT !.at = "live", !.off = ChunkEnd(leg.off)])
    /\ UNCHANGED output

Wakes ==
    /\ leg.at = "wait" /\ out.wake
    /\ leg' = Goes("live")
    /\ out' = [out EXCEPT !.wake = FALSE]
    /\ UNCHANGED <<output, conn, got, spent>>

(* The ring is refused, the leg has been ended since the queue was looked   *)
(* at: the queue is taken once more before the writer leaves.               *)
TakesLast ==
    /\ leg.at = "peek" /\ (leg.removed \/ output.done)
    /\ TakesFrames("last items") \/ TakesEnded \/ TakesQuit
    /\ UNCHANGED <<output, got>>

----------------------------------------------------------------------------
(* The writer: the end.                                                     *)

(* drainRingBeforeEnd: a chunk that times out is tried again, the position  *)
(* is advanced only after a write that succeeded; the stall is not cleared. *)
Drains ==
    /\ leg.at = "drain"
    /\ IF leg.off < CaughtUp
         THEN /\ leg' = [leg EXCEPT !.off = CaughtUp]
              /\ Passes(leg.off, CaughtUp)
              /\ UNCHANGED <<out, conn, got>>
         ELSE IF leg.off >= output.written
         THEN leg' = Goes("end") /\ UNCHANGED <<out, conn, got, spent>>
         ELSE LET frame == Data(leg.off, ChunkEnd(leg.off)) IN
              \/ Delivers(frame, [leg EXCEPT !.off = ChunkEnd(leg.off)])
              \/ TimesOut(frame, leg)
              \/ Fails
    /\ UNCHANGED output

(* sendEndedStalled, then the connection is closed.                         *)
SendsEnded ==
    /\ leg.at = "end"
    /\ \/ /\ conn = "open"
          /\ got' = got \o Delivery(Ended)
          /\ leg' = [Goes("exit") EXCEPT !.torn = NoFrame]
          /\ conn' = "closed"
          /\ UNCHANGED <<out, spent>>
       \/ TimesOut(Ended, leg)
       \/ Fails
    /\ UNCHANGED output

WriterStep ==
    \/ SendsAttached \/ SendsReset \/ SendsReplay \/ ReplayEnds \/ SendsReplayDone
    \/ Takes \/ SendsItem \/ ItemsSent \/ SendsLive \/ Wakes \/ TakesLast
    \/ Drains \/ SendsEnded

TermLegNext ==
    \/ WriterStep
    \/ ProgramWrites \/ FrameQueued
    \/ \E done \in BOOLEAN : LegEnded(done)
    \/ \E left \in BOOLEAN : LegDropped(left)

TermLegSpec == TermLegInit /\ [][TermLegNext]_termLegVars

(* The writer is a goroutine: it is scheduled again and again.              *)
TermLegFairness == WF_termLegVars(WriterStep)

----------------------------------------------------------------------------
(* Properties.                                                              *)

Frames == {Attached, Reset, ReplayDone, Ended, NoFrame}
          \cup {Data(p, q) : p, q \in 0 .. MaxOut} \cup {Control(k) : k \in 1 .. MaxFrames}

(* Type invariant; the writer is never ahead of the program.                *)
TermLegTypeOK ==
    /\ output \in [written : 0 .. MaxOut, done : BOOLEAN]
    /\ out \in [frames : Seq(Frames), ended : BOOLEAN, quit : BOOLEAN, wake : BOOLEAN]
    /\ {leg.off, leg.sent, leg.end} \subseteq 0 .. output.written
    /\ leg.torn \in Frames
    /\ conn \in {"open", "gone", "closed"}
    /\ got \in Seq(Frames)

IsData(frame) == frame[1] = "data"
Before(i, j) == IsData(got[i]) /\ IsData(got[j]) /\ i < j
Units(frame) == Skip(frame[2], frame[3])
Received == UNION {Units(got[i]) : i \in {k \in DOMAIN got : IsData(got[k])}}

(* The output comes in the order of the program and no unit of it twice,    *)
(* but for what the last chunk of the replay read beyond its end, whatever  *)
(* timed out on the way and wherever a frame was torn (term_leg.go:231:     *)
(* sending the whole frame again would break the framing).  Not for a leg   *)
(* that was replaced while the program goes on: the chunk its drain tries   *)
(* again has grown, is no longer the torn frame, and goes out after it.     *)
OutputInOrder ==
    (output.done \/ ~leg.removed) => \A i, j \in DOMAIN got : Before(i, j) =>
        \/ got[i][3] <= got[j][2]
        \/ leg.end <= got[j][2] /\ got[i][3] <= leg.sent

(* ENDED is the last frame, and it comes after everything the ring held for *)
(* the leg when its writer turned to the end (term_leg.go:386): the tail of *)
(* the output is not lost with the session, not even over a stalled link.   *)
TailBeforeEnded ==
    \A i \in DOMAIN got : got[i] = Ended =>
        /\ i = Len(got)
        /\ Skip(spent.from, IF output.done THEN output.written ELSE leg.off)
               \subseteq Received \cup spent.skipped

\* What a leg is sent is the program's output in order, and then the end.
LegOutput == OutputInOrder /\ TailBeforeEnded

(* The connection of a leg that left the session is closed in the end.      *)
EndedLegCloses == []<>(leg.removed => conn # "open")

(* What the code does not keep, here and in the next two.                   *)
(* A leg that was told it has ended gets ENDED before the close, unless the *)
(* client is gone or stalls for too long ("ENDED comes before close",       *)
(* term_leg.go:126 and :409).                                               *)
EndedBeforeClose ==
    (conn = "closed" /\ out.ended /\ ~out.quit) => \E i \in DOMAIN got : got[i] = Ended

(* Live output begins where the replay ends, so that no unit is sent twice  *)
(* ("otherwise sent == hs.end", term_leg.go:356).                           *)
NothingTwice ==
    \A i, j \in DOMAIN got : Before(i, j) => got[i][3] <= got[j][2]

(* No hole: every unit up to the leg's position was delivered, is torn, or  *)
(* was passed over on purpose ("the position is advanced only after a write *)
(* that succeeded, a stalled write is repeated", term_leg.go:430).          *)
NoHoles ==
    leg.at \in {"live", "items", "peek", "wait"} =>
        Skip(Later(leg.end, Replay) - Replay, leg.off)
            \subseteq Received \cup Units(leg.torn) \cup spent.skipped
=============================================================================
