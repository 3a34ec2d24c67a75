------------------------------ MODULE EventBus ------------------------------
(***************************************************************************)
(* The event bus of the daemon (clientcore/facade/bus.go), the goroutines   *)
(* of the host sessions that publish on it, and one control connection that *)
(* subscribes (internal/control/server.go): its dispatcher, which executes  *)
(* the requests, and its writer, the only one that writes to the socket.    *)
(*                                                                         *)
(* A session changes its state under its own lock and publishes after that. *)
(* Publish numbers the event and notes whom it is for under the bus's lock, *)
(* and puts it into the subscriber's queue after that. The front end keeps   *)
(* a view of the hosts' states from a snapshot and the events after it.     *)
(*                                                                         *)
(* There is one state (of one host) per domain; its values are version      *)
(* numbers. A frame the writer has written has been read: what the socket    *)
(* holds when the connection breaks is as good as not yet written. What is   *)
(* left of a connection that is gone (deliveries on their way to it, requests *)
(* its dispatcher still executes) changes nothing a front end can see and is *)
(* dropped with it. The front end is external: it compares the numbers of    *)
(* events as bus.go:21-22 asks it to.                                       *)
(***************************************************************************)
EXTENDS Integers, Sequences, SequencesExt, FiniteSets, Ascending

CONSTANTS
  Domain,     \* event domains, one state each
  Worker,     \* goroutines that change a session's state: "session", "stop"
  Resume,     \* "snapshot": a cursor is the number of the last snapshot, as in
              \* status_watch.go; "last": of the event received last (bus.go)
  RingCap, SubQueue,
  MaxChanges, \* bound: changes of state, apart from restarts
  MaxReq,     \* bound: requests of the front end
  MaxConn,    \* bound: connections
  MaxGen,     \* bound: generations (starts of the daemon)
  None

ASSUME BoundsAssumption ==
  {RingCap, SubQueue, MaxChanges, MaxReq, MaxConn, MaxGen} \subseteq Nat \ {0}
ASSUME WorkerAssumption == Worker \subseteq {"session", "stop"}
ASSUME ResumeAssumption == Resume \in {"snapshot", "last"} /\ None \notin Nat

VARIABLES
  value,     \* the state of each domain's session
  life,      \* whether Stop has been called on it, and whether it has finished
  log,       \* all events of this generation; an event's number is its place
  ringLen,   \* the ring holds the last ringLen of them
  gen,
  publisher, \* what each goroutine is publishing
  sub,       \* the connection's Subscriber
  conn,      \* the connection
  fe         \* the front end

vars == <<value, life, log, ringLen, gen, publisher, sub, conn, fe>>
busVars == <<log, ringLen, gen>>
sessionVars == <<value, life>>

Seq0 == Len(log)                      \* CurrentSeq
Oldest == Len(log) - ringLen + 1      \* oldestSeqLocked
Publisher == Domain \X Worker

\* seq, epoch: the event it delivers and the subscription it is meant for.
IdlePublisher == [pc |-> "idle", val |-> 0, seq |-> 0, epoch |-> 0]

\* An event on its way to the front end, with the subscription that asked for it.
Item(n, e) == [n |-> n, epoch |-> e]

\* on: in bus.subs. epoch: the request that made the subscription; since: the snapshot it
\* continues (the front end's own knowledge, not a field of the code).
NoSub == [on |-> FALSE, domains |-> {}, pending |-> <<>>, ch |-> <<>>,
          overrun |-> FALSE, epoch |-> 0, since |-> 0]

\* reqs: reqC; op: the request the dispatcher works on; high: highC; gate:
\* subConfirm; held: heldFrames; pc, buf: where the writer is and the events it
\* holds.
NoConn == [up |-> FALSE, reqs |-> <<>>, op |-> None, high |-> <<>>, gate |-> {},
           held |-> <<>>, pc |-> "drain", buf |-> <<>>]

Init ==
  /\ value = [d \in Domain |-> 0] /\ life = [d \in Domain |-> "up"]
  /\ log = <<>> /\ ringLen = 0 /\ gen = 1
  /\ publisher = [p \in Publisher |-> IdlePublisher]
  /\ sub = NoSub
  /\ conn = NoConn
  /\ fe = [view |-> [d \in Domain |-> 0], at |-> [d \in Domain |-> 0],
           snap |-> None, last |-> 0, gen |-> 0, got |-> {}, confirmed |-> 0,
           reqs |-> 0, conns |-> 0]

-----------------------------------------------------------------------------
(* Publishing                                                              *)

\* A restart changes the state of every session once.
Changes == FoldFunction(+, 0, value) - Cardinality(Domain) * (gen - 1)

\* setState of the session's goroutine; setStopping of the goroutine that calls
\* Stop, which has told the session to finish before. The state changes under
\* the session's lock ...
SetState(p) ==
  /\ publisher[p].pc = "idle"
  /\ Changes < MaxChanges
  /\ IF p[2] = "stop" THEN life[p[1]] = "up" /\ life' = [life EXCEPT ![p[1]] = "stopping"]
     ELSE /\ life[p[1]] # "over"
          /\ life' = IF life[p[1]] = "up" THEN life ELSE [life EXCEPT ![p[1]] = "over"]
  /\ value' = [value EXCEPT ![p[1]] = @ + 1]
  /\ publisher' = [publisher EXCEPT ![p] = [@ EXCEPT !.pc = "publish", !.val = value'[p[1]]]]
  /\ UNCHANGED <<busVars, sub, conn, fe>>

\* ... and the observer runs without it: a number, a place in the ring, and the
\* targets, all under the bus's lock. Payloads have any size, so the limit on
\* bytes may evict any number of the oldest events.
Publish(p) ==
  /\ publisher[p].pc = "publish"
  /\ log' = Append(log, [dom |-> p[1], val |-> publisher[p].val])
  /\ \E evicted \in (IF ringLen = RingCap THEN 1 ELSE 0) .. ringLen :
       ringLen' = ringLen - evicted + 1
  /\ publisher' = [publisher EXCEPT ![p] =
       IF sub.on /\ p[1] \in sub.domains
       THEN [pc |-> "deliver", val |-> 0, seq |-> Len(log'), epoch |-> sub.epoch]
       ELSE IdlePublisher]
  /\ UNCHANGED <<sessionVars, gen, sub, conn, fe>>

\* Mutant: one event too many in the queue.
DeliverPastLimit(p) ==
  /\ publisher[p].pc = "deliver"
  /\ IF Len(sub.ch) <= SubQueue
     THEN /\ sub' = [sub EXCEPT !.ch = Append(@, Item(publisher[p].seq, publisher[p].epoch))]
          /\ publisher' = [publisher EXCEPT ![p] = IdlePublisher]
     ELSE /\ sub' = [sub EXCEPT !.on = FALSE]
          /\ publisher' = [publisher EXCEPT ![p].pc = "full"]
  /\ UNCHANGED <<sessionVars, busVars, conn, fe>>

\* The delivery, outside the lock.
Deliver(p) ==
  /\ publisher[p].pc = "deliver"
  /\ IF Len(sub.ch) < SubQueue
     THEN /\ sub' = [sub EXCEPT !.ch = Append(@, Item(publisher[p].seq, publisher[p].epoch))]
          /\ publisher' = [publisher EXCEPT ![p] = IdlePublisher]
     ELSE /\ sub' = [sub EXCEPT !.on = FALSE]
          /\ publisher' = [publisher EXCEPT ![p].pc = "full"]
  /\ UNCHANGED <<sessionVars, busVars, conn, fe>>

TerminateOverrun(p) ==
  /\ publisher[p].pc = "full"
  /\ sub' = [sub EXCEPT !.overrun = TRUE]
  /\ publisher' = [publisher EXCEPT ![p] = IdlePublisher]
  /\ UNCHANGED <<sessionVars, busVars, conn, fe>>

-----------------------------------------------------------------------------
(* The dispatcher                                                          *)

\* Mutant: the window is one event too wide.
VerdictOffByOne(r) ==
  IF r.gen # gen THEN "stale"
  ELSE IF r.cursor > Seq0 THEN "bad"
  ELSE IF ringLen > 0 /\ r.cursor + 2 < Oldest THEN "stale"
  ELSE "ok"

\* Bus.Subscribe's checks, in its order.
Verdict(r) ==
  IF r.gen # gen THEN "stale"
  ELSE IF r.cursor > Seq0 THEN "bad"
  ELSE IF ringLen > 0 /\ r.cursor + 1 < Oldest THEN "stale"
  ELSE "ok"

Replay(r) ==
  LET due == {n \in Oldest .. Seq0 : n > r.cursor /\ log[n].dom \in r.domains}
  IN  [k \in 1 .. Cardinality(due) |-> Item(Ascending(due)[k], r.corr)]

\* opSubscribe holds subMu from the latch to the confirmation in highC.
Subscribe ==
  LET r == Head(conn.reqs) IN
  /\ conn.up /\ conn.op = None /\ conn.reqs # <<>> /\ r.op = "subscribe"
  /\ conn' = [conn EXCEPT !.reqs = Tail(@), !.gate = @ \cup {r.corr},
                          !.high = Append(@, [kind |-> "confirm", corr |-> r.corr,
                                              verdict |-> Verdict(r)])]
  /\ sub' = IF Verdict(r) = "ok"
            THEN [sub EXCEPT !.on = TRUE, !.domains = r.domains, !.pending = Replay(r),
                             !.epoch = r.corr, !.since = r.since]
            ELSE sub
  /\ UNCHANGED <<sessionVars, busVars, publisher, fe>>

Unsubscribe ==
  LET r == Head(conn.reqs)
      left == sub.domains \ r.domains
  IN
  /\ conn.up /\ conn.op = None /\ conn.reqs # <<>> /\ r.op = "unsubscribe"
  /\ conn' = [conn EXCEPT !.reqs = Tail(@)]
  /\ sub' = [sub EXCEPT !.domains = left, !.on = @ /\ left # {}]
  /\ UNCHANGED <<sessionVars, busVars, publisher, fe>>

\* opSnapshotGet: the number first, then the hosts' states, then the reply.
SnapshotSeq ==
  /\ conn.up /\ conn.op = None /\ conn.reqs # <<>> /\ Head(conn.reqs).op = "snapshot"
  /\ conn' = [conn EXCEPT !.reqs = Tail(@),
                          !.op = [seq |-> Seq0, states |-> None]]
  /\ UNCHANGED <<sessionVars, busVars, publisher, sub, fe>>

SnapshotStates ==
  /\ conn.op # None /\ conn.op.states = None
  /\ conn' = [conn EXCEPT !.op.states = value]
  /\ UNCHANGED <<sessionVars, busVars, publisher, sub, fe>>

\* Mutant: the number is read after the states.
SnapshotReplyLate ==
  /\ conn.op # None /\ conn.op.states # None
  /\ conn' = [conn EXCEPT !.op = None,
                          !.high = Append(@, [kind |-> "snapshot", seq |-> Seq0,
                                              states |-> conn.op.states])]
  /\ UNCHANGED <<sessionVars, busVars, publisher, sub, fe>>

SnapshotReply ==
  /\ conn.op # None /\ conn.op.states # None
  /\ conn' = [conn EXCEPT !.op = None,
                          !.high = Append(@, [kind |-> "snapshot", seq |-> conn.op.seq,
                                              states |-> conn.op.states])]
  /\ UNCHANGED <<sessionVars, busVars, publisher, sub, fe>>

-----------------------------------------------------------------------------
(* What the front end makes of a frame                                      *)

\* States are overwritten by number, as bus.go asks of a front end.
OnEvent(n) ==
  LET d == log[n].dom
      news == n > fe.at[d]
  IN [fe EXCEPT !.view[d] = IF news THEN log[n].val ELSE @,
                !.at[d]   = IF news THEN n ELSE @,
                !.got = @ \cup {n}, !.last = n]

OnSnapshot(f) ==
  LET new == fe.gen # gen
      newer(d) == new \/ fe.at[d] <= f.seq
  IN [fe EXCEPT !.view = [d \in Domain |-> IF newer(d) THEN f.states[d] ELSE @[d]],
                !.at   = [d \in Domain |-> IF newer(d) THEN f.seq ELSE @[d]],
                !.got  = IF new THEN {} ELSE @,
                !.snap = f.seq, !.last = f.seq, !.gen = gen]

OnConfirm(f) ==
  CASE f.verdict = "ok"    -> [fe EXCEPT !.confirmed = f.corr]
    [] f.verdict = "stale" -> [fe EXCEPT !.snap = None]
    [] f.verdict = "bad"   -> fe

-----------------------------------------------------------------------------
(* The writer                                                              *)

\* writeHighItem, clearSubConfirm: when the last latch is cleared, the replay
\* goes out before the events held back.
WriteHigh ==
  LET f == Head(conn.high)
      gate == IF f.kind = "confirm" THEN conn.gate \ {f.corr} ELSE conn.gate
      flush == f.kind = "confirm" /\ gate = {}
      out == IF flush THEN sub.pending \o conn.held ELSE <<>>
  IN
  /\ conn.up /\ conn.pc \in {"drain", "step"} /\ conn.high # <<>>
  /\ fe' = IF f.kind = "confirm" THEN OnConfirm(f) ELSE OnSnapshot(f)
  /\ conn' = [conn EXCEPT !.high = Tail(@), !.gate = gate, !.buf = out,
                          !.held = IF flush THEN <<>> ELSE @,
                          !.pc = IF out = <<>> THEN "drain" ELSE "write"]
  /\ sub' = IF flush THEN [sub EXCEPT !.pending = <<>>] ELSE sub
  /\ UNCHANGED <<sessionVars, busVars, publisher>>

\* Mutant: events come before replies.
DrainedEarly ==
  /\ conn.up /\ conn.pc = "drain"
  /\ conn' = [conn EXCEPT !.pc = "step"]
  /\ UNCHANGED <<sessionVars, busVars, publisher, sub, fe>>

\* drainHigh found the queue empty: step.
Drained ==
  /\ conn.up /\ conn.pc = "drain" /\ conn.high = <<>>
  /\ conn' = [conn EXCEPT !.pc = "step"]
  /\ UNCHANGED <<sessionVars, busVars, publisher, sub, fe>>

Take ==
  /\ conn.up /\ conn.pc = "step" /\ sub.ch # <<>>
  /\ conn' = [conn EXCEPT !.pc = "took", !.buf = <<Head(sub.ch)>>]
  /\ sub' = [sub EXCEPT !.ch = Tail(@)]
  /\ UNCHANGED <<sessionVars, busVars, publisher, fe>>

\* takeEvent looks at the latch after it has the event. heldFramesMax is not
\* modelled: LatchHoldsOne says why it is never reached.
Hold ==
  /\ conn.pc = "took" /\ conn.gate # {}
  /\ conn' = [conn EXCEPT !.held = @ \o conn.buf, !.buf = <<>>, !.pc = "drain"]
  /\ UNCHANGED <<sessionVars, busVars, publisher, sub, fe>>

\* Mutant: the latch is looked at before the event is taken only.
PassUnchecked ==
  /\ conn.pc = "took"
  /\ conn' = [conn EXCEPT !.pc = "write"]
  /\ UNCHANGED <<sessionVars, busVars, publisher, sub, fe>>

Pass ==
  /\ conn.pc = "took" /\ conn.gate = {}
  /\ conn' = [conn EXCEPT !.pc = "write"]
  /\ UNCHANGED <<sessionVars, busVars, publisher, sub, fe>>

WriteEvent ==
  /\ conn.up /\ conn.pc = "write"
  /\ fe' = OnEvent(Head(conn.buf).n)
  /\ conn' = [conn EXCEPT !.buf = Tail(@),
                          !.pc = IF Len(conn.buf) = 1 THEN "drain" ELSE "write"]
  /\ UNCHANGED <<sessionVars, busVars, publisher, sub>>

-----------------------------------------------------------------------------
(* The end of a connection                                                 *)

Closed ==
  /\ conn' = NoConn
  /\ sub' = NoSub
  /\ publisher' = [p \in Publisher |->
       IF publisher[p].pc \in {"deliver", "full"} THEN IdlePublisher ELSE publisher[p]]

\* A subscriber whose queue was full is told to start from a snapshot.
Goodbye ==
  /\ conn.up /\ conn.pc = "step" /\ sub.overrun
  /\ Closed
  /\ fe' = [fe EXCEPT !.snap = None]
  /\ UNCHANGED <<sessionVars, busVars>>

\* The last connection of an instance is not broken: nothing would follow.
Break ==
  /\ conn.up /\ fe.conns < MaxConn
  /\ Closed
  /\ UNCHANGED <<sessionVars, busVars, fe>>

\* The daemon starts again: a new generation, new sessions.
Restart ==
  /\ gen < MaxGen
  /\ gen' = gen + 1 /\ log' = <<>> /\ ringLen' = 0
  /\ value' = [d \in Domain |-> value[d] + 1] /\ life' = [d \in Domain |-> "up"]
  /\ publisher' = [p \in Publisher |-> IdlePublisher]
  /\ conn' = NoConn /\ sub' = NoSub
  /\ UNCHANGED fe

-----------------------------------------------------------------------------
(* The front end                                                           *)

Connect ==
  /\ ~conn.up /\ fe.conns < MaxConn
  /\ conn' = [conn EXCEPT !.up = TRUE]
  /\ fe' = [fe EXCEPT !.conns = @ + 1]
  /\ UNCHANGED <<sessionVars, busVars, publisher, sub>>

Ask(r) ==
  /\ conn.up /\ fe.reqs < MaxReq
  /\ conn' = [conn EXCEPT !.reqs = Append(@, r)]
  /\ fe' = [fe EXCEPT !.reqs = @ + 1]
  /\ UNCHANGED <<sessionVars, busVars, publisher, sub>>

AskSnapshot == Ask([op |-> "snapshot"])

AskSubscribe ==
  /\ fe.snap # None
  /\ \E ds \in SUBSET Domain \ {{}} :
       Ask([op |-> "subscribe", corr |-> fe.reqs + 1, domains |-> ds, gen |-> fe.gen,
            cursor |-> IF Resume = "last" THEN fe.last ELSE fe.snap, since |-> fe.snap])

AskUnsubscribe ==
  \E d \in Domain : Ask([op |-> "unsubscribe", domains |-> {d}])

-----------------------------------------------------------------------------
Session(p) == SetState(p) \/ Publish(p) \/ Deliver(p) \/ TerminateOverrun(p)
Dispatcher ==
  Subscribe \/ Unsubscribe \/ SnapshotSeq \/ SnapshotStates \/ SnapshotReply
Writer ==
  WriteHigh \/ Drained \/ Take \/ Hold \/ Pass \/ WriteEvent \/ Goodbye
FrontEnd == Connect \/ AskSnapshot \/ AskSubscribe \/ AskUnsubscribe \/ Break

Next == (\E p \in Publisher : Session(p)) \/ Dispatcher \/ Writer \/ FrontEnd \/ Restart

Spec == Init /\ [][Next]_vars

-----------------------------------------------------------------------------
(* Properties                                                              *)

\* Types and the limits of the ring and of the subscriber's queue. The events
\* that are on their way exist.
TypeOK ==
  LET Items == [n : 1 .. Seq0, epoch : 0 .. MaxReq] IN
  /\ value \in [Domain -> Nat] /\ life \in [Domain -> {"up", "stopping", "over"}]
  /\ gen \in 1 .. MaxGen
  /\ log \in Seq([dom : Domain, val : Nat])
  /\ ringLen \in 0 .. RingCap /\ ringLen <= Seq0
  /\ publisher \in [Publisher -> [pc : {"idle", "publish", "deliver", "full"}, val : Nat,
                                  seq : 0 .. Seq0, epoch : 0 .. MaxReq]]
  /\ sub.on \in BOOLEAN /\ sub.overrun \in BOOLEAN /\ sub.domains \subseteq Domain
  /\ sub.ch \in Seq(Items) /\ Len(sub.ch) <= SubQueue
  /\ sub.pending \in Seq(Items) /\ Len(sub.pending) <= RingCap
  /\ conn.up \in BOOLEAN /\ conn.pc \in {"drain", "step", "took", "write"}
  /\ conn.held \in Seq(Items) /\ conn.buf \in Seq(Items)
  /\ conn.buf # <<>> <=> conn.pc \in {"took", "write"}
  /\ fe.view \in [Domain -> Nat] /\ fe.snap \in Nat \cup {None}

\* The front end's subscription is alive and nothing tells it otherwise.
Subscribed ==
  /\ conn.up /\ sub.on /\ ~sub.overrun
  /\ \A p \in Publisher : publisher[p].pc # "full"

\* Numbers of the events the front end has, or that are on their way to it.
Coming ==
  fe.got
    \cup {publisher[p].seq : p \in {q \in Publisher : publisher[q].pc = "deliver"}}
    \cup {i.n : i \in Range(sub.ch) \cup Range(sub.pending)
                       \cup Range(conn.held) \cup Range(conn.buf)}

\* No event of a subscribed domain is lost in silence: whatever came after the
\* snapshot the subscription continues has arrived or is on its way, or the
\* connection ends (bus.go: 在线 = 送达或断连).
NoSilentLoss ==
  Subscribed => \A n \in 1 .. Seq0 :
    n > sub.since /\ log[n].dom \in sub.domains => n \in Coming

\* When everything has settled the front end sees the states as they are.
Settled ==
  /\ Subscribed
  /\ \A p \in Publisher : publisher[p].pc = "idle"
  /\ \A d \in Domain : life[d] # "stopping"
  /\ conn.reqs = <<>> /\ conn.op = None /\ conn.high = <<>> /\ conn.gate = {}
  /\ conn.buf = <<>> /\ sub.ch = <<>>
ViewIsCurrent == Settled => \A d \in sub.domains : fe.view[d] = value[d]

\* One event at most waits for the latch: where there is a latch its confirmation
\* is already in highC, and the writer drains highC before it takes another.
LatchHoldsOne == Len(conn.held) <= 1

\* No event of a subscription is written before its confirmation; the replay
\* and the events held back leave with it.
ConfirmedFirst ==
  /\ conn.pc = "write" => \A i \in Range(conn.buf) : i.epoch <= fe.confirmed
  /\ conn.gate = {} => sub.pending = <<>> /\ conn.held = <<>>

\* What a front end was promised when it subscribed: no gap without an end of the
\* connection, the present state in the end, and the confirmation first.
FollowersKeepUp == NoSilentLoss /\ ViewIsCurrent /\ LatchHoldsOne /\ ConfirmedFirst
=============================================================================
