------------------------------- MODULE Relay -------------------------------
(***************************************************************************)
(* The relay (internal/relay): registered backends ("legs"), their TCP     *)
(* control connections, the per-client sessions ("assocs"), and the reaper.*)
(*                                                                         *)
(* Every critical section under Relay.mu is one action, and so is every    *)
(* write to a control connection, because the code writes outside the      *)
(* lock.  The goroutines are: one controlConn per accepted connection      *)
(* (conn[c].pc), the packet loop (reader.pc), the reaper (reaper.pc) and   *)
(* one assocReadLoop per session (assoc[a].flush marks it between its two  *)
(* critical sections).                                                     *)
(*                                                                         *)
(* Go objects that are compared by identity are drawn from finite pools    *)
(* (LegId, AssocId, Conn) and reused once no goroutine refers to them.     *)
(* Time is what the timeouts see of it: an age or a flag that Age* actions *)
(* raise and that "last = now" resets.                                     *)
(***************************************************************************)
EXTENDS Integers, FiniteSets, Sequences

CONSTANTS
  Label, Client, Conn, LegId, AssocId,
  Addr,             \* UDP source addresses a backend registers from
  Src,              \* source addresses of the sockets a backend dials back with
  None,
  MaxLegs, MaxPerPeer, MaxCtlConns, CtlHandshakeMax, CtlPendMax,
  MaxSid,           \* bound: session numbers handed out by one relay process
  MaxRestarts,      \* bound: restarts of the relay process
  MaxWire,          \* bound: control messages in flight on one connection
  Timers            \* bound: the timeouts that may expire in this instance

ASSUME NoneAssumption ==
  None \notin Label \cup Client \cup Conn \cup LegId \cup AssocId \cup Addr \cup Src
ASSUME LimitsAssumption ==
  /\ {MaxLegs, MaxPerPeer, MaxCtlConns, CtlHandshakeMax, CtlPendMax} \subseteq Nat \ {0}
  /\ {MaxSid, MaxRestarts, MaxWire} \subseteq Nat
  /\ Timers \subseteq {"leg", "idle", "silent", "late"}

VARIABLES
  legs,             \* r.legs: label -> leg object
  leg,              \* the leg objects
  assocs,           \* r.assocs: (label, client) -> session object
  assoc,            \* the session objects
  nextSid, ctlHandshaking, ctlEstablished,
  conn,             \* the controlConn goroutines
  reader,           \* the readLoop goroutine
  reaper,           \* the reapLoop goroutine
  wire,             \* relay -> backend bytes in flight, per connection
  peer,             \* the backend whose end of the connection is open, or None
  known,            \* <<session, epoch>> the backend holds a dialled leg for
  epoch             \* incarnation of the relay process

tables  == <<legs, leg, assocs, assoc, nextSid>>
slots   == <<ctlHandshaking, ctlEstablished>>
network == <<wire, peer, known, epoch>>
vars    == <<tables, slots, conn, reader, reaper, network>>

-----------------------------------------------------------------------------
(* Records *)

Key == Label \X Client

Msg == [kind : {"OK"}] \cup [kind : {"SESSION", "RELEASE"}, sid : 1 .. MaxSid]

\* age: 0 fresh, 1 past legBootstrap, 2 past LegTimeout
Leg == [label : Label \cup {None}, addr : Addr \cup {None}, verified : BOOLEAN,
        ctlVerified : BOOLEAN, ctl : Conn \cup {None}, age : 0 .. 2, chall : BOOLEAN]

NewLeg(b) == [label |-> b, addr |-> None, verified |-> FALSE, ctlVerified |-> FALSE,
              ctl |-> None, age |-> 0, chall |-> FALSE]

\* idle: last is past IdleTimeout; silent: lastDown is past DownSilent;
\* late: dialUpAt is past DialWait.  proven is a history of the sources that
\* showed this session's cookie.
Assoc == [backend : Addr \cup Src \cup {None}, sid : 0 .. MaxSid, dialed : BOOLEAN,
          dialUp : BOOLEAN, authSrc : Src \cup {None}, pend : 0 .. CtlPendMax,
          flush : BOOLEAN, idle : BOOLEAN, silent : BOOLEAN, late : BOOLEAN,
          proven : SUBSET Src]

NewAssoc(addr, sid) ==
  [backend |-> addr, sid |-> sid, dialed |-> sid # 0, dialUp |-> sid # 0,
   authSrc |-> None, pend |-> 0, flush |-> FALSE, idle |-> FALSE,
   silent |-> FALSE, late |-> FALSE, proven |-> {}]

\* A removed session: its socket is closed and nothing it holds is seen again.
Gone == NewAssoc(None, 0)

Pc == {"none", "shake", "ok", "find", "mark", "attach", "close",
       "replay", "write", "read", "detach", "clean"}

Goroutine == [pc : Pc, label : Label \cup {None}, lg : LegId \cup {None},
              prev : Conn \cup {None}, out : SUBSET (AssocId \X (1 .. MaxSid)),
              up : BOOLEAN, hs : BOOLEAN, est : BOOLEAN]

NoConn == [pc |-> "none", label |-> None, lg |-> None, prev |-> None, out |-> {},
           up |-> FALSE, hs |-> FALSE, est |-> FALSE]

Releases == SUBSET (LegId \X (1 .. MaxSid))

Reader == [pc : {"idle", "up", "tell", "write", "push", "release"},
           key : Key \cup {None}, lg : LegId \cup {None}, aid : AssocId \cup {None},
           cc : Conn \cup {None}, sid : 0 .. MaxSid, rel : Releases]

IdleReader == [pc |-> "idle", key |-> None, lg |-> None, aid |-> None,
               cc |-> None, sid |-> 0, rel |-> {}]

Reaper == [pc : {"idle", "release", "write", "legs"}, cc : Conn \cup {None},
           sid : 0 .. MaxSid, rel : Releases]

IdleReaper == [pc |-> "idle", cc |-> None, sid |-> 0, rel |-> {}]

TypeOK ==
  /\ legs \in [Label -> LegId \cup {None}]
  /\ leg \in [LegId -> Leg]
  /\ assocs \in [Key -> AssocId \cup {None}]
  /\ assoc \in [AssocId -> Assoc]
  /\ nextSid \in 0 .. MaxSid
  /\ ctlHandshaking \in 0 .. CtlHandshakeMax
  /\ ctlEstablished \in Nat
  /\ conn \in [Conn -> Goroutine]
  /\ reader \in Reader
  /\ reaper \in Reaper
  /\ wire \in [Conn -> Seq(Msg)]
  /\ peer \in [Conn -> Label \cup {None}]
  /\ known \in SUBSET ((1 .. MaxSid) \X (0 .. MaxRestarts))
  /\ epoch \in 0 .. MaxRestarts

Init ==
  /\ legs = [b \in Label |-> None]
  /\ leg = [l \in LegId |-> NewLeg(None)]
  /\ assocs = [k \in Key |-> None]
  /\ assoc = [a \in AssocId |-> Gone]
  /\ nextSid = 0 /\ ctlHandshaking = 0 /\ ctlEstablished = 0
  /\ conn = [c \in Conn |-> NoConn]
  /\ reader = IdleReader /\ reaper = IdleReaper
  /\ wire = [c \in Conn |-> <<>>] /\ peer = [c \in Conn |-> None]
  /\ known = {} /\ epoch = 0

-----------------------------------------------------------------------------
(* Object identity *)

MappedLegs == {legs[b] : b \in Label} \ {None}
LiveAssocs == {assocs[k] : k \in Key} \ {None}
SessionsOf(b) == {assocs[<<b, k>>] : k \in Client} \ {None}

LegRefs == MappedLegs \cup {conn[c].lg : c \in Conn} \cup {reader.lg}
             \cup {x[1] : x \in reader.rel \cup reaper.rel}
AssocRefs == LiveAssocs \cup {reader.aid} \cup UNION {{x[1] : x \in conn[c].out} : c \in Conn}
ConnRefs == {leg[l].ctl : l \in LegId} \cup {reader.cc, reaper.cc} \cup {conn[c].prev : c \in Conn}

LegTableFull == Cardinality(MappedLegs) >= MaxLegs
PeerOverfull(sessions) == Cardinality(sessions) > MaxPerPeer \* mutant
PeerFull(sessions) == Cardinality(sessions) >= MaxPerPeer

Admitted(l) == l # None /\ (leg[l].verified \/ leg[l].ctlVerified)

\* Bytes written to a connection reach the backend only if its end is open.
Write(c, m) ==
  /\ conn[c].up
  /\ Len(wire[c]) < MaxWire
  /\ wire' = IF peer[c] # None THEN [wire EXCEPT ![c] = Append(@, m)] ELSE wire

\* A write fails on a closed socket, and may fail once the peer is gone.
WriteFails(c) == ~conn[c].up \/ peer[c] = None

Closed(c) == [conn EXCEPT ![c].up = FALSE]

Goto(c, pc) == conn' = [conn EXCEPT ![c].pc = pc]

-----------------------------------------------------------------------------
(* Control connections: serveControl and controlConn *)

\* A backend dials; it keeps one connection at a time per label.
Accept(c, b) ==
  /\ conn[c].pc = "none" /\ peer[c] = None /\ c \notin ConnRefs
  /\ \A d \in Conn : peer[d] # b
  /\ ctlHandshaking < CtlHandshakeMax
  /\ ctlHandshaking' = ctlHandshaking + 1
  /\ conn' = [conn EXCEPT ![c] = [NoConn EXCEPT !.pc = "shake", !.label = b,
                                                !.up = TRUE, !.hs = TRUE]]
  /\ peer' = [peer EXCEPT ![c] = b]
  /\ UNCHANGED <<tables, ctlEstablished, reader, reaper, wire, known, epoch>>

\* The deferred calls on the way out of controlConn: the slots it still holds.
Leave(c) ==
  /\ conn' = [conn EXCEPT ![c] = NoConn]
  /\ ctlHandshaking' = IF conn[c].hs THEN ctlHandshaking - 1 ELSE ctlHandshaking
  /\ ctlEstablished' = IF conn[c].est THEN ctlEstablished - 1 ELSE ctlEstablished

\* Any read, write or check of the handshake failed, or its 10s ran out.
HandshakeFails(c) ==
  /\ conn[c].pc = "shake"
  /\ Leave(c)
  /\ UNCHANGED <<tables, reader, reaper, network>>

\* HELLO, CHALLENGE and PROOF went through and there is room for a connection.
Admit(c) ==
  /\ conn[c].pc = "shake" /\ ctlEstablished + 1 <= MaxCtlConns
  /\ ctlEstablished' = ctlEstablished + 1
  /\ conn' = [conn EXCEPT ![c].pc = "ok", ![c].est = TRUE]
  /\ UNCHANGED <<tables, ctlHandshaking, reader, reaper, network>>

\* Mutant: handshaking is not cleared, so the deferred release runs as well.
SendOKKeepsFlag(c) ==
  /\ conn[c].pc = "ok"
  /\ Write(c, [kind |-> "OK"])
  /\ ctlHandshaking' = ctlHandshaking - 1
  /\ conn' = [conn EXCEPT ![c].pc = "find"]
  /\ UNCHANGED <<tables, ctlEstablished, reader, reaper, peer, known, epoch>>

\* OK is written first; the handshake slot is released; only then is the leg found.
SendOK(c) ==
  /\ conn[c].pc = "ok"
  /\ Write(c, [kind |-> "OK"])
  /\ ctlHandshaking' = ctlHandshaking - 1
  /\ conn' = [conn EXCEPT ![c].pc = "find", ![c].hs = FALSE]
  /\ UNCHANGED <<tables, ctlEstablished, reader, reaper, peer, known, epoch>>

SendOKFails(c) ==
  /\ conn[c].pc = "ok" /\ WriteFails(c)
  /\ Leave(c)
  /\ UNCHANGED <<tables, reader, reaper, network>>

\* legForControl: an existing leg keeps its age; a new one passes the MaxLegs gate.
FindLeg(c) ==
  LET b == conn[c].label IN
  /\ conn[c].pc = "find"
  /\ \/ /\ legs[b] # None
        /\ conn' = [conn EXCEPT ![c].pc = "mark", ![c].lg = legs[b]]
        /\ UNCHANGED <<legs, leg, slots>>
     \/ /\ legs[b] = None /\ ~LegTableFull
        /\ \E l \in LegId \ LegRefs :
             /\ legs' = [legs EXCEPT ![b] = l]
             /\ leg' = [leg EXCEPT ![l] = NewLeg(b)]
             /\ conn' = [conn EXCEPT ![c].pc = "mark", ![c].lg = l]
        /\ UNCHANGED slots
     \/ /\ legs[b] = None /\ LegTableFull
        /\ Leave(c)
        /\ UNCHANGED <<legs, leg>>
  /\ UNCHANGED <<assocs, assoc, nextSid, reader, reaper, network>>

MarkVerified(c) ==
  /\ conn[c].pc = "mark"
  /\ leg' = [leg EXCEPT ![conn[c].lg].ctlVerified = TRUE, ![conn[c].lg].age = 0]
  /\ Goto(c, "attach")
  /\ UNCHANGED <<legs, assocs, assoc, nextSid, slots, reader, reaper, network>>

AttachControl(c) ==
  /\ conn[c].pc = "attach"
  /\ leg' = [leg EXCEPT ![conn[c].lg].ctl = c]
  /\ conn' = [conn EXCEPT ![c].pc = "close", ![c].prev = leg[conn[c].lg].ctl]
  /\ UNCHANGED <<legs, assocs, assoc, nextSid, slots, reader, reaper, network>>

CloseReplaced(c) ==
  /\ conn[c].pc = "close"
  /\ conn' = [d \in Conn |->
                IF d = c THEN [conn[c] EXCEPT !.pc = "replay", !.prev = None]
                ELSE IF d = conn[c].prev THEN [conn[d] EXCEPT !.up = FALSE]
                ELSE conn[d]]
  /\ UNCHANGED <<tables, slots, reader, reaper, network>>

-----------------------------------------------------------------------------
(* replaySessions *)

\* Mutant: a promoted session keeps sending on its old path.
PromotedInPlace(a, sid) ==
  [a EXCEPT !.sid = sid, !.dialed = TRUE, !.late = FALSE, !.authSrc = None]

Promoted(a, sid) ==
  [a EXCEPT !.sid = sid, !.dialUp = TRUE, !.dialed = TRUE, !.late = FALSE, !.authSrc = None]

\* Every fallback session of the label gets a number; all of them are listed.
CollectReplay(c) ==
  LET mine == SessionsOf(conn[c].label)
      fallback == {a \in mine : assoc[a].sid = 0}
  IN
  /\ conn[c].pc = "replay"
  /\ nextSid + Cardinality(fallback) <= MaxSid
  /\ nextSid' = nextSid + Cardinality(fallback)
  /\ \E number \in [fallback -> (nextSid + 1) .. nextSid'] :
       /\ \A x, y \in fallback : x # y => number[x] # number[y]
       /\ assoc' = [a \in AssocId |-> IF a \in fallback THEN Promoted(assoc[a], number[a])
                                      ELSE assoc[a]]
  /\ conn' = [conn EXCEPT ![c].pc = IF mine = {} THEN "read" ELSE "write",
                          ![c].out = {<<a, assoc'[a].sid>> : a \in mine}]
  /\ UNCHANGED <<legs, leg, assocs, slots, reader, reaper, network>>

WriteReplay(c) ==
  /\ conn[c].pc = "write"
  /\ \E x \in conn[c].out :
       /\ Write(c, [kind |-> "SESSION", sid |-> x[2]])
       /\ conn' = [conn EXCEPT ![c].pc = IF conn[c].out = {x} THEN "read" ELSE "write",
                               ![c].out = @ \ {x}]
  /\ UNCHANGED <<tables, slots, reader, reaper, peer, known, epoch>>

\* The rollback reads each session as it is now, not as it was when listed.
Demoted(a) ==
  IF a.dialUp /\ a.sid # 0
    THEN [a EXCEPT !.sid = 0, !.dialUp = FALSE, !.dialed = FALSE]
    ELSE a

ReplayFails(c) ==
  /\ conn[c].pc = "write" /\ WriteFails(c)
  /\ assoc' = [a \in AssocId |-> IF a \in {x[1] : x \in conn[c].out}
                                   THEN Demoted(assoc[a]) ELSE assoc[a]]
  /\ conn' = [conn EXCEPT ![c].pc = "read", ![c].up = FALSE, ![c].out = {}]
  /\ UNCHANGED <<legs, leg, assocs, nextSid, slots, reader, reaper, network>>

-----------------------------------------------------------------------------
(* readControlLoop and the deferred clean-up of controlConn *)

ReadKeepalive(c) ==
  /\ conn[c].pc = "read" /\ conn[c].up /\ peer[c] # None
  /\ leg' = [leg EXCEPT ![conn[c].lg].age = 0]
  /\ UNCHANGED <<legs, assocs, assoc, nextSid, slots, conn, reader, reaper, network>>

\* Mutant: without a read deadline a lost peer is never noticed.
ReadEndsWhenClosed(c) ==
  /\ conn[c].pc = "read" /\ ~conn[c].up
  /\ Goto(c, "detach")
  /\ UNCHANGED <<tables, slots, reader, reaper, network>>

\* A closed socket, a lost peer, or ctlReadTimeout.
ReadEnds(c) ==
  /\ conn[c].pc = "read" /\ WriteFails(c)
  /\ Goto(c, "detach")
  /\ UNCHANGED <<tables, slots, reader, reaper, network>>

\* Mutant: the late exit of a replaced connection unhooks its successor.
DetachAnyControl(c) ==
  /\ conn[c].pc = "detach"
  /\ leg' = [leg EXCEPT ![conn[c].lg].ctl = None]
  /\ Goto(c, "clean")
  /\ UNCHANGED <<legs, assocs, assoc, nextSid, slots, reader, reaper, network>>

\* Mutant: the connection ends without unhooking itself.
DetachForgotten(c) ==
  /\ conn[c].pc = "detach"
  /\ Goto(c, "clean")
  /\ UNCHANGED <<tables, slots, reader, reaper, network>>

DetachControl(c) ==
  LET l == conn[c].lg IN
  /\ conn[c].pc = "detach"
  /\ leg' = IF leg[l].ctl = c THEN [leg EXCEPT ![l].ctl = None] ELSE leg
  /\ Goto(c, "clean")
  /\ UNCHANGED <<legs, assocs, assoc, nextSid, slots, reader, reaper, network>>

\* The leg examined is the goroutine's own; the entry deleted is the label's.
CleanOrphan(c) ==
  LET l == conn[c].lg
      orphan == /\ leg[l].ctl = None /\ ~leg[l].verified /\ leg[l].addr = None
                /\ SessionsOf(leg[l].label) = {}
  IN
  /\ conn[c].pc = "clean"
  /\ legs' = IF orphan THEN [legs EXCEPT ![leg[l].label] = None] ELSE legs
  /\ Leave(c)
  /\ UNCHANGED <<leg, assocs, assoc, nextSid, reader, reaper, network>>

-----------------------------------------------------------------------------
(* The packet loop: handlePacket, forwardUp, handleControl *)

\* A tagged client packet: the leg is looked up in one critical section ...
ReceivePacket(b, k) ==
  /\ reader.pc = "idle" /\ Admitted(legs[b])
  /\ reader' = [IdleReader EXCEPT !.pc = "up", !.key = <<b, k>>, !.lg = legs[b]]
  /\ UNCHANGED <<tables, slots, conn, reaper, network>>

\* A packet is buffered while its session waits for a leg (up to CtlPendMax),
\* and otherwise sent to the backend.
\* Mutant: one packet too many.
PushedPastLimit(a) == IF a.dialUp /\ a.pend <= CtlPendMax THEN [a EXCEPT !.pend = @ + 1] ELSE a

Pushed(a) == IF a.dialUp /\ a.pend < CtlPendMax THEN [a EXCEPT !.pend = @ + 1] ELSE a

\* ... and used in the next one, when it may have left the table.
ForwardUp ==
  LET key == reader.key
      lg  == leg[reader.lg]
      old == assocs[key]
      moved == old # None /\ ~assoc[old].dialed /\ assoc[old].backend # lg.addr
      others == SessionsOf(key[1]) \ (IF moved THEN {old} ELSE {})
      sid == IF lg.ctl # None THEN nextSid + 1 ELSE 0
  IN
  /\ reader.pc = "up"
  /\ \/ /\ old # None /\ ~moved
        /\ assoc' = [assoc EXCEPT ![old] = Pushed([@ EXCEPT !.idle = FALSE])]
        /\ reader' = IdleReader
        /\ UNCHANGED <<assocs, nextSid>>
     \/ /\ old = None \/ moved
        /\ \/ lg.addr = None /\ lg.ctl = None
           \/ PeerFull(others)
        /\ assocs' = [assocs EXCEPT ![key] = None]
        /\ assoc' = IF moved THEN [assoc EXCEPT ![old] = Gone] ELSE assoc
        /\ reader' = IdleReader
        /\ UNCHANGED nextSid
     \/ /\ old = None \/ moved
        /\ lg.addr # None \/ lg.ctl # None
        /\ ~PeerFull(others)
        /\ sid <= MaxSid
        /\ \E a \in AssocId \ AssocRefs :
             /\ assocs' = [assocs EXCEPT ![key] = a]
             /\ assoc' = [x \in AssocId |-> IF x = a THEN NewAssoc(lg.addr, sid)
                                            ELSE IF moved /\ x = old THEN Gone
                                            ELSE assoc[x]]
             /\ reader' = IF sid = 0 THEN IdleReader
                          ELSE [reader EXCEPT !.pc = "tell", !.aid = a, !.sid = sid]
        /\ nextSid' = IF sid # 0 THEN sid ELSE nextSid
  /\ UNCHANGED <<legs, leg, slots, conn, reaper, network>>

\* announceSession reads lg.ctl under the lock and writes after releasing it.
PickAnnounce ==
  /\ reader.pc = "tell"
  /\ reader' = [reader EXCEPT !.pc = "write", !.cc = leg[reader.lg].ctl]
  /\ UNCHANGED <<tables, slots, conn, reaper, network>>

Announce ==
  /\ reader.pc = "write" /\ reader.cc # None
  /\ Write(reader.cc, [kind |-> "SESSION", sid |-> reader.sid])
  /\ reader' = [reader EXCEPT !.pc = "push", !.cc = None]
  /\ UNCHANGED <<tables, slots, conn, reaper, peer, known, epoch>>

\* No connection any more, or the write failed: the session is taken back.
AnnounceFails ==
  LET cc == reader.cc IN
  /\ reader.pc = "write"
  /\ cc # None => WriteFails(cc)
  /\ conn' = IF cc = None THEN conn ELSE Closed(cc)
  /\ assocs' = [assocs EXCEPT ![reader.key] = None]
  /\ assoc' = IF assocs[reader.key] = None THEN assoc
              ELSE [assoc EXCEPT ![assocs[reader.key]] = Gone]
  /\ reader' = IdleReader
  /\ UNCHANGED <<legs, leg, nextSid, slots, reaper, network>>

PushUp ==
  /\ reader.pc = "push"
  /\ assoc' = [assoc EXCEPT ![reader.aid] = Pushed(@)]
  /\ reader' = IdleReader
  /\ UNCHANGED <<legs, leg, assocs, nextSid, slots, conn, reaper, network>>

Hello(b) ==
  /\ reader.pc = "idle"
  /\ \/ /\ legs[b] # None
        /\ leg' = [leg EXCEPT ![legs[b]].chall = TRUE]
        /\ UNCHANGED legs
     \/ /\ legs[b] = None /\ ~LegTableFull
        /\ \E l \in LegId \ LegRefs :
             /\ legs' = [legs EXCEPT ![b] = l]
             /\ leg' = [leg EXCEPT ![l] = [NewLeg(b) EXCEPT !.chall = TRUE]]
  /\ UNCHANGED <<assocs, assoc, nextSid, slots, conn, reader, reaper, network>>

\* A valid proof of the last challenge.  The guard legs[b] = lg makes a lookup
\* that has gone stale a no-op, so lookup and section are one action here.
Proof(b, src) ==
  LET l == legs[b]
      moved == leg[l].addr \notin {None, src}
      stale == IF moved THEN SessionsOf(b) ELSE {}
      rel == {<<l, assoc[a].sid>> : a \in {x \in stale : assoc[x].sid # 0}}
  IN
  /\ reader.pc = "idle" /\ l # None /\ leg[l].chall
  /\ leg' = [leg EXCEPT ![l].verified = TRUE, ![l].addr = src, ![l].age = 0]
  /\ assocs' = [k \in Key |-> IF assocs[k] \in stale THEN None ELSE assocs[k]]
  /\ assoc' = [a \in AssocId |-> IF a \in stale THEN Gone ELSE assoc[a]]
  /\ reader' = IF rel = {} THEN reader ELSE [IdleReader EXCEPT !.pc = "release", !.rel = rel]
  /\ UNCHANGED <<legs, nextSid, slots, conn, reaper, network>>

\* A keepalive that is accepted; the others are answered with AGAIN.
Keepalive(b, src) ==
  LET l == legs[b] IN
  /\ reader.pc = "idle" /\ Admitted(l)
  /\ \/ leg[l].addr = src
     \/ leg[l].addr = None /\ leg[l].ctl # None
  /\ leg' = [leg EXCEPT ![l].age = 0]
  /\ UNCHANGED <<legs, assocs, assoc, nextSid, slots, conn, reader, reaper, network>>

\* The releases Proof owes after unlocking.
ReaderPicksRelease ==
  /\ reader.pc = "release" /\ reader.sid = 0
  /\ \E x \in reader.rel :
       reader' = [reader EXCEPT !.cc = leg[x[1]].ctl, !.sid = x[2], !.rel = @ \ {x}]
  /\ UNCHANGED <<tables, slots, conn, reaper, network>>

AfterRelease(r) == IF r.rel = {} THEN IdleReader ELSE [r EXCEPT !.cc = None, !.sid = 0]

ReaderReleases ==
  LET cc == reader.cc IN
  /\ reader.pc = "release" /\ reader.sid # 0
  /\ reader' = AfterRelease(reader)
  /\ \/ cc = None /\ UNCHANGED <<conn, wire>>
     \/ cc # None /\ Write(cc, [kind |-> "RELEASE", sid |-> reader.sid]) /\ UNCHANGED conn
     \/ cc # None /\ WriteFails(cc) /\ conn' = Closed(cc) /\ UNCHANGED wire
  /\ UNCHANGED <<tables, slots, reaper, peer, known, epoch>>

-----------------------------------------------------------------------------
(* assocReadLoop: one goroutine per session *)

\* A valid marker for a numbered session: its cookie travelled with SESSION.
LegUp(a, src) ==
  /\ a \in LiveAssocs /\ assoc[a].sid # 0 /\ ~assoc[a].flush
  /\ <<assoc[a].sid, epoch>> \in known
  /\ assoc' = [assoc EXCEPT ![a] =
       [assoc[a] EXCEPT !.flush = @ \/ (assoc[a].authSrc = None), !.authSrc = src,
                        !.backend = src, !.proven = @ \cup {src},
                        !.idle = FALSE, !.silent = FALSE]]
  /\ UNCHANGED <<legs, leg, assocs, nextSid, slots, conn, reader, reaper, network>>

\* The second critical section of a first marker, and the buffered packets.
FlushPending(a) ==
  /\ a \in LiveAssocs /\ assoc[a].flush
  /\ assoc' = [assoc EXCEPT ![a].flush = FALSE, ![a].dialUp = FALSE, ![a].pend = 0]
  /\ UNCHANGED <<legs, leg, assocs, nextSid, slots, conn, reader, reaper, network>>

\* A packet for the client: from the proven source, or, without a number, from anyone.
Downstream(a) ==
  /\ a \in LiveAssocs /\ ~assoc[a].flush
  /\ assoc[a].sid = 0 \/ assoc[a].authSrc # None
  /\ assoc' = [assoc EXCEPT ![a].idle = FALSE, ![a].silent = FALSE]
  /\ UNCHANGED <<legs, leg, assocs, nextSid, slots, conn, reader, reaper, network>>

-----------------------------------------------------------------------------
(* reapLoop *)

\* Mutant: no DialWait watchdog.
ReapableWithoutDialWait(a) ==
  \/ assoc[a].idle
  \/ ~assoc[a].dialUp /\ assoc[a].silent

Reapable(a) ==
  \/ assoc[a].idle
  \/ assoc[a].dialUp /\ assoc[a].late
  \/ ~assoc[a].dialUp /\ assoc[a].silent

ReapSessions ==
  LET dead == {a \in LiveAssocs : Reapable(a)}
      rel == {<<legs[k[1]], assoc[assocs[k]].sid>> :
                k \in {x \in Key : /\ assocs[x] \in dead /\ assoc[assocs[x]].sid # 0
                                   /\ legs[x[1]] # None}}
  IN
  /\ reaper.pc = "idle" /\ dead # {}
  /\ assocs' = [k \in Key |-> IF assocs[k] \in dead THEN None ELSE assocs[k]]
  /\ assoc' = [a \in AssocId |-> IF a \in dead THEN Gone ELSE assoc[a]]
  /\ reaper' = [IdleReaper EXCEPT !.pc = IF rel = {} THEN "legs" ELSE "release", !.rel = rel]
  /\ UNCHANGED <<legs, leg, nextSid, slots, conn, reader, network>>

ReaperPicksRelease ==
  /\ reaper.pc = "release"
  /\ \E x \in reaper.rel :
       reaper' = [reaper EXCEPT !.pc = "write", !.cc = leg[x[1]].ctl, !.sid = x[2],
                                !.rel = @ \ {x}]
  /\ UNCHANGED <<tables, slots, conn, reader, network>>

ReaperReleases ==
  LET cc == reaper.cc IN
  /\ reaper.pc = "write"
  /\ reaper' = [IdleReaper EXCEPT !.pc = IF reaper.rel = {} THEN "legs" ELSE "release",
                                  !.rel = reaper.rel]
  /\ \/ cc = None /\ UNCHANGED <<conn, wire>>
     \/ cc # None /\ Write(cc, [kind |-> "RELEASE", sid |-> reaper.sid]) /\ UNCHANGED conn
     \/ cc # None /\ WriteFails(cc) /\ conn' = Closed(cc) /\ UNCHANGED wire
  /\ UNCHANGED <<tables, slots, reader, peer, known, epoch>>

Expired(l) ==
  IF leg[l].ctl = None /\ ~leg[l].verified /\ ~leg[l].ctlVerified
    THEN leg[l].age >= 1 ELSE leg[l].age = 2

\* The second half of a round; a round with nothing to reap starts here.
ReapLegs ==
  LET dead == {l \in MappedLegs : Expired(l)}
      labels == {b \in Label : legs[b] \in dead}
      lost == UNION {SessionsOf(b) : b \in labels}
  IN
  /\ reaper.pc = "legs" \/ (reaper.pc = "idle" /\ dead # {})
  /\ legs' = [b \in Label |-> IF b \in labels THEN None ELSE legs[b]]
  /\ assocs' = [k \in Key |-> IF k[1] \in labels THEN None ELSE assocs[k]]
  /\ assoc' = [a \in AssocId |-> IF a \in lost THEN Gone ELSE assoc[a]]
  /\ conn' = [c \in Conn |-> IF \E l \in dead : leg[l].ctl = c
                               THEN [conn[c] EXCEPT !.up = FALSE] ELSE conn[c]]
  /\ reaper' = IdleReaper
  /\ UNCHANGED <<leg, nextSid, slots, reader, network>>

-----------------------------------------------------------------------------
(* Time.  A goroutine takes less than any timeout between two of its       *)
(* critical sections, so what it is working on does not age meanwhile.     *)

HeldLeg(l) == reader.lg = l \/ \E c \in Conn : conn[c].lg = l /\ conn[c].pc \in {"mark", "attach"}

AgeLeg(b) ==
  LET l == legs[b] IN
  /\ "leg" \in Timers /\ l # None /\ ~HeldLeg(l) /\ leg[l].age < 2
  /\ leg' = [leg EXCEPT ![l].age = @ + 1, ![l].chall = FALSE]
  /\ UNCHANGED <<legs, assocs, assoc, nextSid, slots, conn, reader, reaper, network>>

Aging(a) == a \in LiveAssocs /\ reader.aid # a /\ ~assoc[a].flush

AgeIdle(a) ==
  /\ "idle" \in Timers /\ Aging(a) /\ ~assoc[a].idle
  /\ assoc' = [assoc EXCEPT ![a].idle = TRUE]
  /\ UNCHANGED <<legs, leg, assocs, nextSid, slots, conn, reader, reaper, network>>

AgeSilent(a) ==
  /\ "silent" \in Timers /\ Aging(a) /\ ~assoc[a].silent
  /\ assoc' = [assoc EXCEPT ![a].silent = TRUE]
  /\ UNCHANGED <<legs, leg, assocs, nextSid, slots, conn, reader, reaper, network>>

AgeDialWait(a) ==
  /\ "late" \in Timers /\ Aging(a) /\ assoc[a].dialUp /\ ~assoc[a].late
  /\ assoc' = [assoc EXCEPT ![a].late = TRUE]
  /\ UNCHANGED <<legs, leg, assocs, nextSid, slots, conn, reader, reaper, network>>

-----------------------------------------------------------------------------
(* The backend as the relay sees it: it reads its connection in order,     *)
(* clears its legs on OK, dials on SESSION, drops on RELEASE, and reaps    *)
(* legs that fall idle (ServerBind models how).                            *)

BackendReads(c) ==
  LET m == Head(wire[c]) IN
  /\ peer[c] # None /\ wire[c] # <<>>
  /\ wire' = [wire EXCEPT ![c] = Tail(@)]
  /\ known' = CASE m.kind = "OK" -> {}
                [] m.kind = "SESSION" -> {x \in known : x[1] # m.sid} \cup {<<m.sid, epoch>>}
                [] m.kind = "RELEASE" -> {x \in known : x[1] # m.sid}
  /\ UNCHANGED <<tables, slots, conn, reader, reaper, peer, epoch>>

BackendReaps ==
  /\ \E x \in known : known' = known \ {x}
  /\ UNCHANGED <<tables, slots, conn, reader, reaper, wire, peer, epoch>>

\* The backend's end closes: link failure, read timeout, or the relay's FIN.
BackendDrops(c) ==
  /\ peer[c] # None
  /\ peer' = [peer EXCEPT ![c] = None]
  /\ wire' = [wire EXCEPT ![c] = <<>>]
  /\ UNCHANGED <<tables, slots, conn, reader, reaper, known, epoch>>

\* Run returns (closeAll) and the role is started again with empty tables;
\* the backend keeps its legs until it reads the next OK.
Restart ==
  /\ epoch < MaxRestarts
  /\ epoch' = epoch + 1
  /\ legs' = [b \in Label |-> None] /\ leg' = [l \in LegId |-> NewLeg(None)]
  /\ assocs' = [k \in Key |-> None] /\ assoc' = [a \in AssocId |-> Gone]
  /\ nextSid' = 0 /\ ctlHandshaking' = 0 /\ ctlEstablished' = 0
  /\ conn' = [c \in Conn |-> NoConn]
  /\ reader' = IdleReader /\ reaper' = IdleReaper
  /\ wire' = [c \in Conn |-> <<>>] /\ peer' = [c \in Conn |-> None]
  /\ UNCHANGED known

-----------------------------------------------------------------------------
Serve(c) ==
  \/ HandshakeFails(c) \/ Admit(c)
  \/ SendOK(c) \/ SendOKFails(c) \/ FindLeg(c) \/ MarkVerified(c)
  \/ AttachControl(c) \/ CloseReplaced(c)
  \/ CollectReplay(c) \/ WriteReplay(c) \/ ReplayFails(c)
  \/ ReadEnds(c) \/ DetachControl(c) \/ CleanOrphan(c)

ReaderSteps ==
  \/ ForwardUp \/ PickAnnounce \/ Announce \/ AnnounceFails \/ PushUp
  \/ ReaderPicksRelease \/ ReaderReleases

ReaperSteps == ReapSessions \/ ReaperPicksRelease \/ ReaperReleases \/ ReapLegs

Packets ==
  \/ \E b \in Label, k \in Client : ReceivePacket(b, k)
  \/ \E b \in Label : Hello(b)
  \/ \E b \in Label, src \in Addr : Proof(b, src) \/ Keepalive(b, src)

SessionSteps ==
  \E a \in AssocId :
    \/ \E src \in Src : LegUp(a, src)
    \/ FlushPending(a) \/ Downstream(a)

Time ==
  \/ \E b \in Label : AgeLeg(b)
  \/ \E a \in AssocId : AgeIdle(a) \/ AgeSilent(a) \/ AgeDialWait(a)

Backend ==
  \/ \E c \in Conn, b \in Label : Accept(c, b)
  \/ \E c \in Conn : BackendReads(c) \/ BackendDrops(c) \/ ReadKeepalive(c)
  \/ BackendReaps

Next ==
  \/ \E c \in Conn : Serve(c)
  \/ ReaderSteps \/ ReaperSteps \/ Packets \/ SessionSteps \/ Time \/ Backend \/ Restart

Spec == Init /\ [][Next]_vars

-----------------------------------------------------------------------------
(* Fairness: goroutines run, connections fail only to be noticed, packets  *)
(* are optional, and time passes.                                          *)

Fairness ==
  /\ \A c \in Conn : WF_vars(Serve(c))
  /\ \A c \in Conn : WF_vars(BackendReads(c))
  /\ WF_vars(ReaderSteps)
  /\ WF_vars(ReaperSteps)
  /\ \A a \in AssocId : /\ WF_vars(FlushPending(a))
                        /\ WF_vars(AgeDialWait(a))
                        /\ WF_vars(AgeSilent(a))

FairSpec == Spec /\ Fairness

-----------------------------------------------------------------------------
(* Properties *)

Attached == {"close", "replay", "write", "read"}

\* An open connection past its attachment is the one its leg announces on, or
\* its replacement is about to close it: two connections of one backend never
\* stay open side by side, and a late exit of the old goroutine never unhooks
\* the new connection (attachControl, detachControl).
ServedIsCurrent ==
  \A c \in Conn :
    conn[c].pc \in Attached /\ conn[c].up =>
      \/ leg[conn[c].lg].ctl = c
      \/ \E d \in Conn : conn[d].pc = "close" /\ conn[d].prev = c

\* A leg never announces on a connection nobody serves: whatever ended it, its
\* goroutine is still on the way to detachControl (controlConn's defers).
NoDanglingControl ==
  \A l \in LegId :
    LET c == leg[l].ctl IN
    c # None => conn[c].lg = l /\ conn[c].pc \in Attached \cup {"detach"}

\* The two counters are what the goroutines really hold: no path out of
\* controlConn leaks a handshake slot or a connection slot, or frees it twice,
\* and a connection past its handshake no longer blocks new handshakes.
SlotsMatchGoroutines ==
  /\ ctlHandshaking = Cardinality({c \in Conn : conn[c].pc \in {"shake", "ok"}})
  /\ ctlEstablished = Cardinality({c \in Conn : conn[c].pc \notin {"none", "shake"}})
  /\ ctlEstablished <= MaxCtlConns

\* The books of the control connections are right: the counters, and which
\* connection each leg announces on.
ConnectionsAreAccounted == SlotsMatchGoroutines /\ NoDanglingControl

\* Both registration paths respect MaxLegs, and forwardUp, also when it
\* rebuilds a session whose backend moved, respects MaxPerPeer.
TablesWithinLimits ==
  /\ Cardinality(MappedLegs) <= MaxLegs
  /\ \A b \in Label : Cardinality(SessionsOf(b)) <= MaxPerPeer

\* Session numbers identify sessions: two live sessions never share one, across
\* new sessions, promotions, rollbacks and repeated replays.
SidsUnique ==
  \A x, y \in LiveAssocs : x # y /\ assoc[x].sid # 0 => assoc[x].sid # assoc[y].sid

\* What the sessions of all backends share is kept apart: their numbers and the
\* places in the tables.
SessionsFit == TablesWithinLimits /\ SidsUnique

\* A dialled session that no longer buffers sends only to a source that has
\* shown a cookie of the session (assocReadLoop, forwardUp, replaySessions).
UplinkGoesToProvenLeg ==
  \A a \in LiveAssocs :
    assoc[a].sid # 0 /\ ~assoc[a].dialUp => assoc[a].backend \in assoc[a].proven

\* A leg whose control connection is being served stays in the leg table:
\* leg.go:73-77 says an attached connection must never end up on an object
\* outside the map.
ControlledLegIsMapped ==
  \A c \in Conn :
    LET l == conn[c].lg IN
    conn[c].pc = "read" /\ conn[c].up /\ peer[c] # None /\ leg[l].ctl = c
      => legs[leg[l].label] = l

\* What the code does not keep: no session points at the zero address once it
\* stops buffering; assoc.go:54-56 says such a session is dead and is never built.
NoDeadSession ==
  \A a \in LiveAssocs : ~assoc[a].dialUp => assoc[a].backend # None

\* A session never waits for its leg for good, however long the client keeps
\* sending: it is proven, taken back or reclaimed (the DialWait watchdog).
WaitingEnds ==
  \A a \in AssocId :
    []<>~(a \in LiveAssocs /\ assoc[a].dialUp)

\* A connection whose peer is gone, or that was replaced or expired, always
\* finds its way out of controlConn and gives its slots back (as long as the
\* bound MaxSid leaves numbers for a replay).
LostConnectionLeaves ==
  \A c \in Conn :
    []<>(peer[c] = None \/ ~conn[c].up => conn[c].pc = "none" \/ nextSid = MaxSid)

\* Neither a session nor a connection hangs in the relay.
NothingHangs == WaitingEnds /\ LostConnectionLeaves

=============================================================================
