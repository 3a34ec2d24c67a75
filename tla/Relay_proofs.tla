---------------------------- MODULE Relay_proofs -----------------------------
(* Theorems about Relay, for any sets of backends, clients, connections and          *)
(* addresses, any pools of objects and any limits; and about Registration, for any    *)
(* sets of challenges and any bounds.                                               *)
EXTENDS Relay, Registration, FiniteSetTheorems, TLAPS

-----------------------------------------------------------------------------
(* The inductive invariant, part by part. *)

\* Who holds a handshake slot and who a connection slot (handshaking and
\* established of controlConn are the flags hs and est).
Shaking == {c \in Conn : conn[c].pc \in {"shake", "ok"}}
Holding == {c \in Conn : conn[c].pc \notin {"none", "shake"}}

Flags ==
  \A c \in Conn :
    /\ conn[c].hs <=> c \in Shaking
    /\ conn[c].est <=> c \in Holding

Counted ==
  /\ IsFiniteSet(Shaking) /\ ctlHandshaking = Cardinality(Shaking)
  /\ IsFiniteSet(Holding) /\ ctlEstablished = Cardinality(Holding)
  /\ ctlEstablished <= MaxCtlConns

\* What each goroutine has in hand where it is.
Early == {"none", "shake", "ok", "find"}
InHand ==
  /\ \A c \in Conn : /\ conn[c].pc # "none" => conn[c].label \in Label
                     /\ conn[c].pc \notin Early => conn[c].lg \in LegId
  /\ reader.pc \in {"up", "tell", "write", "push"} => reader.key \in Key /\ reader.lg \in LegId
  /\ reader.pc \in {"tell", "write", "push"} => reader.aid \in AssocId /\ reader.sid # 0
  /\ reaper.pc = "write" => reaper.sid # 0

Typed == TypeOK /\ Flags /\ InHand

-----------------------------------------------------------------------------
(* Types *)

LEMMA LimitsAreNumbers ==
  /\ MaxLegs \in Nat \ {0} /\ MaxPerPeer \in Nat \ {0} /\ MaxCtlConns \in Nat \ {0}
  /\ CtlHandshakeMax \in Nat \ {0} /\ CtlPendMax \in Nat \ {0}
  /\ MaxSid \in Nat /\ MaxRestarts \in Nat /\ MaxWire \in Nat
BY LimitsAssumption

LEMMA BlankTypes ==
  /\ \A b \in Label \cup {None} : NewLeg(b) \in Leg
  /\ \A s \in Addr \cup Src \cup {None}, n \in 0 .. MaxSid : NewAssoc(s, n) \in Assoc
  /\ Gone \in Assoc
  /\ NoConn \in Goroutine
  /\ IdleReader \in Reader
  /\ IdleReaper \in Reaper
<1> USE LimitsAreNumbers
<1>1. \A b \in Label \cup {None} : NewLeg(b) \in Leg
  BY DEF NewLeg, Leg
<1>2. \A s \in Addr \cup Src \cup {None}, n \in 0 .. MaxSid : NewAssoc(s, n) \in Assoc
  BY DEF NewAssoc, Assoc
<1>3. Gone \in Assoc
  BY <1>2 DEF Gone
<1>4. NoConn \in Goroutine
  BY DEF NoConn, Goroutine, Pc
<1>5. IdleReader \in Reader
  BY DEF IdleReader, Reader, Releases
<1>6. IdleReaper \in Reaper
  BY DEF IdleReaper, Reaper, Releases
<1> QED BY <1>1, <1>2, <1>3, <1>4, <1>5, <1>6

\* One field of a record changed to a value of its type.
LEMMA GoroutineUpdates ==
  ASSUME NEW g \in Goroutine
  PROVE  /\ \A p \in Pc : [g EXCEPT !.pc = p] \in Goroutine
         /\ \A l \in LegId \cup {None} : [g EXCEPT !.lg = l] \in Goroutine
         /\ \A d \in Conn \cup {None} : [g EXCEPT !.prev = d] \in Goroutine
         /\ \A o \in SUBSET (AssocId \X (1 .. MaxSid)) : [g EXCEPT !.out = o] \in Goroutine
         /\ \A u \in BOOLEAN : /\ [g EXCEPT !.up = u] \in Goroutine
                               /\ [g EXCEPT !.hs = u] \in Goroutine
                               /\ [g EXCEPT !.est = u] \in Goroutine
BY DEF Goroutine

LEMMA LegUpdates ==
  ASSUME NEW l \in Leg
  PROVE  /\ \A s \in Addr \cup {None} : [l EXCEPT !.addr = s] \in Leg
         /\ \A c \in Conn \cup {None} : [l EXCEPT !.ctl = c] \in Leg
         /\ \A n \in 0 .. 2 : [l EXCEPT !.age = n] \in Leg
         /\ \A u \in BOOLEAN : /\ [l EXCEPT !.verified = u] \in Leg
                               /\ [l EXCEPT !.ctlVerified = u] \in Leg
                               /\ [l EXCEPT !.chall = u] \in Leg
BY DEF Leg

LEMMA AssocUpdates ==
  ASSUME NEW a \in Assoc
  PROVE  /\ \A s \in Src : [a EXCEPT !.backend = s] \in Assoc
         /\ \A s \in Src \cup {None} : [a EXCEPT !.authSrc = s] \in Assoc
         /\ \A s \in SUBSET Src : [a EXCEPT !.proven = s] \in Assoc
         /\ \A n \in 0 .. MaxSid : [a EXCEPT !.sid = n] \in Assoc
         /\ \A n \in 0 .. CtlPendMax : [a EXCEPT !.pend = n] \in Assoc
         /\ \A u \in BOOLEAN : /\ [a EXCEPT !.dialed = u] \in Assoc
                               /\ [a EXCEPT !.dialUp = u] \in Assoc
                               /\ [a EXCEPT !.flush = u] \in Assoc
                               /\ [a EXCEPT !.idle = u] \in Assoc
                               /\ [a EXCEPT !.silent = u] \in Assoc
                               /\ [a EXCEPT !.late = u] \in Assoc
BY DEF Assoc

LEMMA ReaderUpdates ==
  ASSUME NEW r \in Reader
  PROVE  /\ \A p \in {"idle", "up", "tell", "write", "push", "release"} : [r EXCEPT !.pc = p] \in Reader
         /\ \A k \in Key \cup {None} : [r EXCEPT !.key = k] \in Reader
         /\ \A l \in LegId \cup {None} : [r EXCEPT !.lg = l] \in Reader
         /\ \A c \in Conn \cup {None} : [r EXCEPT !.cc = c] \in Reader
         /\ \A a \in AssocId \cup {None} : [r EXCEPT !.aid = a] \in Reader
         /\ \A n \in 0 .. MaxSid : [r EXCEPT !.sid = n] \in Reader
         /\ \A s \in Releases : [r EXCEPT !.rel = s] \in Reader
BY DEF Reader

LEMMA ReaperUpdates ==
  ASSUME NEW r \in Reaper
  PROVE  /\ \A p \in {"idle", "release", "write", "legs"} : [r EXCEPT !.pc = p] \in Reaper
         /\ \A c \in Conn \cup {None} : [r EXCEPT !.cc = c] \in Reaper
         /\ \A n \in 0 .. MaxSid : [r EXCEPT !.sid = n] \in Reaper
         /\ \A s \in Releases : [r EXCEPT !.rel = s] \in Reaper
BY DEF Reaper

\* What becomes of a session record: numbered, taken back, one packet more.
LEMMA SessionUpdates ==
  ASSUME NEW a \in Assoc
  PROVE  /\ \A n \in 0 .. MaxSid : Promoted(a, n) \in Assoc
         /\ Demoted(a) \in Assoc
         /\ Pushed(a) \in Assoc
<1> USE LimitsAreNumbers
<1>1. \A n \in 0 .. MaxSid : Promoted(a, n) \in Assoc
  BY AssocUpdates DEF Promoted
<1>2. Demoted(a) \in Assoc
  <2>1. 0 \in 0 .. MaxSid
    OBVIOUS
  <2> QED BY <2>1, AssocUpdates DEF Demoted
<1>3. Pushed(a) \in Assoc
  <2>1. a.pend \in 0 .. CtlPendMax
    BY DEF Assoc
  <2>2. a.pend < CtlPendMax => a.pend + 1 \in 0 .. CtlPendMax
    BY <2>1
  <2> QED BY <2>2, AssocUpdates DEF Pushed
<1> QED BY <1>1, <1>2, <1>3

LEMMA TypeInit == Init => Typed
<1> SUFFICES ASSUME Init PROVE Typed
  OBVIOUS
<1> USE LimitsAreNumbers
<1>1. TypeOK
  BY BlankTypes DEF Init, TypeOK
<1>2. Flags
  BY DEF Init, Flags, Shaking, Holding, NoConn
<1>3. InHand
  BY DEF Init, InHand, NoConn, IdleReader, IdleReaper, Early
<1> QED BY <1>1, <1>2, <1>3 DEF Typed

\* Writing and leaving keep the types of what they touch.
LEMMA WriteTypes ==
  ASSUME TypeOK, NEW c \in Conn, NEW m \in Msg, Write(c, m)
  PROVE  wire' \in [Conn -> Seq(Msg)]
BY DEF TypeOK, Write

LEMMA LeaveTypes ==
  ASSUME Typed, Counted, NEW c \in Conn, Leave(c)
  PROVE  /\ conn' \in [Conn -> Goroutine]
         /\ ctlHandshaking' \in 0 .. CtlHandshakeMax
         /\ ctlEstablished' \in Nat
<1>1. conn' \in [Conn -> Goroutine]
  BY BlankTypes DEF Typed, TypeOK, Leave
<1>2. ctlHandshaking' \in 0 .. CtlHandshakeMax
  <2>1. CASE conn[c].hs
    <3>1. c \in Shaking
      BY <2>1 DEF Typed, Flags
    <3>2. Cardinality(Shaking) # 0
      BY <3>1, FS_EmptySet DEF Counted
    <3> QED BY <2>1, <3>2, LimitsAreNumbers DEF Typed, TypeOK, Leave, Counted
  <2>2. CASE ~conn[c].hs
    BY <2>2 DEF Typed, TypeOK, Leave
  <2> QED BY <2>1, <2>2
<1>3. ctlEstablished' \in Nat
  <2>1. CASE conn[c].est
    <3>1. c \in Holding
      BY <2>1 DEF Typed, Flags
    <3>2. Cardinality(Holding) # 0
      BY <3>1, FS_EmptySet DEF Counted
    <3> QED BY <2>1, <3>2, LimitsAreNumbers DEF Typed, TypeOK, Leave, Counted
  <2>2. CASE ~conn[c].est
    BY <2>2 DEF Typed, TypeOK, Leave
  <2> QED BY <2>1, <2>2
<1> QED BY <1>1, <1>2, <1>3

\* The limits, and what they rest on: a session object serves one client.
Fit ==
  /\ IsFiniteSet(MappedLegs) /\ Cardinality(MappedLegs) <= MaxLegs
  /\ \A b \in Label : IsFiniteSet(SessionsOf(b)) /\ Cardinality(SessionsOf(b)) <= MaxPerPeer
  /\ \A k, m \in Key : assocs[k] # None /\ assocs[k] = assocs[m] => k = m

\* The sessions of a backend are session objects.
LEMMA SessionsAreAssocs ==
  ASSUME TypeOK, NEW b \in Label
  PROVE  SessionsOf(b) \subseteq AssocId
<1>1. assocs \in [Key -> AssocId \cup {None}]
  BY DEF TypeOK
<1>2. \A k \in Client : assocs[<<b, k>>] \in AssocId \cup {None}
  BY <1>1 DEF Key
<1> QED BY <1>2 DEF SessionsOf

\* What a replay hands out and collects: numbered sessions, each with its number.
LEMMA ReplayTypes ==
  ASSUME Typed, Fit, NEW c \in Conn, CollectReplay(c)
  PROVE  /\ assoc' \in [AssocId -> Assoc]
         /\ nextSid' \in 0 .. MaxSid /\ nextSid' >= nextSid
         /\ conn' \in [Conn -> Goroutine]
<1> USE LimitsAreNumbers DEF Typed
<1> DEFINE mine == SessionsOf(conn[c].label)
           fallback == {a \in mine : assoc[a].sid = 0}
<1>1. conn[c].label \in Label
  BY DEF CollectReplay, InHand
<1>2. mine \subseteq AssocId
  BY <1>1, SessionsAreAssocs
<1>3. nextSid + Cardinality(fallback) <= MaxSid /\ nextSid' = nextSid + Cardinality(fallback)
  BY DEF CollectReplay
<1>4. Cardinality(fallback) \in Nat
  <2>1. IsFiniteSet(mine)
    BY <1>1 DEF Fit
  <2> QED BY <2>1, FS_Subset, FS_CardinalityType
<1>5. nextSid' \in 0 .. MaxSid /\ nextSid' >= nextSid
  BY <1>3, <1>4 DEF TypeOK
<1>6. PICK number \in [fallback -> (nextSid + 1) .. nextSid'] :
        assoc' = [a \in AssocId |-> IF a \in fallback THEN Promoted(assoc[a], number[a])
                                    ELSE assoc[a]]
  BY DEF CollectReplay
<1>7. \A a \in fallback : number[a] \in 1 .. MaxSid
  BY <1>5 DEF TypeOK
<1>8. assoc' \in [AssocId -> Assoc]
  <2>1. \A a \in fallback : Promoted(assoc[a], number[a]) \in Assoc
    <3>1. \A a \in fallback : assoc[a] \in Assoc /\ number[a] \in 0 .. MaxSid
      BY <1>2, <1>7 DEF TypeOK
    <3> QED BY <3>1, SessionUpdates
  <2> QED BY <1>6, <2>1 DEF TypeOK
<1>9. \A a \in mine : assoc'[a].sid \in 1 .. MaxSid
  <2>1. ASSUME NEW a \in fallback PROVE assoc'[a].sid = number[a]
    <3>1. assoc[a] \in Assoc
      BY <1>2 DEF TypeOK
    <3> QED BY <1>2, <1>6, <3>1 DEF Promoted, Assoc
  <2>2. ASSUME NEW a \in mine \ fallback PROVE assoc'[a].sid \in 1 .. MaxSid
    <3>1. assoc[a] \in Assoc /\ assoc'[a] = assoc[a] /\ assoc[a].sid # 0
      BY <1>2, <1>6 DEF TypeOK
    <3> QED BY <3>1 DEF Assoc
  <2> QED BY <1>7, <2>1, <2>2
<1> DEFINE out == {<<a, assoc'[a].sid>> : a \in mine}
<1>10. out \in SUBSET (AssocId \X (1 .. MaxSid))
  BY <1>2, <1>9
<1>11. conn' = [conn EXCEPT ![c].pc = IF mine = {} THEN "read" ELSE "write", ![c].out = out]
  BY DEF CollectReplay
<1>12. conn' \in [Conn -> Goroutine]
  <2> HIDE DEF out, mine
  <2> QED BY <1>10, <1>11, GoroutineUpdates DEF TypeOK, Pc
<1> QED BY <1>5, <1>8, <1>12

-----------------------------------------------------------------------------
(* Every action keeps the types. *)

LEMMA ServeTypes ==
  ASSUME Typed, Counted, Fit, NEW c \in Conn, Serve(c)
  PROVE  TypeOK'
<1> USE LimitsAreNumbers DEF Typed
<1>1. CASE HandshakeFails(c)
  BY <1>1, LeaveTypes DEF HandshakeFails, TypeOK, tables, network
<1>2. CASE Admit(c)
  <2>1. conn' \in [Conn -> Goroutine]
    BY <1>2, GoroutineUpdates DEF Admit, TypeOK, Pc
  <2>2. ctlEstablished' \in 0 .. MaxCtlConns
    BY <1>2 DEF Admit, TypeOK
  <2>3. UNCHANGED <<tables, ctlHandshaking, reader, reaper, network>>
    BY <1>2 DEF Admit
  <2> QED BY <2>1, <2>2, <2>3 DEF TypeOK, tables, network
<1>3. CASE SendOK(c)
  <2>1. [kind |-> "OK"] \in Msg
    BY DEF Msg
  <2>2. wire' \in [Conn -> Seq(Msg)]
    BY <1>3, <2>1, WriteTypes DEF SendOK
  <2>3. ctlHandshaking' \in 0 .. CtlHandshakeMax
    <3>1. c \in Shaking
      BY <1>3 DEF SendOK, Shaking
    <3>2. Cardinality(Shaking) # 0
      BY <3>1, FS_EmptySet DEF Counted
    <3> QED BY <1>3, <3>2 DEF SendOK, TypeOK, Counted
  <2>4. conn' \in [Conn -> Goroutine]
    BY <1>3, GoroutineUpdates DEF SendOK, TypeOK, Pc
  <2> QED BY <1>3, <2>2, <2>3, <2>4 DEF SendOK, TypeOK, tables
<1>4. CASE SendOKFails(c)
  BY <1>4, LeaveTypes DEF SendOKFails, TypeOK, tables, network
<1>5. CASE FindLeg(c)
  <2>1. conn[c].label \in Label
    BY <1>5 DEF FindLeg, InHand
  <2>2. CASE legs[conn[c].label] # None
    <3>1. legs[conn[c].label] \in LegId
      BY <2>1, <2>2 DEF TypeOK
    <3>2. conn' = [conn EXCEPT ![c].pc = "mark", ![c].lg = legs[conn[c].label]]
      BY <1>5, <2>2 DEF FindLeg
    <3>3. conn' \in [Conn -> Goroutine]
      BY <3>1, <3>2, GoroutineUpdates DEF TypeOK, Pc
    <3> QED BY <1>5, <2>2, <3>3 DEF FindLeg, TypeOK, slots, network
  <2>3. CASE legs[conn[c].label] = None /\ ~LegTableFull
    <3>1. PICK l \in LegId \ LegRefs :
            /\ legs' = [legs EXCEPT ![conn[c].label] = l]
            /\ leg' = [leg EXCEPT ![l] = NewLeg(conn[c].label)]
            /\ conn' = [conn EXCEPT ![c].pc = "mark", ![c].lg = l]
      BY <1>5, <2>3 DEF FindLeg
    <3>2. legs' \in [Label -> LegId \cup {None}] /\ leg' \in [LegId -> Leg]
      BY <2>1, <3>1, BlankTypes DEF TypeOK
    <3>3. conn' \in [Conn -> Goroutine]
      BY <3>1, GoroutineUpdates DEF TypeOK, Pc
    <3> QED BY <1>5, <2>3, <3>2, <3>3 DEF FindLeg, TypeOK, slots, network
  <2>4. CASE legs[conn[c].label] = None /\ LegTableFull
    BY <1>5, <2>4, LeaveTypes DEF FindLeg, TypeOK, network
  <2> QED BY <2>2, <2>3, <2>4
<1>6. CASE MarkVerified(c)
  <2>1. leg' \in [LegId -> Leg]
    <3>1. leg[conn[c].lg] \in Leg
      BY <1>6 DEF MarkVerified, InHand, Early, TypeOK
    <3> DEFINE marked == [leg[conn[c].lg] EXCEPT !.ctlVerified = TRUE]
    <3>2. marked \in Leg
      BY <3>1, LegUpdates
    <3>3. leg' = [leg EXCEPT ![conn[c].lg] = [marked EXCEPT !.age = 0]]
      BY <1>6 DEF MarkVerified
    <3> HIDE DEF marked
    <3>4. 0 \in 0 .. 2
      OBVIOUS
    <3>5. [marked EXCEPT !.age = 0] \in Leg
      BY <3>2, <3>4, LegUpdates
    <3> QED BY <3>3, <3>5 DEF TypeOK
  <2>2. conn' \in [Conn -> Goroutine]
    BY <1>6, GoroutineUpdates DEF MarkVerified, Goto, TypeOK, Pc
  <2> QED BY <1>6, <2>1, <2>2 DEF MarkVerified, TypeOK, slots, network
<1>7. CASE AttachControl(c)
  <2>1. conn[c].lg \in LegId
    BY <1>7 DEF AttachControl, InHand, Early
  <2>2. leg' \in [LegId -> Leg]
    BY <1>7, LegUpdates DEF AttachControl, TypeOK
  <2>3. leg[conn[c].lg].ctl \in Conn \cup {None}
    BY <2>1 DEF TypeOK, Leg
  <2>4. conn' \in [Conn -> Goroutine]
    BY <1>7, <2>3, GoroutineUpdates DEF AttachControl, TypeOK, Pc
  <2> QED BY <1>7, <2>2, <2>4 DEF AttachControl, TypeOK, slots, network
<1>8. CASE CloseReplaced(c)
  <2>1. conn' \in [Conn -> Goroutine]
    BY <1>8, GoroutineUpdates DEF CloseReplaced, TypeOK, Pc
  <2> QED BY <1>8, <2>1 DEF CloseReplaced, TypeOK, tables, slots, network
<1>9. CASE CollectReplay(c)
  BY <1>9, ReplayTypes DEF CollectReplay, TypeOK, slots, network
<1>10. CASE WriteReplay(c)
  <2>1. PICK x \in conn[c].out :
          /\ Write(c, [kind |-> "SESSION", sid |-> x[2]])
          /\ conn' = [conn EXCEPT ![c].pc = IF conn[c].out = {x} THEN "read" ELSE "write",
                                  ![c].out = @ \ {x}]
    BY <1>10 DEF WriteReplay
  <2>2. conn[c].out \in SUBSET (AssocId \X (1 .. MaxSid))
    BY DEF TypeOK, Goroutine
  <2>3. [kind |-> "SESSION", sid |-> x[2]] \in Msg
    BY <2>2 DEF Msg
  <2>4. wire' \in [Conn -> Seq(Msg)]
    BY <2>1, <2>3, WriteTypes
  <2>5. conn' \in [Conn -> Goroutine]
    <3> DEFINE at == IF conn[c].out = {x} THEN "read" ELSE "write"
    <3> DEFINE rest == conn[c].out \ {x}
    <3>1. at \in Pc /\ rest \in SUBSET (AssocId \X (1 .. MaxSid))
      BY <2>2 DEF Pc
    <3>2. conn' = [conn EXCEPT ![c].pc = at, ![c].out = rest]
      BY <2>1
    <3> HIDE DEF at, rest
    <3> QED BY <3>1, <3>2, GoroutineUpdates DEF TypeOK
  <2> QED BY <1>10, <2>4, <2>5 DEF WriteReplay, TypeOK, tables, slots
<1>11. CASE ReplayFails(c)
  <2>1. assoc' \in [AssocId -> Assoc]
    BY <1>11, SessionUpdates DEF ReplayFails, TypeOK
  <2>2. conn' \in [Conn -> Goroutine]
    BY <1>11, GoroutineUpdates DEF ReplayFails, TypeOK, Pc
  <2> QED BY <1>11, <2>1, <2>2 DEF ReplayFails, TypeOK, slots, network
<1>12. CASE ReadEnds(c)
  BY <1>12, GoroutineUpdates DEF ReadEnds, Goto, TypeOK, tables, slots, network, Pc
<1>13. CASE DetachControl(c)
  <2>1. leg' \in [LegId -> Leg]
    BY <1>13, LegUpdates DEF DetachControl, TypeOK
  <2>2. conn' \in [Conn -> Goroutine]
    BY <1>13, GoroutineUpdates DEF DetachControl, Goto, TypeOK, Pc
  <2> QED BY <1>13, <2>1, <2>2 DEF DetachControl, TypeOK, slots, network
<1>14. CASE CleanOrphan(c)
  <2>1. legs' \in [Label -> LegId \cup {None}]
    BY <1>14 DEF CleanOrphan, TypeOK
  <2> QED BY <1>14, <2>1, LeaveTypes DEF CleanOrphan, TypeOK, network
<1> QED BY <1>1, <1>2, <1>3, <1>4, <1>5, <1>6, <1>7, <1>8, <1>9, <1>10, <1>11, <1>12,
           <1>13, <1>14 DEF Serve

\* A failed write closes the socket it failed on.
LEMMA ClosedTypes ==
  ASSUME TypeOK, NEW c \in Conn
  PROVE  Closed(c) \in [Conn -> Goroutine]
BY GoroutineUpdates DEF TypeOK, Closed

\* A release is written, falls on a connection that is gone, or fails.
LEMMA ReleaseTypes ==
  ASSUME TypeOK, NEW cc \in Conn \cup {None}, NEW n \in 1 .. MaxSid,
         \/ cc = None /\ UNCHANGED <<conn, wire>>
         \/ cc # None /\ Write(cc, [kind |-> "RELEASE", sid |-> n]) /\ UNCHANGED conn
         \/ cc # None /\ WriteFails(cc) /\ conn' = Closed(cc) /\ UNCHANGED wire
  PROVE  wire' \in [Conn -> Seq(Msg)] /\ conn' \in [Conn -> Goroutine]
<1>1. [kind |-> "RELEASE", sid |-> n] \in Msg
  BY DEF Msg
<1> QED BY <1>1, WriteTypes, ClosedTypes DEF TypeOK

LEMMA ForwardTypes ==
  ASSUME Typed, ForwardUp
  PROVE  TypeOK'
<1> USE LimitsAreNumbers DEF Typed
<1> DEFINE key == reader.key
           lg == leg[reader.lg]
           old == assocs[key]
           sid == IF lg.ctl # None THEN nextSid + 1 ELSE 0
<1>1. key \in Key /\ lg \in Leg
  BY DEF ForwardUp, InHand, TypeOK
<1>2. old \in AssocId \cup {None} /\ assocs \in [Key -> AssocId \cup {None}]
  BY <1>1 DEF TypeOK
<1>3. assoc \in [AssocId -> Assoc] /\ nextSid \in 0 .. MaxSid
  BY DEF TypeOK
<1>4. SUFFICES /\ assocs' \in [Key -> AssocId \cup {None}]
               /\ assoc' \in [AssocId -> Assoc]
               /\ nextSid' \in 0 .. MaxSid
               /\ reader' \in Reader
  BY DEF ForwardUp, TypeOK, slots, network
<1> DEFINE Kept == /\ old # None
                   /\ assoc' = [assoc EXCEPT ![old] = Pushed([@ EXCEPT !.idle = FALSE])]
                   /\ reader' = IdleReader
                   /\ UNCHANGED <<assocs, nextSid>>
           Refused == /\ assocs' = [assocs EXCEPT ![key] = None]
                      /\ assoc' = [assoc EXCEPT ![old] = Gone] \/ assoc' = assoc
                      /\ reader' = IdleReader
                      /\ UNCHANGED nextSid
           Built(a, gone) ==
             /\ sid <= MaxSid
             /\ assocs' = [assocs EXCEPT ![key] = a]
             /\ assoc' = [x \in AssocId |-> IF x = a THEN NewAssoc(lg.addr, sid)
                                            ELSE IF gone /\ x = old THEN Gone ELSE assoc[x]]
             /\ reader' = IF sid = 0 THEN IdleReader
                          ELSE [reader EXCEPT !.pc = "tell", !.aid = a, !.sid = sid]
             /\ nextSid' = IF sid # 0 THEN sid ELSE nextSid
<1>5. CASE Kept
  <2>1. assoc[old] \in Assoc
    BY <1>2, <1>3, <1>5
  <2>2. [assoc[old] EXCEPT !.idle = FALSE] \in Assoc
    BY <2>1, AssocUpdates
  <2>3. Pushed([assoc[old] EXCEPT !.idle = FALSE]) \in Assoc
    BY <2>2, SessionUpdates
  <2> QED BY <1>2, <1>3, <1>5, <2>3, BlankTypes
<1>6. CASE Refused
  BY <1>1, <1>2, <1>3, <1>6, BlankTypes
<1>7. ASSUME NEW a \in AssocId, NEW gone \in BOOLEAN, Built(a, gone)
      PROVE  /\ assocs' \in [Key -> AssocId \cup {None}]
             /\ assoc' \in [AssocId -> Assoc]
             /\ nextSid' \in 0 .. MaxSid
             /\ reader' \in Reader
  <2>1. sid \in 0 .. MaxSid
    BY <1>3, <1>7
  <2>2. NewAssoc(lg.addr, sid) \in Assoc
    <3>1. lg.addr \in Addr \cup Src \cup {None}
      BY <1>1 DEF Leg
    <3> QED BY <2>1, <3>1, BlankTypes
  <2>3. assoc' \in [AssocId -> Assoc]
    BY <1>3, <1>7, <2>2, BlankTypes
  <2>4. reader' \in Reader
    <3>1. reader \in Reader
      BY DEF TypeOK
    <3> HIDE DEF sid
    <3>2. [[[reader EXCEPT !.pc = "tell"] EXCEPT !.aid = a] EXCEPT !.sid = sid] \in Reader
      BY <2>1, <3>1, ReaderUpdates
    <3> QED BY <1>7, <3>2, BlankTypes
  <2> HIDE DEF sid
  <2> QED BY <1>2, <1>3, <1>7, <2>1, <2>3, <2>4
<1>8. Kept \/ Refused \/ \E a \in AssocId, gone \in BOOLEAN : Built(a, gone)
  <2> DEFINE moved == old # None /\ ~assoc[old].dialed /\ assoc[old].backend # lg.addr
  <2>1. moved \in BOOLEAN
    OBVIOUS
  <2>2. CASE old # None /\ ~moved
    BY <2>2 DEF ForwardUp
  <2>3. ASSUME UNCHANGED nextSid,
               assocs' = [assocs EXCEPT ![key] = None],
               assoc' = IF moved THEN [assoc EXCEPT ![old] = Gone] ELSE assoc,
               reader' = IdleReader
        PROVE  Refused
    <3>1. CASE moved
      BY <2>3, <3>1
    <3>2. CASE ~moved
      BY <2>3, <3>2
    <3> QED BY <3>1, <3>2
  <2>4. CASE \E a \in AssocId : Built(a, moved)
    BY <2>1, <2>4
  <2> QED BY <2>2, <2>3, <2>4 DEF ForwardUp
<1> HIDE DEF Kept, Refused, Built
<1> QED BY <1>5, <1>6, <1>7, <1>8

LEMMA ReaderTypes ==
  ASSUME Typed, ReaderSteps
  PROVE  TypeOK'
<1> USE LimitsAreNumbers DEF Typed
<1>1. reader \in Reader /\ leg \in [LegId -> Leg] /\ assoc \in [AssocId -> Assoc]
  BY DEF TypeOK
<1>2. CASE ForwardUp
  BY <1>2, ForwardTypes
<1>3. CASE PickAnnounce
  <2>1. leg[reader.lg].ctl \in Conn \cup {None}
    BY <1>1, <1>3 DEF PickAnnounce, InHand, Leg
  <2>2. [[reader EXCEPT !.pc = "write"] EXCEPT !.cc = leg[reader.lg].ctl] \in Reader
    BY <1>1, <2>1, ReaderUpdates
  <2> QED BY <1>3, <2>2 DEF PickAnnounce, TypeOK, tables, slots, network
<1>4. CASE Announce
  <2>1. reader.cc \in Conn /\ reader.sid \in 1 .. MaxSid
    BY <1>1, <1>4 DEF Announce, InHand, Reader
  <2>2. [kind |-> "SESSION", sid |-> reader.sid] \in Msg
    BY <2>1 DEF Msg
  <2>3. wire' \in [Conn -> Seq(Msg)]
    BY <1>4, <2>1, <2>2, WriteTypes DEF Announce
  <2>4. [[reader EXCEPT !.pc = "push"] EXCEPT !.cc = None] \in Reader
    BY <1>1, ReaderUpdates
  <2> QED BY <1>4, <2>3, <2>4 DEF Announce, TypeOK, tables, slots
<1>5. CASE AnnounceFails
  <2>1. reader.key \in Key /\ reader.cc \in Conn \cup {None}
    BY <1>1, <1>5 DEF AnnounceFails, InHand, Reader
  <2>2. conn' \in [Conn -> Goroutine]
    <3>1. reader.cc # None => Closed(reader.cc) \in [Conn -> Goroutine]
      BY <2>1, ClosedTypes
    <3> QED BY <1>5, <3>1 DEF AnnounceFails, TypeOK
  <2>3. assocs' \in [Key -> AssocId \cup {None}]
    BY <1>5, <2>1 DEF AnnounceFails, TypeOK
  <2>4. assoc' \in [AssocId -> Assoc]
    BY <1>1, <1>5, BlankTypes DEF AnnounceFails
  <2>5. reader' \in Reader
    BY <1>5, BlankTypes DEF AnnounceFails
  <2> QED BY <1>5, <2>2, <2>3, <2>4, <2>5 DEF AnnounceFails, TypeOK, slots, network
<1>6. CASE PushUp
  <2>1. Pushed(assoc[reader.aid]) \in Assoc
    BY <1>1, <1>6, SessionUpdates DEF PushUp, InHand
  <2>2. assoc' \in [AssocId -> Assoc]
    BY <1>1, <1>6, <2>1 DEF PushUp
  <2> QED BY <1>6, <2>2, BlankTypes DEF PushUp, TypeOK, slots, network
<1>7. CASE ReaderPicksRelease
  <2>1. PICK x \in reader.rel :
          reader' = [reader EXCEPT !.cc = leg[x[1]].ctl, !.sid = x[2], !.rel = @ \ {x}]
    BY <1>7 DEF ReaderPicksRelease
  <2>2. reader.rel \in Releases
    BY <1>1 DEF Reader
  <2>3. x[1] \in LegId /\ x[2] \in 0 .. MaxSid /\ reader.rel \ {x} \in Releases
    BY <2>2 DEF Releases
  <2>4. leg[x[1]].ctl \in Conn \cup {None}
    BY <1>1, <2>3 DEF Leg
  <2>5. [[[reader EXCEPT !.cc = leg[x[1]].ctl] EXCEPT !.sid = x[2]] EXCEPT !.rel = reader.rel \ {x}]
          \in Reader
    BY <1>1, <2>3, <2>4, ReaderUpdates
  <2> QED BY <1>7, <2>1, <2>5 DEF ReaderPicksRelease, TypeOK, tables, slots, network
<1>8. CASE ReaderReleases
  <2>1. reader.cc \in Conn \cup {None} /\ reader.sid \in 1 .. MaxSid
    BY <1>1, <1>8 DEF ReaderReleases, Reader
  <2>2. wire' \in [Conn -> Seq(Msg)] /\ conn' \in [Conn -> Goroutine]
    BY <1>8, <2>1, ReleaseTypes DEF ReaderReleases
  <2>3. AfterRelease(reader) \in Reader
    <3>1. 0 \in 0 .. MaxSid
      OBVIOUS
    <3>2. [[reader EXCEPT !.cc = None] EXCEPT !.sid = 0] \in Reader
      BY <1>1, <3>1, ReaderUpdates
    <3> QED BY <3>2, BlankTypes DEF AfterRelease
  <2> QED BY <1>8, <2>2, <2>3 DEF ReaderReleases, TypeOK, tables, slots
<1> QED BY <1>2, <1>3, <1>4, <1>5, <1>6, <1>7, <1>8 DEF ReaderSteps

LEMMA ReaperTypes ==
  ASSUME Typed, ReaperSteps
  PROVE  TypeOK'
<1> USE LimitsAreNumbers DEF Typed
<1>1. reaper \in Reaper /\ leg \in [LegId -> Leg] /\ assoc \in [AssocId -> Assoc]
  BY DEF TypeOK
<1>2. legs \in [Label -> LegId \cup {None}] /\ assocs \in [Key -> AssocId \cup {None}]
  BY DEF TypeOK
<1>3. ASSUME NEW p \in {"release", "legs"}, NEW rel \in Releases
      PROVE  [IdleReaper EXCEPT !.pc = p, !.rel = rel] \in Reaper
  BY <1>3, BlankTypes, ReaperUpdates
<1>4. CASE ReapSessions
  <2> DEFINE dead == {a \in LiveAssocs : Reapable(a)}
             owed == {x \in Key : /\ assocs[x] \in dead /\ assoc[assocs[x]].sid # 0
                                  /\ legs[x[1]] # None}
             rel == {<<legs[k[1]], assoc[assocs[k]].sid>> : k \in owed}
  <2>1. ASSUME NEW k \in owed
        PROVE  legs[k[1]] \in LegId /\ assoc[assocs[k]].sid \in 1 .. MaxSid
    <3>1. legs[k[1]] \in LegId
      BY <1>2, <2>1 DEF Key
    <3>2. assocs[k] \in AssocId
      BY <1>2, <2>1, NoneAssumption DEF LiveAssocs
    <3> QED BY <1>1, <2>1, <3>1, <3>2 DEF Assoc
  <2>2. rel \in Releases
    BY <2>1 DEF Releases
  <2>3. reaper' = [IdleReaper EXCEPT !.pc = IF rel = {} THEN "legs" ELSE "release", !.rel = rel]
    BY <1>4 DEF ReapSessions
  <2>4. reaper' \in Reaper
    <3> HIDE DEF rel
    <3> QED BY <1>3, <2>2, <2>3
  <2>5. assocs' \in [Key -> AssocId \cup {None}]
    BY <1>2, <1>4 DEF ReapSessions
  <2>6. assoc' \in [AssocId -> Assoc]
    BY <1>1, <1>4, BlankTypes DEF ReapSessions
  <2> QED BY <1>4, <2>4, <2>5, <2>6 DEF ReapSessions, TypeOK, slots, network
<1>5. CASE ReaperPicksRelease
  <2>1. PICK x \in reaper.rel :
          reaper' = [reaper EXCEPT !.pc = "write", !.cc = leg[x[1]].ctl, !.sid = x[2],
                                   !.rel = @ \ {x}]
    BY <1>5 DEF ReaperPicksRelease
  <2>2. reaper.rel \in Releases
    BY <1>1 DEF Reaper
  <2>3. x[1] \in LegId /\ x[2] \in 0 .. MaxSid /\ reaper.rel \ {x} \in Releases
    BY <2>2 DEF Releases
  <2>4. leg[x[1]].ctl \in Conn \cup {None}
    BY <1>1, <2>3 DEF Leg
  <2>5. [[[[reaper EXCEPT !.pc = "write"] EXCEPT !.cc = leg[x[1]].ctl] EXCEPT !.sid = x[2]]
          EXCEPT !.rel = reaper.rel \ {x}] \in Reaper
    BY <1>1, <2>3, <2>4, ReaperUpdates
  <2> QED BY <1>5, <2>1, <2>5 DEF ReaperPicksRelease, TypeOK, tables, slots, network
<1>6. CASE ReaperReleases
  <2>1. reaper.cc \in Conn \cup {None} /\ reaper.sid \in 1 .. MaxSid /\ reaper.rel \in Releases
    BY <1>1, <1>6 DEF ReaperReleases, Reaper, InHand
  <2>2. wire' \in [Conn -> Seq(Msg)] /\ conn' \in [Conn -> Goroutine]
    BY <1>6, <2>1, ReleaseTypes DEF ReaperReleases
  <2>3. reaper' \in Reaper
    BY <1>3, <1>6, <2>1 DEF ReaperReleases
  <2> QED BY <1>6, <2>2, <2>3 DEF ReaperReleases, TypeOK, tables, slots
<1>7. CASE ReapLegs
  <2>1. legs' \in [Label -> LegId \cup {None}]
    BY <1>2, <1>7 DEF ReapLegs
  <2>2. assocs' \in [Key -> AssocId \cup {None}]
    BY <1>2, <1>7 DEF ReapLegs
  <2>3. assoc' \in [AssocId -> Assoc]
    BY <1>1, <1>7, BlankTypes DEF ReapLegs
  <2>4. conn' \in [Conn -> Goroutine]
    <3>1. \A c \in Conn : [conn[c] EXCEPT !.up = FALSE] \in Goroutine
      BY GoroutineUpdates DEF TypeOK
    <3> QED BY <1>7, <3>1 DEF ReapLegs, TypeOK
  <2> QED BY <1>7, <2>1, <2>2, <2>3, <2>4, BlankTypes DEF ReapLegs, TypeOK, slots, network
<1> QED BY <1>4, <1>5, <1>6, <1>7 DEF ReaperSteps

LEMMA PacketTypes ==
  ASSUME Typed, Packets
  PROVE  TypeOK'
<1> USE LimitsAreNumbers DEF Typed
<1>1. reader \in Reader /\ leg \in [LegId -> Leg] /\ assoc \in [AssocId -> Assoc]
  BY DEF TypeOK
<1>2. legs \in [Label -> LegId \cup {None}] /\ assocs \in [Key -> AssocId \cup {None}]
  BY DEF TypeOK
<1>3. ASSUME NEW b \in Label, NEW k \in Client, ReceivePacket(b, k)
      PROVE  TypeOK'
  <2>1. <<b, k>> \in Key /\ legs[b] \in LegId
    BY <1>2, <1>3 DEF ReceivePacket, Admitted, Key
  <2>2. [[[IdleReader EXCEPT !.pc = "up"] EXCEPT !.key = <<b, k>>] EXCEPT !.lg = legs[b]] \in Reader
    BY <2>1, BlankTypes, ReaderUpdates
  <2> QED BY <1>3, <2>2 DEF ReceivePacket, TypeOK, tables, slots, network
<1>4. ASSUME NEW b \in Label, Hello(b)
      PROVE  TypeOK'
  <2>1. CASE legs[b] # None /\ leg' = [leg EXCEPT ![legs[b]].chall = TRUE] /\ UNCHANGED legs
    <3>1. leg' \in [LegId -> Leg]
      BY <1>1, <1>2, <2>1, LegUpdates
    <3> QED BY <1>4, <2>1, <3>1 DEF Hello, TypeOK, slots, network
  <2>2. ASSUME NEW l \in LegId,
               legs' = [legs EXCEPT ![b] = l],
               leg' = [leg EXCEPT ![l] = [NewLeg(b) EXCEPT !.chall = TRUE]]
        PROVE  TypeOK'
    <3>1. [NewLeg(b) EXCEPT !.chall = TRUE] \in Leg
      BY BlankTypes, LegUpdates
    <3>2. leg' \in [LegId -> Leg] /\ legs' \in [Label -> LegId \cup {None}]
      BY <1>1, <1>2, <2>2, <3>1
    <3> QED BY <1>4, <3>2 DEF Hello, TypeOK, slots, network
  <2> QED BY <1>4, <2>1, <2>2 DEF Hello
<1>5. ASSUME NEW b \in Label, NEW src \in Addr, Proof(b, src)
      PROVE  TypeOK'
  <2> DEFINE l == legs[b]
             stale == IF leg[l].addr \notin {None, src} THEN SessionsOf(b) ELSE {}
             rel == {<<l, assoc[a].sid>> : a \in {x \in stale : assoc[x].sid # 0}}
  <2>1. l \in LegId
    BY <1>2, <1>5 DEF Proof
  <2>2. leg' \in [LegId -> Leg]
    <3>1. leg[l] \in Leg
      BY <1>1, <2>1
    <3> DEFINE proved == [[leg[l] EXCEPT !.verified = TRUE] EXCEPT !.addr = src]
    <3>2. proved \in Leg
      BY <3>1, LegUpdates
    <3>3. leg' = [leg EXCEPT ![l] = [proved EXCEPT !.age = 0]]
      BY <1>5 DEF Proof
    <3>4. 0 \in 0 .. 2
      OBVIOUS
    <3> HIDE DEF proved
    <3>5. [proved EXCEPT !.age = 0] \in Leg
      BY <3>2, <3>4, LegUpdates
    <3> QED BY <1>1, <3>3, <3>5
  <2>3. stale \subseteq AssocId
    BY SessionsAreAssocs
  <2>4. rel \in Releases
    <3>1. ASSUME NEW a \in {x \in stale : assoc[x].sid # 0}
          PROVE  assoc[a].sid \in 1 .. MaxSid
      <4>1. assoc[a] \in Assoc /\ assoc[a].sid # 0
        BY <1>1, <2>3
      <4> QED BY <4>1 DEF Assoc
    <3> QED BY <2>1, <3>1 DEF Releases
  <2>5. reader' = IF rel = {} THEN reader ELSE [IdleReader EXCEPT !.pc = "release", !.rel = rel]
    BY <1>5 DEF Proof
  <2>6. reader' \in Reader
    <3> HIDE DEF rel
    <3>1. [[IdleReader EXCEPT !.pc = "release"] EXCEPT !.rel = rel] \in Reader
      BY <2>4, BlankTypes, ReaderUpdates
    <3> QED BY <1>1, <2>5, <3>1
  <2>7. assocs' \in [Key -> AssocId \cup {None}] /\ assoc' \in [AssocId -> Assoc]
    BY <1>1, <1>2, <1>5, BlankTypes DEF Proof
  <2> QED BY <1>5, <2>2, <2>6, <2>7 DEF Proof, TypeOK, slots, network
<1>6. ASSUME NEW b \in Label, NEW src \in Addr, Keepalive(b, src)
      PROVE  TypeOK'
  <2>1. legs[b] \in LegId /\ 0 \in 0 .. 2
    BY <1>2, <1>6 DEF Keepalive, Admitted
  <2>2. [leg[legs[b]] EXCEPT !.age = 0] \in Leg
    BY <1>1, <2>1, LegUpdates
  <2>3. leg' \in [LegId -> Leg]
    BY <1>1, <1>6, <2>2 DEF Keepalive
  <2> QED BY <1>6, <2>3 DEF Keepalive, TypeOK, slots, network
<1> QED BY <1>3, <1>4, <1>5, <1>6 DEF Packets

LEMMA SessionTypes ==
  ASSUME Typed, SessionSteps \/ Time
  PROVE  TypeOK'
<1> USE LimitsAreNumbers DEF Typed
<1>1. leg \in [LegId -> Leg] /\ assoc \in [AssocId -> Assoc]
      /\ legs \in [Label -> LegId \cup {None}]
  BY DEF TypeOK
<1>2. ASSUME NEW a \in AssocId, NEW s \in Assoc, assoc' = [assoc EXCEPT ![a] = s],
             UNCHANGED <<legs, leg, assocs, nextSid, slots, conn, reader, reaper, network>>
      PROVE  TypeOK'
  BY <1>1, <1>2 DEF TypeOK, slots, network
<1>3. ASSUME NEW a \in AssocId, NEW src \in Src, LegUp(a, src)
      PROVE  TypeOK'
  <2> DEFINE s1 == [assoc[a] EXCEPT !.flush = @ \/ (assoc[a].authSrc = None)]
             s2 == [[s1 EXCEPT !.authSrc = src] EXCEPT !.backend = src]
             s3 == [s2 EXCEPT !.proven = @ \cup {src}]
             s4 == [[s3 EXCEPT !.idle = FALSE] EXCEPT !.silent = FALSE]
  <2>1. assoc[a] \in Assoc
    BY <1>1
  <2>2. assoc[a].flush \in BOOLEAN /\ assoc[a].proven \in SUBSET Src
    BY <2>1 DEF Assoc
  <2>3. s1 \in Assoc
    <3>1. (assoc[a].flush \/ (assoc[a].authSrc = None)) \in BOOLEAN
      BY <2>2
    <3> QED BY <2>1, <3>1, AssocUpdates
  <2>4. s2 \in Assoc
    <3> HIDE DEF s1
    <3> QED BY <2>3, AssocUpdates
  <2>5. s3 \in Assoc
    <3> HIDE DEF s2
    <3>1. s2.proven \cup {src} \in SUBSET Src
      BY <2>4 DEF Assoc
    <3> QED BY <2>4, <3>1, AssocUpdates
  <2>6. s4 \in Assoc
    <3> HIDE DEF s3
    <3> QED BY <2>5, AssocUpdates
  <2>7. assoc' = [assoc EXCEPT ![a] = s4]
    <3>1. s2.proven = assoc[a].proven
      BY <2>1 DEF Assoc
    <3> QED BY <1>3, <3>1 DEF LegUp
  <2> HIDE DEF s4
  <2> QED BY <1>2, <1>3, <2>6, <2>7 DEF LegUp
<1>4. ASSUME NEW a \in AssocId, FlushPending(a)
      PROVE  TypeOK'
  <2>1. 0 \in 0 .. CtlPendMax
    OBVIOUS
  <2>2. [[[assoc[a] EXCEPT !.flush = FALSE] EXCEPT !.dialUp = FALSE] EXCEPT !.pend = 0] \in Assoc
    BY <1>1, <2>1, AssocUpdates
  <2>3. assoc' = [assoc EXCEPT ![a] =
                   [[[assoc[a] EXCEPT !.flush = FALSE] EXCEPT !.dialUp = FALSE] EXCEPT !.pend = 0]]
    BY <1>1, <1>4 DEF FlushPending
  <2> QED BY <1>2, <1>4, <2>2, <2>3 DEF FlushPending
<1>5. ASSUME NEW a \in AssocId, Downstream(a)
      PROVE  TypeOK'
  <2>1. [[assoc[a] EXCEPT !.idle = FALSE] EXCEPT !.silent = FALSE] \in Assoc
    BY <1>1, AssocUpdates
  <2>2. assoc' = [assoc EXCEPT ![a] = [[assoc[a] EXCEPT !.idle = FALSE] EXCEPT !.silent = FALSE]]
    BY <1>1, <1>5 DEF Downstream
  <2>3. UNCHANGED <<legs, leg, assocs, nextSid, slots, conn, reader, reaper, network>>
    BY <1>5 DEF Downstream
  <2> QED BY <1>2, <2>1, <2>2, <2>3
<1>6. ASSUME NEW a \in AssocId, AgeIdle(a) \/ AgeSilent(a) \/ AgeDialWait(a)
      PROVE  TypeOK'
  <2>1. /\ [assoc[a] EXCEPT !.idle = TRUE] \in Assoc
        /\ [assoc[a] EXCEPT !.silent = TRUE] \in Assoc
        /\ [assoc[a] EXCEPT !.late = TRUE] \in Assoc
    BY <1>1, AssocUpdates
  <2>2. PICK s \in Assoc : assoc' = [assoc EXCEPT ![a] = s]
    BY <1>6, <2>1 DEF AgeIdle, AgeSilent, AgeDialWait
  <2> QED BY <1>2, <1>6, <2>2 DEF AgeIdle, AgeSilent, AgeDialWait
<1>7. ASSUME NEW b \in Label, AgeLeg(b)
      PROVE  TypeOK'
  <2> DEFINE l == legs[b]
             old == [leg[l] EXCEPT !.age = @ + 1]
  <2>1. l \in LegId /\ leg[l] \in Leg
    BY <1>1, <1>7 DEF AgeLeg
  <2>2. leg[l].age + 1 \in 0 .. 2
    BY <1>7, <2>1 DEF AgeLeg, Leg
  <2>3. old \in Leg
    BY <2>1, <2>2, LegUpdates
  <2>4. leg' = [leg EXCEPT ![l] = [old EXCEPT !.chall = FALSE]]
    BY <1>7 DEF AgeLeg
  <2>5. leg' \in [LegId -> Leg]
    <3> HIDE DEF old
    <3>1. [old EXCEPT !.chall = FALSE] \in Leg
      BY <2>3, LegUpdates
    <3> QED BY <1>1, <2>4, <3>1
  <2> QED BY <1>7, <2>5 DEF AgeLeg, TypeOK, slots, network
<1> QED BY <1>3, <1>4, <1>5, <1>6, <1>7 DEF SessionSteps, Time

LEMMA BackendTypes ==
  ASSUME Typed, Backend
  PROVE  TypeOK'
<1> USE LimitsAreNumbers DEF Typed
<1>1. ASSUME NEW c \in Conn, NEW b \in Label, Accept(c, b)
      PROVE  TypeOK'
  <2>1. [NoConn EXCEPT !.pc = "shake", !.label = b, !.up = TRUE, !.hs = TRUE] \in Goroutine
    BY DEF NoConn, Goroutine, Pc
  <2>2. conn' \in [Conn -> Goroutine]
    BY SMTT(30), <1>1, <2>1 DEF Accept, TypeOK
  <2>3. ctlHandshaking' \in 0 .. CtlHandshakeMax
    BY <1>1 DEF Accept, TypeOK
  <2>4. peer' \in [Conn -> Label \cup {None}]
    BY <1>1 DEF Accept, TypeOK
  <2> QED BY <1>1, <2>2, <2>3, <2>4 DEF Accept, TypeOK, tables
<1>2. ASSUME NEW c \in Conn, BackendReads(c)
      PROVE  TypeOK'
  <2> DEFINE m == Head(wire[c])
  <2>1. wire[c] \in Seq(Msg) /\ wire[c] # <<>>
    BY <1>2 DEF BackendReads, TypeOK
  <2>2. m \in Msg /\ Tail(wire[c]) \in Seq(Msg)
    BY <2>1
  <2>3. wire' \in [Conn -> Seq(Msg)]
    BY <1>2, <2>2 DEF BackendReads, TypeOK
  <2>4. known' \in SUBSET ((1 .. MaxSid) \X (0 .. MaxRestarts))
    <3>1. known \in SUBSET ((1 .. MaxSid) \X (0 .. MaxRestarts)) /\ epoch \in 0 .. MaxRestarts
      BY DEF TypeOK
    <3>2. CASE m.kind = "OK"
      BY <1>2, <3>2 DEF BackendReads
    <3>3. CASE m.kind = "SESSION"
      <4>1. m.sid \in 1 .. MaxSid
        BY <2>2, <3>3 DEF Msg
      <4>2. known' = {x \in known : x[1] # m.sid} \cup {<<m.sid, epoch>>}
        BY <1>2, <3>3 DEF BackendReads
      <4> QED BY <3>1, <4>1, <4>2
    <3>4. CASE m.kind = "RELEASE"
      <4>1. known' = {x \in known : x[1] # m.sid}
        BY <1>2, <3>4 DEF BackendReads
      <4> QED BY <3>1, <4>1
    <3>5. m.kind \in {"OK", "SESSION", "RELEASE"}
      BY <2>2 DEF Msg
    <3> QED BY <3>2, <3>3, <3>4, <3>5
  <2> QED BY <1>2, <2>3, <2>4 DEF BackendReads, TypeOK, tables, slots
<1>3. ASSUME NEW c \in Conn, BackendDrops(c)
      PROVE  TypeOK'
  BY <1>3 DEF BackendDrops, TypeOK, tables, slots
<1>4. ASSUME NEW c \in Conn, ReadKeepalive(c)
      PROVE  TypeOK'
  <2>1. leg[conn[c].lg] \in Leg /\ 0 \in 0 .. 2
    <3>1. conn[c].lg \in LegId
      BY <1>4 DEF ReadKeepalive, InHand, Early
    <3> QED BY <3>1 DEF TypeOK
  <2>2. [leg[conn[c].lg] EXCEPT !.age = 0] \in Leg
    BY <2>1, LegUpdates
  <2>3. leg' \in [LegId -> Leg]
    BY <1>4, <2>2 DEF ReadKeepalive, TypeOK
  <2> QED BY <1>4, <2>3 DEF ReadKeepalive, TypeOK, slots, network
<1>5. CASE BackendReaps
  BY <1>5 DEF BackendReaps, TypeOK, tables, slots
<1> QED BY <1>1, <1>2, <1>3, <1>4, <1>5 DEF Backend

LEMMA TypeStep ==
  ASSUME Typed, Counted, Fit, [Next]_vars
  PROVE  TypeOK'
<1>1. CASE Restart
  BY <1>1, BlankTypes, LimitsAreNumbers DEF Restart, Typed, TypeOK
<1>2. CASE UNCHANGED vars
  BY <1>2 DEF Typed, TypeOK, vars, tables, slots, network
<1> QED BY <1>1, <1>2, ServeTypes, ReaderTypes, ReaperTypes, PacketTypes, SessionTypes,
           BackendTypes DEF Next

-----------------------------------------------------------------------------
(* Slots: what a step does to the goroutines, as far as slots and the leg  *)
(* they hold are concerned.                                                *)

\* Goroutines that neither take nor give back a slot, nor change their leg.
Calm ==
  \A d \in Conn :
    /\ conn'[d].hs = conn[d].hs /\ conn'[d].est = conn[d].est
    /\ conn'[d].label = conn[d].label /\ conn'[d].lg = conn[d].lg
    /\ conn'[d].pc = conn[d].pc \/ {conn[d].pc, conn'[d].pc} \cap Early = {}

Found(c) ==
  /\ conn[c].pc = "find"
  /\ \E l \in LegId : conn' = [conn EXCEPT ![c].pc = "mark", ![c].lg = l]

Slotless == UNCHANGED slots /\ (Calm \/ \E c \in Conn : Found(c))

LEMMA ServeSlots ==
  ASSUME Typed, NEW c \in Conn, Serve(c)
  PROVE  Slotless \/ Leave(c) \/ Admit(c) \/ SendOK(c)
<1>1. conn \in [Conn -> Goroutine]
  BY DEF Typed, TypeOK
<1>2. CASE FindLeg(c)
  <2>1. CASE legs[conn[c].label] # None /\ conn' = [conn EXCEPT ![c].pc = "mark", ![c].lg = legs[conn[c].label]]
             /\ UNCHANGED slots
    <3>1. legs[conn[c].label] \in LegId
      BY <1>2, <2>1 DEF FindLeg, Typed, TypeOK, InHand
    <3> QED BY <1>2, <2>1, <3>1 DEF FindLeg, Found, Slotless
  <2> QED BY <1>2, <2>1 DEF FindLeg, Found, Slotless
<1>3. CASE MarkVerified(c) \/ ReadEnds(c) \/ DetachControl(c)
  <2>1. PICK p \in Pc \ Early : conn' = [conn EXCEPT ![c].pc = p] /\ conn[c].pc \notin Early
    BY <1>3 DEF MarkVerified, ReadEnds, DetachControl, Goto, Pc, Early
  <2>2. Calm
    BY <1>1, <2>1 DEF Calm, Goroutine
  <2> QED BY <1>3, <2>2 DEF MarkVerified, ReadEnds, DetachControl, Slotless
<1>4. CASE AttachControl(c)
  <2>1. conn' = [conn EXCEPT ![c].pc = "close", ![c].prev = leg[conn[c].lg].ctl]
    BY <1>4 DEF AttachControl
  <2>2. Calm
    BY <1>1, <1>4, <2>1 DEF AttachControl, Calm, Goroutine, Early
  <2> QED BY <1>4, <2>2 DEF AttachControl, Slotless
<1>5. CASE CloseReplaced(c)
  <2>1. Calm
    BY <1>1, <1>5 DEF CloseReplaced, Calm, Goroutine, Early
  <2> QED BY <1>5, <2>1 DEF CloseReplaced, Slotless
<1>6. CASE CollectReplay(c) \/ WriteReplay(c)
  <2>1. PICK p \in {"read", "write"} : \E o : conn' = [conn EXCEPT ![c].pc = p, ![c].out = o]
    BY <1>6 DEF CollectReplay, WriteReplay
  <2>2. conn[c].pc \in {"replay", "write"}
    BY <1>6 DEF CollectReplay, WriteReplay
  <2>3. Calm
    BY <1>1, <2>1, <2>2 DEF Calm, Goroutine, Early
  <2> QED BY <1>6, <2>3 DEF CollectReplay, WriteReplay, Slotless
<1>7. CASE ReplayFails(c)
  <2>1. Calm
    BY <1>1, <1>7 DEF ReplayFails, Calm, Goroutine, Early
  <2> QED BY <1>7, <2>1 DEF ReplayFails, Slotless
<1> QED BY <1>2, <1>3, <1>4, <1>5, <1>6, <1>7 DEF Serve, HandshakeFails, SendOKFails, CleanOrphan

LEMMA StepSlots ==
  ASSUME Typed, [Next]_vars
  PROVE  \/ Slotless
         \/ \E c \in Conn : Leave(c) \/ Admit(c) \/ SendOK(c)
         \/ \E c \in Conn, b \in Label : Accept(c, b)
         \/ Restart
<1>1. conn \in [Conn -> Goroutine]
  BY DEF Typed, TypeOK
<1>2. ASSUME UNCHANGED <<slots, conn>> PROVE Slotless
  BY <1>2 DEF Slotless, Calm
<1>3. ASSUME NEW d \in Conn, conn' = Closed(d), UNCHANGED slots PROVE Slotless
  BY <1>1, <1>3 DEF Slotless, Calm, Closed, Goroutine
<1>4. CASE ReaderSteps
  <2>1. reader.cc \in Conn \cup {None}
    BY DEF Typed, TypeOK, Reader
  <2>2. CASE AnnounceFails
    BY <1>2, <1>3, <2>1, <2>2 DEF AnnounceFails
  <2>3. CASE ReaderReleases
    BY <1>2, <1>3, <2>1, <2>3 DEF ReaderReleases
  <2> QED BY <1>2, <1>4, <2>2, <2>3 DEF ReaderSteps, ForwardUp, PickAnnounce, Announce, PushUp,
                                       ReaderPicksRelease
<1>5. CASE ReaperSteps
  <2>1. reaper.cc \in Conn \cup {None}
    BY DEF Typed, TypeOK, Reaper
  <2>2. CASE ReaperReleases
    BY <1>2, <1>3, <2>1, <2>2 DEF ReaperReleases
  <2>3. CASE ReapLegs
    <3>1. Calm
      BY <1>1, <2>3 DEF ReapLegs, Calm, Goroutine
    <3> QED BY <2>3, <3>1 DEF ReapLegs, Slotless
  <2> QED BY <1>2, <1>5, <2>2, <2>3 DEF ReaperSteps, ReapSessions, ReaperPicksRelease
<1>6. CASE Packets
  <2>1. CASE \E b \in Label, k \in Client : ReceivePacket(b, k)
    BY <1>2, <2>1 DEF ReceivePacket
  <2>2. CASE \E b \in Label : Hello(b)
    BY <1>2, <2>2 DEF Hello
  <2>3. CASE \E b \in Label, src \in Addr : Proof(b, src)
    BY <1>2, <2>3 DEF Proof
  <2>4. CASE \E b \in Label, src \in Addr : Keepalive(b, src)
    BY <1>2, <2>4 DEF Keepalive
  <2> QED BY <1>6, <2>1, <2>2, <2>3, <2>4 DEF Packets
<1>7. CASE SessionSteps \/ Time
  BY <1>2, <1>7 DEF SessionSteps, LegUp, FlushPending, Downstream, Time, AgeLeg, AgeIdle,
                    AgeSilent, AgeDialWait
<1>8. CASE Backend
  BY <1>2, <1>8 DEF Backend, BackendReads, BackendDrops, ReadKeepalive, BackendReaps
<1>9. CASE UNCHANGED vars
  BY <1>2, <1>9 DEF vars
<1> QED BY <1>4, <1>5, <1>6, <1>7, <1>8, <1>9, ServeSlots DEF Next

\* The flags and the counters of the slots stay right.
LEMMA SlotsStep ==
  ASSUME Typed, Counted, [Next]_vars
  PROVE  Flags' /\ Counted'
<1>1. conn \in [Conn -> Goroutine] /\ Flags
  BY DEF Typed, TypeOK
<1>2. CASE Slotless
  <2>1. CASE Calm
    <3>1. Shaking' = Shaking /\ Holding' = Holding
      BY <2>1 DEF Calm, Shaking, Holding, Early
    <3>2. Flags'
      BY <1>1, <2>1, <3>1 DEF Calm, Flags
    <3> QED BY <1>2, <3>1, <3>2 DEF Slotless, Counted, slots
  <2>2. ASSUME NEW c \in Conn, Found(c) PROVE Flags' /\ Counted'
    <3>1. \A d \in Conn : conn'[d].hs = conn[d].hs /\ conn'[d].est = conn[d].est
      BY <1>1, <2>2 DEF Found, Goroutine
    <3>2. \A d \in Conn : conn'[d].pc = IF d = c THEN "mark" ELSE conn[d].pc
      BY <1>1, <2>2 DEF Found, Goroutine
    <3>3. Shaking' = Shaking /\ Holding' = Holding
      BY <2>2, <3>2 DEF Found, Shaking, Holding
    <3>4. Flags'
      BY <1>1, <3>1, <3>3 DEF Flags
    <3> QED BY <1>2, <3>3, <3>4 DEF Slotless, Counted, slots
  <2> QED BY <1>2, <2>1, <2>2 DEF Slotless
<1>3. ASSUME NEW c \in Conn, Leave(c) PROVE Flags' /\ Counted'
  <2>1. conn' = [conn EXCEPT ![c] = NoConn]
    BY <1>3 DEF Leave
  <2>2. Shaking' = Shaking \ {c} /\ Holding' = Holding \ {c}
    BY <1>1, <2>1 DEF Shaking, Holding, NoConn
  <2>3. Flags'
    BY <1>1, <2>1, <2>2 DEF Flags, NoConn
  <2>4. IsFiniteSet(Shaking') /\ ctlHandshaking' = Cardinality(Shaking')
    <3>1. ctlHandshaking' = IF c \in Shaking THEN Cardinality(Shaking) - 1 ELSE Cardinality(Shaking)
      BY <1>1, <1>3 DEF Leave, Flags, Counted
    <3> QED BY <2>2, <3>1, FS_RemoveElement DEF Counted
  <2>5. IsFiniteSet(Holding') /\ ctlEstablished' = Cardinality(Holding')
    <3>1. ctlEstablished' = IF c \in Holding THEN Cardinality(Holding) - 1 ELSE Cardinality(Holding)
      BY <1>1, <1>3 DEF Leave, Flags, Counted
    <3> QED BY <2>2, <3>1, FS_RemoveElement DEF Counted
  <2>6. ctlEstablished' <= MaxCtlConns
    <3>1. ctlEstablished \in Nat
      BY DEF Typed, TypeOK
    <3> QED BY <1>3, <3>1, LimitsAreNumbers DEF Leave, Counted
  <2> QED BY <2>3, <2>4, <2>5, <2>6 DEF Counted
<1>4. ASSUME NEW c \in Conn, Admit(c) PROVE Flags' /\ Counted'
  <2>1. conn[c].pc = "shake" /\ conn' = [conn EXCEPT ![c].pc = "ok", ![c].est = TRUE]
    BY <1>4 DEF Admit
  <2>2. \A d \in Conn : /\ conn'[d].hs = conn[d].hs
                        /\ conn'[d].est = IF d = c THEN TRUE ELSE conn[d].est
    BY <1>1, <2>1 DEF Goroutine
  <2>3. \A d \in Conn : conn'[d].pc = IF d = c THEN "ok" ELSE conn[d].pc
    BY <1>1, <2>1 DEF Goroutine
  <2>4. Shaking' = Shaking /\ Holding' = Holding \cup {c} /\ c \notin Holding
    <3>1. \A d \in Conn : /\ d \in Shaking' <=> d \in Shaking
                          /\ d \in Holding' <=> d \in Holding \/ d = c
      <4> TAKE d \in Conn
      <4>1. CASE d = c
        <5>1. conn'[c].pc = "ok" /\ conn[c].pc = "shake"
          BY <2>1, <2>3
        <5> QED BY <4>1, <5>1 DEF Shaking, Holding
      <4>2. CASE d # c
        BY <2>3, <4>2 DEF Shaking, Holding
      <4> QED BY <4>1, <4>2
    <3> QED BY <2>1, <3>1 DEF Shaking, Holding
  <2>5. Flags'
    BY <1>1, <2>2, <2>4 DEF Flags
  <2>6. IsFiniteSet(Holding') /\ Cardinality(Holding') = Cardinality(Holding) + 1
    BY <2>4, FS_AddElement DEF Counted
  <2> QED BY <1>4, <2>4, <2>5, <2>6 DEF Admit, Counted
<1>5. ASSUME NEW c \in Conn, SendOK(c) PROVE Flags' /\ Counted'
  <2>1. conn[c].pc = "ok" /\ conn' = [conn EXCEPT ![c].pc = "find", ![c].hs = FALSE]
    BY <1>5 DEF SendOK
  <2>2. \A d \in Conn : /\ conn'[d].est = conn[d].est
                        /\ conn'[d].hs = IF d = c THEN FALSE ELSE conn[d].hs
    BY <1>1, <2>1 DEF Goroutine
  <2>3. \A d \in Conn : conn'[d].pc = IF d = c THEN "find" ELSE conn[d].pc
    BY <1>1, <2>1 DEF Goroutine
  <2>4. Shaking' = Shaking \ {c} /\ Holding' = Holding /\ c \in Shaking
    <3>1. \A d \in Conn : /\ d \in Shaking' <=> d \in Shaking /\ d # c
                          /\ d \in Holding' <=> d \in Holding
      <4> TAKE d \in Conn
      <4>1. CASE d = c
        <5>1. conn'[c].pc = "find" /\ conn[c].pc = "ok"
          BY <2>1, <2>3
        <5> QED BY <4>1, <5>1 DEF Shaking, Holding
      <4>2. CASE d # c
        BY <2>3, <4>2 DEF Shaking, Holding
      <4> QED BY <4>1, <4>2
    <3> QED BY <2>1, <3>1 DEF Shaking, Holding
  <2>5. Flags'
    BY <1>1, <2>2, <2>4 DEF Flags
  <2>6. IsFiniteSet(Shaking') /\ Cardinality(Shaking') = Cardinality(Shaking) - 1
    BY <2>4, FS_RemoveElement DEF Counted
  <2> QED BY <1>5, <2>4, <2>5, <2>6 DEF SendOK, Counted
<1>6. ASSUME NEW c \in Conn, NEW b \in Label, Accept(c, b) PROVE Flags' /\ Counted'
  <2> DEFINE fresh == [NoConn EXCEPT !.pc = "shake", !.label = b, !.up = TRUE, !.hs = TRUE]
  <2>1. conn[c].pc = "none" /\ conn' = [conn EXCEPT ![c] = fresh]
    BY <1>6 DEF Accept
  <2>2. fresh.pc = "shake" /\ fresh.hs = TRUE /\ fresh.est = FALSE
    BY DEF NoConn
  <2> HIDE DEF fresh
  <2>3. Shaking' = Shaking \cup {c} /\ Holding' = Holding /\ c \notin Shaking \cup Holding
    BY <1>1, <2>1, <2>2 DEF Shaking, Holding
  <2>4. Flags'
    BY <1>1, <2>1, <2>2, <2>3 DEF Flags
  <2>5. IsFiniteSet(Shaking') /\ Cardinality(Shaking') = Cardinality(Shaking) + 1
    BY <2>3, FS_AddElement DEF Counted
  <2> QED BY <1>6, <2>3, <2>4, <2>5 DEF Accept, Counted
<1>7. CASE Restart
  <2>1. Shaking' = {} /\ Holding' = {}
    BY <1>7 DEF Restart, Shaking, Holding, NoConn
  <2>2. Flags'
    BY <1>7, <2>1 DEF Restart, Flags, NoConn
  <2> QED BY <1>7, <2>1, <2>2, FS_EmptySet, LimitsAreNumbers DEF Restart, Counted
<1> QED BY <1>2, <1>3, <1>4, <1>5, <1>6, <1>7, StepSlots

\* What each goroutine has in hand stays what its place calls for.
LEMMA ConnHand ==
  ASSUME Typed, [Next]_vars
  PROVE  \A d \in Conn : /\ conn'[d].pc # "none" => conn'[d].label \in Label
                         /\ conn'[d].pc \notin Early => conn'[d].lg \in LegId
<1> DEFINE Hands == \A d \in Conn : /\ conn'[d].pc # "none" => conn'[d].label \in Label
                                    /\ conn'[d].pc \notin Early => conn'[d].lg \in LegId
<1>1. conn \in [Conn -> Goroutine] /\ InHand
  BY DEF Typed, TypeOK
<1>2. ASSUME Calm PROVE Hands
  BY <1>1, <1>2 DEF Calm, InHand, Early
<1>3. ASSUME NEW c \in Conn, Found(c)
      PROVE  Hands
  BY <1>1, <1>3 DEF Found, InHand, Goroutine, Early
<1>4. ASSUME NEW c \in Conn, Leave(c)
      PROVE  Hands
  BY <1>1, <1>4 DEF Leave, InHand, NoConn, Early
<1>5. ASSUME NEW c \in Conn, Admit(c) \/ SendOK(c)
      PROVE  Hands
  BY <1>1, <1>5 DEF Admit, SendOK, InHand, Goroutine, Early
<1>6. ASSUME NEW c \in Conn, NEW b \in Label, Accept(c, b)
      PROVE  Hands
  BY <1>1, <1>6 DEF Accept, InHand, NoConn, Early
<1>7. ASSUME Restart PROVE Hands
  BY <1>7 DEF Restart, NoConn, Early
<1>8. Hands
  <2> HIDE DEF Hands
  <2> QED BY <1>2, <1>3, <1>4, <1>5, <1>6, <1>7, StepSlots DEF Slotless
<1> QED BY <1>8

LEMMA LoopHand ==
  ASSUME Typed, [Next]_vars
  PROVE  /\ reader'.pc \in {"up", "tell", "write", "push"} => reader'.key \in Key /\ reader'.lg \in LegId
         /\ reader'.pc \in {"tell", "write", "push"} => reader'.aid \in AssocId /\ reader'.sid # 0
         /\ reaper'.pc = "write" => reaper'.sid # 0
<1> DEFINE Reading == /\ reader'.pc \in {"up", "tell", "write", "push"}
                            => reader'.key \in Key /\ reader'.lg \in LegId
                      /\ reader'.pc \in {"tell", "write", "push"}
                            => reader'.aid \in AssocId /\ reader'.sid # 0
           Reaping == reaper'.pc = "write" => reaper'.sid # 0
<1>1. InHand /\ reader \in Reader /\ reaper \in Reaper
  BY DEF Typed, TypeOK
<1>2. ASSUME reader' = reader \/ reader' = IdleReader PROVE Reading
  BY <1>1, <1>2 DEF InHand, IdleReader
<1>3. ASSUME reaper' = reaper \/ reaper' = IdleReaper PROVE Reaping
  BY <1>1, <1>3 DEF InHand, IdleReaper
<1>4. CASE ReaderSteps
  <2>1. reaper' = reaper
    BY <1>4 DEF ReaderSteps, ForwardUp, PickAnnounce, Announce, AnnounceFails, PushUp,
                ReaderPicksRelease, ReaderReleases
  <2>2. ASSUME ForwardUp PROVE Reading
    <3>1. ASSUME NEW a \in AssocId, NEW n \in Nat, n # 0,
                 reader' = [reader EXCEPT !.pc = "tell", !.aid = a, !.sid = n]
          PROVE  Reading
      BY <1>1, <2>2, <3>1 DEF ForwardUp, InHand, Reader
    <3>2. nextSid + 1 \in Nat /\ nextSid + 1 # 0
      BY LimitsAreNumbers DEF Typed, TypeOK
    <3>3. \/ reader' = IdleReader
          \/ \E a \in AssocId : reader' = [reader EXCEPT !.pc = "tell", !.aid = a, !.sid = nextSid + 1]
      BY <2>2 DEF ForwardUp
    <3> HIDE DEF Reading
    <3> QED BY <1>2, <3>1, <3>2, <3>3
  <2>3. ASSUME PickAnnounce \/ Announce PROVE Reading
    BY <1>1, <2>3 DEF PickAnnounce, Announce, InHand, Reader
  <2>4. ASSUME AnnounceFails \/ PushUp PROVE Reading
    <3>1. reader' = IdleReader
      BY <2>4 DEF AnnounceFails, PushUp
    <3> QED BY <1>2, <3>1
  <2>5. ASSUME ReaderPicksRelease \/ ReaderReleases PROVE Reading
    <3>1. CASE ReaderPicksRelease
      BY <1>1, <3>1 DEF ReaderPicksRelease, Reader
    <3>2. CASE ReaderReleases
      <4>1. reader'.pc \in {"release", "idle"}
        BY <1>1, <3>2 DEF ReaderReleases, AfterRelease, IdleReader, Reader
      <4> QED BY <4>1
    <3> QED BY <2>5, <3>1, <3>2
  <2> HIDE DEF Reading, Reaping
  <2> QED BY <1>3, <1>4, <2>1, <2>2, <2>3, <2>4, <2>5 DEF ReaderSteps, Reading, Reaping
<1>5. CASE ReaperSteps
  <2>1. reader' = reader
    BY <1>5 DEF ReaperSteps, ReapSessions, ReaperPicksRelease, ReaperReleases, ReapLegs
  <2>2. ASSUME ReapSessions \/ ReaperReleases \/ ReapLegs PROVE Reaping
    <3>1. CASE ReapSessions
      BY <3>1 DEF ReapSessions, IdleReaper
    <3>2. CASE ReaperReleases
      BY <3>2 DEF ReaperReleases, IdleReaper
    <3>3. CASE ReapLegs
      BY <1>3, <3>3 DEF ReapLegs
    <3> QED BY <2>2, <3>1, <3>2, <3>3
  <2>3. ASSUME ReaperPicksRelease PROVE Reaping
    <3>1. PICK x \in reaper.rel :
            reaper' = [reaper EXCEPT !.pc = "write", !.cc = leg[x[1]].ctl, !.sid = x[2],
                                     !.rel = @ \ {x}]
      BY <2>3 DEF ReaperPicksRelease
    <3>2. x[2] \in 1 .. MaxSid
      BY <1>1 DEF Reaper, Releases
    <3>3. reaper'.sid = x[2]
      BY <1>1, <3>1 DEF Reaper
    <3>4. reaper'.sid # 0
      BY <3>2, <3>3
    <3> QED BY <3>4
  <2> HIDE DEF Reading, Reaping
  <2> QED BY <1>2, <1>5, <2>1, <2>2, <2>3 DEF ReaperSteps, Reading, Reaping
<1>6. CASE Packets
  <2>1. reaper' = reaper
    BY <1>6 DEF Packets, ReceivePacket, Hello, Proof, Keepalive
  <2>2. ASSUME NEW b \in Label, NEW k \in Client, ReceivePacket(b, k) PROVE Reading
    <3>1. legs[b] \in LegId /\ <<b, k>> \in Key
      BY <2>2 DEF ReceivePacket, Admitted, Typed, TypeOK, Key
    <3> QED BY <2>2, <3>1 DEF ReceivePacket, IdleReader
  <2>3. ASSUME NEW b \in Label, NEW src \in Addr, Proof(b, src) PROVE Reading
    <3>1. reader' = reader \/ reader'.pc = "release"
      BY <2>3 DEF Proof, IdleReader
    <3> QED BY <1>2, <3>1
  <2> HIDE DEF Reading, Reaping
  <2>4. Reading
    BY <1>2, <1>6, <2>2, <2>3 DEF Packets, Hello, Keepalive
  <2> QED BY <1>3, <2>1, <2>4 DEF Reading, Reaping
<1>7. CASE UNCHANGED <<reader, reaper>>
  BY <1>2, <1>3, <1>7
<1>8. ASSUME NEW c \in Conn, Serve(c) PROVE UNCHANGED <<reader, reaper>>
  BY <1>8 DEF Serve, HandshakeFails, Admit, SendOK, SendOKFails, FindLeg, MarkVerified,
              AttachControl, CloseReplaced, CollectReplay, WriteReplay, ReplayFails, ReadEnds,
              DetachControl, CleanOrphan
<1>9. CASE SessionSteps \/ Time
  BY <1>7, <1>9 DEF SessionSteps, LegUp, FlushPending, Downstream, Time, AgeLeg, AgeIdle,
                    AgeSilent, AgeDialWait
<1>10. CASE Backend
  BY <1>7, <1>10 DEF Backend, Accept, BackendReads, BackendDrops, ReadKeepalive, BackendReaps
<1>11. CASE Restart
  BY <1>2, <1>3, <1>11 DEF Restart
<1>12. CASE UNCHANGED vars
  BY <1>7, <1>12 DEF vars
<1> QED BY <1>4, <1>5, <1>6, <1>7, <1>8, <1>9, <1>10, <1>11, <1>12 DEF Next

LEMMA TypedStep ==
  ASSUME Typed, Counted, Fit, [Next]_vars
  PROVE  Typed' /\ Counted'
<1>1. InHand'
  BY ConnHand, LoopHand DEF InHand
<1> QED BY <1>1, TypeStep, SlotsStep DEF Typed

-----------------------------------------------------------------------------
(* Sessions: what a step does to the session table and to each session.    *)

\* A session that buffers for its flush, or no longer buffers, has a backend
\* that showed its cookie.
Vouched(r) == r.flush \/ (r.sid # 0 /\ ~r.dialUp) => r.backend \in r.proven

Proven == \A a \in AssocId : Vouched(assoc[a])

\* Live sessions are numbered apart, and below the counter.
Numbered == SidsUnique /\ \A a \in LiveAssocs : assoc[a].sid <= nextSid

\* s is what may become of session r without a new number.
Kin(r, s) == s.sid \in {0, r.sid} /\ (Vouched(r) => Vouched(s))

\* No session is added and none gets a number.
Fewer ==
  /\ nextSid' = nextSid
  /\ \A k \in Key : assocs'[k] \in {assocs[k], None}
  /\ \A a \in AssocId : Kin(assoc[a], assoc'[a])

\* The session of key is new, in the place of an old one if there was one.
Grew(key, a, n, addr) ==
  /\ a \notin LiveAssocs /\ ~PeerFull(SessionsOf(key[1]) \ {assocs[key]})
  /\ n \in {0, nextSid + 1} /\ nextSid' = IF n # 0 THEN n ELSE nextSid
  /\ assocs' = [assocs EXCEPT ![key] = a]
  /\ assoc'[a] = NewAssoc(addr, n)
  /\ \A x \in AssocId \ {a} : assoc'[x] \in {assoc[x], Gone}

LEMMA KinOfRecord ==
  ASSUME NEW r \in Assoc
  PROVE  /\ Kin(r, r) /\ Kin(r, Gone) /\ Kin(r, Demoted(r)) /\ Kin(r, Pushed(r))
         /\ Kin(r, Pushed([r EXCEPT !.idle = FALSE]))
         /\ Kin(r, [r EXCEPT !.idle = FALSE, !.silent = FALSE])
         /\ Kin(r, [r EXCEPT !.idle = TRUE])
         /\ Kin(r, [r EXCEPT !.silent = TRUE])
         /\ Kin(r, [r EXCEPT !.late = TRUE])
         /\ r.flush => Kin(r, [r EXCEPT !.flush = FALSE, !.dialUp = FALSE, !.pend = 0])
<1>1. Kin(r, r) /\ Kin(r, Gone)
  BY DEF Kin, Vouched, Gone, NewAssoc
<1>2. Kin(r, Demoted(r))
  <2>1. CASE r.dialUp /\ r.sid # 0
    BY <2>1 DEF Kin, Vouched, Demoted, Assoc
  <2>2. CASE ~(r.dialUp /\ r.sid # 0)
    BY <1>1, <2>2 DEF Demoted
  <2> QED BY <2>1, <2>2
<1>3. \A n \in Nat : Kin(r, [r EXCEPT !.pend = n])
  BY DEF Kin, Vouched, Assoc
<1>4. Kin(r, Pushed(r))
  <2>1. r.pend + 1 \in Nat
    BY LimitsAreNumbers DEF Assoc
  <2> QED BY <1>1, <1>3, <2>1 DEF Pushed
<1>5. Kin(r, Pushed([r EXCEPT !.idle = FALSE]))
  <2> DEFINE q == [r EXCEPT !.idle = FALSE]
  <2>1. q.sid = r.sid /\ q.flush = r.flush /\ q.dialUp = r.dialUp /\ q.backend = r.backend
        /\ q.proven = r.proven
    BY DEF Assoc
  <2>0. q \in Assoc
    BY AssocUpdates
  <2>2. Kin(q, Pushed(q))
    <3> HIDE DEF q
    <3>1. q.pend + 1 \in Nat
      BY <2>0, LimitsAreNumbers DEF Assoc
    <3>2. Kin(q, [q EXCEPT !.pend = q.pend + 1])
      BY <2>0, <3>1 DEF Kin, Vouched, Assoc
    <3>3. Kin(q, q)
      BY DEF Kin
    <3> QED BY <3>2, <3>3 DEF Pushed
  <2> HIDE DEF q
  <2>3. Kin(r, Pushed(q))
    BY <2>1, <2>2 DEF Kin, Vouched
  <2> QED BY <2>3 DEF q
<1>6. /\ Kin(r, [r EXCEPT !.idle = FALSE, !.silent = FALSE])
      /\ Kin(r, [r EXCEPT !.idle = TRUE])
      /\ Kin(r, [r EXCEPT !.silent = TRUE])
      /\ Kin(r, [r EXCEPT !.late = TRUE])
  BY DEF Kin, Vouched, Assoc
<1>7. r.flush => Kin(r, [r EXCEPT !.flush = FALSE, !.dialUp = FALSE, !.pend = 0])
  BY DEF Kin, Vouched, Assoc
<1> QED BY <1>1, <1>2, <1>4, <1>5, <1>6, <1>7

LEMMA ForwardSessions ==
  ASSUME Typed, ForwardUp
  PROVE  \/ Fewer
         \/ \E key \in Key, a \in AssocId, n \in 0 .. MaxSid, addr \in Addr \cup {None} :
              Grew(key, a, n, addr)
<1> USE LimitsAreNumbers
<1> DEFINE key == reader.key
           lg == leg[reader.lg]
           old == assocs[key]
           moved == old # None /\ ~assoc[old].dialed /\ assoc[old].backend # lg.addr
           sid == IF lg.ctl # None THEN nextSid + 1 ELSE 0
<1>1. key \in Key /\ lg \in Leg
  BY DEF ForwardUp, Typed, InHand, TypeOK
<1>2. old \in AssocId \cup {None} /\ assocs \in [Key -> AssocId \cup {None}]
      /\ assoc \in [AssocId -> Assoc] /\ nextSid \in 0 .. MaxSid
  BY <1>1 DEF Typed, TypeOK
<1>3. \A x \in AssocId : Kin(assoc[x], assoc[x]) /\ Kin(assoc[x], Gone)
  BY <1>2, KinOfRecord
<1>4. ASSUME old # None,
             assoc' = [assoc EXCEPT ![old] = Pushed([@ EXCEPT !.idle = FALSE])],
             UNCHANGED <<assocs, nextSid>>
      PROVE  Fewer
  <2>1. Kin(assoc[old], assoc'[old])
    BY <1>2, <1>4, KinOfRecord
  <2>2. \A x \in AssocId : Kin(assoc[x], assoc'[x])
    BY <1>2, <1>3, <1>4, <2>1
  <2> QED BY <1>4, <2>2 DEF Fewer
<1>5. ASSUME UNCHANGED nextSid,
             assocs' = [assocs EXCEPT ![key] = None],
             assoc' = IF moved THEN [assoc EXCEPT ![old] = Gone] ELSE assoc
      PROVE  Fewer
  <2>1. \A x \in AssocId : assoc'[x] \in {assoc[x], Gone}
    BY <1>2, <1>5
  <2>2. \A x \in AssocId : Kin(assoc[x], assoc'[x])
    BY <1>3, <2>1
  <2> QED BY <1>2, <1>5, <2>2 DEF Fewer
<1>6. ASSUME NEW a \in AssocId \ AssocRefs,
             ~PeerFull(SessionsOf(key[1]) \ (IF moved THEN {old} ELSE {})), old = None \/ moved,
             sid <= MaxSid,
             assocs' = [assocs EXCEPT ![key] = a],
             assoc' = [x \in AssocId |-> IF x = a THEN NewAssoc(lg.addr, sid)
                                        ELSE IF moved /\ x = old THEN Gone ELSE assoc[x]],
             nextSid' = IF sid # 0 THEN sid ELSE nextSid
      PROVE  \E b \in Key, x \in AssocId, n \in 0 .. MaxSid, addr \in Addr \cup {None} :
               Grew(b, x, n, addr)
  <2>1. SessionsOf(key[1]) \ (IF moved THEN {old} ELSE {}) = SessionsOf(key[1]) \ {old}
    BY <1>6 DEF SessionsOf
  <2>2. a \in AssocId /\ a \notin LiveAssocs
    BY <1>6 DEF AssocRefs
  <2>3. sid \in 0 .. MaxSid /\ sid \in {0, nextSid + 1}
    BY <1>2, <1>6
  <2>4. lg.addr \in Addr \cup {None}
    BY <1>1 DEF Leg
  <2>5. assoc'[a] = NewAssoc(lg.addr, sid)
    BY <1>6
  <2>6. \A x \in AssocId \ {a} : assoc'[x] \in {assoc[x], Gone}
    BY <1>6
  <2>7. Grew(key, a, sid, lg.addr)
    BY <1>6, <2>1, <2>2, <2>3, <2>5, <2>6 DEF Grew
  <2> QED BY <1>1, <2>2, <2>3, <2>4, <2>7
<1> QED
  <2>1. CASE old # None /\ ~moved
    BY <1>4, <1>5, <1>6, <2>1 DEF ForwardUp
  <2>2. CASE old = None \/ moved
    BY <1>4, <1>5, <1>6, <2>2 DEF ForwardUp
  <2> QED BY <2>1, <2>2

\* Every other step takes sessions away or changes them where they stand.
LEMMA SessionsStep ==
  ASSUME Typed, [Next]_vars
  PROVE  \/ Fewer
         \/ \E key \in Key, a \in AssocId, n \in 0 .. MaxSid, addr \in Addr \cup {None} :
              Grew(key, a, n, addr)
         \/ \E c \in Conn : CollectReplay(c)
         \/ Restart
<1>1. assocs \in [Key -> AssocId \cup {None}] /\ assoc \in [AssocId -> Assoc]
  BY DEF Typed, TypeOK
<1>2. \A x \in AssocId : Kin(assoc[x], assoc[x]) /\ Kin(assoc[x], Gone)
  BY <1>1, KinOfRecord
<1>3. ASSUME UNCHANGED <<assocs, assoc, nextSid>> PROVE Fewer
  BY <1>2, <1>3 DEF Fewer
<1>4. ASSUME NEW a \in AssocId, NEW s, assoc' = [assoc EXCEPT ![a] = s], Kin(assoc[a], s),
             UNCHANGED <<assocs, nextSid>>
      PROVE  Fewer
  <2>1. \A x \in AssocId : Kin(assoc[x], assoc'[x])
    BY <1>1, <1>2, <1>4
  <2> QED BY <1>4, <2>1 DEF Fewer
<1>5. ASSUME \A k \in Key : assocs'[k] \in {assocs[k], None},
             \A x \in AssocId : assoc'[x] \in {assoc[x], Gone},
             UNCHANGED nextSid
      PROVE  Fewer
  <2>1. \A x \in AssocId : Kin(assoc[x], assoc'[x])
    BY <1>2, <1>5
  <2> QED BY <1>5, <2>1 DEF Fewer
<1>6. ASSUME NEW c \in Conn, Serve(c), ~CollectReplay(c) PROVE Fewer
  <2>1. CASE ReplayFails(c)
    <3>1. \A x \in AssocId : assoc'[x] \in {assoc[x], Demoted(assoc[x])}
      BY <2>1 DEF ReplayFails
    <3>2. \A x \in AssocId : Kin(assoc[x], assoc'[x])
      BY <1>1, <3>1, KinOfRecord
    <3> QED BY <2>1, <3>2 DEF ReplayFails, Fewer
  <2> QED BY <1>3, <1>6, <2>1 DEF Serve, HandshakeFails, Admit, SendOK, SendOKFails, FindLeg,
          MarkVerified, AttachControl, CloseReplaced, WriteReplay, ReadEnds, DetachControl,
          CleanOrphan, tables
<1>7. ASSUME ReaderSteps, ~ForwardUp PROVE Fewer
  <2>1. CASE AnnounceFails
    <3>1. \A k \in Key : assocs'[k] \in {assocs[k], None}
      BY <1>1, <2>1 DEF AnnounceFails
    <3>2. \A x \in AssocId : assoc'[x] \in {assoc[x], Gone}
      BY <1>1, <2>1 DEF AnnounceFails
    <3> QED BY <1>5, <2>1, <3>1, <3>2 DEF AnnounceFails
  <2>2. CASE PushUp
    <3>1. reader.aid \in AssocId
      BY <2>2 DEF PushUp, Typed, InHand
    <3>2. Kin(assoc[reader.aid], Pushed(assoc[reader.aid]))
      BY <1>1, <3>1, KinOfRecord
    <3> QED BY <1>1, <1>4, <2>2, <3>1, <3>2 DEF PushUp
  <2> QED BY <1>3, <1>7, <2>1, <2>2 DEF ReaderSteps, PickAnnounce, Announce, ReaderPicksRelease,
                                       ReaderReleases, tables
<1>8. ASSUME ReaperSteps PROVE Fewer
  <2>1. CASE ReapSessions \/ ReapLegs
    <3>1. \A k \in Key : assocs'[k] \in {assocs[k], None}
      BY <1>1, <2>1 DEF ReapSessions, ReapLegs
    <3>2. \A x \in AssocId : assoc'[x] \in {assoc[x], Gone}
      BY <2>1 DEF ReapSessions, ReapLegs
    <3> QED BY <1>5, <2>1, <3>1, <3>2 DEF ReapSessions, ReapLegs
  <2> QED BY <1>3, <1>8, <2>1 DEF ReaperSteps, ReaperPicksRelease, ReaperReleases, tables
<1>9. ASSUME Packets PROVE Fewer
  <2>1. ASSUME NEW b \in Label, NEW src \in Addr, Proof(b, src) PROVE Fewer
    <3>1. \A k \in Key : assocs'[k] \in {assocs[k], None}
      BY <2>1 DEF Proof
    <3>2. \A x \in AssocId : assoc'[x] \in {assoc[x], Gone}
      BY <2>1 DEF Proof
    <3> QED BY <1>5, <2>1, <3>1, <3>2 DEF Proof
  <2> QED BY <1>3, <1>9, <2>1 DEF Packets, ReceivePacket, Hello, Keepalive, tables
<1>10. ASSUME SessionSteps PROVE Fewer
  <2>1. ASSUME NEW a \in AssocId, NEW src \in Src, LegUp(a, src) PROVE Fewer
    <3> DEFINE s == [assoc[a] EXCEPT !.flush = @ \/ (assoc[a].authSrc = None), !.authSrc = src,
                       !.backend = src, !.proven = @ \cup {src}, !.idle = FALSE, !.silent = FALSE]
    <3>1. assoc[a] \in Assoc
      BY <1>1
    <3>2. s.sid = assoc[a].sid /\ s.backend \in s.proven
      BY <3>1 DEF Assoc
    <3>3. Kin(assoc[a], s)
      <4> HIDE DEF s
      <4> QED BY <3>2 DEF Kin, Vouched
    <3>4. assoc' = [assoc EXCEPT ![a] = s]
      BY <2>1 DEF LegUp
    <3> HIDE DEF s
    <3> QED BY <1>4, <2>1, <3>3, <3>4 DEF LegUp
  <2>2. ASSUME NEW a \in AssocId, FlushPending(a) PROVE Fewer
    <3> DEFINE s == [assoc[a] EXCEPT !.flush = FALSE, !.dialUp = FALSE, !.pend = 0]
    <3>1. Kin(assoc[a], s)
      BY <1>1, <2>2, KinOfRecord DEF FlushPending
    <3>2. assoc' = [assoc EXCEPT ![a] = s]
      BY <1>1, <2>2 DEF FlushPending
    <3> HIDE DEF s
    <3> QED BY <1>4, <2>2, <3>1, <3>2 DEF FlushPending
  <2>3. ASSUME NEW a \in AssocId, Downstream(a) PROVE Fewer
    <3> DEFINE s == [assoc[a] EXCEPT !.idle = FALSE, !.silent = FALSE]
    <3>1. Kin(assoc[a], s)
      BY <1>1, KinOfRecord
    <3>2. assoc' = [assoc EXCEPT ![a] = s]
      BY <1>1, <2>3 DEF Downstream
    <3> HIDE DEF s
    <3> QED BY <1>4, <2>3, <3>1, <3>2 DEF Downstream
  <2> QED BY <1>10, <2>1, <2>2, <2>3 DEF SessionSteps
<1>11. ASSUME Time PROVE Fewer
  <2>1. ASSUME NEW a \in AssocId, AgeIdle(a) \/ AgeSilent(a) \/ AgeDialWait(a) PROVE Fewer
    <3>1. PICK s : assoc' = [assoc EXCEPT ![a] = s] /\ Kin(assoc[a], s)
      BY <1>1, <2>1, KinOfRecord DEF AgeIdle, AgeSilent, AgeDialWait
    <3> QED BY <1>4, <2>1, <3>1 DEF AgeIdle, AgeSilent, AgeDialWait
  <2> QED BY <1>3, <1>11, <2>1 DEF Time, AgeLeg
<1>12. ASSUME Backend PROVE Fewer
  BY <1>3, <1>12 DEF Backend, Accept, BackendReads, BackendDrops, ReadKeepalive, BackendReaps, tables
<1>13. ASSUME UNCHANGED vars PROVE Fewer
  BY <1>3, <1>13 DEF vars, tables
<1> QED BY <1>6, <1>7, <1>8, <1>9, <1>10, <1>11, <1>12, <1>13, ForwardSessions DEF Next

\* The leg table grows by one leg when it is not full; everything else shrinks it.
LEMMA LegsStep ==
  ASSUME Typed, [Next]_vars
  PROVE  \/ MappedLegs' \subseteq MappedLegs
         \/ ~LegTableFull /\ \E l \in LegId \ LegRefs : MappedLegs' = MappedLegs \cup {l}
<1>1. legs \in [Label -> LegId \cup {None}]
  BY DEF Typed, TypeOK
<1>2. CASE legs' = legs
  BY <1>2 DEF MappedLegs
<1>3. ASSUME NEW b \in Label, legs[b] = None, NEW l \in LegId \ LegRefs,
             legs' = [legs EXCEPT ![b] = l]
      PROVE  MappedLegs' = MappedLegs \cup {l}
  BY <1>1, <1>3, NoneAssumption DEF MappedLegs
<1>4. CASE \E S \in SUBSET Label : legs' = [b \in Label |-> IF b \in S THEN None ELSE legs[b]]
  BY <1>1, <1>4 DEF MappedLegs
<1>5. ASSUME NEW c \in Conn, Serve(c)
      PROVE  \/ MappedLegs' \subseteq MappedLegs
             \/ ~LegTableFull /\ \E l \in LegId \ LegRefs : MappedLegs' = MappedLegs \cup {l}
  <2>1. CASE FindLeg(c)
    <3>1. conn[c].label \in Label
      BY <2>1 DEF FindLeg, Typed, InHand
    <3>2. \/ legs' = legs
          \/ /\ legs[conn[c].label] = None /\ ~LegTableFull
             /\ \E l \in LegId \ LegRefs : legs' = [legs EXCEPT ![conn[c].label] = l]
      BY <2>1 DEF FindLeg
    <3> QED BY <1>2, <1>3, <3>1, <3>2
  <2>2. CASE CleanOrphan(c)
    <3>1. CASE legs' # legs
      <4>1. legs' = [legs EXCEPT ![leg[conn[c].lg].label] = None]
        BY <2>2, <3>1 DEF CleanOrphan
      <4>2. legs' = [b \in Label |-> IF b \in {leg[conn[c].lg].label} \cap Label
                                     THEN None ELSE legs[b]]
        BY <1>1, <4>1
      <4> QED BY <1>4, <4>2
    <3> QED BY <1>2, <3>1
  <2> QED BY <1>2, <1>5, <2>1, <2>2 DEF Serve, HandshakeFails, Admit, SendOK, SendOKFails,
          MarkVerified, AttachControl, CloseReplaced, CollectReplay, WriteReplay, ReplayFails,
          ReadEnds, DetachControl, tables
<1>6. CASE ReaderSteps
  BY <1>2, <1>6 DEF ReaderSteps, ForwardUp, PickAnnounce, Announce, AnnounceFails, PushUp,
                    ReaderPicksRelease, ReaderReleases, tables
<1>7. CASE ReaperSteps
  <2>1. CASE ReapLegs
    <3>1. PICK S \in SUBSET Label : legs' = [b \in Label |-> IF b \in S THEN None ELSE legs[b]]
      BY <2>1 DEF ReapLegs
    <3> QED BY <1>4, <3>1
  <2> QED BY <1>2, <1>7, <2>1 DEF ReaperSteps, ReapSessions, ReaperPicksRelease, ReaperReleases, tables
<1>8. CASE Packets
  <2>1. ASSUME NEW b \in Label, Hello(b)
        PROVE  \/ MappedLegs' \subseteq MappedLegs
               \/ ~LegTableFull /\ \E l \in LegId \ LegRefs : MappedLegs' = MappedLegs \cup {l}
    <3>1. \/ legs' = legs
          \/ /\ legs[b] = None /\ ~LegTableFull
             /\ \E l \in LegId \ LegRefs : legs' = [legs EXCEPT ![b] = l]
      BY <2>1 DEF Hello
    <3> QED BY <1>2, <1>3, <3>1
  <2> QED BY <1>2, <1>8, <2>1 DEF Packets, ReceivePacket, Proof, Keepalive, tables
<1>9. CASE SessionSteps \/ Time
  BY <1>2, <1>9 DEF SessionSteps, LegUp, FlushPending, Downstream, Time, AgeLeg, AgeIdle,
                    AgeSilent, AgeDialWait
<1>10. CASE Backend
  BY <1>2, <1>10 DEF Backend, Accept, BackendReads, BackendDrops, ReadKeepalive, BackendReaps, tables
<1>11. CASE Restart
  <2>1. MappedLegs' = {}
    BY <1>11 DEF Restart, MappedLegs
  <2> QED BY <2>1
<1>12. CASE UNCHANGED vars
  BY <1>2, <1>12 DEF vars, tables
<1> QED BY <1>5, <1>6, <1>7, <1>8, <1>9, <1>10, <1>11, <1>12 DEF Next

\* The tables stay within their limits.
LEMMA FitStep ==
  ASSUME Typed, Fit, [Next]_vars
  PROVE  Fit'
<1> USE LimitsAreNumbers
<1>1. assocs \in [Key -> AssocId \cup {None}] /\ IsFiniteSet(MappedLegs)
      /\ Cardinality(MappedLegs) \in Nat
  BY FS_CardinalityType DEF Fit, Typed, TypeOK
<1>2. IsFiniteSet(MappedLegs') /\ Cardinality(MappedLegs') <= MaxLegs
  <2>1. CASE MappedLegs' \subseteq MappedLegs
    <3>1. IsFiniteSet(MappedLegs') /\ Cardinality(MappedLegs') <= Cardinality(MappedLegs)
      BY <1>1, <2>1, FS_Subset
    <3>2. Cardinality(MappedLegs') \in Nat
      BY <3>1, FS_CardinalityType
    <3> QED BY <1>1, <3>1, <3>2 DEF Fit
  <2>2. ASSUME ~LegTableFull, NEW l \in LegId \ LegRefs, MappedLegs' = MappedLegs \cup {l}
        PROVE  IsFiniteSet(MappedLegs') /\ Cardinality(MappedLegs') <= MaxLegs
    <3>1. l \notin MappedLegs
      BY DEF LegRefs
    <3>2. IsFiniteSet(MappedLegs') /\ Cardinality(MappedLegs') = Cardinality(MappedLegs) + 1
      BY <1>1, <2>2, <3>1, FS_AddElement
    <3> QED BY <1>1, <2>2, <3>2 DEF LegTableFull
  <2> QED BY <2>1, <2>2, LegsStep
<1>3. ASSUME NEW b \in Label, NEW S, IsFiniteSet(S), Cardinality(S) <= MaxPerPeer,
             SessionsOf(b)' \subseteq S
      PROVE  IsFiniteSet(SessionsOf(b)') /\ Cardinality(SessionsOf(b)') <= MaxPerPeer
  <2>1. IsFiniteSet(SessionsOf(b)') /\ Cardinality(SessionsOf(b)') <= Cardinality(S)
    BY <1>3, FS_Subset
  <2>2. Cardinality(SessionsOf(b)') \in Nat /\ Cardinality(S) \in Nat
    BY <1>3, <2>1, FS_CardinalityType
  <2> QED BY <1>3, <2>1, <2>2
<1>4. ASSUME \A k \in Key : assocs'[k] \in {assocs[k], None} PROVE Fit'
  <2>1. ASSUME NEW b \in Label
        PROVE  IsFiniteSet(SessionsOf(b)') /\ Cardinality(SessionsOf(b)') <= MaxPerPeer
    <3>1. SessionsOf(b)' \subseteq SessionsOf(b)
      BY <1>4 DEF SessionsOf, Key
    <3> QED BY <1>3, <3>1 DEF Fit
  <2>2. \A k, m \in Key : assocs'[k] # None /\ assocs'[k] = assocs'[m] => k = m
    BY <1>4 DEF Fit
  <2> QED BY <1>2, <2>1, <2>2 DEF Fit
<1>5. ASSUME NEW key \in Key, NEW a \in AssocId, NEW n, NEW addr, Grew(key, a, n, addr) PROVE Fit'
  <2>1. a \notin LiveAssocs /\ assocs' = [assocs EXCEPT ![key] = a]
        /\ ~PeerFull(SessionsOf(key[1]) \ {assocs[key]})
    BY <1>5 DEF Grew
  <2>2. ASSUME NEW b \in Label
        PROVE  IsFiniteSet(SessionsOf(b)') /\ Cardinality(SessionsOf(b)') <= MaxPerPeer
    <3>1. CASE b # key[1]
      <4>1. \A k \in Client : <<b, k>> \in Key /\ <<b, k>> # key
        BY <3>1 DEF Key
      <4>2. SessionsOf(b)' \subseteq SessionsOf(b)
        BY <1>1, <2>1, <4>1 DEF SessionsOf
      <4> QED BY <1>3, <4>2 DEF Fit
    <3>2. CASE b = key[1]
      <4> DEFINE others == SessionsOf(b) \ {assocs[key]}
      <4>1. SessionsOf(b)' \subseteq others \cup {a}
        <5> SUFFICES ASSUME NEW k \in Client, assocs'[<<b, k>>] # None
                     PROVE  assocs'[<<b, k>>] \in others \cup {a}
          BY DEF SessionsOf
        <5>1. <<b, k>> \in Key
          BY DEF Key
        <5>2. CASE <<b, k>> = key
          BY <1>1, <2>1, <5>2
        <5>3. CASE <<b, k>> # key
          <6>1. assocs'[<<b, k>>] = assocs[<<b, k>>]
            BY <1>1, <2>1, <5>1, <5>3
          <6>2. assocs[<<b, k>>] # assocs[key]
            BY <5>1, <5>3, <6>1 DEF Fit
          <6> QED BY <6>1, <6>2 DEF SessionsOf
        <5> QED BY <5>2, <5>3
      <4>2. IsFiniteSet(others)
        BY FS_Subset DEF Fit
      <4>3. Cardinality(others) \in Nat /\ Cardinality(others) < MaxPerPeer
        BY <2>1, <3>2, <4>2, FS_CardinalityType DEF PeerFull
      <4>4. IsFiniteSet(others \cup {a}) /\ Cardinality(others \cup {a}) <= MaxPerPeer
        <5> HIDE DEF others
        <5>1. IsFiniteSet(others \cup {a})
              /\ (Cardinality(others \cup {a}) = Cardinality(others)
                    \/ Cardinality(others \cup {a}) = Cardinality(others) + 1)
          BY <4>2, FS_AddElement
        <5> QED BY <4>3, <5>1
      <4> QED BY <1>3, <4>1, <4>4
    <3> QED BY <3>1, <3>2
  <2>3. \A k, m \in Key : assocs'[k] # None /\ assocs'[k] = assocs'[m] => k = m
    BY <1>1, <2>1 DEF Fit, LiveAssocs
  <2> QED BY <1>2, <2>2, <2>3 DEF Fit
<1>6. ASSUME NEW c \in Conn, CollectReplay(c) PROVE Fit'
  BY <1>4, <1>6 DEF CollectReplay
<1>7. ASSUME Restart PROVE Fit'
  BY <1>4, <1>7 DEF Restart
<1> QED BY <1>4, <1>5, <1>6, <1>7, SessionsStep DEF Fewer

\* Numbers stay apart.
LEMMA NumberedStep ==
  ASSUME Typed, Fit, Numbered, [Next]_vars
  PROVE  Numbered'
<1> USE LimitsAreNumbers
<1>1. assocs \in [Key -> AssocId \cup {None}] /\ assoc \in [AssocId -> Assoc] /\ nextSid \in Nat
  BY DEF Typed, TypeOK
<1>2. \A k \in Key : assocs[k] # None => assocs[k] \in AssocId /\ assoc[assocs[k]].sid \in Nat
  BY <1>1 DEF Assoc
<1>3. \A x, y \in LiveAssocs : x # y /\ assoc[x].sid # 0 => assoc[x].sid # assoc[y].sid
  BY DEF Numbered, SidsUnique
<1>4. \A x \in LiveAssocs : x \in AssocId /\ assoc[x].sid \in 0 .. nextSid
  BY <1>1, <1>2 DEF LiveAssocs, Numbered
<1>5. ASSUME Fewer PROVE Numbered'
  <2>1. LiveAssocs' \subseteq LiveAssocs
    BY <1>5 DEF Fewer, LiveAssocs
  <2>2. \A x \in LiveAssocs : assoc'[x].sid \in {0, assoc[x].sid}
    BY <1>4, <1>5 DEF Fewer, Kin
  <2>3. nextSid' = nextSid
    BY <1>5 DEF Fewer
  <2>4. \A x \in LiveAssocs' : assoc'[x].sid <= nextSid'
    BY <1>1, <1>4, <2>1, <2>2, <2>3
  <2>5. SidsUnique'
    <3> SUFFICES ASSUME NEW x \in LiveAssocs', NEW y \in LiveAssocs', x # y, assoc'[x].sid # 0
                 PROVE  assoc'[x].sid # assoc'[y].sid
      BY DEF SidsUnique
    <3>1. x \in LiveAssocs /\ y \in LiveAssocs /\ assoc'[x].sid = assoc[x].sid
      BY <2>1, <2>2
    <3> QED BY <1>3, <2>2, <3>1
  <2> QED BY <2>4, <2>5 DEF Numbered
<1>6. ASSUME NEW key \in Key, NEW a \in AssocId, NEW n, NEW addr, Grew(key, a, n, addr)
      PROVE  Numbered'
  <2>1. \A x \in LiveAssocs' : x = a \/ x \in LiveAssocs
    BY <1>1, <1>6 DEF Grew, LiveAssocs
  <2>2. assoc'[a].sid = n /\ n \in {0, nextSid + 1} /\ nextSid' = IF n # 0 THEN n ELSE nextSid
    BY <1>6 DEF Grew, NewAssoc
  <2>3. \A x \in LiveAssocs : x # a /\ assoc'[x].sid \in {0, assoc[x].sid}
    BY <1>4, <1>6 DEF Grew, Gone, NewAssoc
  <2>4. \A x \in LiveAssocs' : x # a => assoc'[x].sid \in 0 .. nextSid
                                         /\ assoc'[x].sid \in {0, assoc[x].sid} /\ x \in LiveAssocs
    <3> SUFFICES ASSUME NEW x \in LiveAssocs', x # a
                 PROVE  /\ assoc'[x].sid \in 0 .. nextSid
                        /\ assoc'[x].sid \in {0, assoc[x].sid} /\ x \in LiveAssocs
      OBVIOUS
    <3>1. x \in LiveAssocs /\ assoc'[x].sid \in {0, assoc[x].sid}
      BY <2>1, <2>3
    <3> QED BY <1>1, <1>4, <3>1
  <2>5. \A x \in LiveAssocs' : assoc'[x].sid <= nextSid'
    BY <1>1, <2>2, <2>4
  <2>6. SidsUnique'
    <3> SUFFICES ASSUME NEW x \in LiveAssocs', NEW y \in LiveAssocs', x # y, assoc'[x].sid # 0
                 PROVE  assoc'[x].sid # assoc'[y].sid
      BY DEF SidsUnique
    <3>1. CASE x # a /\ y # a
      BY <1>3, <2>4, <3>1
    <3>2. CASE x = a \/ y = a
      BY <1>1, <2>2, <2>4, <3>2
    <3> QED BY <3>1, <3>2
  <2> QED BY <2>5, <2>6 DEF Numbered
<1>7. ASSUME NEW c \in Conn, CollectReplay(c) PROVE Numbered'
  <2> DEFINE fallback == {a \in SessionsOf(conn[c].label) : assoc[a].sid = 0}
  <2>1. PICK number \in [fallback -> (nextSid + 1) .. nextSid'] :
          /\ \A x, y \in fallback : x # y => number[x] # number[y]
          /\ assoc' = [a \in AssocId |-> IF a \in fallback THEN Promoted(assoc[a], number[a])
                                         ELSE assoc[a]]
    BY <1>7 DEF CollectReplay
  <2>2. LiveAssocs' = LiveAssocs
    BY <1>7 DEF CollectReplay, LiveAssocs
  <2>3. nextSid' \in Nat /\ nextSid' >= nextSid
    BY <1>7, ReplayTypes, LimitsAreNumbers
  <2>4. \A x \in LiveAssocs : \/ x \in fallback /\ assoc'[x].sid = number[x]
                              \/ x \notin fallback /\ assoc'[x].sid = assoc[x].sid
    <3> SUFFICES ASSUME NEW x \in LiveAssocs
                 PROVE  \/ x \in fallback /\ assoc'[x].sid = number[x]
                        \/ x \notin fallback /\ assoc'[x].sid = assoc[x].sid
      OBVIOUS
    <3>1. x \in AssocId /\ assoc[x] \in Assoc
      BY <1>1, <1>4
    <3>2. CASE x \in fallback
      BY <2>1, <3>1, <3>2 DEF Promoted, Assoc
    <3>3. CASE x \notin fallback
      BY <2>1, <3>1, <3>3
    <3> QED BY <3>2, <3>3
  <2> HIDE DEF fallback
  <2>5. \A x \in fallback : number[x] \in Nat /\ nextSid < number[x] /\ number[x] <= nextSid'
    BY <1>1, <2>1, <2>3
  <2>6. \A x \in LiveAssocs' : assoc'[x].sid <= nextSid'
    BY <1>1, <1>4, <2>2, <2>3, <2>4, <2>5
  <2>7. SidsUnique'
    <3> SUFFICES ASSUME NEW x \in LiveAssocs, NEW y \in LiveAssocs, x # y, assoc'[x].sid # 0
                 PROVE  assoc'[x].sid # assoc'[y].sid
      BY <2>2 DEF SidsUnique
    <3>1. CASE x \in fallback /\ y \in fallback
      BY <2>1, <2>4, <3>1
    <3>2. CASE x \notin fallback /\ y \notin fallback
      BY <1>3, <2>4, <3>2
    <3>3. CASE x \in fallback /\ y \notin fallback
      BY <1>1, <1>4, <2>4, <2>5, <3>3
    <3>4. CASE x \notin fallback /\ y \in fallback
      BY <1>1, <1>4, <2>4, <2>5, <3>4
    <3> QED BY <3>1, <3>2, <3>3, <3>4
  <2> QED BY <2>6, <2>7 DEF Numbered
<1>8. ASSUME Restart PROVE Numbered'
  <2>1. LiveAssocs' = {}
    BY <1>8 DEF Restart, LiveAssocs
  <2> QED BY <2>1 DEF Numbered, SidsUnique
<1> QED BY <1>5, <1>6, <1>7, <1>8, SessionsStep

\* Vouched sessions stay vouched for.
LEMMA ProvenStep ==
  ASSUME Typed, Fit, Proven, [Next]_vars
  PROVE  Proven'
<1> USE LimitsAreNumbers
<1>1. assoc \in [AssocId -> Assoc]
  BY DEF Typed, TypeOK
<1>2. Vouched(Gone) /\ \A addr, n : Vouched(NewAssoc(addr, n))
  BY DEF Vouched, Gone, NewAssoc
<1>3. ASSUME Fewer PROVE Proven'
  BY <1>3 DEF Fewer, Kin, Proven
<1>4. ASSUME NEW key \in Key, NEW a \in AssocId, NEW n \in 0 .. MaxSid, NEW addr,
             Grew(key, a, n, addr)
      PROVE  Proven'
  <2>1. Vouched(assoc'[a])
    BY <1>2, <1>4 DEF Grew
  <2>2. \A x \in AssocId \ {a} : Vouched(assoc'[x])
    BY <1>2, <1>4 DEF Grew, Proven
  <2> QED BY <2>1, <2>2 DEF Proven
<1>5. ASSUME NEW c \in Conn, CollectReplay(c) PROVE Proven'
  <2>1. ASSUME NEW r \in Assoc, NEW n, Vouched(r) PROVE Vouched(Promoted(r, n))
    BY <2>1 DEF Vouched, Promoted, Assoc
  <2>2. \A x \in AssocId : assoc'[x] = assoc[x] \/ \E n : assoc'[x] = Promoted(assoc[x], n)
    BY <1>5 DEF CollectReplay
  <2> QED BY <1>1, <2>1, <2>2 DEF Proven
<1>6. ASSUME Restart PROVE Proven'
  BY <1>2, <1>6 DEF Restart, Proven
<1> QED BY <1>3, <1>4, <1>5, <1>6, SessionsStep

-----------------------------------------------------------------------------
(* Hooks: which connection a leg announces on, and who serves it.          *)

Hooked == Attached \cup {"detach"}

Control ==
  /\ NoDanglingControl
  /\ ServedIsCurrent
  /\ \A c \in Conn : conn[c].prev # c

\* A connection that stays where the hooks see it, or stays out of their sight.
Steady(d) ==
  /\ conn'[d].lg = conn[d].lg /\ conn'[d].prev = conn[d].prev /\ (conn'[d].up => conn[d].up)
  /\ \/ conn'[d].pc = conn[d].pc
     \/ {conn[d].pc, conn'[d].pc} \subseteq Attached \ {"close"}
     \/ conn[d].pc = "read" /\ conn'[d].pc = "detach"

Away(d) == {conn[d].pc, conn'[d].pc} \cap Hooked = {} /\ conn'[d].prev # d

HooksKept ==
  /\ \A l \in LegId : leg'[l].ctl = leg[l].ctl
  /\ \A d \in Conn : Steady(d) \/ Away(d)

LEMMA KeptHooks ==
  ASSUME Typed, Control, HooksKept
  PROVE  Control'
<1>1. \A l \in LegId : leg[l].ctl \in Conn \cup {None}
  BY DEF Typed, TypeOK, Leg
<1>2. NoDanglingControl'
  <2> SUFFICES ASSUME NEW l \in LegId, leg'[l].ctl # None
               PROVE  LET c == leg'[l].ctl IN conn'[c].lg = l /\ conn'[c].pc \in Hooked
    BY DEF NoDanglingControl, Hooked
  <2> DEFINE c == leg[l].ctl
  <2>1. leg'[l].ctl = c /\ c \in Conn
    BY <1>1 DEF HooksKept
  <2>2. conn[c].lg = l /\ conn[c].pc \in Hooked
    BY <2>1 DEF Control, NoDanglingControl, Hooked
  <2>3. Steady(c)
    BY <2>1, <2>2 DEF HooksKept, Away
  <2> QED BY <2>1, <2>2, <2>3 DEF Steady, Hooked
<1>3. ServedIsCurrent'
  <2> SUFFICES ASSUME NEW c \in Conn, conn'[c].pc \in Attached, conn'[c].up
               PROVE  \/ leg'[conn'[c].lg].ctl = c
                      \/ \E d \in Conn : conn'[d].pc = "close" /\ conn'[d].prev = c
    BY DEF ServedIsCurrent
  <2>1. Steady(c)
    BY DEF HooksKept, Away, Hooked
  <2>2. conn[c].pc \in Attached /\ conn[c].up /\ conn'[c].lg = conn[c].lg
    BY <2>1 DEF Steady, Attached
  <2>3. conn[c].lg \in LegId
    BY <2>2 DEF Typed, InHand, Attached, Early
  <2>4. CASE leg[conn[c].lg].ctl = c
    BY <2>2, <2>3, <2>4 DEF HooksKept
  <2>5. ASSUME NEW d \in Conn, conn[d].pc = "close", conn[d].prev = c
        PROVE  conn'[d].pc = "close" /\ conn'[d].prev = c
    <3>1. Steady(d)
      BY <2>5 DEF HooksKept, Away, Hooked, Attached
    <3> QED BY <2>5, <3>1 DEF Steady
  <2> QED BY <2>2, <2>4, <2>5 DEF Control, ServedIsCurrent
<1>4. \A c \in Conn : conn'[c].prev # c
  BY DEF HooksKept, Steady, Away, Control
<1> QED BY <1>2, <1>3, <1>4 DEF Control

\* A leg object nobody refers to has no connection: overwriting it unhooks none.
LEMMA FreshLegUnhooked ==
  ASSUME Typed, Control, NEW l \in LegId \ LegRefs
  PROVE  leg[l].ctl = None
<1>1. leg[l].ctl \in Conn \cup {None}
  BY DEF Typed, TypeOK, Leg
<1>2. CASE leg[l].ctl \in Conn
  <2>1. leg[l].ctl # None
    BY <1>2, NoneAssumption
  <2>2. conn[leg[l].ctl].lg = l
    BY <2>1 DEF Control, NoDanglingControl
  <2> QED BY <1>2, <2>2 DEF LegRefs
<1> QED BY <1>1, <1>2

LEMMA ServeHooks ==
  ASSUME Typed, Control, NEW c \in Conn, Serve(c),
         ~AttachControl(c), ~CloseReplaced(c), ~DetachControl(c)
  PROVE  HooksKept
<1>1. conn \in [Conn -> Goroutine] /\ leg \in [LegId -> Leg] /\ InHand
  BY DEF Typed, TypeOK
<1>2. \A d \in Conn : conn[d].prev # d
  BY DEF Control
<1>3. ASSUME conn[c].pc \notin Hooked, conn'[c].pc \notin Hooked, conn'[c].prev \in {conn[c].prev, None},
             \A d \in Conn \ {c} : conn'[d] = conn[d]
      PROVE  \A d \in Conn : Steady(d) \/ Away(d)
  <2>1. Away(c)
    BY <1>2, <1>3, NoneAssumption DEF Away
  <2>2. \A d \in Conn \ {c} : Steady(d)
    BY <1>3 DEF Steady
  <2> QED BY <2>1, <2>2
<1>4. ASSUME Steady(c), \A d \in Conn \ {c} : conn'[d] = conn[d]
      PROVE  \A d \in Conn : Steady(d) \/ Away(d)
  BY <1>4 DEF Steady
<1>5. ASSUME Leave(c), conn[c].pc \notin Hooked, UNCHANGED leg
      PROVE  HooksKept
  <2>1. conn' = [conn EXCEPT ![c] = NoConn]
    BY <1>5 DEF Leave
  <2>2. conn'[c].pc \notin Hooked /\ conn'[c].prev \in {conn[c].prev, None}
    BY <1>1, <2>1 DEF NoConn, Hooked, Attached
  <2>3. \A d \in Conn \ {c} : conn'[d] = conn[d]
    BY <1>1, <2>1
  <2> QED BY <1>3, <1>5, <2>2, <2>3 DEF HooksKept
<1>6. CASE HandshakeFails(c) \/ SendOKFails(c) \/ CleanOrphan(c)
  BY <1>5, <1>6 DEF HandshakeFails, SendOKFails, CleanOrphan, Hooked, Attached, tables
<1>7. CASE Admit(c) \/ SendOK(c)
  <2>1. conn[c].pc \in {"shake", "ok"} /\ conn'[c].pc \in {"ok", "find"} /\ conn'[c].prev = conn[c].prev
        /\ UNCHANGED leg
    BY <1>1, <1>7 DEF Admit, SendOK, Goroutine, tables
  <2>2. \A d \in Conn \ {c} : conn'[d] = conn[d]
    BY <1>1, <1>7 DEF Admit, SendOK
  <2> QED BY <1>3, <2>1, <2>2 DEF HooksKept, Hooked, Attached
<1>8. CASE FindLeg(c)
  <2>1. CASE Leave(c) /\ UNCHANGED leg
    BY <1>5, <1>8, <2>1 DEF FindLeg, Hooked, Attached
  <2>2. ASSUME NEW l, conn' = [conn EXCEPT ![c].pc = "mark", ![c].lg = l],
               \A x \in LegId : leg'[x].ctl = leg[x].ctl
        PROVE  HooksKept
    <3>1. conn[c].pc = "find" /\ conn'[c].pc = "mark" /\ conn'[c].prev = conn[c].prev
      BY <1>1, <1>8, <2>2 DEF FindLeg, Goroutine
    <3>2. \A d \in Conn \ {c} : conn'[d] = conn[d]
      BY <1>1, <2>2
    <3> QED BY <1>3, <2>2, <3>1, <3>2 DEF HooksKept, Hooked, Attached
  <2>3. ASSUME NEW l \in LegId \ LegRefs, NEW b, leg' = [leg EXCEPT ![l] = NewLeg(b)]
        PROVE  \A x \in LegId : leg'[x].ctl = leg[x].ctl
    <3>1. NewLeg(b).ctl = leg[l].ctl
      BY FreshLegUnhooked DEF NewLeg
    <3> QED BY <1>1, <2>3, <3>1
  <2> QED BY <1>8, <2>1, <2>2, <2>3 DEF FindLeg
<1>9. CASE MarkVerified(c)
  <2>1. conn[c].pc = "mark" /\ conn' = [conn EXCEPT ![c].pc = "attach"]
    BY <1>9 DEF MarkVerified, Goto
  <2>2. conn'[c].pc = "attach" /\ conn'[c].prev = conn[c].prev /\ \A d \in Conn \ {c} : conn'[d] = conn[d]
    BY <1>1, <2>1 DEF Goroutine
  <2>3. \A l \in LegId : leg'[l].ctl = leg[l].ctl
    BY <1>1, <1>9 DEF MarkVerified, Leg
  <2> QED BY <1>3, <2>1, <2>2, <2>3 DEF HooksKept, Hooked, Attached
<1>10. CASE CollectReplay(c) \/ WriteReplay(c) \/ ReplayFails(c)
  <2>1. PICK p \in {"read", "write"} :
              \E o : \/ conn' = [conn EXCEPT ![c].pc = p, ![c].out = o]
                     \/ conn' = [conn EXCEPT ![c].pc = p, ![c].up = FALSE, ![c].out = o]
    BY <1>10 DEF CollectReplay, WriteReplay, ReplayFails
  <2>2. conn[c].pc \in {"replay", "write"} /\ UNCHANGED leg
    BY <1>10 DEF CollectReplay, WriteReplay, ReplayFails, tables
  <2>3. /\ conn'[c].pc = p /\ conn'[c].prev = conn[c].prev /\ conn'[c].lg = conn[c].lg
        /\ conn'[c].up => conn[c].up
        /\ \A d \in Conn \ {c} : conn'[d] = conn[d]
    BY <1>1, <2>1 DEF Goroutine
  <2>4. Steady(c)
    BY <2>2, <2>3 DEF Steady, Attached
  <2> QED BY <1>4, <2>2, <2>3, <2>4 DEF HooksKept
<1>11. CASE ReadEnds(c)
  <2>1. conn[c].pc = "read" /\ conn' = [conn EXCEPT ![c].pc = "detach"] /\ UNCHANGED leg
    BY <1>11 DEF ReadEnds, Goto, tables
  <2>2. /\ conn'[c].pc = "detach" /\ conn'[c].prev = conn[c].prev /\ conn'[c].lg = conn[c].lg
        /\ conn'[c].up = conn[c].up
        /\ \A d \in Conn \ {c} : conn'[d] = conn[d]
    BY <1>1, <2>1 DEF Goroutine
  <2>3. Steady(c)
    BY <2>1, <2>2 DEF Steady
  <2> QED BY <1>4, <2>1, <2>2, <2>3 DEF HooksKept
<1> QED BY <1>6, <1>7, <1>8, <1>9, <1>10, <1>11 DEF Serve

LEMMA HooksStep ==
  ASSUME Typed, Control, [Next]_vars
  PROVE  \/ HooksKept
         \/ \E c \in Conn : AttachControl(c) \/ CloseReplaced(c) \/ DetachControl(c)
         \/ Restart
<1>1. conn \in [Conn -> Goroutine] /\ leg \in [LegId -> Leg] /\ InHand
  BY DEF Typed, TypeOK
<1>2. ASSUME UNCHANGED conn, \A l \in LegId : leg'[l].ctl = leg[l].ctl
      PROVE  HooksKept
  BY <1>2 DEF HooksKept, Steady
<1>3. ASSUME UNCHANGED leg, NEW S \in SUBSET Conn,
             conn' = [d \in Conn |-> IF d \in S THEN [conn[d] EXCEPT !.up = FALSE] ELSE conn[d]]
      PROVE  HooksKept
  <2>1. \A d \in Conn : /\ conn'[d].pc = conn[d].pc /\ conn'[d].prev = conn[d].prev
                       /\ conn'[d].lg = conn[d].lg /\ (conn'[d].up => conn[d].up)
    BY <1>1, <1>3 DEF Goroutine
  <2> QED BY <1>3, <2>1 DEF HooksKept, Steady
<1>4. ASSUME UNCHANGED leg, NEW e \in Conn, conn' = Closed(e)
      PROVE  HooksKept
  <2>1. conn' = [d \in Conn |-> IF d \in {e} THEN [conn[d] EXCEPT !.up = FALSE] ELSE conn[d]]
    BY <1>1, <1>4 DEF Closed
  <2> QED BY <1>3, <1>4, <2>1
<1>5. CASE ReaderSteps
  <2>1. reader.cc \in Conn \cup {None}
    BY DEF Typed, TypeOK, Reader
  <2>2. CASE AnnounceFails
    BY <1>2, <1>4, <2>1, <2>2 DEF AnnounceFails
  <2>3. CASE ReaderReleases
    BY <1>2, <1>4, <2>1, <2>3 DEF ReaderReleases, tables
  <2> QED BY <1>2, <1>5, <2>2, <2>3 DEF ReaderSteps, ForwardUp, PickAnnounce, Announce, PushUp,
                                       ReaderPicksRelease, tables
<1>6. CASE ReaperSteps
  <2>1. reaper.cc \in Conn \cup {None}
    BY DEF Typed, TypeOK, Reaper
  <2>2. CASE ReaperReleases
    BY <1>2, <1>4, <2>1, <2>2 DEF ReaperReleases, tables
  <2>3. CASE ReapLegs
    <3> DEFINE cut == {c \in Conn : \E l \in {x \in MappedLegs : Expired(x)} : leg[l].ctl = c}
    <3>1. conn' = [d \in Conn |-> IF d \in cut THEN [conn[d] EXCEPT !.up = FALSE] ELSE conn[d]]
      BY <2>3 DEF ReapLegs
    <3>2. cut \in SUBSET Conn
      OBVIOUS
    <3> HIDE DEF cut
    <3> QED BY <1>3, <2>3, <3>1, <3>2 DEF ReapLegs
  <2> QED BY <1>2, <1>6, <2>2, <2>3 DEF ReaperSteps, ReapSessions, ReaperPicksRelease, tables
<1>7. CASE Packets
  <2>1. ASSUME NEW b \in Label, Hello(b) PROVE \A l \in LegId : leg'[l].ctl = leg[l].ctl
    <3>1. CASE leg' = [leg EXCEPT ![legs[b]].chall = TRUE]
      BY <1>1, <3>1 DEF Leg
    <3>2. ASSUME NEW l \in LegId \ LegRefs, leg' = [leg EXCEPT ![l] = [NewLeg(b) EXCEPT !.chall = TRUE]]
          PROVE  \A x \in LegId : leg'[x].ctl = leg[x].ctl
      <4>1. [NewLeg(b) EXCEPT !.chall = TRUE].ctl = leg[l].ctl
        BY FreshLegUnhooked DEF NewLeg
      <4> HIDE DEF NewLeg
      <4> QED BY <1>1, <3>2, <4>1
    <3> QED BY <2>1, <3>1, <3>2 DEF Hello
  <2>2. ASSUME NEW b \in Label, NEW src \in Addr, Proof(b, src) \/ Keepalive(b, src)
        PROVE  \A l \in LegId : leg'[l].ctl = leg[l].ctl
    BY <1>1, <2>2 DEF Proof, Keepalive, Leg
  <2>3. UNCHANGED conn
    BY <1>7 DEF Packets, ReceivePacket, Hello, Proof, Keepalive
  <2>4. \A l \in LegId : leg'[l].ctl = leg[l].ctl
    BY <1>7, <2>1, <2>2 DEF Packets, ReceivePacket, tables
  <2> QED BY <1>2, <2>3, <2>4
<1>8. CASE SessionSteps
  BY <1>2, <1>8 DEF SessionSteps, LegUp, FlushPending, Downstream
<1>9. CASE Time
  <2>1. ASSUME NEW b \in Label, AgeLeg(b) PROVE \A l \in LegId : leg'[l].ctl = leg[l].ctl
    BY <1>1, <2>1 DEF AgeLeg, Leg
  <2> QED BY <1>2, <1>9, <2>1 DEF Time, AgeLeg, AgeIdle, AgeSilent, AgeDialWait
<1>10. CASE Backend
  <2>1. ASSUME NEW c \in Conn, NEW b \in Label, Accept(c, b) PROVE HooksKept
    <3> DEFINE fresh == [NoConn EXCEPT !.pc = "shake", !.label = b, !.up = TRUE, !.hs = TRUE]
    <3>1. conn[c].pc = "none" /\ conn' = [conn EXCEPT ![c] = fresh] /\ UNCHANGED leg
      BY <2>1 DEF Accept, tables
    <3>2. fresh.pc = "shake" /\ fresh.prev = None
      BY DEF NoConn
    <3> HIDE DEF fresh
    <3>3. Away(c)
      BY <1>1, <3>1, <3>2, NoneAssumption DEF Away, Hooked, Attached
    <3>4. \A d \in Conn \ {c} : Steady(d)
      BY <1>1, <3>1 DEF Steady
    <3> QED BY <3>1, <3>3, <3>4 DEF HooksKept
  <2>2. ASSUME NEW c \in Conn, ReadKeepalive(c) PROVE HooksKept
    <3>1. \A l \in LegId : leg'[l].ctl = leg[l].ctl
      BY <1>1, <2>2 DEF ReadKeepalive, Leg
    <3> QED BY <1>2, <2>2, <3>1 DEF ReadKeepalive
  <2> QED BY <1>2, <1>10, <2>1, <2>2 DEF Backend, BackendReads, BackendDrops, BackendReaps, tables
<1>11. CASE UNCHANGED vars
  BY <1>2, <1>11 DEF vars, tables
<1> QED BY <1>5, <1>6, <1>7, <1>8, <1>9, <1>10, <1>11, ServeHooks DEF Next

\* Attaching, closing the replaced connection and detaching keep the hooks right.
LEMMA ControlStep ==
  ASSUME Typed, Control, [Next]_vars
  PROVE  Control'
<1>1. conn \in [Conn -> Goroutine] /\ leg \in [LegId -> Leg] /\ InHand
  BY DEF Typed, TypeOK
<1>2. \A l \in LegId : leg[l].ctl \in Conn \cup {None}
  BY <1>1 DEF Leg
<1>3. /\ \A l \in LegId : leg[l].ctl # None =>
           conn[leg[l].ctl].lg = l /\ conn[leg[l].ctl].pc \in Attached \cup {"detach"}
      /\ \A c \in Conn : conn[c].pc \in Attached /\ conn[c].up =>
           leg[conn[c].lg].ctl = c \/ \E d \in Conn : conn[d].pc = "close" /\ conn[d].prev = c
      /\ \A c \in Conn : conn[c].prev # c
  BY DEF Control, NoDanglingControl, ServedIsCurrent
<1>4. ASSUME NEW c \in Conn, AttachControl(c) PROVE Control'
  <2> DEFINE l == conn[c].lg
             old == leg[l].ctl
  <2>1. conn[c].pc = "attach" /\ l \in LegId
    BY <1>1, <1>4 DEF AttachControl, Early, InHand
  <2>2. old # c
    BY <1>3, <2>1, NoneAssumption DEF Attached
  <2>3. \A x \in LegId : leg'[x].ctl = IF x = l THEN c ELSE leg[x].ctl
    BY <1>1, <1>4, <2>1 DEF AttachControl, Leg
  <2>4. /\ conn'[c].pc = "close" /\ conn'[c].prev = old /\ conn'[c].lg = l /\ conn'[c].up = conn[c].up
        /\ \A d \in Conn \ {c} : conn'[d] = conn[d]
    BY <1>1, <1>4 DEF AttachControl, Goroutine
  <2>5. \A x \in LegId \ {l} : leg[x].ctl # c
    BY <1>3, <2>1, NoneAssumption DEF Attached
  <2>6. NoDanglingControl'
    <3> SUFFICES ASSUME NEW x \in LegId, leg'[x].ctl # None
                 PROVE  conn'[leg'[x].ctl].lg = x /\ conn'[leg'[x].ctl].pc \in Attached \cup {"detach"}
      BY DEF NoDanglingControl
    <3>1. CASE x = l
      BY <2>3, <2>4, <3>1 DEF Attached
    <3>2. CASE x # l
      <4>1. leg'[x].ctl = leg[x].ctl /\ leg[x].ctl \in Conn \ {c}
        BY <1>2, <2>3, <2>5, <3>2
      <4> QED BY <1>3, <2>4, <4>1, NoneAssumption
    <3> QED BY <3>1, <3>2
  <2>7. ServedIsCurrent'
    <3> SUFFICES ASSUME NEW e \in Conn, conn'[e].pc \in Attached, conn'[e].up
                 PROVE  \/ leg'[conn'[e].lg].ctl = e
                        \/ \E d \in Conn : conn'[d].pc = "close" /\ conn'[d].prev = e
      BY DEF ServedIsCurrent
    <3>1. CASE e = c
      BY <2>1, <2>3, <2>4, <3>1
    <3>2. CASE e # c
      <4>1. conn[e].pc \in Attached /\ conn[e].up /\ conn'[e].lg = conn[e].lg
        BY <2>4, <3>2
      <4>2. conn[e].lg \in LegId
        BY <1>1, <4>1 DEF InHand, Early, Attached
      <4>3. CASE leg[conn[e].lg].ctl = e /\ conn[e].lg = l
        BY <2>4, <4>3
      <4>4. CASE leg[conn[e].lg].ctl = e /\ conn[e].lg # l
        BY <2>3, <4>1, <4>2, <4>4
      <4>5. ASSUME NEW d \in Conn, conn[d].pc = "close", conn[d].prev = e
            PROVE  conn'[d].pc = "close" /\ conn'[d].prev = e
        BY <2>1, <2>4, <4>5
      <4> QED BY <1>3, <4>1, <4>3, <4>4, <4>5
    <3> QED BY <3>1, <3>2
  <2>8. \A d \in Conn : conn'[d].prev # d
    BY <1>3, <2>2, <2>4
  <2> QED BY <2>6, <2>7, <2>8 DEF Control
<1>5. ASSUME NEW c \in Conn, CloseReplaced(c) PROVE Control'
  <2>1. conn[c].pc = "close" /\ UNCHANGED leg
    BY <1>5 DEF CloseReplaced, tables
  <2>2. /\ \A d \in Conn : /\ conn'[d].lg = conn[d].lg
                           /\ conn'[d].pc = IF d = c THEN "replay" ELSE conn[d].pc
                           /\ conn'[d].prev = IF d = c THEN None ELSE conn[d].prev
    BY <1>1, <1>5 DEF CloseReplaced, Goroutine
  <2>3. \A d \in Conn : conn'[d].up => conn[d].up /\ d # conn[c].prev
    BY <1>1, <1>3, <1>5 DEF CloseReplaced, Goroutine
  <2>4. NoDanglingControl'
    <3> SUFFICES ASSUME NEW x \in LegId, leg[x].ctl # None
                 PROVE  conn'[leg[x].ctl].lg = x /\ conn'[leg[x].ctl].pc \in Attached \cup {"detach"}
      BY <2>1 DEF NoDanglingControl
    <3>1. leg[x].ctl \in Conn
      BY <1>2
    <3> QED BY <1>3, <2>2, <3>1 DEF Attached
  <2>5. ServedIsCurrent'
    <3> SUFFICES ASSUME NEW e \in Conn, conn'[e].pc \in Attached, conn'[e].up
                 PROVE  \/ leg[conn'[e].lg].ctl = e
                        \/ \E d \in Conn : conn'[d].pc = "close" /\ conn'[d].prev = e
      BY <2>1 DEF ServedIsCurrent
    <3>1. conn[e].pc \in Attached /\ conn[e].up /\ e # conn[c].prev /\ conn'[e].lg = conn[e].lg
      BY <2>1, <2>2, <2>3 DEF Attached
    <3>2. ASSUME NEW d \in Conn, conn[d].pc = "close", conn[d].prev = e
          PROVE  conn'[d].pc = "close" /\ conn'[d].prev = e
      BY <2>2, <3>1, <3>2
    <3> QED BY <1>3, <3>1, <3>2
  <2>6. \A d \in Conn : conn'[d].prev # d
    BY <1>3, <2>2, NoneAssumption
  <2> QED BY <2>4, <2>5, <2>6 DEF Control
<1>6. ASSUME NEW c \in Conn, DetachControl(c) PROVE Control'
  <2> DEFINE l == conn[c].lg
  <2>1. conn[c].pc = "detach" /\ l \in LegId
    BY <1>1, <1>6 DEF DetachControl, Early, InHand
  <2>2. \A x \in LegId : leg'[x].ctl = IF leg[x].ctl = c THEN None ELSE leg[x].ctl
    <3>1. \A x \in LegId \ {l} : leg[x].ctl # c
      BY <1>3, NoneAssumption
    <3>2. leg'[l].ctl = IF leg[l].ctl = c THEN None ELSE leg[l].ctl
      BY <1>1, <1>6, <2>1 DEF DetachControl, Leg
    <3>3. \A x \in LegId \ {l} : leg'[x] = leg[x]
      BY <1>1, <1>6 DEF DetachControl
    <3> QED BY <3>1, <3>2, <3>3
  <2>3. /\ conn'[c].pc = "clean" /\ conn'[c].prev = conn[c].prev
        /\ \A d \in Conn \ {c} : conn'[d] = conn[d]
    BY <1>1, <1>6 DEF DetachControl, Goto, Goroutine
  <2>4. NoDanglingControl'
    <3> SUFFICES ASSUME NEW x \in LegId, leg'[x].ctl # None
                 PROVE  conn'[leg'[x].ctl].lg = x /\ conn'[leg'[x].ctl].pc \in Attached \cup {"detach"}
      BY DEF NoDanglingControl
    <3>1. leg'[x].ctl = leg[x].ctl /\ leg[x].ctl \in Conn \ {c}
      BY <1>2, <2>2
    <3> QED BY <1>3, <2>3, <3>1, NoneAssumption
  <2>5. ServedIsCurrent'
    <3> SUFFICES ASSUME NEW e \in Conn, conn'[e].pc \in Attached, conn'[e].up
                 PROVE  \/ leg'[conn'[e].lg].ctl = e
                        \/ \E d \in Conn : conn'[d].pc = "close" /\ conn'[d].prev = e
      BY DEF ServedIsCurrent
    <3>1. e # c /\ conn'[e] = conn[e]
      BY <2>3 DEF Attached
    <3>2. conn[e].lg \in LegId
      BY <1>1, <3>1 DEF InHand, Early, Attached
    <3>3. CASE leg[conn[e].lg].ctl = e
      BY <2>2, <3>1, <3>2, <3>3
    <3>4. ASSUME NEW d \in Conn, conn[d].pc = "close", conn[d].prev = e
          PROVE  conn'[d].pc = "close" /\ conn'[d].prev = e
      BY <2>1, <2>3, <3>4
    <3> QED BY <1>3, <3>1, <3>3, <3>4
  <2>6. \A d \in Conn : conn'[d].prev # d
    BY <1>3, <2>3
  <2> QED BY <2>4, <2>5, <2>6 DEF Control
<1>7. ASSUME Restart PROVE Control'
  <2>1. leg' = [l \in LegId |-> NewLeg(None)] /\ conn' = [c \in Conn |-> NoConn]
    BY <1>7 DEF Restart
  <2>2. NoDanglingControl'
    BY <2>1 DEF NoDanglingControl, NewLeg
  <2>3. ServedIsCurrent' /\ \A d \in Conn : conn'[d].prev # d
    BY <2>1, NoneAssumption DEF ServedIsCurrent, NoConn, Attached
  <2> QED BY <2>2, <2>3 DEF Control
<1> QED BY <1>4, <1>5, <1>6, <1>7, HooksStep, KeptHooks

-----------------------------------------------------------------------------
(* The theorems *)

\* The inductive invariant of the relay.
RelayInv == Typed /\ Counted /\ Fit /\ Control /\ Numbered /\ Proven

LEMMA RelayInvInit == Init => RelayInv
<1> SUFFICES ASSUME Init PROVE RelayInv
  OBVIOUS
<1>1. Typed
  BY TypeInit
<1>2. Counted
  <2>1. Shaking = {} /\ Holding = {}
    BY DEF Init, Shaking, Holding, NoConn
  <2> QED BY <2>1, FS_EmptySet, LimitsAreNumbers DEF Init, Counted
<1>3. Fit
  <2>1. MappedLegs = {}
    BY DEF Init, MappedLegs
  <2>2. \A b \in Label : SessionsOf(b) = {}
    BY DEF Init, SessionsOf, Key
  <2>3. \A k \in Key : assocs[k] = None
    BY DEF Init
  <2> QED BY <2>1, <2>2, <2>3, FS_EmptySet, LimitsAreNumbers DEF Fit
<1>4. Control
  <2>1. leg = [l \in LegId |-> NewLeg(None)] /\ conn = [c \in Conn |-> NoConn]
    BY DEF Init
  <2>2. NoDanglingControl
    BY <2>1 DEF NoDanglingControl, NewLeg
  <2>3. ServedIsCurrent /\ \A d \in Conn : conn[d].prev # d
    BY <2>1, NoneAssumption DEF ServedIsCurrent, NoConn, Attached
  <2> QED BY <2>2, <2>3 DEF Control
<1>5. Numbered
  <2>1. LiveAssocs = {}
    BY DEF Init, LiveAssocs
  <2> QED BY <2>1 DEF Numbered, SidsUnique
<1>6. Proven
  BY DEF Init, Proven, Vouched, Gone, NewAssoc
<1> QED BY <1>1, <1>2, <1>3, <1>4, <1>5, <1>6 DEF RelayInv

LEMMA RelayInvStep == RelayInv /\ [Next]_vars => RelayInv'
BY TypedStep, FitStep, ControlStep, NumberedStep, ProvenStep DEF RelayInv

THEOREM RelayInvHolds == Spec => []RelayInv
BY RelayInvInit, RelayInvStep, PTL DEF Spec

\* The tables, objects and goroutines of the relay keep their types, whatever
\* connects, fails or restarts.
THEOREM TypesHold == Spec => []TypeOK
<1>1. RelayInv => TypeOK
  BY DEF RelayInv, Typed
<1> QED BY <1>1, RelayInvHolds, PTL

\* Two connections of a backend never stay open side by side: an open one is
\* the one its leg announces on, or is about to be closed by its replacement.
THEOREM HandOver == Spec => []ServedIsCurrent
<1>1. RelayInv => ServedIsCurrent
  BY DEF RelayInv, Control
<1> QED BY <1>1, RelayInvHolds, PTL

\* No path out of controlConn leaks a slot or frees one twice, and no leg
\* announces on a connection without a goroutine.
THEOREM Accounted == Spec => []ConnectionsAreAccounted
<1>1. RelayInv => ConnectionsAreAccounted
  BY DEF RelayInv, Control, Counted, ConnectionsAreAccounted, SlotsMatchGoroutines, Shaking, Holding
<1> QED BY <1>1, RelayInvHolds, PTL

\* The leg table and the sessions of each backend stay within their limits,
\* and two live sessions never share a number.
THEOREM SessionsHaveRoom == Spec => []SessionsFit
<1>1. RelayInv => SessionsFit
  BY DEF RelayInv, Fit, Numbered, SessionsFit, TablesWithinLimits
<1> QED BY <1>1, RelayInvHolds, PTL

\* A dialled session that no longer buffers sends only to a source that showed
\* a cookie of that session.
THEOREM UplinkIsProven == Spec => []UplinkGoesToProvenLeg
<1>1. RelayInv => UplinkGoesToProvenLeg
  <2> SUFFICES ASSUME RelayInv, NEW a \in LiveAssocs, assoc[a].sid # 0, ~assoc[a].dialUp
               PROVE  assoc[a].backend \in assoc[a].proven
    BY DEF UplinkGoesToProvenLeg
  <2>1. a \in AssocId
    BY DEF RelayInv, Typed, TypeOK, LiveAssocs
  <2> QED BY <2>1 DEF RelayInv, Proven, Vouched
<1> QED BY <1>1, RelayInvHolds, PTL

-----------------------------------------------------------------------------
(* The registration of a backend *)

(* Types *)

\* What a handler does to the network: it takes m away or leaves it, and may
\* add an answer.
LEMMA NetStep ==
  ASSUME NEW m, NEW again \in BOOLEAN, NEW x
  PROVE  /\ After(m, again) \subseteq net
         /\ With(After(m, again), x) \subseteq net \cup {x}
BY DEF After, With

LEMMA TypedInit == RegInit => RegTypeOK
<1> USE BoundsAssumption DEF RegInit
<1>1. RegInit => held \in HeldLegs /\ net \subseteq Datagram
  BY DEF NotHeld, HeldLegs
<1>2. RegInit => me \in Address /\ faults \in 0 .. MaxFaults
  BY DEF Address
<1>3. RegInit => verified \in BOOLEAN
  OBVIOUS
<1> QED
  BY <1>1, <1>2, <1>3 DEF RegTypeOK

\* Messages and legs built by the handlers have their types.
LEMMA MessageType ==
  ASSUME NEW kind \in Kinds, NEW a \in Address, NEW n \in Nonce \cup {0}
  PROVE  M(kind, a, n) \in Datagram
BY DEF M, Datagram

LEMMA RegTypedStep == RegTypeOK /\ [RegNext]_regVars => RegTypeOK'
<1> SUFFICES ASSUME RegTypeOK, [RegNext]_regVars PROVE RegTypeOK'
  OBVIOUS
<1> USE DEF RegTypeOK
<1>0. /\ Addresses \in Nat /\ MaxFaults \in Nat /\ Addresses >= 1
      /\ Address \subseteq 0 .. Addresses
  BY BoundsAssumption DEF Address
<1>1. NotHeld \in HeldLegs
  BY <1>0 DEF NotHeld, HeldLegs
<1>2. ASSUME NEW again \in BOOLEAN, Copied(again) PROVE faults' \in 0 .. MaxFaults
  BY <1>0, <1>2 DEF Copied
<1>3. ASSUME Fault PROVE faults' \in 0 .. MaxFaults
  BY <1>0, <1>3 DEF Fault
<1>4. CASE Tick
  <2>1. M(IF verified THEN "KEEPALIVE" ELSE "HELLO", me, 0) \in Datagram
    BY MessageType DEF Kinds
  <2> QED
    BY <1>4, <2>1 DEF Tick
<1>5. ASSUME NEW m \in net, NEW again \in BOOLEAN, Handle(m, again) PROVE RegTypeOK'
  <2>1. m \in Datagram /\ m.addr \in Address /\ m.nonce \in Nonce \cup {0}
    BY DEF Datagram
  <2>2. CASE OnChallenge(m, again)
    <3>1. M("PROOF", me, m.nonce) \in Datagram
      BY <2>1, MessageType DEF Kinds
    <3> QED
      BY <2>2, <3>1, <1>2, NetStep DEF OnChallenge
  <2>3. CASE OnAgain(m, again)
    <3>1. M("HELLO", me, 0) \in Datagram
      BY MessageType DEF Kinds
    <3>2. net' \subseteq Datagram
      BY <2>3, <3>1, NetStep DEF OnAgain
    <3>3. verified' \in BOOLEAN
      BY <2>3 DEF OnAgain
    <3> QED
      BY <2>3, <3>2, <3>3, <1>2 DEF OnAgain
  <2>4. CASE OnOK(m, again)
    BY <2>4, <1>2, NetStep DEF OnOK
  <2>5. CASE OnHello(m, again)
    <3>1. PICK n \in Fresh :
            /\ held' = [held EXCEPT !.here = TRUE, !.nonce = n]
            /\ net' = With(After(m, again), M("CHALLENGE", m.addr, n))
      BY <2>5 DEF OnHello
    <3>2. n \in Nonce
      BY DEF Fresh
    <3>3. M("CHALLENGE", m.addr, n) \in Datagram
      BY <2>1, <3>2, MessageType DEF Kinds
    <3>4. [held EXCEPT !.here = TRUE, !.nonce = n] \in HeldLegs
      BY <3>2 DEF HeldLegs
    <3> QED
      BY <2>5, <3>1, <3>3, <3>4, <1>2, NetStep DEF OnHello
  <2>6. CASE OnProof(m, again)
    <3>1. M("OK", m.addr, 0) \in Datagram
      BY <2>1, MessageType DEF Kinds
    <3>2. [held EXCEPT !.verified = TRUE, !.addr = m.addr] \in HeldLegs
      BY <2>1, <1>0 DEF HeldLegs
    <3>3. held' \in HeldLegs
      BY <2>6, <3>2 DEF OnProof
    <3>4. net' \subseteq Datagram
      BY <2>6, <3>1, NetStep DEF OnProof
    <3> QED
      BY <2>6, <3>3, <3>4, <1>2 DEF OnProof
  <2>7. CASE OnKeepalive(m, again)
    <3>1. M("AGAIN", m.addr, 0) \in Datagram
      BY <2>1, MessageType DEF Kinds
    <3> QED
      BY <2>7, <3>1, <1>2, NetStep DEF OnKeepalive
  <2> QED
    BY <1>5, <2>2, <2>3, <2>4, <2>5, <2>6, <2>7 DEF Handle
<1>6. CASE ControlConnects
  <2>1. held' \in HeldLegs
    BY <1>6 DEF ControlConnects, HeldLegs
  <2> QED
    BY <1>6, <2>1 DEF ControlConnects
<1>7. CASE RelayRestarts \/ LegLapses
  BY <1>1, <1>3, <1>7 DEF RelayRestarts, LegLapses
<1>8. CASE BackendMoves
  <2>1. me' \in Address
    BY <1>0, <1>8 DEF BackendMoves, Address
  <2> QED
    BY <1>3, <1>8, <2>1 DEF BackendMoves
<1>9. CASE ControlDrops
  <2>1. Detached \in HeldLegs
    BY <1>1 DEF Detached, HeldLegs
  <2> QED
    BY <1>3, <1>9, <2>1 DEF ControlDrops
<1>10. ASSUME NEW m \in net, Lose(m) PROVE RegTypeOK'
  BY <1>10 DEF Lose
<1>11. CASE UNCHANGED regVars
  BY <1>11 DEF regVars
<1> QED
  BY <1>4, <1>5, <1>6, <1>7, <1>8, <1>9, <1>10, <1>11 DEF RegNext

\* Every variable keeps its type, whatever is lost, repeated or restarted.
THEOREM RegistrationTyped == RegSpec => []RegTypeOK
BY TypedInit, RegTypedStep, PTL DEF RegSpec

-----------------------------------------------------------------------------
(* A registration never goes back *)

Token == {"CHALLENGE", "PROOF"}

\* Nothing knows an address the backend has not had yet.
NotAhead == held.addr <= me /\ \A m \in net : m.addr <= me

\* A challenge belongs to one address: the proof of it comes from where the
\* challenge went.
OneAddress ==
  \A m, q \in net :
    m.kind \in Token /\ q.kind \in Token /\ m.nonce = q.nonce => m.addr = q.addr

\* A proof that would still count comes from an address at least as new as the
\* one registered.
NewEnough ==
  \A m \in net :
    m.kind = "PROOF" /\ m.nonce = held.nonce /\ held.nonce # 0 => m.addr >= held.addr

Honest == RegTypeOK /\ NotAhead /\ OneAddress /\ NewEnough

LEMMA HonestInit == RegInit => Honest
<1>1. RegInit => held.addr = 0 /\ held.nonce = 0 /\ me = 1 /\ net = {}
  BY DEF RegInit, NotHeld
<1> QED
  BY <1>1, TypedInit DEF Honest, NotAhead, OneAddress, NewEnough

\* A step that keeps the leg's address and challenge, and adds at most one
\* message from or to a known address that is no token.
LEMMA PlainStep ==
  ASSUME Honest, NEW x \in Datagram, net' \subseteq net \cup {x}, me' = me,
         x.kind \notin Token, x.addr <= me,
         held'.addr = held.addr, held'.nonce = held.nonce
  PROVE  NotAhead' /\ OneAddress' /\ NewEnough'
BY DEF Honest, NotAhead, OneAddress, NewEnough, Token

\* A step that sends nothing and leaves the leg's address and challenge alone,
\* or forgets both.
LEMMA QuietStep ==
  ASSUME Honest, net' \subseteq net, me' \in Address, me' >= me,
         (held'.addr = held.addr /\ held'.nonce = held.nonce)
           \/ (held'.addr = 0 /\ held'.nonce = 0)
  PROVE  NotAhead' /\ OneAddress' /\ NewEnough'
<1>1. me \in Nat /\ me' \in Nat /\ held.addr \in Nat /\ \A m \in net : m.addr \in Nat
  BY BoundsAssumption DEF Honest, RegTypeOK, Address, HeldLegs, Datagram
<1> QED
  BY <1>1 DEF Honest, NotAhead, OneAddress, NewEnough

LEMMA HonestStep == Honest /\ [RegNext]_regVars => Honest'
<1> SUFFICES ASSUME Honest, [RegNext]_regVars PROVE Honest'
  OBVIOUS
<1> DEFINE Goal == NotAhead' /\ OneAddress' /\ NewEnough'
<1> SUFFICES Goal
  BY RegTypedStep DEF Honest
<1>0. /\ me \in Address /\ Address \subseteq Nat /\ held \in HeldLegs /\ held.addr \in Nat
      /\ net \subseteq Datagram /\ 0 \notin Nonce /\ Addresses \in Nat
  BY BoundsAssumption DEF Honest, RegTypeOK, Address, HeldLegs
<1>1. CASE Tick
  <2> DEFINE x == M(IF verified THEN "KEEPALIVE" ELSE "HELLO", me, 0)
  <2>1. x \in Datagram
    BY <1>0, MessageType DEF Kinds
  <2>2. x.kind \notin Token /\ x.addr = me
    BY DEF M, Token
  <2> QED
    BY <1>0, <1>1, <2>1, <2>2, PlainStep DEF Tick
<1>2. ASSUME NEW m \in net, NEW again \in BOOLEAN, Handle(m, again) PROVE Goal
  <2>1. m \in Datagram /\ m.addr \in Address /\ m.addr <= me /\ m.nonce \in Nonce \cup {0}
    BY <1>0 DEF Honest, NotAhead, Datagram
  <2>2. After(m, again) \subseteq net
    BY NetStep
  <2>3. CASE OnChallenge(m, again)
    <3> DEFINE x == M("PROOF", me, m.nonce)
    <3>1. /\ m.kind = "CHALLENGE" /\ m.addr = me /\ net' \subseteq net \cup {x}
          /\ me' = me /\ held' = held
      BY <2>3, NetStep DEF OnChallenge, ToMe
    <3>2. x.kind = "PROOF" /\ x.addr = me /\ x.nonce = m.nonce
      BY DEF M
    <3>3. NotAhead'
      BY <3>1, <3>2, <1>0 DEF Honest, NotAhead
    <3>4. OneAddress'
      BY <3>1, <3>2 DEF Honest, OneAddress, Token
    <3>5. NewEnough'
      BY <3>1, <3>2 DEF Honest, NewEnough, NotAhead
    <3> QED
      BY <3>3, <3>4, <3>5
  <2>4. CASE OnAgain(m, again)
    <3> DEFINE x == M("HELLO", me, 0)
    <3>1. x \in Datagram /\ x.kind \notin Token /\ x.addr <= me
      BY <1>0, MessageType DEF Kinds, M, Token
    <3> QED
      BY <2>4, <3>1, NetStep, PlainStep DEF OnAgain
  <2>5. CASE OnOK(m, again)
    BY <2>5, <2>2, <1>0, QuietStep DEF OnOK
  <2>6. CASE OnHello(m, again)
    <3>1. PICK n \in Fresh :
            /\ held' = [held EXCEPT !.here = TRUE, !.nonce = n]
            /\ net' = With(After(m, again), M("CHALLENGE", m.addr, n))
      BY <2>6 DEF OnHello
    <3> DEFINE x == M("CHALLENGE", m.addr, n)
    <3>2. x.kind = "CHALLENGE" /\ x.addr = m.addr /\ x.nonce = n
      BY DEF M
    <3>3. net' \subseteq net \cup {x} /\ me' = me /\ \A q \in net : q.nonce # n
      BY <2>6, <3>1, NetStep DEF OnHello, Fresh
    <3>4. held'.addr = held.addr /\ held'.nonce = n
      BY <3>1, <1>0 DEF HeldLegs
    <3>5. NotAhead'
      BY <3>2, <3>3, <3>4, <2>1 DEF Honest, NotAhead
    <3>6. OneAddress'
      BY <3>2, <3>3 DEF Honest, OneAddress
    <3>7. NewEnough'
      BY <3>2, <3>3, <3>4 DEF NewEnough
    <3> QED
      BY <3>5, <3>6, <3>7
  <2>7. CASE OnProof(m, again) /\ ProofCounts(m)
    <3> DEFINE x == M("OK", m.addr, 0)
    <3>1. /\ m.kind = "PROOF" /\ m.nonce = held.nonce /\ held.nonce # 0
          /\ held' = [held EXCEPT !.verified = TRUE, !.addr = m.addr]
          /\ net' \subseteq net \cup {x} /\ me' = me
      BY <2>7, NetStep DEF OnProof, ProofCounts
    <3>2. x.kind = "OK" /\ x.addr = m.addr
      BY DEF M
    <3>3. held'.addr = m.addr /\ held'.nonce = held.nonce
      BY <3>1, <1>0 DEF HeldLegs
    <3>4. NotAhead'
      BY <3>1, <3>2, <3>3, <2>1 DEF Honest, NotAhead
    <3>5. OneAddress'
      BY <3>1, <3>2 DEF Honest, OneAddress, Token
    <3>6. \A q \in net : q.kind = "PROOF" /\ q.nonce = held.nonce => q.addr = m.addr
      BY <3>1 DEF Honest, OneAddress, Token
    <3>7. NewEnough'
      BY <3>1, <3>2, <3>3, <3>6, <2>1, <1>0 DEF NewEnough
    <3> QED
      BY <3>4, <3>5, <3>7
  <2>8. CASE OnProof(m, again) /\ ~ProofCounts(m)
    BY <2>8, <2>2, <1>0, QuietStep DEF OnProof
  <2>9. CASE OnKeepalive(m, again)
    <3> DEFINE x == M("AGAIN", m.addr, 0)
    <3>1. x \in Datagram /\ x.kind \notin Token /\ x.addr <= me
      BY <2>1, MessageType DEF Kinds, M, Token
    <3> QED
      BY <2>9, <3>1, NetStep, PlainStep DEF OnKeepalive
  <2> QED
    BY <1>2, <2>3, <2>4, <2>5, <2>6, <2>7, <2>8, <2>9 DEF Handle
<1>3. CASE ControlConnects
  BY <1>0, <1>3, QuietStep DEF ControlConnects, HeldLegs
<1>4. CASE RelayRestarts \/ LegLapses
  BY <1>0, <1>4, QuietStep DEF RelayRestarts, LegLapses, NotHeld
<1>5. CASE BackendMoves
  BY <1>0, <1>5, QuietStep DEF BackendMoves, Address
<1>6. CASE ControlDrops
  BY <1>0, <1>6, QuietStep DEF ControlDrops, Detached, NotHeld, HeldLegs
<1>7. ASSUME NEW m \in net, Lose(m) PROVE Goal
  BY <1>0, <1>7, QuietStep DEF Lose
<1>8. CASE UNCHANGED regVars
  BY <1>0, <1>8, QuietStep DEF regVars
<1> QED
  BY <1>1, <1>2, <1>3, <1>4, <1>5, <1>6, <1>7, <1>8 DEF RegNext

LEMMA Forward ==
  Honest /\ [RegNext]_regVars
    => [held.addr # 0 /\ held'.addr # 0 => held'.addr >= held.addr]_regVars
<1> SUFFICES ASSUME Honest, RegNext, held.addr # 0, held'.addr # 0
             PROVE  held'.addr >= held.addr
  OBVIOUS
<1>0. held \in HeldLegs /\ held.addr \in Nat
  BY BoundsAssumption DEF Honest, RegTypeOK, HeldLegs
<1>1. ASSUME NEW m \in net, NEW again \in BOOLEAN, OnProof(m, again) /\ ProofCounts(m)
      PROVE  held'.addr >= held.addr
  BY <1>0, <1>1 DEF OnProof, ProofCounts, Honest, NewEnough, HeldLegs
<1>2. ASSUME NEW m \in net, NEW again \in BOOLEAN, OnHello(m, again)
      PROVE  held'.addr >= held.addr
  BY <1>0, <1>2 DEF OnHello, HeldLegs
<1>3. CASE ControlConnects
  BY <1>0, <1>3 DEF ControlConnects, HeldLegs
<1>4. CASE ControlDrops
  BY <1>0, <1>4 DEF ControlDrops, Detached, NotHeld, HeldLegs
<1>5. CASE RelayRestarts \/ LegLapses
  BY <1>5 DEF RelayRestarts, LegLapses, NotHeld
<1>6. CASE held' = held
  BY <1>0, <1>6
<1> QED
  BY <1>1, <1>2, <1>3, <1>4, <1>5, <1>6
  DEF RegNext, Handle, OnProof, Tick, OnChallenge, OnAgain, OnOK, OnKeepalive,
      BackendMoves, Lose

\* However the network delays and repeats proofs, and whatever restarts, the
\* relay never trades a registered address for an older one.
THEOREM NoRollback == RegSpec => AddressNeverRollsBack
BY HonestInit, HonestStep, Forward, PTL DEF RegSpec, AddressNeverRollsBack
==============================================================================
