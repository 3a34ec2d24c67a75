---------------------------- MODULE Registration ----------------------------
(***************************************************************************)
(* How a backend keeps its UDP leg registered at the relay: relayClient    *)
(* (internal/server/relayclient.go) on one side, handleControl             *)
(* (internal/relay/leg.go) on the other, UDP between them, and the TCP     *)
(* control connection that can create the same leg.                        *)
(*                                                                         *)
(* UDP loses, duplicates and reorders.  The faults, a bounded number of    *)
(* them: the relay restarts, the backend's address changes, the leg        *)
(* lapses, the control connection drops, a datagram is duplicated.         *)
(***************************************************************************)
EXTENDS Integers, FiniteSets

CONSTANTS
  Nonce,            \* challenges; one is fresh if no message carries it
  Addresses,        \* bound: the backend has the addresses 1 .. Addresses, in this order
  MaxNet,           \* bound: messages in flight
  MaxFaults         \* bound: faults

ASSUME BoundsAssumption ==
  /\ Addresses \in Nat \ {0} /\ MaxNet \in Nat \ {0} /\ MaxFaults \in Nat
  /\ 0 \notin Nonce

VARIABLES
  verified,         \* rc.verified: the backend believes it is registered
  me,               \* the address the backend sends from
  held,             \* the relay's leg, or NotHeld
  net,              \* messages in flight
  faults

regVars == <<verified, me, held, net, faults>>

Address == 1 .. Addresses
Kinds == {"HELLO", "PROOF", "KEEPALIVE", "CHALLENGE", "OK", "AGAIN"}

\* addr: the backend's address, as source or as destination.
Datagram == [kind : Kinds, addr : Address, nonce : Nonce \cup {0}]

\* addr 0: no UDP registration; nonce 0: no challenge issued.
HeldLegs == [here : BOOLEAN, addr : 0 .. Addresses, verified : BOOLEAN,
            ctlVerified : BOOLEAN, ctl : BOOLEAN, nonce : Nonce \cup {0}]

NotHeld == [here |-> FALSE, addr |-> 0, verified |-> FALSE,
            ctlVerified |-> FALSE, ctl |-> FALSE, nonce |-> 0]

RegTypeOK ==
  /\ verified \in BOOLEAN /\ me \in Address /\ held \in HeldLegs
  /\ net \subseteq Datagram
  /\ faults \in 0 .. MaxFaults

RegInit == verified = FALSE /\ me = 1 /\ held = NotHeld /\ net = {} /\ faults = 0

M(kind, addr, nonce) == [kind |-> kind, addr |-> addr, nonce |-> nonce]

\* A datagram that finds no room is lost.
With(flight, m) == IF Cardinality(flight) < MaxNet THEN flight \cup {m} ELSE flight

\* The network after m was handed over: gone, or, a fault, to come once more.
After(m, again) == IF again THEN net ELSE net \ {m}
Copied(again) == (again => faults < MaxFaults) /\ faults' = IF again THEN faults + 1 ELSE faults

-----------------------------------------------------------------------------
(* The backend *)

Exchange == {"HELLO", "CHALLENGE", "PROOF"}

\* One tick of loop: HELLO until registered, KEEPALIVE afterwards.  Time:
\* relayRetryEvery (5s) is longer than an exchange, so none of it is in flight.
Tick ==
  /\ Cardinality(net) < MaxNet
  /\ ~verified => \A m \in net : m.addr = me => m.kind \notin Exchange
  /\ net' = net \cup {M(IF verified THEN "KEEPALIVE" ELSE "HELLO", me, 0)}
  /\ UNCHANGED <<verified, me, held, faults>>

ToMe(m, kind) == m.kind = kind /\ m.addr = me

OnChallenge(m, again) ==
  /\ ToMe(m, "CHALLENGE")
  /\ net' = With(After(m, again), M("PROOF", me, m.nonce))
  /\ UNCHANGED <<verified, me, held>> /\ Copied(again)

\* Mutant: AGAIN is taken for a late answer and ignored.
OnAgainIgnored(m, again) ==
  /\ ToMe(m, "AGAIN")
  /\ net' = After(m, again)
  /\ UNCHANGED <<verified, me, held>> /\ Copied(again)

OnAgain(m, again) ==
  /\ ToMe(m, "AGAIN")
  /\ verified' = FALSE
  /\ net' = With(After(m, again), M("HELLO", me, 0))
  /\ UNCHANGED <<me, held>> /\ Copied(again)

OnOK(m, again) ==
  /\ ToMe(m, "OK")
  /\ verified' = TRUE
  /\ net' = After(m, again)
  /\ UNCHANGED <<me, held>> /\ Copied(again)

-----------------------------------------------------------------------------
(* The relay *)

Fresh == {n \in Nonce : n # held.nonce /\ \A m \in net : m.nonce # n}

\* The leg object is created or reused, never replaced.
OnHello(m, again) ==
  /\ m.kind = "HELLO"
  /\ \E n \in Fresh :
       /\ held' = [held EXCEPT !.here = TRUE, !.nonce = n]
       /\ net' = With(After(m, again), M("CHALLENGE", m.addr, n))
  /\ UNCHANGED <<verified, me>> /\ Copied(again)

\* Mutant: any proof of this relay's challenges is good enough.
ProofCountsAlways(m) == held.here /\ held.nonce # 0

\* Only the challenge issued last counts; it is not used up by its proof.
ProofCounts(m) == held.here /\ held.nonce # 0 /\ m.nonce = held.nonce

OnProof(m, again) ==
  /\ m.kind = "PROOF"
  /\ \/ /\ ProofCounts(m)
        /\ held' = [held EXCEPT !.verified = TRUE, !.addr = m.addr]
        /\ net' = With(After(m, again), M("OK", m.addr, 0))
     \/ /\ ~ProofCounts(m)
        /\ net' = After(m, again)
        /\ UNCHANGED held
  /\ UNCHANGED <<verified, me>> /\ Copied(again)

\* AGAIN for an unknown leg, a foreign address, or neither address nor control.
KeepaliveAccepted(m) ==
  /\ held.verified \/ held.ctlVerified
  /\ held.addr = m.addr \/ (held.addr = 0 /\ held.ctl)

OnKeepalive(m, again) ==
  /\ m.kind = "KEEPALIVE"
  /\ net' = IF KeepaliveAccepted(m) THEN After(m, again)
            ELSE With(After(m, again), M("AGAIN", m.addr, 0))
  /\ UNCHANGED <<verified, me, held>> /\ Copied(again)

-----------------------------------------------------------------------------
(* The control connection: legForControl, ctlVerified and attachControl;   *)
(* then detachControl and the removal of an orphan                         *)

ControlConnects ==
  /\ ~held.ctl
  /\ held' = [held EXCEPT !.here = TRUE, !.ctlVerified = TRUE, !.ctl = TRUE]
  /\ UNCHANGED <<verified, me, net, faults>>

Detached == IF ~held.verified /\ held.addr = 0 THEN NotHeld ELSE [held EXCEPT !.ctl = FALSE]

-----------------------------------------------------------------------------
(* Faults *)

Fault == faults < MaxFaults /\ faults' = faults + 1

RelayRestarts == Fault /\ held' = NotHeld /\ UNCHANGED <<verified, me, net>>

BackendMoves == Fault /\ me < Addresses /\ me' = me + 1 /\ UNCHANGED <<verified, held, net>>

\* reapLoop: nothing refreshed the leg for LegTimeout.
LegLapses == Fault /\ held.here /\ held' = NotHeld /\ UNCHANGED <<verified, me, net>>

ControlDrops == Fault /\ held.ctl /\ held' = Detached /\ UNCHANGED <<verified, me, net>>

Lose(m) == net' = net \ {m} /\ UNCHANGED <<verified, me, held, faults>>

-----------------------------------------------------------------------------
Handle(m, again) ==
  \/ OnChallenge(m, again) \/ OnAgain(m, again) \/ OnOK(m, again)
  \/ OnHello(m, again) \/ OnProof(m, again) \/ OnKeepalive(m, again)

RegNext ==
  \/ Tick \/ ControlConnects
  \/ RelayRestarts \/ BackendMoves \/ LegLapses \/ ControlDrops
  \/ \E m \in net : Lose(m) \/ \E again \in BOOLEAN : Handle(m, again)

RegSpec == RegInit /\ [][RegNext]_regVars

\* Timers fire; of the messages a round trip starts with, goes on with and ends with, sent
\* again and again, one arrives; what was sent to an address the backend has left dies.
\* A control connection may come or not.
Turns == {{"HELLO", "KEEPALIVE"}, {"CHALLENGE", "AGAIN"}, {"PROOF", "OK"}}
RegFairness ==
  /\ WF_regVars(Tick)
  /\ WF_regVars(\E m \in net : m.addr # me /\ Lose(m))
  /\ \A turn \in Turns :
       SF_regVars(\E m \in net : m.kind \in turn /\ m.addr = me /\ Handle(m, FALSE))

FairRegSpec == RegSpec /\ RegFairness

-----------------------------------------------------------------------------
(* Properties *)

Registered == held.verified /\ held.addr = me

\* A late or repeated proof never takes the registration back to an address
\* the backend has left, once a newer one was registered (handleControl).
AddressNeverRollsBack ==
  [][held.addr # 0 /\ held'.addr # 0 => held'.addr >= held.addr]_regVars

\* Once the faults stop and no control connection is left, the relay holds the
\* backend's present address for good, although either side may have forgotten
\* or missed the other (AGAIN, relayClient.loop, handleControl).
SettlesAlone == <>[]~held.ctl => <>[]Registered

\* What the code does not keep: leg.go:174-175 says a backend whose leg is gone is told to register again, or
\* both sides would never agree again: so it ends registered in any case.
Settles == <>[]Registered
=============================================================================
