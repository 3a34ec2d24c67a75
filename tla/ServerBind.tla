----------------------------- MODULE ServerBind -----------------------------
(***************************************************************************)
(* The backend's UDP bind (pkg/servercore/bind.go): the sockets ("legs")   *)
(* it dials to the relay's data ports, one per session, and how they live  *)
(* through Close and Open.                                                 *)
(*                                                                         *)
(* The goroutines: the control client (ctl) registers and removes legs;    *)
(* the device (dev) closes and reopens the bind; each leg has a read loop  *)
(* (leg[l].pc); every generation of the bind has one reaper and one        *)
(* aggregating receiver; Send is called from the device at any time.       *)
(***************************************************************************)
EXTENDS Integers, FiniteSets

CONSTANTS
  Sid,          \* session numbers of the relay
  Remote,       \* the relay's data ports
  LegId,        \* pool of relayLeg objects, reused when nothing refers to them
  None,
  LegMax,       \* relayLegMax
  PortsMax,     \* legPortsMax
  ChMax,        \* capacity of legCh
  MaxGen        \* bound: generations of the bind (Open calls)

ASSUME NoneAssumption == None \notin Sid \cup Remote \cup LegId
ASSUME LimitsAssumption == {LegMax, PortsMax, ChMax, MaxGen} \subseteq Nat \ {0}

VARIABLES
  byID,         \* legByID
  byR,          \* legByR
  leg,          \* the relayLeg objects and their read loops
  recent,       \* legRecent
  ports,        \* legPorts
  dialled,      \* history: the remotes that ever had a leg
  queued,       \* packets in legCh
  ctl,          \* the control client inside RegisterLeg
  dev,          \* the device: "up", "waiting" (inside Close) or "closed"
  gen, dead,    \* the generation, and whether its dead_ channel is closed
  reaper, rx    \* legReapLoop and the aggregating receiver are running

tables == <<byID, byR, leg, recent, ports, dialled>>
life   == <<dev, gen, dead, reaper, rx>>
vars   == <<tables, queued, ctl, life>>

-----------------------------------------------------------------------------
\* pc: none; read (blocked in Read); hold (a packet read, not yet in legCh);
\* exit (the deferred clean-up is due).  gen: whose dead channel it watches.
Leg == [id : Sid \cup {None}, remote : Remote \cup {None}, open : BOOLEAN,
        idle : BOOLEAN, pc : {"none", "read", "hold", "exit"}, gen : 0 .. MaxGen]

NoLeg == [id |-> None, remote |-> None, open |-> FALSE, idle |-> FALSE,
          pc |-> "none", gen |-> 0]

NewLeg(s, r) == [id |-> s, remote |-> r, open |-> TRUE, idle |-> FALSE,
                 pc |-> "none", gen |-> 0]

Control == [pc : {"idle", "insert", "spawn"}, id : Sid \cup {None},
            remote : Remote \cup {None}, lg : LegId \cup {None}]

IdleControl == [pc |-> "idle", id |-> None, remote |-> None, lg |-> None]

TypeOK ==
  /\ byID \in [Sid -> LegId \cup {None}]
  /\ byR \in [Remote -> LegId \cup {None}]
  /\ leg \in [LegId -> Leg]
  /\ recent \subseteq Remote /\ dialled \subseteq Remote
  /\ ports \subseteq Remote /\ Cardinality(ports) <= PortsMax
  /\ queued \in 0 .. ChMax
  /\ ctl \in Control
  /\ dev \in {"up", "waiting", "closed"}
  /\ gen \in 1 .. MaxGen
  /\ dead \in BOOLEAN /\ reaper \in BOOLEAN /\ rx \in BOOLEAN

Init ==
  /\ byID = [s \in Sid |-> None] /\ byR = [r \in Remote |-> None]
  /\ leg = [l \in LegId |-> NoLeg]
  /\ recent = {} /\ ports = {} /\ dialled = {}
  /\ queued = 0 /\ ctl = IdleControl
  /\ dev = "up" /\ gen = 1 /\ dead = FALSE /\ reaper = TRUE /\ rx = TRUE

Legs == {byID[s] : s \in Sid} \ {None}
Routed == Legs \cup ({byR[r] : r \in Remote} \ {None})
FreeLegs == {l \in LegId \ (Routed \cup {ctl.lg}) : leg[l].pc = "none"}

\* The dead channel a read loop watches is closed.
Dead(l) == leg[l].gen # gen \/ dead

-----------------------------------------------------------------------------
(* removeLegLocked for every leg of a set: the socket is closed, and an    *)
(* entry goes only if it still is this leg.  Nobody asks a removed leg's    *)
(* age again.                                                              *)

OffID(S) ==
  [s \in Sid |-> IF byID[s] \in S /\ leg[byID[s]].id = s THEN None ELSE byID[s]]
OffR(S) ==
  [r \in Remote |-> IF byR[r] \in S /\ leg[byR[r]].remote = r THEN None ELSE byR[r]]
Shut(S) == [l \in LegId |-> IF l \in S THEN [leg[l] EXCEPT !.open = FALSE, !.idle = FALSE]
                            ELSE leg[l]]
RemotesOf(S) == {leg[l].remote : l \in S}

RemoveLegs(S) ==
  /\ byID' = OffID(S) /\ byR' = OffR(S) /\ leg' = Shut(S)
  /\ recent' = recent \cup RemotesOf(S)

-----------------------------------------------------------------------------
(* The control client: SESSION, RELEASE, and the OK of a new connection    *)

\* RegisterLeg up to the dial: the generation is alive now; it may end before
\* the lock is taken.
RegisterLeg(s, r) ==
  /\ ctl.pc = "idle" /\ ~dead
  /\ ctl' = [IdleControl EXCEPT !.pc = "insert", !.id = s, !.remote = r]
  /\ UNCHANGED <<tables, queued, life>>

\* The dial or the first write failed, or the table is full for a new session.
TableFull(s) == byID[s] = None /\ Cardinality(Legs) >= LegMax

RegisterFails ==
  /\ ctl.pc = "insert"
  /\ ctl' = IdleControl
  /\ UNCHANGED <<tables, queued, life>>

\* Mutant: only an older leg of the same session is replaced.
ReplacedBySession(s, r) == {byID[s]} \ {None}

Replaced(s, r) == {byID[s], byR[r]} \ {None}

\* legPorts is emptied when it is full: losing it costs attribution only.
Remembered(r) == (IF Cardinality(ports) >= PortsMax THEN {} ELSE ports) \cup {r}

InsertLeg ==
  LET s == ctl.id
      r == ctl.remote
      old == Replaced(s, r)
  IN
  /\ ctl.pc = "insert" /\ ~TableFull(s)
  /\ \E l \in FreeLegs :
       /\ byID' = [OffID(old) EXCEPT ![s] = l]
       /\ byR' = [OffR(old) EXCEPT ![r] = l]
       /\ leg' = [Shut(old) EXCEPT ![l] = NewLeg(s, r)]
       /\ ctl' = [ctl EXCEPT !.pc = "spawn", !.lg = l]
  /\ recent' = (recent \cup RemotesOf(old)) \ {r}
  /\ ports' = Remembered(r)
  /\ dialled' = dialled \cup {r}
  /\ UNCHANGED <<queued, life>>

\* The read loop watches the generation that is current when it is started.
SpawnReader ==
  /\ ctl.pc = "spawn"
  /\ leg' = [leg EXCEPT ![ctl.lg].pc = "read", ![ctl.lg].gen = gen]
  /\ ctl' = IdleControl
  /\ UNCHANGED <<byID, byR, recent, ports, dialled, queued, life>>

\* Between their check and their lock only Close could intervene, and it would
\* leave them nothing to remove: check and section are one action here.
ClearLegs ==
  /\ ctl.pc = "idle" /\ ~dead
  /\ RemoveLegs(Legs)
  /\ UNCHANGED <<ports, dialled, queued, ctl, life>>

RemoveLeg(s) ==
  /\ ctl.pc = "idle" /\ ~dead /\ byID[s] # None
  /\ RemoveLegs({byID[s]})
  /\ UNCHANGED <<ports, dialled, queued, ctl, life>>

-----------------------------------------------------------------------------
(* legReadLoop *)

ReadPacket(l) ==
  /\ leg[l].pc = "read" /\ leg[l].open
  /\ leg' = [leg EXCEPT ![l].pc = "hold", ![l].idle = FALSE]
  /\ UNCHANGED <<byID, byR, recent, ports, dialled, queued, ctl, life>>

\* The socket was closed, or the kernel reports a refused port.
ReadFails(l) ==
  /\ leg[l].pc = "read"
  /\ leg' = [leg EXCEPT ![l].pc = "exit"]
  /\ UNCHANGED <<byID, byR, recent, ports, dialled, queued, ctl, life>>

\* Mutant: the queue grows instead of making the read loop wait.
DeliverUnbounded(l) ==
  /\ leg[l].pc = "hold"
  /\ queued' = queued + 1
  /\ leg' = [leg EXCEPT ![l].pc = "read"]
  /\ UNCHANGED <<byID, byR, recent, ports, dialled, ctl, life>>

Deliver(l) ==
  /\ leg[l].pc = "hold" /\ queued < ChMax
  /\ queued' = queued + 1
  /\ leg' = [leg EXCEPT ![l].pc = "read"]
  /\ UNCHANGED <<byID, byR, recent, ports, dialled, ctl, life>>

DeliverDead(l) ==
  /\ leg[l].pc = "hold" /\ Dead(l)
  /\ leg' = [leg EXCEPT ![l].pc = "exit"]
  /\ UNCHANGED <<byID, byR, recent, ports, dialled, queued, ctl, life>>

\* Mutant: the loop ends and leaves its leg in the tables.
ReaderLeaves(l) ==
  /\ leg[l].pc = "exit"
  /\ leg' = [leg EXCEPT ![l].pc = "none"]
  /\ UNCHANGED <<byID, byR, recent, ports, dialled, queued, ctl, life>>

\* Mutant: the clean-up does not ask whether the entries still are this leg.
ReaderExitsBlindly(l) ==
  /\ leg[l].pc = "exit"
  /\ byID' = [byID EXCEPT ![leg[l].id] = None]
  /\ byR' = [byR EXCEPT ![leg[l].remote] = None]
  /\ recent' = recent \cup {leg[l].remote}
  /\ leg' = [leg EXCEPT ![l] = NoLeg]
  /\ UNCHANGED <<ports, dialled, queued, ctl, life>>

\* The deferred clean-up takes out only what still is this leg; after it the
\* object is garbage.
ReaderExits(l) ==
  LET s == leg[l].id
      r == leg[l].remote
  IN
  /\ leg[l].pc = "exit"
  /\ byID' = [byID EXCEPT ![s] = IF @ = l THEN None ELSE @]
  /\ byR' = [byR EXCEPT ![r] = IF @ = l THEN None ELSE @]
  /\ recent' = IF byID[s] = l \/ byR[r] = l THEN recent \cup {r} ELSE recent
  /\ leg' = [leg EXCEPT ![l] = NoLeg]
  /\ UNCHANGED <<ports, dialled, queued, ctl, life>>

-----------------------------------------------------------------------------
(* Send, the receiver and the reaper *)

\* Mutant: only the recently removed remotes are remembered.
RouteOfRecent(r) ==
  IF byR[r] # None THEN "leg" ELSE IF r \in recent THEN "drop" ELSE "main"

\* Where Send takes a packet for r.
RouteOf(r) ==
  IF byR[r] # None THEN "leg" ELSE IF r \in recent \cup ports THEN "drop" ELSE "main"

\* A packet sent over a leg counts as activity; the other routes change nothing.
Send(r) ==
  /\ RouteOf(r) = "leg"
  /\ leg' = [leg EXCEPT ![byR[r]].idle = FALSE]
  /\ UNCHANGED <<byID, byR, recent, ports, dialled, queued, ctl, life>>

Receive ==
  /\ rx /\ queued > 0
  /\ queued' = queued - 1
  /\ UNCHANGED <<tables, ctl, life>>

ReceiverExits ==
  /\ rx /\ dead
  /\ rx' = FALSE
  /\ UNCHANGED <<tables, queued, ctl, dev, gen, dead, reaper>>

AgeLeg(l) ==
  /\ l \in Legs /\ ~leg[l].idle
  /\ leg' = [leg EXCEPT ![l].idle = TRUE]
  /\ UNCHANGED <<byID, byR, recent, ports, dialled, queued, ctl, life>>

\* A sweep takes every idle leg, and the remotes whose window has passed.
Sweep ==
  LET idle == {l \in Legs : leg[l].idle} IN
  /\ reaper
  /\ byID' = OffID(idle) /\ byR' = OffR(idle) /\ leg' = Shut(idle)
  /\ \E past \in SUBSET recent : recent' = (recent \ past) \cup RemotesOf(idle)
  /\ UNCHANGED <<ports, dialled, queued, ctl, life>>

ReaperExits ==
  /\ reaper /\ dead
  /\ reaper' = FALSE
  /\ UNCHANGED <<tables, queued, ctl, dev, gen, dead, rx>>

-----------------------------------------------------------------------------
(* Close and Open, called by the device one after the other *)

CloseBegins ==
  /\ dev = "up"
  /\ dev' = "waiting" /\ dead' = TRUE
  /\ UNCHANGED <<tables, queued, ctl, gen, reaper, rx>>

\* The reaper has ended; every leg of the table is closed and both tables emptied.
CloseEnds ==
  /\ dev = "waiting" /\ ~reaper
  /\ byID' = [s \in Sid |-> None] /\ byR' = [r \in Remote |-> None]
  /\ leg' = Shut(Legs)
  /\ dev' = "closed"
  /\ UNCHANGED <<recent, ports, dialled, queued, ctl, gen, dead, reaper, rx>>

\* Mutant: the reaper was started once and is not started again.
OpenWithoutReaper ==
  /\ dev = "closed" /\ ~rx /\ gen < MaxGen
  /\ gen' = gen + 1 /\ dead' = FALSE /\ rx' = TRUE
  /\ dev' = "up"
  /\ UNCHANGED <<tables, queued, ctl, reaper>>

\* The device opens again once the receivers of the last generation are gone.
Open ==
  /\ dev = "closed" /\ ~rx /\ gen < MaxGen
  /\ gen' = gen + 1 /\ dead' = FALSE /\ reaper' = TRUE /\ rx' = TRUE
  /\ dev' = "up"
  /\ UNCHANGED <<tables, queued, ctl>>

-----------------------------------------------------------------------------
ControlSteps ==
  \/ \E s \in Sid, r \in Remote : RegisterLeg(s, r)
  \/ \E s \in Sid : RemoveLeg(s)
  \/ RegisterFails \/ InsertLeg \/ SpawnReader \/ ClearLegs

ReaderSteps(l) ==
  ReadPacket(l) \/ ReadFails(l) \/ Deliver(l) \/ DeliverDead(l) \/ ReaderExits(l)

DeviceSteps == CloseBegins \/ CloseEnds \/ Open

Next ==
  \/ ControlSteps \/ DeviceSteps
  \/ \E l \in LegId : ReaderSteps(l) \/ AgeLeg(l)
  \/ \E r \in Remote : Send(r)
  \/ Receive \/ ReceiverExits \/ Sweep \/ ReaperExits

Spec == Init /\ [][Next]_vars

\* The ticker of a running reaper keeps firing; goroutines run.
FairSpec == Spec /\ WF_vars(Sweep) /\ WF_vars(SpawnReader)

-----------------------------------------------------------------------------
(* Properties *)

\* The two tables are one relation: Send by remote and RELEASE by session
\* always find the same leg, whoever replaced or lost it (RegisterLeg,
\* removeLegLocked, the deferred clean-up of legReadLoop).
TablesAgree ==
  /\ \A s \in Sid : byID[s] # None => leg[byID[s]].id = s /\ byR[leg[byID[s]].remote] = byID[s]
  /\ \A r \in Remote : byR[r] # None => leg[byR[r]].remote = r /\ byID[leg[byR[r]].id] = byR[r]

\* A leg Send can choose has a read loop, or is about to get one: when the
\* socket dies somebody is left to take it out, although Send keeps it fresh.
RoutedLegHasReader ==
  \A l \in Routed : leg[l].pc # "none" \/ (ctl.pc = "spawn" /\ ctl.lg = l)

\* No more than relayLegMax legs, although replays of known sessions are
\* accepted at the limit.
LegsWithinLimit == Cardinality(Legs) <= LegMax

\* A packet for a remote that ever was a data port never leaves from the main
\* socket (Send), as long as legPorts has not overflowed.
NeverMainToDataPort ==
  Cardinality(dialled) < PortsMax => \A r \in dialled : RouteOf(r) # "main"

\* What the relay is promised.
Port == [s \in Sid |-> IF byID[s] = None THEN None ELSE leg[byID[s]].remote]
Registry == INSTANCE LegRegistry WITH port <- Port
RegistrySpec == Registry!Spec

\* While the bind stays open an idle leg is taken out or used again, in every
\* generation (legReapLoop is started by each Open).
IdleLegsGo ==
  \A l \in LegId :
    []<>~(l \in Legs /\ leg[l].idle /\ dev = "up")

=============================================================================
