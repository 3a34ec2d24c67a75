----------------------------- MODULE ClientBind -----------------------------
(* The client's UDP bind (wtransport/bind.go): one socket at a time, read by one  *)
(* goroutine of the WireGuard device, written by Send, replaced by Rebind; and the  *)
(* race among the candidate addresses of the exit, in which the relays wait for a    *)
(* window in which only the direct candidates are tried.                       *)
EXTENDS Integers, FiniteSets

CONSTANTS
  DirectEp, RelayEp,  \* the candidates
  StrangeEp,          \* sources that are no candidate: a NAT that moved
  MaxSockets,         \* bound: sockets ever opened
  MaxRaces            \* bound: races ever started

ASSUME ClientBindAssumption ==
  /\ MaxSockets \in Nat \ {0} /\ MaxRaces \in Nat \ {0} /\ DirectEp \cap RelayEp = {}
  /\ "none" \notin DirectEp \cup RelayEp \cup StrangeEp

VARIABLES
  sock,     \* what the operating system holds of each socket
  current,  \* b.conn, 0 before the first Open
  shut,     \* b.closed
  receiver,   \* the receive function in the device's goroutine: where, and its socket
  rebind,   \* a Rebind under way: the socket it opened, the one it replaced
  path,     \* valid, adopted, handoverTo
  race,     \* relayUnlocked, the race that spent unlockOnce, and whether the window is over
  sleepers, \* the goroutines that wait for the window: the race each was started in
  sending,  \* a Send under way that saw no path
  early     \* history: who wrote to a relay inside this race's window
clientBindVars == <<sock, current, shut, receiver, rebind, path, race, sleepers, sending, early>>

Endpoint == DirectEp \cup RelayEp \cup StrangeEp
Socket == 1..MaxSockets
NoEndpoint == "none"
IdleRebind == [at |-> "idle", new |-> 0, old |-> 0]

ClientBindInit ==
  /\ sock = [s \in Socket |-> "none"] /\ current = 0 /\ shut = FALSE
  /\ receiver = [at |-> "none", on |-> 0]
  /\ rebind = IdleRebind
  /\ path = [valid |-> FALSE, adopted |-> NoEndpoint, handover |-> NoEndpoint]
  /\ race = [no |-> 0, unlocked |-> FALSE, scheduled |-> 0, over |-> FALSE, soft |-> FALSE]
  /\ sleepers = {} /\ sending = "idle" /\ early = {}

FreshRace == {s \in Socket : sock[s] = "none" /\ \A t \in Socket : t < s => sock[t] # "none"}

\* The device opens the bind at its start, and again after a Close of its own: it has
\* waited for the receive goroutine to end. valid and unlockOnce keep their values.
OpenBind ==
  /\ receiver.at \in {"none", "gone"} /\ (current = 0 \/ shut)
  /\ race.no < MaxRaces
  /\ \E s \in FreshRace :
       /\ sock' = [sock EXCEPT ![s] = "open"] /\ current' = s
       /\ receiver' = [at |-> "reads", on |-> s]
  /\ shut' = FALSE
  /\ race' = [race EXCEPT !.no = @ + 1, !.unlocked = DirectEp = {}, !.over = FALSE, !.soft = FALSE]
  /\ early' = {} /\ UNCHANGED <<rebind, path, sleepers, sending>>

\* Under the lock: the flag and the socket together.
CloseBind ==
  /\ current # 0 /\ ~shut
  /\ shut' = TRUE /\ sock' = [sock EXCEPT ![current] = "closed"]
  /\ UNCHANGED <<current, receiver, rebind, path, race, sleepers, sending, early>>

\* The system takes the socket away: a frozen phone that wakes up.
SocketDies ==
  /\ current # 0 /\ sock[current] = "open" /\ sock' = [sock EXCEPT ![current] = "void"]
  /\ UNCHANGED <<current, shut, receiver, rebind, path, race, sleepers, sending, early>>

RebindOnly == UNCHANGED <<path, race, sleepers, sending, early, receiver>>
RebindListens ==
  /\ rebind.at = "idle" /\ current # 0
  /\ \E s \in FreshRace : sock' = [sock EXCEPT ![s] = "open"] /\ rebind' = [at |-> "listens", new |-> s, old |-> 0]
  /\ UNCHANGED <<current, shut>> /\ RebindOnly

\* Mutant: a Rebind does not look whether the bind is closed.
RebindSwapsAlways ==
  /\ rebind.at = "listens"
  /\ rebind' = [rebind EXCEPT !.at = "closes", !.old = current] /\ current' = rebind.new
  /\ UNCHANGED <<sock, shut>> /\ RebindOnly
\* A bind that was closed meanwhile: the new socket has no receiver, it is closed again.
RebindSwaps ==
  /\ rebind.at = "listens"
  /\ IF shut THEN /\ rebind' = [rebind EXCEPT !.at = "closes", !.old = rebind.new] /\ UNCHANGED current
             ELSE /\ rebind' = [rebind EXCEPT !.at = "closes", !.old = current] /\ current' = rebind.new
  /\ UNCHANGED <<sock, shut>> /\ RebindOnly
RebindEnds ==
  /\ rebind.at = "closes" /\ sock' = [sock EXCEPT ![rebind.old] = "closed"] /\ rebind' = IdleRebind
  /\ UNCHANGED <<current, shut>> /\ RebindOnly

ReceiverOnly == UNCHANGED <<sock, current, shut, rebind, race, sleepers, sending, early>>

\* Mutant: the path that was moved away from is kept whatever comes.
PathFromKept(src) ==
  [valid |-> TRUE, adopted |-> src,
   handover |-> IF path.valid /\ path.adopted # src /\ src \in StrangeEp THEN path.adopted ELSE path.handover]
\* A packet: its source is the path from now on. The path it replaces is written to as
\* well for a while, when the new source is no candidate.
PathFrom(src) ==
  [valid |-> TRUE, adopted |-> src,
   handover |-> IF path.valid /\ path.adopted # src /\ src \in StrangeEp THEN path.adopted
                ELSE IF path.adopted # src THEN NoEndpoint ELSE path.handover]
Receives ==
  /\ receiver.at = "reads" /\ sock[receiver.on] = "open"
  /\ \E src \in Endpoint : path' = PathFrom(src)
  /\ receiver' = [at |-> "reads", on |-> current] /\ ReceiverOnly
SocketReadFails ==
  /\ receiver.at = "reads" /\ sock[receiver.on] # "open"
  /\ receiver' = [receiver EXCEPT !.at = "failed"] /\ UNCHANGED path /\ ReceiverOnly

\* Mutant: the failure of a socket is the end, unless it was replaced.
AfterFailureEnds ==
  IF receiver.on # current THEN [at |-> "reads", on |-> current] ELSE [at |-> "gone", on |-> 0]
\* Mutant: the flag is not looked at.
AfterFailureSleeps ==
  IF receiver.on # current THEN [at |-> "reads", on |-> current] ELSE [at |-> "sleeps", on |-> receiver.on]
\* A socket that was replaced: read the new one. A bind that was closed: tell the device.
\* Any other failure is kept from the device, whose goroutine would end.
AfterFailure ==
  IF receiver.on # current THEN [at |-> "reads", on |-> current]
  ELSE IF shut THEN [at |-> "gone", on |-> 0] ELSE [at |-> "sleeps", on |-> receiver.on]
LooksAgain == receiver.at = "failed" /\ receiver' = AfterFailure /\ UNCHANGED path /\ ReceiverOnly
WakesUp ==
  /\ receiver.at = "sleeps" /\ receiver' = [at |-> "reads", on |-> current] /\ UNCHANGED path /\ ReceiverOnly

RaceOnly == UNCHANGED <<sock, current, shut, receiver, rebind, sleepers, sending>>
\* Mutant: a new race leaves the relays unlocked.
RearmUnlocked ==
  /\ race.no < MaxRaces
  /\ race' = [race EXCEPT !.no = @ + 1, !.scheduled = 0, !.over = FALSE, !.soft = FALSE]
  /\ path' = [path EXCEPT !.valid = FALSE] /\ early' = {} /\ RaceOnly
Rearm ==
  /\ race.no < MaxRaces
  /\ race' = [no |-> race.no + 1, unlocked |-> DirectEp = {}, scheduled |-> 0, over |-> FALSE, soft |-> FALSE]
  /\ path' = [path EXCEPT !.valid = FALSE] /\ early' = {} /\ RaceOnly
RearmSoft ==
  /\ race.no < MaxRaces
  /\ race' = [no |-> race.no + 1, unlocked |-> TRUE, scheduled |-> race.no + 1, over |-> FALSE, soft |-> TRUE]
  /\ path' = [path EXCEPT !.valid = FALSE] /\ early' = {} /\ RaceOnly
WindowPasses ==
  /\ ~race.over /\ race' = [race EXCEPT !.over = TRUE] /\ UNCHANGED <<path, early>> /\ RaceOnly

SendOnly == UNCHANGED <<sock, current, shut, receiver, rebind, path>>

\* Send looks at the path once; on a path it writes there, and the race is over.
TakesPath ==
  /\ sending = "idle" /\ current # 0 /\ ~path.valid /\ sending' = "mirrors"
  /\ UNCHANGED <<race, sleepers, early>> /\ SendOnly

RelayAllowed == race.unlocked \/ DirectEp = {} \/ race.over
InWindow == ~race.over /\ ~race.soft /\ DirectEp # {}
\* A packet of the race: to the direct candidates, and to the relays when they are allowed.
\* The first packet of a race inside its window starts the goroutine that waits for its end.
Mirrors ==
  /\ sending = "mirrors" /\ sending' = "idle"
  /\ race' = [race EXCEPT !.unlocked = @ \/ RelayAllowed, !.scheduled = IF ~RelayAllowed /\ @ = 0 THEN race.no ELSE @]
  /\ sleepers' = sleepers \cup (IF ~RelayAllowed /\ race.scheduled = 0 THEN {race.no} ELSE {})
  /\ early' = early \cup (IF RelayAllowed /\ InWindow THEN {"send"} ELSE {})
  /\ SendOnly

\* Mutant: a goroutine of the race leaves without a look.
SleeperLeaves(n) ==
  /\ n \in sleepers /\ (n < race.no \/ race.over) /\ sleepers' = sleepers \ {n}
  /\ UNCHANGED <<race, early, sending>> /\ SendOnly
\* The window of the race it was started in is over: with no path yet the relays are unlocked.
SleeperWakes(n) ==
  /\ n \in sleepers /\ (n < race.no \/ race.over) /\ sleepers' = sleepers \ {n}
  /\ IF path.valid \/ race.unlocked THEN UNCHANGED <<race, early>>
     ELSE /\ race' = [race EXCEPT !.unlocked = TRUE]
          /\ early' = early \cup (IF InWindow THEN {"sleeper"} ELSE {})
  /\ UNCHANGED sending /\ SendOnly

ReceiverSteps == Receives \/ SocketReadFails \/ LooksAgain \/ WakesUp
SendSteps == TakesPath \/ Mirrors
ClientBindNext ==
  \/ OpenBind \/ CloseBind \/ SocketDies
  \/ RebindListens \/ RebindSwaps \/ RebindEnds
  \/ ReceiverSteps
  \/ Rearm \/ RearmSoft \/ WindowPasses
  \/ SendSteps
  \/ \E n \in sleepers : SleeperWakes(n)

\* The device's goroutine and a Rebind run on, time passes, sleeping goroutines wake up.
ClientBindFairness ==
  /\ WF_clientBindVars(SocketReadFails \/ LooksAgain \/ WakesUp)
  /\ WF_clientBindVars(RebindSwaps \/ RebindEnds)
  /\ WF_clientBindVars(WindowPasses)
  /\ \A n \in 1..MaxRaces : WF_clientBindVars(SleeperWakes(n))
ClientBindSpec == ClientBindInit /\ [][ClientBindNext]_clientBindVars /\ ClientBindFairness
-----------------------------------------------------------------------------
\* What every variable may hold.
ClientBindTypeOK ==
  /\ sock \in [Socket -> {"none", "open", "void", "closed"}] /\ current \in 0..MaxSockets /\ shut \in BOOLEAN
  /\ receiver.at \in {"none", "reads", "failed", "sleeps", "gone"} /\ receiver.on \in 0..MaxSockets
  /\ path.adopted \in Endpoint \cup {NoEndpoint} /\ path.handover \in Endpoint \cup {NoEndpoint}
  /\ path.valid => path.adopted # NoEndpoint
  /\ path.handover # NoEndpoint => path.handover # path.adopted
  /\ sleepers \subseteq 1..race.no

\* A socket that is open is the bind's own, of a bind that is not closed, or in the hands
\* of a Rebind that closes it: none is left that nobody reads and nobody closes, whatever the
\* order of Close, Rebind and a reopening.
NoStraySocket ==
  \A s \in Socket : sock[s] \in {"open", "void"} =>
    \/ s = current /\ ~shut
    \/ rebind.at = "listens" /\ s = rebind.new
    \/ rebind.at = "closes" /\ s = rebind.old

\* As long as the bind is open its receive goroutine lives, through sockets that die and are
\* replaced: a goroutine that ended would leave a bind that sends and never hears.
HearsWhileOpen == current # 0 /\ ~shut => receiver.at \in {"reads", "failed", "sleeps"}

\* Send never writes to a relay while the window of a race for the direct candidates runs,
\* whatever an earlier race had unlocked.
SendWaitsForDirect == "send" \in early => "sleeper" \in early

\* Whatever happens to the sockets, an open bind hears on the one it has, a closed one has
\* none, and a race for the direct path is not spoilt by a packet to a relay.
SocketsAreKept == NoStraySocket /\ HearsWhileOpen /\ SendWaitsForDirect

\* A closed bind's goroutine ends, also when the bind's socket was being replaced.
ReceiverEnds == []<>(shut => receiver.at = "gone")

\* A race whose first packet was sent and that no one answers goes on to the relays: the
\* packet need not be followed by another.
SilentRaceUnlocks == []<>(race.scheduled = race.no /\ race.no > 0 => race.unlocked \/ path.valid)
-----------------------------------------------------------------------------
(* What the code does not keep: a goroutine left from an earlier race finds the  *)
(* next one with the relays locked again, and unlocks them in its window.         *)
RelayIsFallback == early = {}
=============================================================================
