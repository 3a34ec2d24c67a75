-------------------------- MODULE Supervisor_proofs --------------------------
(* Theorems about the parts that MCSupervisor composes: the supervisor of a role,    *)
(* the shells of the terminal service, the patrol of a tunnel, what a session learns *)
(* of its exit's addresses, and the client's bind, which never loses a socket or its *)
(* ear and spoils no race by a Send of its own; and the types of all of them.        *)
EXTENDS MCSupervisor, FiniteSetTheorems, TLAPS

-----------------------------------------------------------------------------
(* The client's bind *)

Where == {"none", "reads", "failed", "sleeps", "gone"}
Receiver == [at : Where, on : 0 .. MaxSockets]
Swap == [at : {"idle", "listens", "closes"}, new : 0 .. MaxSockets, old : 0 .. MaxSockets]
Path == [valid : BOOLEAN, adopted : Endpoint \cup {NoEndpoint},
         handover : Endpoint \cup {NoEndpoint}]
Race == [no : 0 .. MaxRaces, unlocked : BOOLEAN, scheduled : 0 .. MaxRaces,
         over : BOOLEAN, soft : BOOLEAN]

Typed ==
  /\ sock \in [Socket -> {"none", "open", "void", "closed"}]
  /\ current \in 0 .. MaxSockets /\ shut \in BOOLEAN
  /\ receiver \in Receiver /\ rebind \in Swap
  /\ path \in Path /\ race \in Race
  /\ sleepers \subseteq 1 .. race.no

\* What the path points at is an address; it is never the one it replaced.
PathIsSound ==
  /\ path.valid => path.adopted # NoEndpoint
  /\ path.handover # NoEndpoint => path.handover # path.adopted

\* A Rebind begins on a bind that was opened, which keeps a socket from then on: the
\* one that a Rebind puts in its place is one.
SwapsInPlace ==
  /\ rebind.at # "idle" => current # 0
  /\ rebind.at = "listens" => rebind.new # 0

\* Inside the window of a race for the direct path only a goroutine of an earlier race
\* has unlocked the relays.
LockedInWindow == race.unlocked /\ InWindow => "sleeper" \in early

SocketsInv == SwapsInPlace /\ NoStraySocket /\ HearsWhileOpen
RaceInv == LockedInWindow /\ SendWaitsForDirect

\* A bind that has a socket has begun a race.
RaceIsOn == current # 0 \/ sending = "mirrors" => race.no # 0

CoreInv == Typed /\ PathIsSound /\ SocketsInv /\ RaceInv
KeptInv == CoreInv /\ RaceIsOn

-----------------------------------------------------------------------------
(* Records *)

LEMMA SwapUpdates ==
  ASSUME NEW b \in Swap, NEW n \in 0 .. MaxSockets
  PROVE  [[b EXCEPT !.at = "closes"] EXCEPT !.old = n] \in Swap
BY DEF Swap

LEMMA RaceUpdates ==
  ASSUME NEW r \in Race
  PROVE  /\ \A b \in BOOLEAN : [r EXCEPT !.unlocked = b] \in Race
         /\ \A b \in BOOLEAN : [r EXCEPT !.over = b] \in Race
         /\ \A b \in BOOLEAN : [r EXCEPT !.soft = b] \in Race
         /\ \A n \in 0 .. MaxRaces : [r EXCEPT !.scheduled = n] \in Race
         /\ \A n \in 0 .. MaxRaces : [r EXCEPT !.no = n] \in Race
BY DEF Race

LEMMA RaceNumbers ==
  ASSUME race \in Race
  PROVE  race.no \in 0 .. MaxRaces /\ race.no \in Nat
BY ClientBindAssumption DEF Race

-----------------------------------------------------------------------------
LEMMA KeptInit == ClientBindInit => KeptInv
<1> SUFFICES ASSUME ClientBindInit PROVE KeptInv
  OBVIOUS
<1> USE ClientBindAssumption DEF ClientBindInit
<1>1. 0 \in 0 .. MaxSockets /\ 0 \in 0 .. MaxRaces
  OBVIOUS
<1>2. receiver \in Receiver
  BY <1>1 DEF Receiver, Where
<1>3. rebind \in Swap
  BY <1>1 DEF Swap, IdleRebind
<1>4. path \in Path
  BY DEF Path
<1>5. race \in Race /\ sleepers \subseteq 1 .. race.no
  BY <1>1 DEF Race
<1>6. Typed
  BY <1>1, <1>2, <1>3, <1>4, <1>5 DEF Typed
<1>7. PathIsSound
  BY DEF PathIsSound
<1>8. SocketsInv
  BY DEF SocketsInv, SwapsInPlace, NoStraySocket, HearsWhileOpen, IdleRebind
<1>9. RaceInv
  BY DEF RaceInv, LockedInWindow, SendWaitsForDirect
<1>10. RaceIsOn
  BY DEF RaceIsOn
<1> QED BY <1>6, <1>7, <1>8, <1>9, <1>10 DEF KeptInv, CoreInv

-----------------------------------------------------------------------------
(* What a step that leaves a part alone keeps of it. *)

LEMMA Standing ==
  ASSUME KeptInv
  PROVE  /\ UNCHANGED <<sock, current, shut, receiver, rebind>> => SocketsInv'
         /\ UNCHANGED <<race, early>> => RaceInv'
         /\ UNCHANGED path => PathIsSound'
BY DEF KeptInv, CoreInv, SocketsInv, SwapsInPlace, NoStraySocket, HearsWhileOpen, RaceInv,
       LockedInWindow, InWindow, SendWaitsForDirect, PathIsSound

\* A race that begins has its relays locked, unless there is nothing direct to wait for.
LEMMA RaceBegins ==
  ASSUME KeptInv, early' = {}, race' \in Race,
         race'.unlocked => DirectEp = {} \/ race'.soft
  PROVE  RaceInv'
BY DEF RaceInv, LockedInWindow, InWindow, SendWaitsForDirect

-----------------------------------------------------------------------------
(* The device's goroutine, Close, the system and Rebind *)

LEMMA OpenBindKept == KeptInv /\ OpenBind => CoreInv'
<1> SUFFICES ASSUME KeptInv, OpenBind PROVE CoreInv'
  OBVIOUS
<1> USE ClientBindAssumption DEF KeptInv, CoreInv
<1>1. PICK s \in FreshRace :
        /\ sock' = [sock EXCEPT ![s] = "open"] /\ current' = s
        /\ receiver' = [at |-> "reads", on |-> s]
  BY DEF OpenBind
<1>2. s \in Socket /\ s \in 0 .. MaxSockets /\ s # 0
  BY <1>1 DEF FreshRace, Socket
<1>3. race.no + 1 \in 0 .. MaxRaces /\ race.no < race.no + 1 /\ race.no \in Nat
  BY RaceNumbers DEF OpenBind, Typed
<1>4. /\ race' \in Race /\ race'.no = race.no + 1
      /\ race'.unlocked => DirectEp = {}
  <2>1. race \in Race
    BY DEF Typed
  <2> DEFINE r1 == [race EXCEPT !.no = race.no + 1]
  <2> DEFINE r2 == [r1 EXCEPT !.unlocked = (DirectEp = {})]
  <2> DEFINE r3 == [r2 EXCEPT !.over = FALSE]
  <2>2. r1 \in Race /\ r1.no = race.no + 1
    BY <1>3, <2>1, RaceUpdates DEF Race
  <2>3. race' = [r3 EXCEPT !.soft = FALSE]
    BY DEF OpenBind
  <2> HIDE DEF r1
  <2>4. r2 \in Race /\ r2.no = race.no + 1 /\ r2.unlocked = (DirectEp = {})
    BY <2>2, RaceUpdates DEF Race
  <2> HIDE DEF r2
  <2>5. r3 \in Race /\ r3.no = race.no + 1 /\ r3.unlocked = (DirectEp = {})
    BY <2>4, RaceUpdates DEF Race
  <2> HIDE DEF r3
  <2> QED BY <2>3, <2>5, RaceUpdates DEF Race
<1>5. receiver' \in Receiver
  BY <1>1, <1>2 DEF Receiver, Where
<1>6. shut' = FALSE /\ early' = {} /\ UNCHANGED <<rebind, path, sleepers>>
  BY DEF OpenBind
<1>7. sleepers' \subseteq 1 .. race'.no
  BY <1>3, <1>4, <1>6 DEF Typed
<1>8. Typed'
  BY <1>1, <1>2, <1>4, <1>5, <1>6, <1>7 DEF Typed
<1>9. current = 0 \/ shut
  BY DEF OpenBind
<1>10. SocketsInv'
  BY <1>1, <1>2, <1>6, <1>9 DEF SocketsInv, SwapsInPlace, NoStraySocket, HearsWhileOpen, Typed, Socket
<1>11. RaceInv'
  BY <1>4, <1>6, RaceBegins
<1>12. PathIsSound'
  BY <1>6, Standing
<1> QED BY <1>8, <1>10, <1>11, <1>12

LEMMA SocketStepKept ==
  ASSUME KeptInv, CloseBind \/ SocketDies \/ RebindListens \/ RebindSwaps \/ RebindEnds
  PROVE  CoreInv'
<1> USE ClientBindAssumption DEF KeptInv, CoreInv
<1>0. UNCHANGED <<path, race, sleepers, early, receiver>>
  BY DEF CloseBind, SocketDies, RebindListens, RebindSwaps, RebindEnds, RebindOnly
<1>1. PathIsSound' /\ RaceInv'
  BY <1>0, Standing
<1> SUFFICES Typed' /\ SocketsInv'
  BY <1>1
<1> USE DEF SocketsInv
<1>2. CASE CloseBind
  <2>1. /\ current \in Socket /\ shut' = TRUE /\ UNCHANGED <<current, rebind>>
        /\ sock' = [sock EXCEPT ![current] = "closed"]
    BY <1>2 DEF CloseBind, Typed, Socket
  <2>2. Typed'
    BY <1>0, <2>1 DEF Typed
  <2>3. SocketsInv'
    BY <2>1 DEF Typed, SwapsInPlace, NoStraySocket, HearsWhileOpen
  <2> QED BY <2>2, <2>3
<1>3. CASE SocketDies
  <2>1. /\ current \in Socket /\ sock[current] = "open" /\ UNCHANGED <<current, shut, rebind>>
        /\ sock' = [sock EXCEPT ![current] = "void"]
    BY <1>3 DEF SocketDies, Typed, Socket
  <2>2. Typed'
    BY <1>0, <2>1 DEF Typed
  <2>3. SocketsInv'
    BY <1>0, <2>1 DEF Typed, SwapsInPlace, NoStraySocket, HearsWhileOpen
  <2> QED BY <2>2, <2>3
<1>4. CASE RebindListens
  <2>1. PICK s \in FreshRace :
          sock' = [sock EXCEPT ![s] = "open"] /\ rebind' = [at |-> "listens", new |-> s, old |-> 0]
    BY <1>4 DEF RebindListens
  <2>2. s \in Socket /\ s # 0 /\ rebind.at = "idle" /\ current # 0 /\ UNCHANGED <<current, shut>>
    BY <1>4 DEF RebindListens, FreshRace, Socket
  <2>3. rebind' \in Swap
    BY <2>1, <2>2 DEF Swap, Socket
  <2>4. Typed'
    BY <1>0, <2>1, <2>2, <2>3 DEF Typed
  <2>5. SocketsInv'
    BY <1>0, <2>1, <2>2 DEF Typed, SwapsInPlace, NoStraySocket, HearsWhileOpen
  <2> QED BY <2>4, <2>5
<1>5. CASE RebindSwaps
  <2>1. rebind.at = "listens" /\ rebind \in Swap /\ UNCHANGED <<sock, shut>>
    BY <1>5 DEF RebindSwaps, Typed
  <2>2. current # 0 /\ rebind.new # 0 /\ rebind.new \in 0 .. MaxSockets
    BY <2>1 DEF SwapsInPlace, Swap
  <2>3. CASE shut
    <3>1. rebind' = [[rebind EXCEPT !.at = "closes"] EXCEPT !.old = rebind.new] /\ UNCHANGED current
      BY <1>5, <2>3 DEF RebindSwaps
    <3>2. rebind' \in Swap /\ rebind'.at = "closes" /\ rebind'.old = rebind.new
      BY <2>1, <2>2, <3>1, SwapUpdates DEF Swap
    <3>3. Typed'
      BY <1>0, <2>1, <3>1, <3>2 DEF Typed
    <3>4. SocketsInv'
      BY <1>0, <2>1, <2>2, <2>3, <3>1, <3>2 DEF SwapsInPlace, NoStraySocket, HearsWhileOpen
    <3> QED BY <3>3, <3>4
  <2>4. CASE ~shut
    <3>1. rebind' = [[rebind EXCEPT !.at = "closes"] EXCEPT !.old = current] /\ current' = rebind.new
      BY <1>5, <2>4 DEF RebindSwaps
    <3>2. rebind' \in Swap /\ rebind'.at = "closes" /\ rebind'.old = current
      BY <2>1, <3>1, SwapUpdates DEF Swap, Typed
    <3>3. Typed'
      BY <1>0, <2>1, <2>2, <3>1, <3>2 DEF Typed
    <3>4. SocketsInv'
      BY <1>0, <2>1, <2>2, <2>4, <3>1, <3>2 DEF SwapsInPlace, NoStraySocket, HearsWhileOpen
    <3> QED BY <3>3, <3>4
  <2> QED BY <2>1, <2>3, <2>4
<1>6. CASE RebindEnds
  <2>1. /\ rebind.at = "closes" /\ sock' = [sock EXCEPT ![rebind.old] = "closed"]
        /\ rebind' = IdleRebind /\ UNCHANGED <<current, shut>>
    BY <1>6 DEF RebindEnds
  <2>2. IdleRebind \in Swap
    BY DEF IdleRebind, Swap
  <2>3. Typed'
    BY <1>0, <2>1, <2>2 DEF Typed
  <2>4. SocketsInv'
    BY <1>0, <2>1 DEF Typed, SwapsInPlace, NoStraySocket, HearsWhileOpen, IdleRebind
  <2> QED BY <2>3, <2>4
<1> QED BY <1>2, <1>3, <1>4, <1>5, <1>6

-----------------------------------------------------------------------------
(* The receive function *)

LEMMA ReceiverStepKept == KeptInv /\ ReceiverSteps => CoreInv'
<1> SUFFICES ASSUME KeptInv, ReceiverSteps PROVE CoreInv'
  OBVIOUS
<1> USE DEF KeptInv, CoreInv
<1>0. UNCHANGED <<sock, current, shut, rebind, race, sleepers, early>>
  BY DEF ReceiverSteps, Receives, SocketReadFails, LooksAgain, WakesUp, ReceiverOnly
<1>1. RaceInv'
  BY <1>0, Standing
<1>2. receiver \in Receiver /\ current \in 0 .. MaxSockets
  BY DEF Typed
<1>3. receiver' \in Receiver /\ (receiver'.at \in {"reads", "failed", "sleeps"} \/ shut)
  <2>1. CASE Receives \/ WakesUp
    BY <1>2, <2>1 DEF Receives, WakesUp, Receiver, Where
  <2>2. CASE SocketReadFails
    BY <1>2, <2>2 DEF SocketReadFails, Receiver, Where
  <2>3. CASE LooksAgain
    <3>1. CASE receiver.on # current
      BY <1>2, <2>3, <3>1 DEF LooksAgain, AfterFailure, Receiver, Where
    <3>2. CASE receiver.on = current /\ shut
      BY <1>2, <2>3, <3>2, ClientBindAssumption DEF LooksAgain, AfterFailure, Receiver, Where
    <3>3. CASE receiver.on = current /\ ~shut
      BY <1>2, <2>3, <3>3 DEF LooksAgain, AfterFailure, Receiver, Where
    <3> QED BY <3>1, <3>2, <3>3
  <2> QED BY <2>1, <2>2, <2>3 DEF ReceiverSteps
<1>4. SocketsInv'
  BY <1>0, <1>3 DEF SocketsInv, SwapsInPlace, NoStraySocket, HearsWhileOpen
<1>5. path' \in Path /\ PathIsSound'
  <2>1. CASE UNCHANGED path
    BY <2>1, Standing DEF Typed
  <2>2. ASSUME NEW src \in Endpoint, path' = PathFrom(src)
        PROVE  path' \in Path /\ PathIsSound'
    <3>1. path \in Path /\ src # NoEndpoint
      BY ClientBindAssumption DEF Typed, Endpoint, NoEndpoint
    <3>2. CASE path.valid /\ path.adopted # src /\ src \in StrangeEp
      BY <2>2, <3>1, <3>2 DEF PathFrom, Path, PathIsSound
    <3>3. CASE ~(path.valid /\ path.adopted # src /\ src \in StrangeEp) /\ path.adopted # src
      BY <2>2, <3>1, <3>3 DEF PathFrom, Path, PathIsSound
    <3>4. CASE path.adopted = src
      BY <2>2, <3>1, <3>4 DEF PathFrom, Path, PathIsSound
    <3> QED BY <3>2, <3>3, <3>4
  <2> QED BY <2>1, <2>2 DEF ReceiverSteps, Receives, SocketReadFails, LooksAgain, WakesUp
<1>6. Typed'
  BY <1>0, <1>3, <1>5 DEF Typed
<1> QED BY <1>1, <1>4, <1>5, <1>6

-----------------------------------------------------------------------------
(* The race *)

LEMMA RearmKept == KeptInv /\ (Rearm \/ RearmSoft) => CoreInv'
<1> SUFFICES ASSUME KeptInv, Rearm \/ RearmSoft PROVE CoreInv'
  OBVIOUS
<1> USE DEF KeptInv, CoreInv
<1>0. /\ UNCHANGED <<sock, current, shut, receiver, rebind, sleepers>>
      /\ early' = {} /\ path' = [path EXCEPT !.valid = FALSE] /\ race.no < MaxRaces
  BY DEF Rearm, RearmSoft, RaceOnly
<1>1. race.no \in Nat /\ race.no + 1 \in 0 .. MaxRaces /\ 0 \in 0 .. MaxRaces
  BY <1>0, RaceNumbers, ClientBindAssumption DEF Typed
<1>2. /\ race' \in Race /\ race'.no = race.no + 1
      /\ race'.unlocked => DirectEp = {} \/ race'.soft
  <2>1. CASE Rearm
    BY <1>1, <2>1 DEF Rearm, Race
  <2>2. CASE RearmSoft
    BY <1>1, <2>2 DEF RearmSoft, Race
  <2> QED BY <2>1, <2>2
<1>3. path' \in Path /\ PathIsSound'
  BY <1>0 DEF Typed, Path, PathIsSound
<1>4. sleepers' \subseteq 1 .. race'.no
  BY <1>0, <1>1, <1>2 DEF Typed
<1>5. Typed'
  BY <1>0, <1>2, <1>3, <1>4 DEF Typed
<1>6. SocketsInv' /\ RaceInv'
  BY <1>0, <1>2, Standing, RaceBegins
<1> QED BY <1>3, <1>5, <1>6

LEMMA WindowKept == KeptInv /\ WindowPasses => CoreInv'
<1> SUFFICES ASSUME KeptInv, WindowPasses PROVE CoreInv'
  OBVIOUS
<1> USE DEF KeptInv, CoreInv
<1>1. /\ UNCHANGED <<sock, current, shut, receiver, rebind, sleepers, path, early>>
      /\ race' = [race EXCEPT !.over = TRUE] /\ race \in Race
  BY DEF WindowPasses, RaceOnly, Typed
<1>2. race' \in Race /\ race'.no = race.no /\ race'.over
  BY <1>1, RaceUpdates DEF Race
<1>3. Typed'
  BY <1>1, <1>2 DEF Typed
<1>4. RaceInv'
  BY <1>1, <1>2 DEF RaceInv, LockedInWindow, InWindow, SendWaitsForDirect
<1> QED BY <1>1, <1>3, <1>4, Standing

-----------------------------------------------------------------------------
(* Send and the goroutines that wait for the window *)

LEMMA SendKept == KeptInv /\ SendSteps => CoreInv'
<1> SUFFICES ASSUME KeptInv, SendSteps PROVE CoreInv'
  OBVIOUS
<1> USE DEF KeptInv, CoreInv
<1>0. UNCHANGED <<sock, current, shut, receiver, rebind, path>>
  BY DEF SendSteps, TakesPath, Mirrors, SendOnly
<1>1. CASE TakesPath
  <2>1. UNCHANGED <<race, sleepers, early>>
    BY <1>1 DEF TakesPath
  <2> QED BY <1>0, <2>1, Standing DEF Typed
<1>2. CASE Mirrors
  <2> DEFINE now == race.unlocked \/ RelayAllowed
  <2> DEFINE by == IF ~RelayAllowed /\ race.scheduled = 0 THEN race.no ELSE race.scheduled
  <2>1. race \in Race /\ race.no \in 0 .. MaxRaces /\ race.scheduled \in 0 .. MaxRaces
    BY DEF Typed, Race
  <2>2. now \in BOOLEAN /\ by \in 0 .. MaxRaces
    BY <2>1 DEF RelayAllowed, Race
  <2>3. race' = [[race EXCEPT !.unlocked = now] EXCEPT !.scheduled = by]
    BY <1>2 DEF Mirrors
  <2>4. /\ race' \in Race /\ race'.no = race.no /\ race'.over = race.over
        /\ race'.soft = race.soft /\ race'.unlocked = now
    <3> HIDE DEF now, by
    <3> QED BY <2>1, <2>2, <2>3, RaceUpdates DEF Race
  <2>5. early' = early \cup (IF RelayAllowed /\ InWindow THEN {"send"} ELSE {})
    BY <1>2 DEF Mirrors
  <2>6. InWindow' = InWindow
    BY <2>4 DEF InWindow
  <2>7. RelayAllowed /\ InWindow => "sleeper" \in early
    BY DEF RelayAllowed, InWindow, RaceInv, LockedInWindow
  <2>8. RaceInv'
    BY <2>4, <2>5, <2>6, <2>7 DEF RaceInv, LockedInWindow, SendWaitsForDirect
  <2>9. sleepers' \subseteq 1 .. race'.no
    <3>1. race.no # 0
      BY <1>2 DEF Mirrors, RaceIsOn
    <3>2. race.no \in 1 .. race.no
      BY <3>1, RaceNumbers DEF Typed
    <3>3. sleepers' \subseteq sleepers \cup {race.no}
      BY <1>2 DEF Mirrors
    <3> QED BY <2>4, <3>2, <3>3 DEF Typed
  <2>10. Typed'
    BY <1>0, <2>4, <2>9 DEF Typed
  <2> QED BY <1>0, <2>8, <2>10, Standing
<1> QED BY <1>1, <1>2 DEF SendSteps

LEMMA SleeperKept ==
  ASSUME KeptInv, NEW n \in sleepers, SleeperWakes(n)
  PROVE  CoreInv'
<1> USE DEF KeptInv, CoreInv
<1>1. /\ UNCHANGED <<sock, current, shut, receiver, rebind, path>>
      /\ sleepers' = sleepers \ {n} /\ race \in Race
  BY DEF SleeperWakes, SendOnly, Typed
<1>2. CASE path.valid \/ race.unlocked
  <2>1. UNCHANGED <<race, early>>
    BY <1>2 DEF SleeperWakes
  <2> QED BY <1>1, <2>1, Standing DEF Typed
<1>3. CASE ~(path.valid \/ race.unlocked)
  <2>1. /\ race' = [race EXCEPT !.unlocked = TRUE]
        /\ early' = early \cup (IF InWindow THEN {"sleeper"} ELSE {})
    BY <1>3 DEF SleeperWakes
  <2>2. /\ race' \in Race /\ race'.no = race.no /\ race'.over = race.over
        /\ race'.soft = race.soft
    BY <1>1, <2>1, RaceUpdates DEF Race
  <2>3. InWindow' = InWindow
    BY <2>2 DEF InWindow
  <2>4. RaceInv'
    BY <2>1, <2>3 DEF RaceInv, LockedInWindow, SendWaitsForDirect
  <2>5. Typed'
    BY <1>1, <2>2 DEF Typed
  <2> QED BY <1>1, <2>4, <2>5, Standing
<1> QED BY <1>2, <1>3

LEMMA StaysOn == KeptInv /\ [ClientBindNext]_clientBindVars => RaceIsOn'
<1> SUFFICES ASSUME KeptInv, [ClientBindNext]_clientBindVars PROVE RaceIsOn'
  OBVIOUS
<1> USE DEF KeptInv, CoreInv
<1>1. race \in Race /\ race.no \in Nat
  BY RaceNumbers DEF Typed
<1>2. ASSUME race'.no = race.no, current' # 0 => current # 0,
             sending' = "mirrors" => sending = "mirrors" \/ current # 0
      PROVE  RaceIsOn'
  BY <1>2 DEF RaceIsOn
<1>3. CASE OpenBind \/ Rearm \/ RearmSoft
  <2>1. race'.no = race.no + 1
    <3>1. CASE OpenBind
      BY <1>1, <3>1 DEF OpenBind, Race
    <3>2. CASE Rearm
      BY <3>2 DEF Rearm
    <3>3. CASE RearmSoft
      BY <3>3 DEF RearmSoft
    <3> QED BY <1>3, <3>1, <3>2, <3>3
  <2> QED BY <1>1, <2>1 DEF RaceIsOn
<1>4. CASE CloseBind \/ SocketDies \/ RebindListens \/ RebindEnds \/ ReceiverSteps \/ UNCHANGED clientBindVars
  BY <1>2, <1>4 DEF CloseBind, SocketDies, RebindListens, RebindEnds, RebindOnly, ReceiverSteps,
                    Receives, SocketReadFails, LooksAgain, WakesUp, ReceiverOnly, clientBindVars
<1>5. CASE RebindSwaps
  BY <1>2, <1>5 DEF RebindSwaps, RebindOnly, SocketsInv, SwapsInPlace
<1>6. CASE WindowPasses
  BY <1>1, <1>2, <1>6 DEF WindowPasses, RaceOnly, Race
<1>7. CASE SendSteps
  BY <1>1, <1>2, <1>7 DEF SendSteps, TakesPath, Mirrors, SendOnly, Race
<1>8. ASSUME NEW n \in sleepers, SleeperWakes(n) PROVE RaceIsOn'
  BY <1>1, <1>2, <1>8 DEF SleeperWakes, SendOnly, Race
<1> QED BY <1>3, <1>4, <1>5, <1>6, <1>7, <1>8 DEF ClientBindNext

-----------------------------------------------------------------------------
LEMMA KeptStep == KeptInv /\ [ClientBindNext]_clientBindVars => KeptInv'
<1> SUFFICES ASSUME KeptInv, [ClientBindNext]_clientBindVars PROVE KeptInv'
  OBVIOUS
<1>1. CASE UNCHANGED clientBindVars
  <2>1. Typed'
    BY <1>1 DEF clientBindVars, KeptInv, CoreInv, Typed
  <2> QED BY <1>1, <2>1, Standing, StaysOn DEF clientBindVars, KeptInv, CoreInv
<1>2. CASE ClientBindNext
  <2>1. CoreInv'
    BY <1>2, OpenBindKept, SocketStepKept, ReceiverStepKept, RearmKept, WindowKept, SendKept,
           SleeperKept DEF ClientBindNext
  <2> QED BY <2>1, StaysOn DEF KeptInv
<1> QED BY <1>1, <1>2

\* The bind's inductive invariant holds in every reachable state (wtransport/bind.go).
THEOREM KeptInvHolds == ClientBindSpec => []KeptInv
BY KeptInit, KeptStep, PTL DEF ClientBindSpec

\* The bind's sockets, paths, races and moves keep their types.
THEOREM BindTypesHold == ClientBindSpec => []ClientBindTypeOK
<1>1. KeptInv => ClientBindTypeOK
  BY DEF KeptInv, CoreInv, Typed, PathIsSound, ClientBindTypeOK, Receiver, Where, Path
<1> QED BY <1>1, KeptInvHolds, PTL

\* A bind loses no socket it has opened, hears its peer while it is open, and sends over the
\* relay only after the race has unlocked it (Rebind, Send, Close).
THEOREM BindKeepsItsSockets == ClientBindSpec => []SocketsAreKept
<1>1. KeptInv => SocketsAreKept
  BY DEF KeptInv, CoreInv, SocketsInv, RaceInv, SocketsAreKept
<1> QED BY <1>1, KeptInvHolds, PTL

-----------------------------------------------------------------------------
(* The supervisor of a role *)

\* The managedRoles before the present one are done, those after it not made:
\* a start replaces a round only when it is over.
OthersOver ==
  \A m \in Round : /\ m < cur => loop[m].pc = "done"
                   /\ m > cur => loop[m].pc = "none"

IInv == TypeOK /\ OthersOver /\ GoneIsStopped

-----------------------------------------------------------------------------
\* Only the present round can take a step.
LEMMA AliveIsPresent ==
  ASSUME IInv, NEW m \in Round, Alive(m)
  PROVE  m = cur
BY DEF IInv, OthersOver, Alive, TypeOK, Round

LEMMA OneRoundFollows == IInv => OneRound
BY AliveIsPresent DEF OneRound

LEMMA InitHolds == Init => IInv
<1> SUFFICES ASSUME Init PROVE IInv
  OBVIOUS
<1> USE BoundsAssumption DEF Init, Round
<1>1. TypeOK
  <2>1. loop \in [Round -> [pc : LoopPc, cancelled : BOOLEAN]]
    BY DEF LoopPc
  <2>2. \A c \in Caller : caller[c] = Idle \/ caller[c] = [pc |-> "start", on |-> 0]
    OBVIOUS
  <2>3. caller \in [Caller -> [pc : CallerPc, on : 0 .. MaxRounds]]
    BY DEF CallerPc, Idle
  <2>4. \A c \in Caller : caller[c].on = 0 /\ caller[c].pc \notin Holding
    BY <2>2 DEF Holding, Idle
  <2>5. /\ state \in {"absent", "running", "failed", "stopping", "stopped"}
        /\ cur \in 0 .. MaxRounds /\ ops \in Nat /\ fails \in Nat
    OBVIOUS
  <2>6. enabled \in BOOLEAN /\ exiting \in BOOLEAN
    OBVIOUS
  <2>7. \A c \in Caller : caller[c].on <= cur
    BY <2>4
  <2> QED BY <2>1, <2>3, <2>4, <2>5, <2>6, <2>7 DEF TypeOK
<1>2. OthersOver /\ GoneIsStopped
  BY DEF OthersOver, GoneIsStopped, Present
<1> QED BY <1>1, <1>2 DEF IInv

-----------------------------------------------------------------------------
\* A step of the loop that ends in "closing" or "done" leaves the role stopped.
LEMMA LoopStepKept ==
  ASSUME IInv, NEW m \in Round, LoopSteps(m) \/ RunFails(m)
  PROVE  IInv'
<1> DEFINE Moved(from, to, new) ==
             /\ loop[m].pc = from
             /\ loop' = [loop EXCEPT ![m].pc = to]
             /\ state' = new
             /\ UNCHANGED <<enabled, cur, caller, exiting, ops>>
             /\ fails' \in Nat
<1> USE DEF IInv
<1>1. ASSUME NEW from \in LoopPc \ {"none", "done"}, NEW to \in LoopPc \ {"none"},
             NEW new \in {"running", "failed", "stopped"},
             to \in {"closing", "done"} => new = "stopped",
             Moved(from, to, new)
      PROVE  IInv'
  <2>1. m = cur
    BY <1>1, AliveIsPresent DEF Alive
  <2>2. TypeOK'
    BY <1>1 DEF TypeOK, LoopPc
  <2>3. OthersOver'
    BY <1>1, <2>1 DEF OthersOver, TypeOK, Round
  <2>4. GoneIsStopped'
    BY <1>1, <2>1 DEF GoneIsStopped, Present, TypeOK, Round
  <2> QED BY <2>2, <2>3, <2>4
<1>2. CASE RoleMade(m)
  <2>1. Moved("make", "run", "running") \/ Moved("rebuild", "run", "running")
    BY <1>2 DEF RoleMade, LoopGoes, TypeOK
  <2> QED BY <2>1, <1>1 DEF LoopPc
<1>3. CASE RunStops(m)
  <2>1. Moved("run", "closing", "stopped")
    BY <1>3 DEF RunStops, LoopGoes, TypeOK
  <2> QED BY <2>1, <1>1 DEF LoopPc
<1>4. CASE BackoffCancelled(m)
  <2>1. Moved("backoff", "closing", "stopped")
    BY <1>4 DEF BackoffCancelled, LoopGoes, TypeOK
  <2> QED BY <2>1, <1>1 DEF LoopPc
<1>5. CASE RunFails(m)
  <2>1. Moved("run", "backoff", "failed")
    BY <1>5 DEF RunFails, LoopGoes, TypeOK
  <2> QED BY <2>1, <1>1 DEF LoopPc
<1>6. CASE BackoffEnds(m)
  <2>1. m = cur
    BY <1>6, AliveIsPresent DEF BackoffEnds, LoopGoes, Alive
  <2>2. TypeOK'
    BY <1>6 DEF BackoffEnds, LoopGoes, TypeOK, LoopPc
  <2>3. OthersOver' /\ GoneIsStopped'
    BY <1>6, <2>1 DEF BackoffEnds, LoopGoes, OthersOver, GoneIsStopped, Present, TypeOK, Round
  <2> QED BY <2>2, <2>3
<1>7. CASE CloseDone(m)
  <2>1. m = cur /\ state = "stopped"
    BY <1>7, AliveIsPresent
    DEF CloseDone, LoopGoes, Alive, GoneIsStopped, Present, Round
  <2>2. Moved("closing", "done", "stopped")
    BY <1>7, <2>1 DEF CloseDone, LoopGoes, TypeOK
  <2> QED BY <2>2, <1>1 DEF LoopPc
<1> QED BY <1>2, <1>3, <1>4, <1>5, <1>6, <1>7 DEF LoopSteps

CallersTyped ==
  /\ caller \in [Caller -> [pc : CallerPc, on : 0 .. MaxRounds]]
  /\ \A c \in Caller : caller[c].pc \in Holding <=> caller[c].on # 0
  /\ \A c \in Caller : caller[c].on <= cur

\* What a caller does next is typed, and it holds a round if it needs one.
LEMMA GoesIsTyped ==
  ASSUME TypeOK, NEW c \in Caller, NEW pc \in CallerPc, NEW m \in 0 .. cur,
         pc \in Holding <=> m # 0, Goes(c, pc, m), cur' \in Nat, cur <= cur'
  PROVE  CallersTyped'
<1>1. \A d \in Caller : caller'[d] = IF d = c THEN [pc |-> pc, on |-> m] ELSE caller[d]
  BY DEF Goes, TypeOK
<1>2. caller' \in [Caller -> [pc : CallerPc, on : 0 .. MaxRounds]]
  BY BoundsAssumption DEF Goes, TypeOK
<1>3. \A d \in Caller : caller'[d].pc \in Holding <=> caller'[d].on # 0
  BY <1>1 DEF TypeOK
<1>4. \A d \in Caller : caller'[d].on <= cur'
  BY <1>1, BoundsAssumption DEF TypeOK
<1> QED BY <1>2, <1>3, <1>4 DEF CallersTyped

\* The operations return, or begin without a round.
LEMMA LetsGoIsTyped ==
  ASSUME TypeOK, NEW c \in Caller, NEW pc \in {"idle", "start", "stop"},
         Goes(c, pc, 0), cur' \in Nat, cur <= cur'
  PROVE  CallersTyped'
<1>1. pc \in CallerPc /\ pc \notin Holding
  BY DEF CallerPc, Holding
<1>2. 0 \in 0 .. cur
  BY DEF TypeOK
<1> QED BY <1>1, <1>2, GoesIsTyped

\* A caller's step writes the loop only to start a round after the end of the
\* old one or to cancel one, and the state only while the present round lives.
LEMMA CallStepKept ==
  ASSUME IInv, NEW c \in Caller, CallSteps(c) \/ Asks(c)
  PROVE  IInv'
<1> USE DEF IInv
<1>0. cur \in Nat /\ cur \in 0 .. cur /\ caller[c].on \in 0 .. cur
  BY BoundsAssumption DEF TypeOK
<1>1. ASSUME UNCHANGED <<state, cur, loop, exiting, fails>>, CallersTyped',
             enabled' \in BOOLEAN, ops' \in Nat
      PROVE  IInv'
  <2>1. TypeOK'
    BY <1>1 DEF TypeOK, CallersTyped
  <2> QED BY <1>1, <2>1 DEF OthersOver, GoneIsStopped, Present
<1>2. CASE AskStart(c) \/ AskStop(c)
  <2>1. /\ UNCHANGED <<state, cur, loop, exiting, fails>>
        /\ Goes(c, "start", 0) \/ Goes(c, "stop", 0)
    BY <1>2 DEF AskStart, AskStop
  <2>2. CallersTyped'
    BY <1>0, <2>1, LetsGoIsTyped
  <2>3. enabled' \in BOOLEAN
    BY <1>2 DEF AskStart, AskStop
  <2>4. ops' \in Nat
    BY <1>2 DEF AskStart, AskStop, TypeOK
  <2> QED BY <1>1, <2>1, <2>2, <2>3, <2>4
<1>3. CASE StartAlready(c) \/ StartWaited(c) \/ WaitGivenUp(c) \/ RestartWaited(c)
  <2>1. /\ UNCHANGED <<enabled, state, cur, loop, exiting, ops, fails>>
        /\ Goes(c, "start", 0) \/ Goes(c, "idle", 0)
    BY <1>3 DEF StartAlready, StartWaited, WaitGivenUp, RestartWaited
  <2>2. CallersTyped'
    BY <1>0, <2>1, LetsGoIsTyped
  <2> QED BY <1>1, <2>1, <2>2 DEF TypeOK
<1>4. CASE StartWaits(c)
  <2>1. /\ UNCHANGED <<enabled, state, cur, loop, exiting, ops, fails>>
        /\ Goes(c, "startwait", cur) /\ cur # 0
    BY <1>4 DEF StartWaits, Present
  <2>2. "startwait" \in CallerPc /\ "startwait" \in Holding
    BY DEF CallerPc, Holding
  <2>3. CallersTyped'
    BY <1>0, <2>1, <2>2, GoesIsTyped
  <2> QED BY <1>1, <2>1, <2>3 DEF TypeOK
<1>5. CASE StartNew(c)
  <2>1. cur + 1 \in Round /\ cur' = cur + 1 /\ state' = "running"
    BY <1>5, BoundsAssumption DEF StartNew, TypeOK, Round
  <2>2. cur = 0 \/ loop[cur].pc = "done"
    BY <1>5 DEF StartNew, Present, Ended
  <2>3. Goes(c, "idle", 0) /\ cur' \in Nat /\ cur <= cur'
    BY <1>0, <1>5, <2>1 DEF StartNew
  <2>4. CallersTyped'
    BY <2>3, LetsGoIsTyped
  <2>5. loop' \in [Round -> [pc : LoopPc, cancelled : BOOLEAN]]
    BY <1>5, <2>1 DEF StartNew, NewLoop, TypeOK, LoopPc
  <2>6. TypeOK'
    BY <1>5, <2>1, <2>4, <2>5 DEF StartNew, TypeOK, CallersTyped, Round
  <2>7. OthersOver'
    BY <1>5, <2>1, <2>2 DEF StartNew, NewLoop, OthersOver, TypeOK, Round
  <2>8. GoneIsStopped'
    BY <1>5, <2>1 DEF StartNew, NewLoop, GoneIsStopped, Present, TypeOK, Round
  <2> QED BY <2>6, <2>7, <2>8
<1>6. CASE StopRole(c)
  <2>1. /\ UNCHANGED <<enabled, cur, loop, exiting, ops, fails>>
        /\ (Goes(c, "cancel", cur) /\ cur # 0) \/ Goes(c, "idle", 0)
    BY <1>6 DEF StopRole, Present
  <2>2. "cancel" \in CallerPc /\ "cancel" \in Holding
    BY DEF CallerPc, Holding
  <2>3. ASSUME Goes(c, "cancel", cur), cur # 0 PROVE CallersTyped'
    BY <1>0, <2>1, <2>2, <2>3, GoesIsTyped
  <2>4. ASSUME Goes(c, "idle", 0) PROVE CallersTyped'
    BY <1>0, <2>1, <2>4, LetsGoIsTyped
  <2>5. CallersTyped'
    BY <2>1, <2>3, <2>4
  <2>6. TypeOK'
    BY <1>6, <2>1, <2>5 DEF StopRole, TypeOK, CallersTyped
  <2>7. OthersOver' /\ GoneIsStopped'
    BY <1>6 DEF StopRole, OthersOver, GoneIsStopped, Present
  <2> QED BY <2>6, <2>7
<1>7. CASE Cancel(c)
  <2>1. /\ UNCHANGED <<enabled, state, cur, exiting, ops, fails>>
        /\ \/ Goes(c, "idle", 0)
           \/ At(c, "restartcancel") /\ Goes(c, "restartwait", caller[c].on)
    BY <1>7 DEF Cancel
  <2>2. ASSUME At(c, "restartcancel"), Goes(c, "restartwait", caller[c].on)
        PROVE  CallersTyped'
    <3>1. "restartwait" \in CallerPc /\ "restartwait" \in Holding
      BY DEF CallerPc, Holding
    <3>2. caller[c].on # 0
      BY <2>2 DEF TypeOK, At, Holding
    <3> QED BY <1>0, <2>1, <2>2, <3>1, <3>2, GoesIsTyped
  <2>3. ASSUME Goes(c, "idle", 0) PROVE CallersTyped'
    BY <1>0, <2>1, <2>3, LetsGoIsTyped
  <2>4. CallersTyped'
    BY <2>1, <2>2, <2>3
  <2>5. loop' \in [Round -> [pc : LoopPc, cancelled : BOOLEAN]]
    BY <1>7 DEF Cancel, TypeOK
  <2>6. TypeOK'
    BY <2>1, <2>4, <2>5 DEF TypeOK, CallersTyped
  <2>7. \A m \in Round : loop'[m].pc = loop[m].pc
    BY <1>7 DEF Cancel, TypeOK
  <2>8. OthersOver' /\ GoneIsStopped'
    BY <2>1, <2>7 DEF OthersOver, GoneIsStopped, Present, TypeOK, Round
  <2> QED BY <2>6, <2>8
<1>8. CASE RestartRole(c)
  <2>1. /\ UNCHANGED <<enabled, cur, loop, exiting, fails>>
        /\ Goes(c, "restartcancel", cur) /\ cur # 0
        /\ state' = "stopping" /\ state \in {"running", "failed"}
    BY <1>8 DEF RestartRole, Present
  <2>2. "restartcancel" \in CallerPc /\ "restartcancel" \in Holding
    BY DEF CallerPc, Holding
  <2>3. CallersTyped'
    BY <1>0, <2>1, <2>2, GoesIsTyped
  <2>4. ops' \in Nat
    BY <1>8 DEF RestartRole, TypeOK
  <2>5. TypeOK'
    BY <2>1, <2>3, <2>4 DEF TypeOK, CallersTyped
  <2>6. OthersOver' /\ GoneIsStopped'
    BY <2>1 DEF OthersOver, GoneIsStopped, Present
  <2> QED BY <2>5, <2>6
<1> QED BY <1>2, <1>3, <1>4, <1>5, <1>6, <1>7, <1>8 DEF CallSteps, Asks

LEMMA StepKept == IInv /\ [Next]_vars => IInv'
<1> SUFFICES ASSUME IInv, [Next]_vars PROVE IInv'
  OBVIOUS
<1>1. CASE Exit
  BY <1>1 DEF Exit, IInv, TypeOK, OthersOver, GoneIsStopped, Present
<1>2. CASE UNCHANGED vars
  BY <1>2 DEF vars, IInv, TypeOK, OthersOver, GoneIsStopped, Present
<1> QED BY <1>1, <1>2, LoopStepKept, CallStepKept DEF Next

LEMMA Invariance == Spec => []IInv
BY InitHolds, StepKept, PTL DEF Spec

-----------------------------------------------------------------------------
\* Every variable keeps its type (Supervisor's TypeOK).
THEOREM TypesHold == Spec => []TypeOK
<1>1. IInv => TypeOK
  BY DEF IInv
<1> QED BY <1>1, Invariance, PTL

\* Two rounds of a role never overlap, however starts, stops, restarts and
\* failures interleave (startRole and RestartRole wait for done).
THEOREM RoundsAreSerial == Spec => []OneRound
BY OneRoundFollows, Invariance, PTL

\* A role whose loop is over is shown as stopped and can be started again
\* (runRoleLoop writes the state last, StopRole never after it).
THEOREM StatusIsHonest == Spec => []GoneIsStopped
<1>1. IInv => GoneIsStopped
  BY DEF IInv
<1> QED BY <1>1, Invariance, PTL

\* The status of a role is honest and its rounds are serial, together (RolesAreHonest):
\* what Supervisor's run checks, for any callers, operations and failures.
THEOREM RoundsAreHonest == Spec => []RolesAreHonest
<1>1. IInv => RolesAreHonest
  BY OneRoundFollows DEF IInv, RolesAreHonest
<1> QED BY <1>1, Invariance, PTL

-----------------------------------------------------------------------------
(* The shells of the terminal service *)

OnceStages == {"free", "pump", "closer", "past"}
PumpStages == {"none", "reads", "once", "waits", "past", "leaves", "over"}
CloserStages == {"none", "finish", "once", "waits", "leaves", "over"}
LifeRecords ==
  [name : Name \cup {"none"}, done : BOOLEAN, killed : BOOLEAN, grace : BOOLEAN,
   once : OnceStages, pump : PumpStages, closer : CloserStages]
Enders == {"pump", "closer"}

LivesTyped ==
  /\ table \in [Name -> {0} \cup Session] /\ shell \in [Session -> {"none", "runs", "deaf", "dead"}]
  /\ ss \in [Session -> LifeRecords] /\ service \in {"open", "closing", "closed"}
  /\ IsFiniteSet(Listed) /\ Cardinality(Listed) <= MaxSessions

\* Who has waited for a shell has found it dead; a shell that lives is the session of its name.
LifeSound(r, i) ==
  /\ r.once = "past" \/ r.pump \in {"past", "leaves"} \/ r.closer = "leaves" => shell[i] = "dead"
  /\ Lives(i) => r.name \in Name /\ table[r.name] = i

TermLifeInv == LivesTyped /\ \A i \in Session : LifeSound(ss[i], i)

\* A step of one session that leaves the table alone.
LEMMA LifeEdit ==
  ASSUME TermLifeInv, NEW i \in Session, NEW q \in LifeRecords, NEW x \in {"none", "runs", "deaf", "dead"},
         ss' = [ss EXCEPT ![i] = q], shell' = [shell EXCEPT ![i] = x], UNCHANGED <<table, service>>,
         q.name = ss[i].name, x \in {"runs", "deaf"} => Lives(i), shell[i] = "dead" => x = "dead",
         q.once = "past" \/ q.pump \in {"past", "leaves"} \/ q.closer = "leaves" => x = "dead"
  PROVE  TermLifeInv'
<1>1. /\ table \in [Name -> {0} \cup Session] /\ shell \in [Session -> {"none", "runs", "deaf", "dead"}]
      /\ ss \in [Session -> LifeRecords] /\ service \in {"open", "closing", "closed"}
      /\ IsFiniteSet(Listed) /\ Cardinality(Listed) <= MaxSessions
  BY DEF TermLifeInv, LivesTyped
<1>2. /\ ss' \in [Session -> LifeRecords] /\ ss'[i] = q /\ shell'[i] = x
      /\ shell' \in [Session -> {"none", "runs", "deaf", "dead"}]
      /\ \A j \in Session : j # i => ss'[j] = ss[j] /\ shell'[j] = shell[j]
  BY <1>1
<1>3. Listed' = Listed
  BY DEF Listed
<1>4. LivesTyped'
  BY <1>1, <1>2, <1>3 DEF LivesTyped
<1>5. ASSUME NEW j \in Session PROVE LifeSound(ss[j], j)'
  <2>1. CASE j = i
    <3>1. LifeSound(ss[i], i)
      BY DEF TermLifeInv
    <3>2. Lives(i)' => Lives(i)
      BY <1>2 DEF Lives
    <3> QED BY <1>2, <2>1, <3>1, <3>2 DEF LifeSound
  <2>2. CASE j # i
    BY <1>2, <2>2 DEF TermLifeInv, LifeSound, Lives
  <2> QED BY <2>1, <2>2
<1> QED BY <1>4, <1>5 DEF TermLifeInv

\* ... and that leaves the shell alone too.
LEMMA LifeNoted ==
  ASSUME TermLifeInv, NEW i \in Session, NEW q \in LifeRecords,
         ss' = [ss EXCEPT ![i] = q], UNCHANGED <<table, shell, service>>, q.name = ss[i].name,
         q.once = "past" \/ q.pump \in {"past", "leaves"} \/ q.closer = "leaves" => shell[i] = "dead"
  PROVE  TermLifeInv'
<1>1. shell \in [Session -> {"none", "runs", "deaf", "dead"}]
  BY DEF TermLifeInv, LivesTyped
<1>2. shell' = [shell EXCEPT ![i] = shell[i]] /\ shell[i] \in {"none", "runs", "deaf", "dead"}
  BY <1>1
<1> QED BY <1>2, LifeEdit DEF Lives

LEMMA StageFacts ==
  /\ OnceStages = {"free", "pump", "closer", "past"}
  /\ {"none", "reads", "once", "waits", "past", "leaves", "over"} \subseteq PumpStages
  /\ {"none", "finish", "once", "waits", "leaves", "over"} \subseteq CloserStages
BY DEF OnceStages, PumpStages, CloserStages

LEMMA LifeFacts ==
  ASSUME TermLifeInv, NEW i \in Session
  PROVE  /\ ss[i] \in LifeRecords /\ shell[i] \in {"none", "runs", "deaf", "dead"}
         /\ ss \in [Session -> LifeRecords] /\ shell \in [Session -> {"none", "runs", "deaf", "dead"}]
         /\ ss[i].once = "past" => shell[i] = "dead"
         /\ ss[i].pump \in {"past", "leaves"} => shell[i] = "dead"
         /\ ss[i].closer = "leaves" => shell[i] = "dead"
BY DEF TermLifeInv, LivesTyped, LifeSound

LEMMA CreateKept ==
  ASSUME TermLifeInv, NEW n \in Name, NEW i \in Session, Create(n, i)
  PROVE  TermLifeInv'
<1> DEFINE q == [ss[i] EXCEPT !.name = n, !.pump = "reads"]
<1>1. /\ table[n] = 0 /\ Cardinality(Listed) < MaxSessions /\ shell[i] = "none"
      /\ table' = [table EXCEPT ![n] = i] /\ shell' = [shell EXCEPT ![i] = "runs"]
      /\ service' = service
  BY DEF Create, Unborn
<1>2. ss' = [ss EXCEPT ![i] = q]
  BY LifeFacts DEF Create
<1>3. /\ q \in LifeRecords /\ q.name = n /\ q.pump = "reads" /\ q.once = ss[i].once
      /\ q.closer = ss[i].closer
  BY LifeFacts, StageFacts DEF LifeRecords
<1> HIDE DEF q
<1>4. /\ table \in [Name -> {0} \cup Session] /\ shell \in [Session -> {"none", "runs", "deaf", "dead"}]
      /\ ss \in [Session -> LifeRecords] /\ service \in {"open", "closing", "closed"}
      /\ IsFiniteSet(Listed) /\ Cardinality(Listed) <= MaxSessions /\ i # 0
  BY DEF TermLifeInv, LivesTyped, Session
<1>5. /\ ss' \in [Session -> LifeRecords] /\ ss'[i] = q /\ shell'[i] = "runs"
      /\ shell' \in [Session -> {"none", "runs", "deaf", "dead"}]
      /\ \A j \in Session : j # i => ss'[j] = ss[j] /\ shell'[j] = shell[j]
      /\ table' \in [Name -> {0} \cup Session] /\ table'[n] = i
      /\ \A m \in Name : m # n => table'[m] = table[m]
  BY <1>1, <1>2, <1>3, <1>4
<1>6. Listed' = Listed \cup {n}
  BY <1>4, <1>5 DEF Listed
<1>7. IsFiniteSet(Listed') /\ Cardinality(Listed') <= MaxSessions
  <2>1. Cardinality(Listed) \in Nat /\ n \notin Listed
    BY <1>1, <1>4, FS_CardinalityType DEF Listed
  <2>2. IsFiniteSet(Listed') /\ Cardinality(Listed') = Cardinality(Listed) + 1
    BY <1>4, <1>6, <2>1, FS_AddElement
  <2> QED BY <1>1, <2>1, <2>2, TermLifeAssumption
<1>8. LivesTyped'
  BY <1>1, <1>4, <1>5, <1>7 DEF LivesTyped
<1>9. ASSUME NEW j \in Session PROVE LifeSound(ss[j], j)'
  <2>1. CASE j = i
    BY <1>1, <1>3, <1>5, <2>1, LifeFacts DEF LifeSound, Lives
  <2>2. CASE j # i
    <3>1. LifeSound(ss[j], j) /\ j # 0
      BY DEF TermLifeInv, Session
    <3> QED BY <1>1, <1>5, <2>2, <3>1 DEF LifeSound, Lives
  <2> QED BY <2>1, <2>2
<1> QED BY <1>8, <1>9 DEF TermLifeInv

LEMMA FinishEndsKept ==
  ASSUME TermLifeInv, NEW i \in Session, NEW who \in Enders, FinishEnds(i, who)
  PROVE  TermLifeInv'
<1>1. /\ table' = [table EXCEPT ![ss[i].name] = IF @ = i THEN 0 ELSE @]
      /\ UNCHANGED <<shell, service>>
  BY DEF FinishEnds
<1>2. PICK q \in LifeRecords : /\ ss' = [ss EXCEPT ![i] = q] /\ q.name = ss[i].name /\ q.once = ss[i].once
                               /\ q.pump \in {"past", "leaves"} => ss[i].pump \in {"past", "leaves"}
                               /\ q.closer = "leaves" => ss[i].closer = "leaves"
  <2>1. CASE who = "pump"
    <3> DEFINE q == [ss[i] EXCEPT !.pump = "over"]
    <3>1. ss' = [ss EXCEPT ![i] = q]
      BY <2>1, LifeFacts DEF FinishEnds
    <3>2. q \in LifeRecords /\ q.name = ss[i].name /\ q.once = ss[i].once /\ q.pump = "over" /\ q.closer = ss[i].closer
      BY LifeFacts, StageFacts DEF LifeRecords
    <3> HIDE DEF q
    <3> QED BY <3>1, <3>2
  <2>2. CASE who = "closer"
    <3> DEFINE q == [ss[i] EXCEPT !.closer = "over"]
    <3>1. ss' = [ss EXCEPT ![i] = q]
      BY <2>2, LifeFacts DEF FinishEnds
    <3>2. q \in LifeRecords /\ q.name = ss[i].name /\ q.once = ss[i].once /\ q.closer = "over" /\ q.pump = ss[i].pump
      BY LifeFacts, StageFacts DEF LifeRecords
    <3> HIDE DEF q
    <3> QED BY <3>1, <3>2
  <2> QED BY <2>1, <2>2 DEF Enders
<1>3. shell[i] = "dead"
  <2>1. CASE who = "pump"
    BY <2>1, LifeFacts DEF FinishEnds, Stands
  <2>2. CASE who = "closer"
    BY <2>2, LifeFacts DEF FinishEnds, Stands
  <2> QED BY <2>1, <2>2 DEF Enders
<1>4. /\ table \in [Name -> {0} \cup Session] /\ shell \in [Session -> {"none", "runs", "deaf", "dead"}]
      /\ ss \in [Session -> LifeRecords] /\ service \in {"open", "closing", "closed"}
      /\ IsFiniteSet(Listed) /\ Cardinality(Listed) <= MaxSessions
  BY DEF TermLifeInv, LivesTyped
<1>5. /\ ss' \in [Session -> LifeRecords] /\ ss'[i] = q
      /\ \A j \in Session : j # i => ss'[j] = ss[j]
      /\ table' \in [Name -> {0} \cup Session]
      /\ \A m \in Name : table'[m] = table[m] \/ (table[m] = i /\ table'[m] = 0)
  BY <1>1, <1>2, <1>4
<1>6. IsFiniteSet(Listed') /\ Cardinality(Listed') <= MaxSessions
  <2>1. Listed' \subseteq Listed
    BY <1>4, <1>5 DEF Listed
  <2>2. IsFiniteSet(Listed') /\ Cardinality(Listed') <= Cardinality(Listed)
    BY <1>4, <2>1, FS_Subset
  <2>3. Cardinality(Listed) \in Nat /\ Cardinality(Listed') \in Nat
    BY <1>4, <2>2, FS_CardinalityType
  <2> QED BY <1>4, <2>2, <2>3, TermLifeAssumption
<1>7. LivesTyped'
  BY <1>1, <1>4, <1>5, <1>6 DEF LivesTyped
<1>8. ASSUME NEW j \in Session PROVE LifeSound(ss[j], j)'
  <2>1. CASE j = i
    BY <1>1, <1>2, <1>3, <1>5, <2>1 DEF LifeSound, Lives
  <2>2. CASE j # i
    <3>1. LifeSound(ss[j], j)
      BY DEF TermLifeInv
    <3> QED BY <1>1, <1>5, <2>2, <3>1 DEF LifeSound, Lives
  <2> QED BY <2>1, <2>2
<1> QED BY <1>7, <1>8 DEF TermLifeInv

\* waitOnce and the beginning of finish.
LEMMA WaitingKept ==
  ASSUME TermLifeInv, NEW i \in Session, NEW who \in Enders,
         FinishBegins(i, who) \/ OnceTaken(i, who) \/ ShellWaited(i, who) \/ OncePassed(i, who)
  PROVE  TermLifeInv'
<1>0. who = "pump" \/ who = "closer"
  BY DEF Enders
<1>a. Enders = {"pump", "closer"} /\ Waited("pump") = "past" /\ Waited("closer") = "leaves"
  BY DEF Enders, Waited
<1>1. CASE FinishBegins(i, who)
  <2>1. PICK obeys \in BOOLEAN :
          shell' = [shell EXCEPT ![i] = IF Lives(i) /\ ~ss[i].done /\ obeys THEN "dead" ELSE @]
    BY <1>1 DEF FinishBegins
  <2> DEFINE x == IF Lives(i) /\ ~ss[i].done /\ obeys THEN "dead" ELSE shell[i]
             at == IF ss[i].done THEN "over" ELSE "once"
  <2>2. /\ shell' = [shell EXCEPT ![i] = x] /\ x \in {"none", "runs", "deaf", "dead"}
        /\ x \in {"runs", "deaf"} => Lives(i)
        /\ shell[i] = "dead" => x = "dead"
    BY <2>1, LifeFacts DEF Lives
  <2> HIDE DEF x
  <2>3. PICK q \in LifeRecords : /\ ss' = [ss EXCEPT ![i] = q] /\ q.name = ss[i].name /\ q.once = ss[i].once
                                 /\ q.pump \in {"past", "leaves"} => ss[i].pump \in {"past", "leaves"}
                                 /\ q.closer = "leaves" => ss[i].closer = "leaves"
    <3>1. CASE who = "pump"
      <4> DEFINE q == [ss[i] EXCEPT !.done = TRUE, !.pump = at]
      <4>1. ss' = [ss EXCEPT ![i] = q]
        BY <1>1, <3>1, LifeFacts DEF FinishBegins
      <4>2. at \in {"over", "once"}
        OBVIOUS
      <4> HIDE DEF at
      <4>3. q \in LifeRecords /\ q.name = ss[i].name /\ q.once = ss[i].once /\ q.pump = at /\ q.closer = ss[i].closer
        BY <4>2, LifeFacts, StageFacts DEF LifeRecords
      <4> HIDE DEF q
      <4> QED BY <4>1, <4>2, <4>3
    <3>2. CASE who = "closer"
      <4> DEFINE q == [ss[i] EXCEPT !.done = TRUE, !.closer = at]
      <4>1. ss' = [ss EXCEPT ![i] = q]
        BY <1>1, <3>2, LifeFacts DEF FinishBegins
      <4>2. at \in {"over", "once"}
        OBVIOUS
      <4> HIDE DEF at
      <4>3. q \in LifeRecords /\ q.name = ss[i].name /\ q.once = ss[i].once /\ q.closer = at /\ q.pump = ss[i].pump
        BY <4>2, LifeFacts, StageFacts DEF LifeRecords
      <4> HIDE DEF q
      <4> QED BY <4>1, <4>2, <4>3
    <3> QED BY <1>0, <3>1, <3>2
  <2>4. q.once = "past" \/ q.pump \in {"past", "leaves"} \/ q.closer = "leaves" => x = "dead"
    BY <2>2, <2>3, LifeFacts
  <2>5. UNCHANGED <<table, service>>
    BY <1>1 DEF FinishBegins
  <2> QED BY <2>2, <2>3, <2>4, <2>5, LifeEdit
<1>2. CASE OnceTaken(i, who)
  <2>1. PICK q \in LifeRecords : /\ ss' = [ss EXCEPT ![i] = q] /\ q.name = ss[i].name /\ q.once # "past"
                                 /\ q.pump \in {"past", "leaves"} => ss[i].pump \in {"past", "leaves"}
                                 /\ q.closer = "leaves" => ss[i].closer = "leaves"
    <3>1. CASE who = "pump"
      <4> DEFINE q == [ss[i] EXCEPT !.once = "pump", !.pump = "waits"]
      <4>1. ss' = [ss EXCEPT ![i] = q]
        BY <1>2, <3>1, LifeFacts DEF OnceTaken
      <4>2. q \in LifeRecords /\ q.name = ss[i].name /\ q.once = "pump" /\ q.pump = "waits" /\ q.closer = ss[i].closer
        BY LifeFacts, StageFacts DEF LifeRecords
      <4> HIDE DEF q
      <4> QED BY <4>1, <4>2
    <3>2. CASE who = "closer"
      <4> DEFINE q == [ss[i] EXCEPT !.once = "closer", !.closer = "waits"]
      <4>1. ss' = [ss EXCEPT ![i] = q]
        BY <1>2, <3>2, LifeFacts DEF OnceTaken
      <4>2. q \in LifeRecords /\ q.name = ss[i].name /\ q.once = "closer" /\ q.closer = "waits" /\ q.pump = ss[i].pump
        BY LifeFacts, StageFacts DEF LifeRecords
      <4> HIDE DEF q
      <4> QED BY <4>1, <4>2
    <3> QED BY <1>0, <3>1, <3>2
  <2>2. UNCHANGED <<table, shell, service>>
    BY <1>2 DEF OnceTaken
  <2> QED BY <2>1, <2>2, LifeNoted, LifeFacts
<1>3. CASE ShellWaited(i, who) \/ OncePassed(i, who)
  <2>1. shell[i] = "dead" /\ UNCHANGED <<table, shell, service>>
    BY <1>3, LifeFacts DEF ShellWaited, OncePassed
  <2>2. PICK q \in LifeRecords : ss' = [ss EXCEPT ![i] = q] /\ q.name = ss[i].name
    <3>1. CASE who = "pump"
      <4> DEFINE q == [ss[i] EXCEPT !.once = "past", !.pump = "past"]
                 r == [ss[i] EXCEPT !.pump = "past"]
      <4>1. ss' = [ss EXCEPT ![i] = q] \/ ss' = [ss EXCEPT ![i] = r]
        BY <1>a, <1>3, <3>1, LifeFacts DEF ShellWaited, OncePassed
      <4>2. q \in LifeRecords /\ q.name = ss[i].name /\ r \in LifeRecords /\ r.name = ss[i].name
        BY LifeFacts, StageFacts DEF LifeRecords
      <4> HIDE DEF q, r
      <4> QED BY <4>1, <4>2
    <3>2. CASE who = "closer"
      <4> DEFINE q == [ss[i] EXCEPT !.once = "past", !.closer = "leaves"]
                 r == [ss[i] EXCEPT !.closer = "leaves"]
      <4>1. ss' = [ss EXCEPT ![i] = q] \/ ss' = [ss EXCEPT ![i] = r]
        BY <1>a, <1>3, <3>2, LifeFacts DEF ShellWaited, OncePassed
      <4>2. q \in LifeRecords /\ q.name = ss[i].name /\ r \in LifeRecords /\ r.name = ss[i].name
        BY LifeFacts, StageFacts DEF LifeRecords
      <4> HIDE DEF q, r
      <4> QED BY <4>1, <4>2
    <3> QED BY <1>0, <3>1, <3>2
  <2> QED BY <2>1, <2>2, LifeNoted
<1> QED BY <1>1, <1>2, <1>3

\* What ends a shell, and the pump's own steps.
LEMMA ShellKept ==
  ASSUME TermLifeInv, NEW i \in Session,
         ShellEnds(i) \/ ShellTurnsDeaf(i) \/ CloserKills(i) \/ GraceEnds(i)
  PROVE  TermLifeInv'
<1>1. CASE ShellEnds(i) \/ ShellTurnsDeaf(i) \/ CloserKills(i)
  <2>1. PICK x \in {"deaf", "dead"} : shell' = [shell EXCEPT ![i] = x]
    BY <1>1 DEF ShellEnds, ShellTurnsDeaf, CloserKills
  <2>2. Lives(i) /\ UNCHANGED <<table, ss, service>>
    BY <1>1 DEF ShellEnds, ShellTurnsDeaf, CloserKills, Lives
  <2>3. ss' = [ss EXCEPT ![i] = ss[i]]
    BY <2>2, LifeFacts
  <2>4. shell[i] # "dead"
    BY <2>2 DEF Lives
  <2> QED BY <2>1, <2>2, <2>3, <2>4, LifeFacts, LifeEdit
<1>2. CASE GraceEnds(i)
  <2> DEFINE x == IF ss[i].done THEN shell[i] ELSE "dead"
             q == [ss[i] EXCEPT !.grace = FALSE]
  <2>1. /\ shell' = [shell EXCEPT ![i] = x] /\ x \in {"none", "runs", "deaf", "dead"}
        /\ x \in {"runs", "deaf"} => Lives(i)
        /\ shell[i] = "dead" => x = "dead"
    BY <1>2, LifeFacts DEF GraceEnds, Lives
  <2> HIDE DEF x
  <2>2. ss' = [ss EXCEPT ![i] = q] /\ UNCHANGED <<table, service>>
    BY <1>2, LifeFacts DEF GraceEnds
  <2>3. q \in LifeRecords /\ q.name = ss[i].name /\ q.once = ss[i].once /\ q.pump = ss[i].pump
        /\ q.closer = ss[i].closer
    BY LifeFacts, StageFacts DEF LifeRecords
  <2> HIDE DEF q
  <2> QED BY <2>1, <2>2, <2>3, LifeFacts, LifeEdit
<1> QED BY <1>1, <1>2

LEMMA PumpKept ==
  ASSUME TermLifeInv, NEW i \in Session, PumpStops(i) \/ PumpFinishes(i)
  PROVE  TermLifeInv'
<1>1. CASE PumpStops(i)
  <2> DEFINE q == [ss[i] EXCEPT !.pump = "once"]
  <2>1. ss' = [ss EXCEPT ![i] = q] /\ UNCHANGED <<table, shell, service>>
    BY <1>1, LifeFacts DEF PumpStops
  <2>2. q \in LifeRecords /\ q.name = ss[i].name /\ q.once = ss[i].once /\ q.pump = "once"
        /\ q.closer = ss[i].closer
    BY LifeFacts, StageFacts DEF LifeRecords
  <2> HIDE DEF q
  <2> QED BY <2>1, <2>2, LifeFacts, LifeNoted
<1>2. CASE PumpFinishes(i)
  <2> DEFINE at == IF ss[i].done THEN "over" ELSE "leaves"
             q == [ss[i] EXCEPT !.done = TRUE, !.pump = at]
  <2>1. ss' = [ss EXCEPT ![i] = q] /\ UNCHANGED <<table, shell, service>> /\ ss[i].pump = "past"
    BY <1>2, LifeFacts DEF PumpFinishes, Stands
  <2>2. at \in {"over", "leaves"}
    OBVIOUS
  <2> HIDE DEF at
  <2>3. q \in LifeRecords /\ q.name = ss[i].name
    BY <2>2, LifeFacts, StageFacts DEF LifeRecords
  <2> HIDE DEF q
  <2> QED BY <2>1, <2>3, LifeFacts, LifeNoted
<1> QED BY <1>1, <1>2

LEMMA KillKept ==
  ASSUME TermLifeInv, NEW n \in Name, NEW obeys \in BOOLEAN, Kill(n, obeys)
  PROVE  TermLifeInv'
<1>1. PICK i : i = table[n]
  OBVIOUS
<1>2. i \in Session
  BY <1>1 DEF Kill, TermLifeInv, LivesTyped
<1>3. CASE ss[i].done
  <2> DEFINE q == [ss[i] EXCEPT !.killed = TRUE]
  <2>1. ss' = [ss EXCEPT ![i] = q] /\ UNCHANGED <<table, shell, service>>
    BY <1>1, <1>2, <1>3, LifeFacts DEF Kill
  <2>2. q \in LifeRecords /\ q.name = ss[i].name /\ q.once = ss[i].once /\ q.pump = ss[i].pump
        /\ q.closer = ss[i].closer
    BY <1>2, LifeFacts, StageFacts DEF LifeRecords
  <2> HIDE DEF q
  <2> QED BY <1>2, <2>1, <2>2, LifeFacts, LifeNoted
<1>4. CASE ~ss[i].done
  <2> DEFINE q == [ss[i] EXCEPT !.killed = TRUE, !.grace = TRUE]
             x == IF obeys THEN "dead" ELSE shell[i]
  <2>1. /\ ss' = [ss EXCEPT ![i] = q] /\ UNCHANGED <<table, service>>
        /\ shell' = [shell EXCEPT ![i] = x]
    BY <1>1, <1>2, <1>4, LifeFacts DEF Kill
  <2>2. q \in LifeRecords /\ q.name = ss[i].name /\ q.once = ss[i].once /\ q.pump = ss[i].pump
        /\ q.closer = ss[i].closer
    BY <1>2, LifeFacts, StageFacts DEF LifeRecords
  <2>3. x \in {"none", "runs", "deaf", "dead"}
        /\ (x \in {"runs", "deaf"} => Lives(i)) /\ (shell[i] = "dead" => x = "dead")
    BY <1>2, LifeFacts DEF Lives
  <2> HIDE DEF q, x
  <2>4. q.once = "past" \/ q.pump \in {"past", "leaves"} \/ q.closer = "leaves" => x = "dead"
    BY <1>2, <2>2, <2>3, LifeFacts
  <2> QED BY <1>2, <2>1, <2>2, <2>3, <2>4, LifeEdit
<1> QED BY <1>3, <1>4

LEMMA CloseKept ==
  ASSUME TermLifeInv, CloseBegins \/ CloseEnds
  PROVE  TermLifeInv'
<1>1. UNCHANGED <<table, shell>> /\ service' \in {"open", "closing", "closed"}
  BY DEF CloseBegins, CloseEnds
<1>2. ASSUME NEW i \in Session
      PROVE  /\ ss'[i] \in LifeRecords /\ ss'[i].name = ss[i].name /\ ss'[i].once = ss[i].once
             /\ ss'[i].pump = ss[i].pump
             /\ ss'[i].closer = "leaves" => ss[i].closer = "leaves"
  <2>1. ss'[i] = ss[i] \/ ss'[i] = [ss[i] EXCEPT !.closer = "finish"]
    BY DEF CloseBegins, CloseEnds
  <2> QED BY <2>1, LifeFacts, StageFacts DEF LifeRecords
<1>3. ss' \in [Session -> LifeRecords]
  <2>1. CASE CloseBegins
    BY <1>2, <2>1 DEF CloseBegins
  <2>2. CASE CloseEnds
    BY <2>2 DEF CloseEnds, TermLifeInv, LivesTyped
  <2> QED BY <2>1, <2>2
<1>4. LivesTyped'
  BY <1>1, <1>3 DEF TermLifeInv, LivesTyped, Listed
<1>5. ASSUME NEW i \in Session PROVE LifeSound(ss[i], i)'
  <2>1. LifeSound(ss[i], i)
    BY DEF TermLifeInv
  <2> QED BY <1>1, <1>2, <2>1 DEF LifeSound, Lives
<1> QED BY <1>4, <1>5 DEF TermLifeInv

\* A goroutine that waits for a shell has it dead when it takes the session off the table,
\* and a shell that lives stays the session of its name (finish, waitOnce, pump and Close in
\* pkg/term/service.go).
THEOREM TermLifeKept == TermLifeSpec => []TermLifeInv
<1>1. TermLifeInit => TermLifeInv
  <2> SUFFICES ASSUME TermLifeInit PROVE TermLifeInv
    OBVIOUS
  <2>1. Listed = {}
    BY DEF TermLifeInit, Listed
  <2>2. IsFiniteSet(Listed) /\ Cardinality(Listed) <= MaxSessions
    BY <2>1, FS_EmptySet, TermLifeAssumption
  <2>3. LivesTyped
    BY <2>2, StageFacts DEF TermLifeInit, LivesTyped, LifeRecords
  <2>4. ASSUME NEW i \in Session PROVE LifeSound(ss[i], i)
    BY DEF TermLifeInit, LifeSound, Lives
  <2> QED BY <2>3, <2>4 DEF TermLifeInv
<1>2. TermLifeInv /\ [TermLifeNext]_termLifeVars => TermLifeInv'
  <2> SUFFICES ASSUME TermLifeInv, [TermLifeNext]_termLifeVars PROVE TermLifeInv'
    OBVIOUS
  <2>1. ASSUME NEW i \in Session, PumpSteps(i) \/ CloserSteps(i) PROVE TermLifeInv'
    BY <2>1, FinishEndsKept, WaitingKept, PumpKept, ShellKept DEF PumpSteps, CloserSteps, Enders
  <2>2. CASE UNCHANGED termLifeVars
    BY <2>2 DEF termLifeVars, TermLifeInv, LivesTyped, LifeSound, Lives, Listed
  <2> QED BY <2>1, <2>2, CreateKept, KillKept, ShellKept, CloseKept DEF TermLifeNext
<1> QED BY <1>1, <1>2, PTL DEF TermLifeSpec

\* A shell that lives is the session of its name, so that none is forgotten on a path to the
\* end of its session and no name gets a second one.
THEOREM NoShellIsForgotten == TermLifeSpec => []ShellsAreListed
<1>1. TermLifeInv => ShellsAreListed
  BY DEF TermLifeInv, LifeSound, ShellsAreListed
<1> QED BY <1>1, TermLifeKept, PTL

LEMMA LifeTypes == TermLifeInv => TermLifeTypeOK
<1> SUFFICES ASSUME TermLifeInv PROVE TermLifeTypeOK
  OBVIOUS
<1>1. ASSUME NEW i \in Session
      PROVE  ss[i].once \in OnceStages /\ ss[i].pump \in PumpStages /\ ss[i].closer \in CloserStages
  BY LifeFacts DEF LifeRecords
<1> QED BY <1>1 DEF TermLifeInv, LivesTyped, TermLifeTypeOK, OnceStages, PumpStages, CloserStages

-----------------------------------------------------------------------------
(* The patrol of a tunnel *)

Worlds == [answers : BOOLEAN, used : BOOLEAN, sends : BOOLEAN, direct : BOOLEAN]
Ticks == [ok : BOOLEAN, used : BOOLEAN, noise : BOOLEAN, slept : BOOLEAN]

\* The j-th tick before the last.
Before(j) == lately[Len(lately) - j]

\* The last ticks are the failures that the streak counts, and the phone was awake between
\* them; the streak is full when the tunnel is given up, and not before.
PatrolInv ==
  /\ PatrolTypeOK /\ world \in Worlds /\ asleep \in BOOLEAN /\ gated \in BOOLEAN
  /\ unhealthy \in BOOLEAN /\ lately \in Seq(Ticks)
  /\ streak <= Len(lately) /\ Len(lately) <= FailStreak
  /\ \A j \in 0 .. streak - 1 : ~Before(j).ok /\ Before(j).used /\ ~Before(j).noise
  /\ \A j \in 0 .. streak - 2 : ~Before(j).slept
  /\ unhealthy <=> streak = FailStreak
  /\ counted = "never" => streak = 0

LEMMA SameBoolean ==
  ASSUME NEW P, NEW Q \in BOOLEAN, P = Q
  PROVE  P \in BOOLEAN /\ (P <=> Q)
OBVIOUS

LEMMA RememberFacts ==
  ASSUME NEW t \in Ticks, Remember(t), lately \in Seq(Ticks), Len(lately) <= FailStreak
  PROVE  /\ lately' \in Seq(Ticks) /\ Len(lately') \in Nat \ {0} /\ Len(lately') <= FailStreak
         /\ Len(lately') = IF Len(lately) < FailStreak THEN Len(lately) + 1 ELSE Len(lately)
         /\ lately'[Len(lately')] = t
         /\ \A j \in 1 .. Len(lately') - 1 : lately'[Len(lately') - j] = lately[Len(lately) - (j - 1)]
<1>0. FailStreak \in Nat \ {0} /\ Len(lately) \in Nat
  BY PatrolAssumption
<1>1. CASE Len(lately) < FailStreak
  <2>1. lately' = Append(lately, t)
    BY <1>1 DEF Remember
  <2>2. /\ Len(lately') = Len(lately) + 1 /\ lately'[Len(lately) + 1] = t /\ lately' \in Seq(Ticks)
        /\ \A i \in 1 .. Len(lately) : lately'[i] = lately[i]
    BY <2>1
  <2>3. \A j \in 1 .. Len(lately) : (Len(lately) + 1) - j \in 1 .. Len(lately)
                                    /\ (Len(lately) + 1) - j = Len(lately) - (j - 1)
    BY <1>0
  <2> QED BY <1>0, <1>1, <2>2, <2>3
<1>2. CASE ~(Len(lately) < FailStreak)
  <2> DEFINE s == Tail(lately)
             n == Len(lately)
  <2>1. lately' = Append(s, t)
    BY <1>2 DEF Remember
  <2>2. n = FailStreak /\ n \in Nat \ {0} /\ lately # <<>>
    BY <1>0, <1>2
  <2>3. s \in Seq(Ticks) /\ Len(s) = n - 1 /\ \A i \in 1 .. n - 1 : s[i] = lately[i + 1]
    BY <2>2
  <2> HIDE DEF s
  <2>4. /\ Len(lately') = (n - 1) + 1 /\ lately'[(n - 1) + 1] = t /\ lately' \in Seq(Ticks)
        /\ \A i \in 1 .. n - 1 : lately'[i] = s[i]
    BY <2>1, <2>3
  <2>5. (n - 1) + 1 = n
    BY <2>2
  <2>6. \A j \in 1 .. n - 1 : n - j \in 1 .. n - 1 /\ (n - j) + 1 = n - (j - 1)
    BY <2>2
  <2> HIDE DEF n
  <2>7. \A j \in 1 .. n - 1 : lately'[n - j] = lately[n - (j - 1)]
    BY <2>3, <2>4, <2>6
  <2> QED BY <1>2, <2>2, <2>4, <2>5, <2>7 DEF n
<1> QED BY <1>1, <1>2

LEMMA HealsFacts ==
  ASSUME world \in Worlds, NEW recovered \in BOOLEAN, Heals(recovered)
  PROVE  world' \in Worlds
BY DEF Heals, Worlds

LEMMA AnsweredKept ==
  ASSUME PatrolInv, TickAnswered
  PROVE  PatrolInv'
<1> DEFINE t == [ok |-> TRUE, used |-> world.used, noise |-> FALSE, slept |-> asleep]
<1>1. /\ streak' = 0 /\ gated' = FALSE /\ noisy' = 0 /\ relays' = RelaysAfter /\ Remember(t)
      /\ via' = (IF via = "relay" /\ relays + 1 >= RelayTicks /\ world.direct THEN "direct" ELSE via)
      /\ asleep' = FALSE /\ ~unhealthy /\ UNCHANGED <<World, counted, unhealthy>>
  BY DEF TickAnswered
<1>2. t \in Ticks
  BY DEF PatrolInv, Worlds, Ticks
<1> HIDE DEF t
<1>3. lately' \in Seq(Ticks) /\ Len(lately') \in Nat /\ Len(lately') <= FailStreak
  BY <1>1, <1>2, RememberFacts DEF PatrolInv
<1>4. relays' \in 0 .. RelayTicks
  BY <1>1, PatrolAssumption DEF PatrolInv, PatrolTypeOK, RelaysAfter
<1>5. PatrolTypeOK'
  BY <1>1, <1>4, PatrolAssumption DEF PatrolInv, PatrolTypeOK
<1>6. world' \in Worlds /\ asleep' \in BOOLEAN /\ gated' \in BOOLEAN /\ unhealthy' = FALSE
  BY <1>1 DEF PatrolInv, World
<1>7. 0 .. streak' - 1 = {} /\ 0 .. streak' - 2 = {} /\ streak' <= Len(lately') /\ streak' # FailStreak
  BY <1>1, <1>3, PatrolAssumption
<1> QED BY <1>1, <1>3, <1>5, <1>6, <1>7 DEF PatrolInv

LEMMA UnansweredKept ==
  ASSUME PatrolInv, TickUnanswered
  PROVE  PatrolInv'
<1> PICK noise : noise = (~world.sends /\ ~Escalates(~world.sends))
  OBVIOUS
<1> DEFINE verdict == Evidence(noise, world.used)
<1>1. PICK recovered \in IF verdict.counts THEN BOOLEAN ELSE {FALSE} :
        /\ Heals(recovered)
        /\ counted' = (IF verdict.counts THEN "fresh" ELSE IF asleep /\ counted = "fresh" THEN "old" ELSE counted)
        /\ streak' = (IF recovered THEN 0 ELSE verdict.streak)
        /\ unhealthy' = (~recovered /\ verdict.streak >= FailStreak)
        /\ gated' = ~verdict.counts
        /\ noisy' = NoisyFor(~world.sends)
        /\ Remember([ok |-> recovered, used |-> world.used, noise |-> noise, slept |-> asleep])
  BY Zenon DEF TickUnanswered
<1> DEFINE t == [ok |-> recovered, used |-> world.used, noise |-> noise, slept |-> asleep]
<1>2. asleep' = FALSE /\ ~unhealthy /\ UNCHANGED <<via, relays>>
  BY DEF TickUnanswered
<1>3. noise \in BOOLEAN /\ recovered \in BOOLEAN /\ world.used \in BOOLEAN /\ asleep \in BOOLEAN
  BY DEF PatrolInv, Worlds
<1>4. t \in Ticks /\ t.ok = recovered /\ t.used = world.used /\ t.noise = noise /\ t.slept = asleep
  BY <1>3 DEF Ticks
<1>5. Remember(t)
  BY <1>1
<1> HIDE DEF t
<1>6. /\ lately' \in Seq(Ticks) /\ Len(lately') \in Nat \ {0} /\ Len(lately') <= FailStreak
      /\ Len(lately') = IF Len(lately) < FailStreak THEN Len(lately) + 1 ELSE Len(lately)
      /\ lately'[Len(lately')] = t
      /\ \A j \in 1 .. Len(lately') - 1 : lately'[Len(lately') - j] = lately[Len(lately) - (j - 1)]
  BY <1>4, <1>5, RememberFacts DEF PatrolInv
<1>7. world' \in Worlds
  BY <1>1, <1>3, HealsFacts DEF PatrolInv
<1>8. noisy' \in 0 .. NoiseTicks
  BY <1>1, PatrolAssumption DEF PatrolInv, PatrolTypeOK, NoisyFor
<1>9. /\ streak \in Nat /\ streak < FailStreak /\ streak <= Len(lately) /\ FailStreak \in Nat \ {0}
      /\ Len(lately) \in Nat
  <2>1. streak \in 0 .. FailStreak /\ streak # FailStreak /\ FailStreak \in Nat \ {0}
    BY <1>2, PatrolAssumption DEF PatrolInv, PatrolTypeOK
  <2> QED BY <2>1 DEF PatrolInv
<1>10. CASE recovered \/ ~verdict.counts
  <2>1. streak' = 0 /\ unhealthy' = FALSE
    <3>1. CASE recovered
      BY <1>1, <3>1
    <3>2. CASE ~recovered
      <4>1. verdict.streak = 0
        BY <1>3, <1>10, <3>2 DEF Evidence
      <4> HIDE DEF verdict
      <4>2. ~(verdict.streak >= FailStreak)
        BY <1>9, <4>1
      <4> QED BY <1>1, <3>2, <4>1, <4>2
    <3> QED BY <1>3, <3>1, <3>2
  <2>2. 0 .. streak' - 1 = {} /\ 0 .. streak' - 2 = {} /\ streak' <= Len(lately') /\ streak' # FailStreak
    BY <1>6, <1>9, <2>1
  <2>3. counted' \in {"never", "fresh", "old"} /\ gated' \in BOOLEAN
    BY <1>1 DEF PatrolInv, PatrolTypeOK
  <2>4. PatrolTypeOK'
    BY <1>2, <1>8, <1>9, <2>1, <2>3 DEF PatrolInv, PatrolTypeOK
  <2> QED BY <1>2, <1>6, <1>7, <2>1, <2>2, <2>3, <2>4 DEF PatrolInv
<1>11. CASE ~recovered /\ verdict.counts
  <2>1. ~noise /\ world.used
    BY <1>3, <1>11 DEF Evidence
  <2> DEFINE begun == IF (counted = "old" \/ asleep) /\ counted # "never" THEN 0 ELSE streak
  <2>2. streak' = begun + 1 /\ counted' = "fresh" /\ gated' = FALSE
        /\ unhealthy' = (begun + 1 >= FailStreak)
    BY <1>1, <1>3, <1>11, <2>1 DEF Evidence
  <2>3. begun \in Nat /\ begun <= streak /\ (begun # 0 => ~asleep)
    BY <1>9 DEF PatrolInv
  <2> HIDE DEF begun
  <2>a. begun + 1 >= FailStreak <=> begun + 1 = FailStreak
    BY <1>9, <2>3
  <2>b. (unhealthy' <=> streak' = FailStreak) /\ unhealthy' \in BOOLEAN
    <3>1. streak' = begun + 1 /\ unhealthy' = (begun + 1 >= FailStreak)
      BY <2>2
    <3>2. (begun + 1 >= FailStreak) \in BOOLEAN
      OBVIOUS
    <3>3. unhealthy' \in BOOLEAN /\ (unhealthy' <=> begun + 1 >= FailStreak)
      BY ONLY <3>1, <3>2, SameBoolean
    <3> QED BY <2>a, <3>1, <3>3
  <2>4. streak' \in 0 .. FailStreak /\ streak' <= Len(lately') /\ (unhealthy' <=> streak' = FailStreak)
        /\ unhealthy' \in BOOLEAN
    <3>1. begun + 1 \in 0 .. FailStreak /\ begun + 1 <= Len(lately')
      BY <1>6, <1>9, <2>3
    <3> QED BY <2>2, <2>b, <3>1
  <2>5. PatrolTypeOK'
    BY <1>2, <1>8, <2>2, <2>4 DEF PatrolInv, PatrolTypeOK
  <2>6. ASSUME NEW j \in 0 .. streak' - 1
        PROVE  /\ ~Before(j)'.ok /\ Before(j)'.used /\ ~Before(j)'.noise
               /\ j <= streak' - 2 => ~Before(j)'.slept
    <3>1. CASE j = 0
      <4>1. Before(j)' = t
        BY <1>6, <3>1 DEF Before
      <4>2. j <= streak' - 2 => begun # 0
        BY <2>2, <2>3, <3>1
      <4> QED BY <1>4, <1>11, <2>1, <2>3, <4>1, <4>2
    <3>2. CASE j # 0
      <4>1. j \in 1 .. Len(lately') - 1 /\ j - 1 \in 0 .. streak - 1
            /\ (j <= streak' - 2 => j - 1 \in 0 .. streak - 2)
        BY <1>6, <1>9, <2>2, <2>3, <2>4, <3>2
      <4>2. Before(j)' = Before(j - 1)
        BY <1>6, <4>1 DEF Before
      <4> QED BY <4>1, <4>2 DEF PatrolInv
    <3> QED BY <3>1, <3>2
  <2>7. \A j \in 0 .. streak' - 2 : j \in 0 .. streak' - 1 /\ j <= streak' - 2
    BY <2>2, <2>3
  <2> QED BY <1>2, <1>6, <1>7, <2>2, <2>4, <2>5, <2>6, <2>7 DEF PatrolInv
<1> QED BY <1>3, <1>10, <1>11

\* The verdict is a full streak of failures that count, the last ticks of the patrol, and the
\* window was not passed between them (PatrolEvidenceGate, the patrol of tunmode.go).
THEOREM PatrolKept == PatrolSpec => []PatrolInv
<1>1. PatrolInit => PatrolInv
  <2> SUFFICES ASSUME PatrolInit PROVE PatrolInv
    OBVIOUS
  <2>1. FailStreak \in Nat \ {0} /\ RelayTicks \in Nat /\ NoiseTicks \in Nat /\ 0 .. 0 - 1 = {} /\ 0 .. 0 - 2 = {}
    BY PatrolAssumption
  <2>2. lately \in Seq(Ticks) /\ Len(lately) = 0
    BY DEF PatrolInit
  <2>3. world \in Worlds
    BY DEF PatrolInit, Worlds
  <2>4. PatrolTypeOK
    BY <2>1 DEF PatrolInit, PatrolTypeOK
  <2>5. streak = 0 /\ ~unhealthy /\ unhealthy \in BOOLEAN /\ asleep \in BOOLEAN /\ gated \in BOOLEAN
    BY DEF PatrolInit
  <2>6. /\ 0 .. streak - 1 = {} /\ 0 .. streak - 2 = {} /\ streak <= Len(lately) /\ streak # FailStreak
        /\ Len(lately) <= FailStreak
    BY <2>1, <2>2, <2>5
  <2> QED BY <2>1, <2>2, <2>3, <2>4, <2>5, <2>6 DEF PatrolInv
<1>2. PatrolInv /\ [PatrolNext]_patrolVars => PatrolInv'
  <2> SUFFICES ASSUME PatrolInv, [PatrolNext]_patrolVars PROVE PatrolInv'
    OBVIOUS
  <2>1. CASE WorldChanges
    <3>1. PICK field \in DOMAIN world : world' = [world EXCEPT ![field] = ~@]
      BY <2>1 DEF WorldChanges
    <3>2. world' \in Worlds
      BY <3>1 DEF PatrolInv, Worlds
    <3>3. via' \in {"relay", "direct"}
      BY <2>1 DEF WorldChanges, PatrolInv, PatrolTypeOK
    <3> QED BY <2>1, <3>2, <3>3 DEF WorldChanges, PatrolInv, PatrolTypeOK, Before
  <2>2. CASE Sleeps \/ PacketWaits
    <3>1. /\ UNCHANGED <<world, via, streak, counted, noisy, gated, relays, unhealthy, lately>>
          /\ asleep' \in BOOLEAN
      BY <2>2 DEF Sleeps, PacketWaits, World, PatrolInv
    <3> QED BY <3>1 DEF PatrolInv, PatrolTypeOK, Before
  <2>3. CASE LadderReturns
    <3>1. world' \in Worlds
      BY <2>3, HealsFacts DEF LadderReturns, PatrolInv
    <3> QED BY <2>3, <3>1 DEF LadderReturns, PatrolInv, PatrolTypeOK, Before
  <2>4. CASE UNCHANGED patrolVars
    BY <2>4 DEF patrolVars, PatrolInv, PatrolTypeOK, Before
  <2> QED BY <2>1, <2>2, <2>3, <2>4, AnsweredKept, UnansweredKept DEF PatrolNext, PatrolTick
<1> QED BY <1>1, <1>2, PTL DEF PatrolSpec

LEMMA VerdictIsDeserved == PatrolInv => UnhealthyIsDeserved
<1> SUFFICES ASSUME PatrolInv, unhealthy
             PROVE  /\ Len(lately) = FailStreak
                    /\ \A k \in 1..FailStreak : ~lately[k].ok /\ lately[k].used /\ ~lately[k].noise
                    /\ \A k \in 2..FailStreak : ~lately[k].slept
  BY DEF UnhealthyIsDeserved
<1>1. streak = FailStreak /\ FailStreak \in Nat \ {0} /\ Len(lately) = FailStreak
  BY PatrolAssumption DEF PatrolInv
<1>2. \A k \in 1 .. FailStreak : /\ FailStreak - k \in 0 .. streak - 1 /\ FailStreak - (FailStreak - k) = k
                                 /\ k # 1 => FailStreak - k \in 0 .. streak - 2
  BY <1>1
<1>3. \A k \in 1 .. FailStreak : Before(FailStreak - k) = lately[k]
  BY <1>1, <1>2 DEF Before
<1>4. \A k \in 2 .. FailStreak : k \in 1 .. FailStreak /\ k # 1
  BY <1>1
<1> QED BY <1>1, <1>2, <1>3, <1>4 DEF PatrolInv

-----------------------------------------------------------------------------
(* The addresses that are learnt *)

Savers == [at : {"waits", "window", "writes", "closes", "ended"}, raw : [Learnt -> Nat]]

LearningTyped ==
  /\ LearningTypeOK /\ era \in Nat \ {0}
  /\ callback \in [Instance -> BOOLEAN] /\ sig \in [Instance -> BOOLEAN]
  /\ saver \in [Instance -> Savers] /\ closed \in [Instance -> BOOLEAN]
  /\ heard \in [Instance -> SUBSET Learnt] /\ failures \in [Instance -> Nat]

\* What an instance heard and has not written is being written, or its loop will write it:
\* a callback that comes after Close asks for a save in vain.
WillBeWritten(i) ==
  \A a \in heard[i] : mem[i][a] = era /\ lastRaw[i][a] # era /\ failures[i] = 0 =>
    Saving(i) \/ (~closed[i] /\ (callback[i] \/ sig[i] \/ saver[i].at = "window"))

\* A save holds what the cache knows; the bytes are of no lifetime to come.
RawIsCurrent(i) ==
  /\ Saving(i) => \A a \in Learnt : mem[i][a] = era => saver[i].raw[a] = era
  /\ \A a \in Learnt : saver[i].raw[a] <= era

LearningInv == LearningTyped /\ \A i \in Instance : WillBeWritten(i) /\ RawIsCurrent(i)

LEMMA CacheFacts ==
  ASSUME LearningInv, NEW i \in Instance
  PROVE  /\ mem \in [Instance -> [Learnt -> 0..era]] /\ disk \in [Learnt -> 0..era]
         /\ lastRaw \in [Instance -> [Learnt -> 0..era]] /\ era \in Nat \ {0}
         /\ saver \in [Instance -> Savers] /\ saver[i].raw \in [Learnt -> 0..era]
         /\ saver[i].at \in {"waits", "window", "writes", "closes", "ended"}
         /\ closed[i] => saver[i].at \in {"closes", "ended"}
         /\ callback[i] \in BOOLEAN /\ sig[i] \in BOOLEAN /\ closed[i] \in BOOLEAN
         /\ heard[i] \subseteq Learnt /\ failures[i] \in Nat
<1>1. /\ era \in Nat /\ saver[i] \in Savers /\ \A a \in Learnt : saver[i].raw[a] <= era
  BY DEF LearningInv, LearningTyped, RawIsCurrent
<1>2. saver[i].raw \in [Learnt -> 0..era]
  <2>1. saver[i].raw \in [Learnt -> Nat]
    BY <1>1 DEF Savers
  <2>2. \A a \in Learnt : saver[i].raw[a] \in 0..era
    BY <1>1, <2>1
  <2> QED BY <2>1, <2>2
<1> QED BY <1>1, <1>2 DEF LearningInv, LearningTyped, LearningTypeOK, Savers

\* Another instance's steps leave one as it was.
LEMMA OtherKept ==
  ASSUME LearningInv, NEW j \in Instance, era' = era, mem'[j] = mem[j], lastRaw'[j] = lastRaw[j],
         callback'[j] = callback[j], sig'[j] = sig[j], saver'[j] = saver[j], closed'[j] = closed[j],
         heard'[j] = heard[j], failures'[j] = failures[j]
  PROVE  WillBeWritten(j)' /\ RawIsCurrent(j)'
BY DEF LearningInv, WillBeWritten, RawIsCurrent, Saving

LEMMA EraKept ==
  ASSUME LearningInv, EraPasses
  PROVE  LearningInv'
<1>1. era' = era + 1 /\ UNCHANGED <<mem, disk, lastRaw, callback, sig, saver, closed, heard, failures>>
  BY DEF EraPasses
<1>2. era \in Nat \ {0} /\ era' \in Nat \ {0} /\ \A x \in 0 .. era : x \in 0 .. era' /\ x # era'
  BY <1>1 DEF LearningInv, LearningTyped
<1>3. \A i \in Instance : mem[i] \in [Learnt -> 0 .. era] /\ lastRaw[i] \in [Learnt -> 0 .. era]
  BY DEF LearningInv, LearningTyped, LearningTypeOK
<1>4. LearningTypeOK'
  <2>1. mem \in [Instance -> [Learnt -> 0..era']]
    <3>1. mem \in [Instance -> [Learnt -> 0..era]]
      BY DEF LearningInv, LearningTyped, LearningTypeOK
    <3>2. \A i \in Instance : mem[i] \in [Learnt -> 0..era']
      BY <1>2, <3>1
    <3> QED BY <3>1, <3>2
  <2>2. lastRaw \in [Instance -> [Learnt -> 0..era']] /\ disk \in [Learnt -> 0..era']
    <3>1. lastRaw \in [Instance -> [Learnt -> 0..era]] /\ disk \in [Learnt -> 0..era]
      BY DEF LearningInv, LearningTyped, LearningTypeOK
    <3>2. \A i \in Instance : lastRaw[i] \in [Learnt -> 0..era']
      BY <1>2, <3>1
    <3> QED BY <1>2, <3>1, <3>2
  <2> QED BY <1>1, <2>1, <2>2 DEF LearningInv, LearningTyped, LearningTypeOK
<1>5. LearningTyped'
  BY <1>1, <1>2, <1>4 DEF LearningInv, LearningTyped
<1>6. ASSUME NEW i \in Instance PROVE WillBeWritten(i)' /\ RawIsCurrent(i)'
  <2>1. \A a \in Learnt : mem'[i][a] # era'
    BY <1>1, <1>2, <1>3
  <2>2. \A a \in Learnt : saver'[i].raw[a] <= era'
    BY <1>1, <1>2, CacheFacts
  <2> QED BY <1>1, <2>1, <2>2, CacheFacts DEF WillBeWritten, RawIsCurrent, Saving
<1> QED BY <1>5, <1>6 DEF LearningInv

LEMMA LearnsKept ==
  ASSUME LearningInv, NEW i \in Instance, NEW a \in Learnt, Learns(i, a)
  PROVE  LearningInv'
<1>1. /\ ~Saving(i) /\ mem' = [mem EXCEPT ![i][a] = era] /\ callback' = [callback EXCEPT ![i] = TRUE]
      /\ heard' = [heard EXCEPT ![i] = IF closed[i] THEN @ \ {a} ELSE @ \cup {a}]
      /\ UNCHANGED <<disk, lastRaw, era, sig, saver, closed, failures>>
  BY DEF Learns
<1>2. /\ mem' \in [Instance -> [Learnt -> 0..era]]
      /\ \A b \in Learnt \ {a} : mem'[i][b] = mem[i][b]
      /\ \A j \in Instance : j # i => mem'[j] = mem[j]
  BY <1>1, CacheFacts
<1>3. /\ callback' \in [Instance -> BOOLEAN] /\ callback'[i]
      /\ \A j \in Instance : j # i => callback'[j] = callback[j]
  BY <1>1 DEF LearningInv, LearningTyped
<1>4. /\ heard' \in [Instance -> SUBSET Learnt]
      /\ heard'[i] = IF closed[i] THEN heard[i] \ {a} ELSE heard[i] \cup {a}
      /\ \A j \in Instance : j # i => heard'[j] = heard[j]
  BY <1>1 DEF LearningInv, LearningTyped
<1>5. LearningTyped'
  BY <1>1, <1>2, <1>3, <1>4 DEF LearningInv, LearningTyped, LearningTypeOK
<1>6. WillBeWritten(i)'
  <2>1. CASE closed[i]
    <3>1. \A b \in heard'[i] : b \in heard[i] /\ mem'[i][b] = mem[i][b]
      BY <1>2, <1>4, <2>1, CacheFacts
    <3> QED BY <1>1, <2>1, <3>1 DEF LearningInv, WillBeWritten, Saving
  <2>2. CASE ~closed[i]
    BY <1>1, <1>3, <2>2 DEF WillBeWritten
  <2> QED BY <2>1, <2>2
<1>7. RawIsCurrent(i)'
  BY <1>1 DEF LearningInv, RawIsCurrent, Saving
<1>8. ASSUME NEW j \in Instance, j # i PROVE WillBeWritten(j)' /\ RawIsCurrent(j)'
  BY <1>1, <1>2, <1>3, <1>4, <1>8, OtherKept
<1> QED BY <1>5, <1>6, <1>7, <1>8 DEF LearningInv

\* The signals: one that is set, taken or merged; the loop comes into its window.
LEMMA SignalKept ==
  ASSUME LearningInv, NEW i \in Instance, ScheduleSave(i) \/ TakesSignal(i) \/ MergesSignal(i)
  PROVE  LearningInv'
<1>1. UNCHANGED <<mem, disk, lastRaw, era, closed, heard, failures>>
  BY DEF ScheduleSave, TakesSignal, MergesSignal
<1>2. /\ callback' \in [Instance -> BOOLEAN] /\ sig' \in [Instance -> BOOLEAN]
      /\ \A j \in Instance : j # i => callback'[j] = callback[j] /\ sig'[j] = sig[j]
  BY DEF ScheduleSave, TakesSignal, MergesSignal, LearningInv, LearningTyped
<1>3. PICK r \in Savers : /\ saver' = [saver EXCEPT ![i] = r] /\ r.raw = saver[i].raw
                          /\ \/ r.at = saver[i].at /\ sig'[i] /\ saver[i] = r
                             \/ saver[i].at \in {"waits", "window"} /\ r.at = "window"
  <2> DEFINE q == [saver[i] EXCEPT !.at = "window"]
  <2>1. saver \in [Instance -> Savers] /\ saver[i] \in Savers
    BY CacheFacts
  <2>2. q \in Savers /\ q.raw = saver[i].raw /\ q.at = "window"
    BY <2>1 DEF Savers
  <2>3. CASE ScheduleSave(i)
    <3>1. saver' = [saver EXCEPT ![i] = saver[i]] /\ sig'[i]
      BY <2>1, <2>3 DEF ScheduleSave, LearningInv, LearningTyped
    <3> QED BY <2>1, <3>1
  <2>4. CASE TakesSignal(i)
    <3>1. saver' = [saver EXCEPT ![i] = q] /\ saver[i].at = "waits"
      BY <2>1, <2>4 DEF TakesSignal, SaverAt
    <3> HIDE DEF q
    <3> QED BY <2>2, <3>1
  <2>5. CASE MergesSignal(i)
    <3>1. saver' = [saver EXCEPT ![i] = saver[i]] /\ saver[i].at = "window"
      BY <2>1, <2>5 DEF MergesSignal
    <3> QED BY <2>1, <3>1
  <2> QED BY <2>3, <2>4, <2>5
<1>4. /\ saver' \in [Instance -> Savers] /\ saver'[i] = r
      /\ \A j \in Instance : j # i => saver'[j] = saver[j]
  BY <1>3, CacheFacts
<1>5. closed[i] => saver'[i].at \in {"closes", "ended"}
  BY <1>3, <1>4, CacheFacts
<1>6. LearningTyped'
  BY <1>1, <1>2, <1>4, <1>5, CacheFacts DEF LearningInv, LearningTyped, LearningTypeOK
<1>7. WillBeWritten(i)' /\ RawIsCurrent(i)'
  <2>1. Saving(i)' <=> Saving(i)
    BY <1>3, <1>4 DEF Saving
  <2>2. ~closed[i] => Saving(i)' \/ sig'[i] \/ saver'[i].at = "window"
    BY <1>3, <1>4
  <2>3. WillBeWritten(i)'
    BY <1>1, <2>1, <2>2 DEF LearningInv, WillBeWritten
  <2>4. saver'[i].raw = saver[i].raw
    BY <1>3, <1>4
  <2> QED BY <1>1, <2>1, <2>3, <2>4 DEF LearningInv, RawIsCurrent
<1>8. ASSUME NEW j \in Instance, j # i PROVE WillBeWritten(j)' /\ RawIsCurrent(j)'
  BY <1>1, <1>2, <1>4, <1>8, OtherKept
<1> QED BY <1>6, <1>7, <1>8 DEF LearningInv

\* The file is read and merged in: the cache stands still from here to the write.
LEMMA ReadKept ==
  ASSUME LearningInv, NEW i \in Instance, WindowEnds(i) \/ CloseTransport(i)
  PROVE  LearningInv'
<1> DEFINE merged == MergeDisk(mem[i], disk)
<1>1. PICK next \in {"writes", "closes"} : ReadsFile(i, next) /\ (next = "closes" <=> CloseTransport(i))
                                           /\ (next = "writes" => ~closed'[i])
  <2>1. CASE WindowEnds(i)
    BY <2>1, CacheFacts DEF WindowEnds, CloseTransport, ReadsFile
  <2>2. CASE CloseTransport(i)
    BY <2>2 DEF CloseTransport
  <2> QED BY <2>1, <2>2
<1>2. /\ closed' \in [Instance -> BOOLEAN] /\ \A j \in Instance : j # i => closed'[j] = closed[j]
  BY DEF WindowEnds, CloseTransport, LearningInv, LearningTyped
<1>3. /\ mem' = [mem EXCEPT ![i] = merged]
      /\ saver' = [saver EXCEPT ![i] = [at |-> next, raw |-> Valid(merged)]]
      /\ UNCHANGED <<disk, lastRaw, era, callback, sig, heard, failures>>
  BY <1>1 DEF ReadsFile
<1>4. merged \in [Learnt -> 0..era]
  BY CacheFacts DEF MergeDisk
<1> HIDE DEF merged
<1>5. /\ Valid(merged) \in [Learnt -> Nat] /\ \A a \in Learnt : Valid(merged)[a] <= era
      /\ \A a \in Learnt : merged[a] = era => Valid(merged)[a] = era
  BY <1>4, CacheFacts DEF Valid
<1>6. [at |-> next, raw |-> Valid(merged)] \in Savers
  BY <1>5 DEF Savers
<1>7. /\ mem' \in [Instance -> [Learnt -> 0..era]] /\ mem'[i] = merged
      /\ saver' \in [Instance -> Savers] /\ saver'[i] = [at |-> next, raw |-> Valid(merged)]
      /\ \A j \in Instance : j # i => mem'[j] = mem[j] /\ saver'[j] = saver[j]
  BY <1>3, <1>4, <1>6, CacheFacts
<1>8. LearningTyped'
  BY <1>1, <1>2, <1>3, <1>7 DEF LearningInv, LearningTyped, LearningTypeOK
<1>9. WillBeWritten(i)' /\ RawIsCurrent(i)'
  BY <1>3, <1>5, <1>7 DEF WillBeWritten, RawIsCurrent, Saving
<1>10. ASSUME NEW j \in Instance, j # i PROVE WillBeWritten(j)' /\ RawIsCurrent(j)'
  BY <1>2, <1>3, <1>7, <1>10, OtherKept
<1> QED BY <1>8, <1>9, <1>10 DEF LearningInv

\* The write, which the disk may refuse.
LEMMA WriteKept ==
  ASSUME LearningInv, NEW i \in Instance, WritesCache(i) \/ CacheWriteFails(i)
  PROVE  LearningInv'
<1> DEFINE at == IF saver[i].at = "closes" THEN "ended" ELSE "waits"
           q == [saver[i] EXCEPT !.at = at]
<1>1. /\ Saving(i) /\ SaverAt(i, at)
      /\ UNCHANGED <<mem, era, callback, sig, closed, heard>>
  BY DEF WritesCache, CacheWriteFails
<1>2. saver[i] \in Savers /\ at \in {"ended", "waits"} /\ (closed[i] => at = "ended")
  BY <1>1, CacheFacts DEF Saving
<1> HIDE DEF at
<1>3. q \in Savers /\ q.raw = saver[i].raw /\ q.at = at /\ saver' = [saver EXCEPT ![i] = q]
  BY <1>1, <1>2, CacheFacts DEF Savers, SaverAt
<1> HIDE DEF q
<1>4. /\ saver' \in [Instance -> Savers] /\ saver'[i] = q /\ \A j \in Instance : j # i => saver'[j] = saver[j]
  BY <1>3, CacheFacts
<1>5. /\ disk' \in [Learnt -> 0..era] /\ lastRaw' \in [Instance -> [Learnt -> 0..era]]
      /\ failures' \in [Instance -> Nat]
      /\ \A j \in Instance : j # i => lastRaw'[j] = lastRaw[j] /\ failures'[j] = failures[j]
      /\ failures'[i] # 0 \/ lastRaw'[i] = saver[i].raw
  <2>1. CASE WritesCache(i)
    <3>1. failures' = failures
      BY <2>1 DEF WritesCache
    <3>2. CASE saver[i].raw = lastRaw[i]
      BY <2>1, <3>1, <3>2, CacheFacts DEF WritesCache, Written, LearningInv, LearningTyped
    <3>3. CASE saver[i].raw # lastRaw[i]
      BY <2>1, <3>1, <3>3, CacheFacts DEF WritesCache, Written, LearningInv, LearningTyped
    <3> QED BY <3>2, <3>3
  <2>2. CASE CacheWriteFails(i)
    <3>1. UNCHANGED <<disk, lastRaw>> /\ failures' = [failures EXCEPT ![i] = failures[i] + 1]
      BY <2>2 DEF CacheWriteFails
    <3>2. failures \in [Instance -> Nat] /\ failures[i] + 1 \in Nat /\ failures[i] + 1 # 0
      BY CacheFacts DEF LearningInv, LearningTyped
    <3> QED BY <3>1, <3>2, CacheFacts
  <2> QED BY <2>1, <2>2
<1>6. LearningTyped'
  BY <1>1, <1>2, <1>3, <1>4, <1>5, CacheFacts DEF LearningInv, LearningTyped, LearningTypeOK
<1>7. WillBeWritten(i)' /\ RawIsCurrent(i)'
  <2>1. \A a \in Learnt : mem[i][a] = era => saver[i].raw[a] = era
    BY <1>1 DEF LearningInv, RawIsCurrent
  <2>2. WillBeWritten(i)'
    BY <1>1, <1>5, <2>1, CacheFacts DEF WillBeWritten
  <2>3. RawIsCurrent(i)'
    BY <1>1, <1>2, <1>3, <1>4 DEF LearningInv, RawIsCurrent, Saving
  <2> QED BY <2>2, <2>3
<1>8. ASSUME NEW j \in Instance, j # i PROVE WillBeWritten(j)' /\ RawIsCurrent(j)'
  BY <1>1, <1>4, <1>5, <1>8, OtherKept
<1> QED BY <1>6, <1>7, <1>8 DEF LearningInv

LEMMA OpenKept ==
  ASSUME LearningInv, NEW i \in Instance, OpenCache(i)
  PROVE  LearningInv'
<1> DEFINE q == [at |-> "waits", raw |-> NoEntries]
<1>1. /\ mem' = [mem EXCEPT ![i] = disk] /\ lastRaw' = [lastRaw EXCEPT ![i] = NoEntries]
      /\ closed' = [closed EXCEPT ![i] = FALSE] /\ sig' = [sig EXCEPT ![i] = FALSE]
      /\ saver' = [saver EXCEPT ![i] = q] /\ failures' = [failures EXCEPT ![i] = 0]
      /\ heard' = [heard EXCEPT ![i] = {}] /\ UNCHANGED <<disk, era, callback>>
  BY DEF OpenCache
<1>2. NoEntries \in [Learnt -> 0..era] /\ q \in Savers /\ q.at = "waits" /\ q.raw = NoEntries
  BY CacheFacts DEF NoEntries, Savers
<1> HIDE DEF q
<1>3. /\ mem' \in [Instance -> [Learnt -> 0..era]] /\ lastRaw' \in [Instance -> [Learnt -> 0..era]]
      /\ closed' \in [Instance -> BOOLEAN] /\ sig' \in [Instance -> BOOLEAN]
      /\ saver' \in [Instance -> Savers] /\ failures' \in [Instance -> Nat]
      /\ heard' \in [Instance -> SUBSET Learnt]
      /\ saver'[i] = q /\ heard'[i] = {} /\ closed'[i] = FALSE
  BY <1>1, <1>2, CacheFacts DEF LearningInv, LearningTyped
<1>4. \A j \in Instance : j # i =>
        /\ mem'[j] = mem[j] /\ lastRaw'[j] = lastRaw[j] /\ closed'[j] = closed[j] /\ sig'[j] = sig[j]
        /\ saver'[j] = saver[j] /\ failures'[j] = failures[j] /\ heard'[j] = heard[j]
  BY <1>1, CacheFacts DEF LearningInv, LearningTyped
<1>5. LearningTyped'
  BY <1>1, <1>3, <1>4, CacheFacts DEF LearningInv, LearningTyped, LearningTypeOK
<1>6. WillBeWritten(i)' /\ RawIsCurrent(i)'
  BY <1>1, <1>2, <1>3, CacheFacts DEF WillBeWritten, RawIsCurrent, Saving, NoEntries
<1>7. ASSUME NEW j \in Instance, j # i PROVE WillBeWritten(j)' /\ RawIsCurrent(j)'
  BY <1>1, <1>4, <1>7, OtherKept
<1> QED BY <1>5, <1>6, <1>7 DEF LearningInv

\* Whatever the loop merges and whenever Close stops it, what an instance heard is written,
\* being written, or asked for (scheduleSave, saveLoop and Close in wgcore/transport.go).
THEOREM LearningKept == LearningSpec => []LearningInv
<1>1. LearningInit => LearningInv
  <2> SUFFICES ASSUME LearningInit PROVE LearningInv
    OBVIOUS
  <2>1. era = 1 /\ NoEntries \in [Learnt -> 0..era] /\ [at |-> "waits", raw |-> NoEntries] \in Savers
    BY DEF LearningInit, NoEntries, Savers
  <2>2. LearningTyped
    BY <2>1 DEF LearningInit, LearningTyped, LearningTypeOK
  <2>3. ASSUME NEW i \in Instance PROVE WillBeWritten(i) /\ RawIsCurrent(i)
    BY <2>1 DEF LearningInit, WillBeWritten, RawIsCurrent, Saving, NoEntries
  <2> QED BY <2>2, <2>3 DEF LearningInv
<1>2. LearningInv /\ [LearningNext]_learningVars => LearningInv'
  <2> SUFFICES ASSUME LearningInv, [LearningNext]_learningVars PROVE LearningInv'
    OBVIOUS
  <2>1. ASSUME NEW i \in Instance, Hint(i) \/ MarkRoundTrip(i) PROVE LearningInv'
    BY <2>1, LearnsKept DEF Hint, MarkRoundTrip
  <2>2. CASE UNCHANGED learningVars
    BY <2>2 DEF learningVars, LearningInv, LearningTyped, LearningTypeOK, WillBeWritten, RawIsCurrent, Saving
  <2> QED BY <2>1, <2>2, EraKept, SignalKept, ReadKept, WriteKept, OpenKept DEF LearningNext, SaverSteps
<1> QED BY <1>1, <1>2, PTL DEF LearningSpec

LEMMA HeardIsKept == LearningInv => NoneForgotten
BY DEF LearningInv, WillBeWritten, NoneForgotten

-----------------------------------------------------------------------------
(* All of them *)

\* What the device knows of its paths is deserved and not lost: the tunnel is given up for a
\* row of failures that count, and an address that was heard is written or about to be.
THEOREM PathsStayKnown == PatrolSpec /\ LearningSpec => []PathsAreKnown
<1>1. PatrolInv /\ LearningInv => PathsAreKnown
  BY VerdictIsDeserved, HeardIsKept DEF PathsAreKnown
<1> QED BY <1>1, PatrolKept, LearningKept, PTL

\* Every variable of the supervisor, the terminal service, the patrol, the address cache and
\* the device's bind keeps its type; the service never has more sessions than it may have.
THEOREM WatchTypesHold ==
  Spec /\ TermLifeSpec /\ PatrolSpec /\ LearningSpec /\ ClientBindSpec => []WatchTypeOK
<1>1. PatrolInv => PatrolTypeOK
  BY DEF PatrolInv
<1>2. LearningInv => LearningTypeOK
  BY DEF LearningInv, LearningTyped
<1>3. TypeOK /\ TermLifeInv /\ PatrolInv /\ LearningInv /\ ClientBindTypeOK => WatchTypeOK
  BY <1>1, <1>2, LifeTypes DEF WatchTypeOK
<1> QED BY <1>3, TypesHold, TermLifeKept, PatrolKept, LearningKept, BindTypesHold, PTL
==============================================================================
