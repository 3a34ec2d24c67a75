------------------------------- MODULE Ladder -------------------------------
(* A round of the recovery ladder (hostsession/recover.go) on a session that lost    *)
(* something: handshake again (R1), a new socket (R2), a new race for the path (R3);   *)
(* a probe before and after each. One round at a time; who comes meanwhile waits and    *)
(* shares its result. An action that does not return in time is given up, and         *)
(* happens later.                                                              *)
EXTENDS Integers, FiniteSets

CONSTANTS
  Asker,      \* the patrol, the pusher, the extension, a dialler
  MaxRounds,  \* bound: rounds
  MaxLosses,  \* bound: things that go wrong with the session
  MaxLates    \* bound: actions that do not return in time

ASSUME LadderAssumption == MaxRounds \in Nat \ {0} /\ MaxLosses \in Nat /\ MaxLates \in Nat

VARIABLES
  keys,     \* the local session: "good", "stale": the exit has lost its half, "none"
  enrolled,    \* the exit knows the device
  socket,   \* the local socket works
  ladderPath,     \* the adopted address: "good", "bad", "none": a race is on
  armed,    \* the race's packets carry a registration
  cur,      \* recoverGate.cur: the round that runs, 0: none
  round,    \* the rounds: level, step, actions done, result, whether it was disturbed
  askers,  \* the round an asker waits for, 0: none
  late,     \* actions given up that still run: level and round
  spent     \* faults and late actions so far
ladderVars == <<keys, enrolled, socket, ladderPath, armed, cur, round, askers, late, spent>>

LadderRound == 1..MaxRounds
Running == 100   \* no result yet
NoRound == [level |-> 0, at |-> "none", did |-> {}, rc |-> Running, disturbed |-> FALSE]
LadderSession == <<keys, enrolled, socket, ladderPath, armed>>
Gate == <<cur, askers>>

LadderInit ==
  /\ keys = "good" /\ enrolled = TRUE /\ socket = TRUE /\ ladderPath = "good" /\ armed = FALSE
  /\ cur = 0 /\ round = [n \in LadderRound |-> NoRound]
  /\ askers = [a \in Asker |-> 0]
  /\ late = {} /\ spent = [faults |-> 0, lates |-> 0]

\* A probe crosses: a packet finds the exit, and its keys or a new handshake are accepted.
Crosses ==
  /\ socket /\ ladderPath # "bad"
  /\ \/ keys = "good"
     \/ keys = "none" /\ (enrolled \/ (ladderPath = "none" /\ armed))

Disturbed == [n \in LadderRound |-> IF n = cur THEN [round[n] EXCEPT !.disturbed = TRUE] ELSE round[n]]
SomethingFails ==
  /\ spent.faults < MaxLosses /\ spent' = [spent EXCEPT !.faults = @ + 1] /\ round' = Disturbed
  /\ UNCHANGED <<Gate, late>>
ExitRestarts ==
  /\ SomethingFails /\ enrolled' = FALSE /\ keys' = (IF keys = "good" THEN "stale" ELSE keys)
  /\ UNCHANGED <<socket, ladderPath, armed>>
SocketFails == SomethingFails /\ socket /\ socket' = FALSE /\ UNCHANGED <<keys, enrolled, ladderPath, armed>>
PathMoves == SomethingFails /\ ladderPath = "good" /\ ladderPath' = "bad" /\ UNCHANGED <<keys, enrolled, socket, armed>>

\* Mutant: every asker starts a round of its own.
AsksAlone(a, from) ==
  /\ askers[a] = 0
  /\ \E n \in LadderRound :
       /\ round[n].at = "none" /\ \A k \in LadderRound : k < n => round[k].at # "none"
       /\ cur' = n /\ askers' = [askers EXCEPT ![a] = n]
       /\ round' = [round EXCEPT ![n] = [NoRound EXCEPT !.level = from, !.at = "looks"]]
  /\ UNCHANGED <<LadderSession, late, spent>>
\* merge: join the round that runs, or start one.
AsksLadder(a, from) ==
  /\ askers[a] = 0
  /\ \/ /\ cur # 0 /\ askers' = [askers EXCEPT ![a] = cur] /\ UNCHANGED <<cur, round>>
     \/ /\ cur = 0
        /\ \E n \in LadderRound :
             /\ round[n].at = "none" /\ \A k \in LadderRound : k < n => round[k].at # "none"
             /\ cur' = n /\ askers' = [askers EXCEPT ![a] = n]
             /\ round' = [round EXCEPT ![n] = [NoRound EXCEPT !.level = from, !.at = "looks"]]
  /\ UNCHANGED <<LadderSession, late, spent>>

At(where) == cur # 0 /\ round[cur].at = where
RoundOnly == UNCHANGED <<Gate, late, spent>>
\* What a probe that crosses leaves behind; either way its packet took the registration.
CrossedOver ==
  /\ keys' = "good" /\ enrolled' = (enrolled \/ keys = "none") /\ ladderPath' = "good"
  /\ armed' = FALSE /\ UNCHANGED socket
Unanswered == armed' = FALSE /\ UNCHANGED <<keys, enrolled, socket, ladderPath>>
RoundGoes(where) == round' = [round EXCEPT ![cur].at = where]
LadderEnds(rc) == round' = [round EXCEPT ![cur].at = "ends", ![cur].rc = rc]

\* The first probe is a short one: it may miss an answer.
LooksFirst ==
  /\ At("looks")
  /\ \/ Crosses /\ CrossedOver /\ LadderEnds(0)
     \/ RoundGoes("acts") /\ Unanswered
  /\ RoundOnly

\* 1: register, when there is an address to send to, and drop the local session.
\* 2: another socket. 3: forget the ladderPath, race.
Does(k) ==
  CASE k = 1 -> /\ enrolled' = (enrolled \/ (socket /\ ladderPath = "good")) /\ keys' = "none"
                /\ UNCHANGED <<socket, ladderPath, armed>>
    [] k = 2 -> socket' = TRUE /\ UNCHANGED <<keys, enrolled, ladderPath, armed>>
    [] k = 3 -> ladderPath' = "none" /\ armed' = TRUE /\ UNCHANGED <<keys, enrolled, socket>>
\* Mutant: a round that starts higher leaves the lower actions out.
MissingOwn == {k \in {round[cur].level} : k \notin round[cur].did}
\* The actions up to the level that this round has not done; the lowest comes first.
StillMissing == {k \in 1..round[cur].level : k \notin round[cur].did}
NextAction == CHOOSE k \in StillMissing : \A j \in StillMissing : k <= j
Acts ==
  /\ At("acts") /\ StillMissing # {} /\ Does(NextAction)
  /\ round' = [round EXCEPT ![cur].did = @ \cup {NextAction}] /\ RoundOnly
ActsNoMore == At("acts") /\ StillMissing = {} /\ RoundGoes("verifies") /\ UNCHANGED LadderSession /\ RoundOnly
\* runBoundedAction: two seconds are over, the round ends; the action does not.
ActsTooLong ==
  /\ At("acts") /\ StillMissing # {} /\ spent.lates < MaxLates
  /\ late' = late \cup {[action |-> NextAction, of |-> cur]}
  /\ spent' = [spent EXCEPT !.lates = @ + 1]
  /\ round' = [round EXCEPT ![cur].at = "ends", ![cur].rc = -3, ![cur].disturbed = TRUE]
  /\ UNCHANGED <<LadderSession, Gate>>
\* The socket cannot be had.
ActFails == At("acts") /\ StillMissing # {} /\ NextAction = 2 /\ LadderEnds(-4) /\ UNCHANGED LadderSession /\ RoundOnly
LateAction ==
  \E l \in late :
    /\ Does(l.action) /\ late' = late \ {l} /\ round' = Disturbed /\ UNCHANGED <<Gate, spent>>

\* Mutant: a level that is not the last is the last.
VerifyGivesUp ==
  /\ At("verifies")
  /\ IF Crosses THEN CrossedOver /\ LadderEnds(0) ELSE Unanswered /\ LadderEnds(-1)
  /\ RoundOnly
\* Ten seconds: a session that works answers.
Verifies ==
  /\ At("verifies")
  /\ IF Crosses THEN CrossedOver /\ LadderEnds(0)
     ELSE /\ Unanswered
          /\ IF round[cur].level = 3 THEN LadderEnds(-1)
             ELSE round' = [round EXCEPT ![cur].at = "looks", ![cur].level = @ + 1]
  /\ RoundOnly

\* The result goes into the round before anyone can read it, and the gate opens.
RoundCloses ==
  /\ At("ends") /\ cur' = 0 /\ round' = [round EXCEPT ![cur].at = "over"]
  /\ UNCHANGED <<LadderSession, askers, late, spent>>
\* Everyone who waited reads the result of its round, which no later round overwrites.
Told(a) ==
  /\ askers[a] # 0 /\ round[askers[a]].at = "over" /\ askers' = [askers EXCEPT ![a] = 0]
  /\ UNCHANGED <<LadderSession, cur, round, late, spent>>

RoundSteps == LooksFirst \/ Acts \/ ActsNoMore \/ ActsTooLong \/ ActFails \/ Verifies \/ RoundCloses
LadderNext ==
  \/ ExitRestarts \/ SocketFails \/ PathMoves
  \/ \E a \in Asker : (\E from \in 1..3 : AsksLadder(a, from)) \/ Told(a)
  \/ RoundSteps \/ LateAction
LadderFairness == WF_ladderVars(RoundSteps) /\ \A a \in Asker : WF_ladderVars(Told(a))
LadderSpec == LadderInit /\ [][LadderNext]_ladderVars /\ LadderFairness
-----------------------------------------------------------------------------
\* What every variable may hold; the gate holds exactly the round that has not ended.
LadderTypeOK ==
  /\ keys \in {"good", "stale", "none"} /\ enrolled \in BOOLEAN /\ socket \in BOOLEAN
  /\ ladderPath \in {"good", "bad", "none"} /\ armed \in BOOLEAN
  /\ cur \in 0..MaxRounds
  /\ \A n \in LadderRound : round[n].at \notin {"none", "over"} <=> n = cur
  /\ \A n \in LadderRound : round[n].rc \in {0, -1, -3, -4, Running}

\* A round in which nothing more goes wrong and every action returns brings the session back,
\* from wherever it starts and whatever was lost before: the keys, the device at the
\* exit, the socket, the ladderPath, and all of them together.
UndisturbedRoundHeals == \A n \in LadderRound : round[n].rc = -1 => round[n].disturbed

\* The adopted path is given up only by the last level, after its round has tried a new
\* handshake and a new socket.
PathIsKeptTillLast ==
  [][ladderPath # "none" /\ ladderPath' = "none" =>
       \/ At("acts") /\ {1, 2} \subseteq round[cur].did /\ round[cur].level = 3
       \/ \E l \in late \ late' : l.action = 3 /\ {1, 2} \subseteq round[l.of].did]_ladderVars

\* Whoever asks is answered, also the one that joined a round just as it ended.
AskersAreTold == \A a \in Asker : []<>(askers[a] = 0)
=============================================================================
