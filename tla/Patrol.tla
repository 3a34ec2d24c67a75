------------------------------- MODULE Patrol -------------------------------
(* The patrol of a tunnel that serves (clientcore/cmd/clientcore/tunmode.go,       *)
(* demand.go, hostsession/patrolrule.go, PatrolEvidenceGate): a probe a minute; a     *)
(* failed one counts as evidence only when somebody uses the tunnel and the phone       *)
(* itself can send; three in a row, none long before the next, end in the verdict         *)
(* that the tunnel is not healthy. Between them the recovery ladder (Ladder) is tried.   *)
EXTENDS Integers, Sequences

CONSTANTS
  FailStreak,   \* failures in a row (3)
  RelayTicks,   \* relayUpgradeEvery
  NoiseTicks,   \* NoiseEscalateAfter, in ticks
  MaxChanges    \* bound: changes of the world

ASSUME PatrolAssumption ==
  FailStreak \in Nat \ {0} /\ RelayTicks \in Nat \ {0} /\ NoiseTicks \in Nat \ {0} /\ MaxChanges \in Nat

VARIABLES
  world,     \* the exit answers, somebody uses the tunnel, the phone can send, a direct path is open
  changes,   \* changes of the world so far
  asleep,    \* the process was frozen since the last tick, longer than the window
  via,       \* the path that is used
  streak, counted, noisy, gated, relays,   \* failStreak, lastCountedFail, localNoiseSince, gateGated, relayStreak
  unhealthy, \* markUnhealthy("patrol"), and the patrol has returned
  woke,      \* a ladder that a wake-up or a waiting packet started is under way
  tried,     \* history: the tick called the ladder
  lately       \* history: the last ticks
patrolVars == <<world, changes, asleep, via, streak, counted, noisy, gated, relays, unhealthy, woke, tried, lately>>

PatrolInit ==
  /\ world = [answers |-> TRUE, used |-> FALSE, sends |-> TRUE, direct |-> FALSE] /\ changes = 0
  /\ asleep = FALSE /\ via = "relay"
  /\ streak = 0 /\ counted = "never" /\ noisy = 0 /\ gated = FALSE /\ relays = 0
  /\ unhealthy = FALSE /\ woke = FALSE /\ tried = FALSE /\ lately = <<>>

World == <<world, changes>>
WorldChanges ==
  /\ changes < MaxChanges /\ changes' = changes + 1
  /\ \E part \in DOMAIN world : world' = [world EXCEPT ![part] = ~@]
  /\ via' = (IF ~world'.direct THEN "relay" ELSE via)
  /\ UNCHANGED <<asleep, streak, counted, noisy, gated, relays, unhealthy, woke, tried, lately>>
\* A phone that is frozen between two ticks, for longer than the window of the evidence.
Sleeps ==
  /\ changes < MaxChanges /\ changes' = changes + 1 /\ ~asleep /\ asleep' = TRUE
  /\ UNCHANGED <<world, via, streak, counted, noisy, gated, relays, unhealthy, woke, tried, lately>>

\* Mutant: the time between two failures is not looked at.
EvidenceWithoutWindow(noise, demand) ==
  IF noise \/ ~demand THEN [streak |-> 0, counts |-> FALSE] ELSE [streak |-> streak + 1, counts |-> TRUE]
\* Mutant: a failure that does not count leaves the others.
EvidenceKeeps(noise, demand) ==
  IF noise \/ ~demand THEN [streak |-> streak, counts |-> FALSE]
  ELSE [streak |-> (IF counted = "old" THEN 0 ELSE streak) + 1, counts |-> TRUE]
\* PatrolEvidenceGate of a failed probe. lastCountedFail may be older than the window.
Evidence(noise, demand) ==
  IF noise \/ ~demand THEN [streak |-> 0, counts |-> FALSE]
  ELSE [streak |-> (IF (counted = "old" \/ asleep) /\ counted # "never" THEN 0 ELSE streak) + 1, counts |-> TRUE]

\* Mutant: noise is never the path's own.
EscalatesNever(noise) == FALSE
\* NoiseEscalated: noise that lasts is the path's own; noise of a frozen phone is as old as its sleep.
Escalates(noise) == noise /\ noisy > 0 /\ (noisy >= NoiseTicks \/ asleep)
NoisyFor(noise) == IF ~noise \/ Escalates(noise) THEN 0 ELSE IF noisy < NoiseTicks THEN noisy + 1 ELSE noisy

Remember(t) == lately' = IF Len(lately) < FailStreak THEN Append(lately, t) ELSE Append(Tail(lately), t)

\* Mutant: the relay's ticks start over with each probe.
RelaysAfterNone == 0
\* A probe that is answered over a relay; after RelayTicks of them the direct path is raced for.
RelaysAfter == IF via # "relay" \/ relays + 1 >= RelayTicks THEN 0 ELSE relays + 1
TickAnswered ==
  /\ ~unhealthy /\ world.answers /\ world.sends
  /\ streak' = 0 /\ gated' = FALSE /\ noisy' = 0
  /\ relays' = RelaysAfter
  /\ via' = (IF via = "relay" /\ relays + 1 >= RelayTicks /\ world.direct THEN "direct" ELSE via)
  /\ Remember([ok |-> TRUE, used |-> world.used, noise |-> FALSE, slept |-> asleep])
  /\ woke' = (woke \/ asleep) /\ asleep' = FALSE /\ tried' = FALSE
  /\ UNCHANGED <<World, counted, unhealthy>>

\* What the session lost the ladder brings back; an exit that is down it does not.
Heals(recovered) ==
  world' = (IF recovered THEN [world EXCEPT !.answers = TRUE, !.sends = TRUE] ELSE world)

\* A probe without an answer. A packet of the phone's own that cannot be sent is noise.
\* Evidence calls the ladder from R1; the last of a row calls it from R2, and decides.
TickUnanswered ==
  /\ ~unhealthy /\ ~(world.answers /\ world.sends)
  /\ LET noise == ~world.sends /\ ~Escalates(~world.sends)
         verdict == Evidence(noise, world.used)
         n == verdict.streak
     IN \E recovered \in IF verdict.counts THEN BOOLEAN ELSE {FALSE} :
          /\ Heals(recovered)
          /\ tried' = verdict.counts
          /\ counted' = (IF verdict.counts THEN "fresh" ELSE IF asleep /\ counted = "fresh" THEN "old" ELSE counted)
          /\ streak' = (IF recovered THEN 0 ELSE n)
          /\ unhealthy' = (~recovered /\ n >= FailStreak)
          /\ gated' = ~verdict.counts
          /\ noisy' = NoisyFor(~world.sends)
          /\ Remember([ok |-> recovered, used |-> world.used, noise |-> noise, slept |-> asleep])
  /\ woke' = (woke \/ asleep) /\ asleep' = FALSE
  /\ UNCHANGED <<changes, via, relays>>

\* The ladder that a wake-up started, and one that a packet waiting on a silent path started:
\* on goroutines of their own; what they find is the next probe's to see.
PacketWaits ==
  /\ ~unhealthy /\ world.used /\ ~world.answers /\ world.sends /\ ~woke /\ woke' = TRUE
  /\ UNCHANGED <<World, asleep, via, streak, counted, noisy, gated, relays, unhealthy, tried, lately>>
LadderReturns ==
  /\ woke /\ woke' = FALSE /\ \E recovered \in BOOLEAN : Heals(recovered)
  /\ UNCHANGED <<changes, asleep, via, streak, counted, noisy, gated, relays, unhealthy, tried, lately>>

PatrolTick == TickAnswered \/ TickUnanswered
PatrolNext == WorldChanges \/ Sleeps \/ PatrolTick \/ PacketWaits \/ LadderReturns
PatrolFairness == WF_patrolVars(PatrolTick) /\ WF_patrolVars(LadderReturns)
PatrolSpec == PatrolInit /\ [][PatrolNext]_patrolVars /\ PatrolFairness
-----------------------------------------------------------------------------
\* What every variable may hold.
PatrolTypeOK ==
  /\ streak \in 0..FailStreak /\ relays \in 0..RelayTicks /\ noisy \in 0..NoiseTicks
  /\ counted \in {"never", "fresh", "old"} /\ via \in {"relay", "direct"}
  /\ gated => streak = 0

\* The tunnel is given up only for failures in a row of which each hit somebody who used it and
\* none was the phone's own, and between which the phone was not frozen: three failures
\* spread over an evening of sleep are none.
UnhealthyIsDeserved ==
  unhealthy => /\ Len(lately) = FailStreak
               /\ \A k \in 1..FailStreak : ~lately[k].ok /\ lately[k].used /\ ~lately[k].noise
               /\ \A k \in 2..FailStreak : ~lately[k].slept

\* A path that stays dead under somebody who uses it is given up, or the ladder is tried on
\* it again and again: noise that lasts does not put it off for ever.
DeadPathIsWorkedOn ==
  <>[](~(world.answers /\ world.sends) /\ world.used) => []<>(tried \/ unhealthy)
\* Where the phone can send it is given up.
DeadPathIsReported ==
  <>[](~world.answers /\ world.sends /\ world.used) => []<>unhealthy

\* A tunnel over a relay finds the direct path that opens.
RelayIsNotForever ==
  <>[](world.answers /\ world.sends /\ world.direct) => []<>(via = "direct" \/ unhealthy)
-----------------------------------------------------------------------------
(* What the code does not keep: a path on which every packet fails locally is never       *)
(* given up, since between two escalations the count starts over.                          *)
NoisyPathIsReported ==
  <>[](~world.sends /\ world.used) => <>unhealthy
=============================================================================
