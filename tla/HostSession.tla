----------------------------- MODULE HostSession -----------------------------
(***************************************************************************)
(* One host's session (clientcore/hostsession): its start goroutine (build,   *)
(* warm up, patrol), the goroutines that dial through it, and the manager   *)
(* that starts and stops instances of it.                                   *)
(*                                                                         *)
(* A failed probe or dial starts a recovery round. Rounds of an instance are  *)
(* single-flight: who comes while one runs shares its result. Two rounds in   *)
(* a row without success make whoever sees it close the exit session and     *)
(* build another, on its own goroutine, the patrol's or a dialler's.         *)
(*                                                                         *)
(* The levels of the ladder are one step with an outcome, and so is the      *)
(* evidence gate that decides which failed patrol counts. Exit sessions are  *)
(* external: open until closed; a closed one fails every probe. The bridge,  *)
(* the diagnostics and the endpoint cache are left out.                      *)
(***************************************************************************)
EXTENDS Integers, FiniteSets

CONSTANTS
  Dialler,     \* goroutines that dial through the session
  MaxInst,     \* bound: instances of the session
  MaxBuilds    \* bound: exit sessions

ASSUME SessionAssumption ==
  MaxInst \in Nat /\ MaxBuilds \in Nat /\ Dialler \cap Nat = {}

Inst == 1 .. MaxInst
Goroutine == Inst \cup Dialler    \* an instance stands for its start goroutine

VARIABLES
  instance,   \* the manager's current instance, 0: none
  session,    \* what the mutex of each instance protects
  open,       \* exit sessions that are open
  builds,     \* exit sessions built
  work,       \* each goroutine: where it is, for which instance, holding which exit session
  stopping    \* the instance whose Stop has closed stopCh and not yet marked the state

hostSessionVars == <<instance, session, open, builds, work, stopping>>

NewInstance == [state |-> "starting", stop |-> FALSE, finishing |-> FALSE, done |-> FALSE,
                exit |-> 0, exhausted |-> 0, cooling |-> FALSE, round |-> FALSE]
Unused == [NewInstance EXCEPT !.state = "none"]
Resting == [at |-> "idle", inst |-> 0, exit |-> 0, final |-> "none"]

HostSessionInit ==
  /\ instance = 0 /\ stopping = 0
  /\ session = [i \in Inst |-> Unused]
  /\ open = {} /\ builds = 0
  /\ work = [g \in Goroutine |-> Resting]

Here(g, at) == work[g].at = at
My(g) == session[work[g].inst]
Goto(g, at) == work' = [work EXCEPT ![g].at = at]

-----------------------------------------------------------------------------
(* The manager                                                             *)

StartSession ==
  LET new == instance + 1 IN
  /\ new \in Inst
  /\ instance # 0 => session[instance].state \in {"idle", "failed"} /\ session[instance].done
  /\ instance' = new
  /\ session' = [session EXCEPT ![new] = NewInstance]
  /\ work' = [work EXCEPT ![new] = [Resting EXCEPT !.at = "build", !.inst = new]]
  /\ UNCHANGED <<open, builds, stopping>>

StopSession ==
  /\ instance # 0 /\ stopping = 0 /\ ~session[instance].stop
  /\ session' = [session EXCEPT ![instance].stop = TRUE]
  /\ stopping' = instance
  /\ UNCHANGED <<instance, open, builds, work>>

SetStopping ==
  /\ stopping # 0 /\ stopping' = 0
  /\ session' = [session EXCEPT ![stopping].state =
                   IF @ \in {"starting", "ready"} THEN "stopping" ELSE @]
  /\ UNCHANGED <<instance, open, builds, work>>

-----------------------------------------------------------------------------
(* Building and finishing, by any goroutine                                *)

Built(g, at) ==
  /\ builds < MaxBuilds
  /\ builds' = builds + 1 /\ open' = open \cup {builds + 1}
  /\ work' = [work EXCEPT ![g].at = at, ![g].exit = builds + 1]
  /\ UNCHANGED <<instance, session, stopping>>

FinishAs(g, final) ==
  /\ work' = [work EXCEPT ![g].at = "finish", ![g].final = final]
  /\ UNCHANGED <<instance, session, open, builds, stopping>>

\* The first section of finish: the exit session is taken under the lock.
FinishTakes(g) ==
  /\ Here(g, "finish")
  /\ session' = [session EXCEPT ![work[g].inst].finishing = TRUE,
                                ![work[g].inst].exit = 0]
  /\ work' = [work EXCEPT ![g].at = "closing", ![g].exit = My(g).exit]
  /\ UNCHANGED <<instance, open, builds, stopping>>

FinishCloses(g) ==
  /\ Here(g, "closing")
  /\ open' = open \ {work[g].exit}
  /\ Goto(g, "final")
  /\ UNCHANGED <<instance, session, builds, stopping>>

FinishSetsState(g) ==
  /\ Here(g, "final")
  /\ session' = [session EXCEPT ![work[g].inst].state = work[g].final]
  /\ work' = [work EXCEPT ![g] = IF g \in Inst THEN [@ EXCEPT !.at = "end"] ELSE Resting]
  /\ UNCHANGED <<instance, open, builds, stopping>>

Finish(g) == FinishTakes(g) \/ FinishCloses(g) \/ FinishSetsState(g)

-----------------------------------------------------------------------------
(* The start goroutine                                                     *)

RunBuilds(i) == Here(i, "build") /\ Built(i, "store")
RunCannotBuild(i) == Here(i, "build") /\ FinishAs(i, "failed")

RunStores(i) ==
  /\ Here(i, "store")
  /\ session' = [session EXCEPT ![i].exit = work[i].exit]
  /\ Goto(i, "warm")
  /\ UNCHANGED <<instance, open, builds, stopping>>

\* The warm-up's probe runs on the exit session it began with. A probe that is
\* not answered in time is no failure.
WarmStopped(i) == Here(i, "warm") /\ session[i].stop /\ FinishAs(i, "idle")
WarmFails(i) == Here(i, "warm") /\ ~session[i].stop /\ FinishAs(i, "failed")
WarmUp(i) ==
  /\ Here(i, "warm") /\ ~session[i].stop /\ work[i].exit \in open
  /\ Goto(i, "warmed")
  /\ UNCHANGED <<instance, session, open, builds, stopping>>

SetReady(i) ==
  /\ Here(i, "warmed")
  /\ session' = [session EXCEPT ![i].state = "ready"]
  /\ Goto(i, "patrol")
  /\ UNCHANGED <<instance, open, builds, stopping>>

PatrolStopped(i) == Here(i, "patrol") /\ session[i].stop /\ FinishAs(i, "idle")

\* Without an exit session the patrol returns, and leaves the state to whoever
\* has finished the session.
PatrolGone(i) ==
  /\ Here(i, "patrol") /\ session[i].exit = 0
  /\ Goto(i, "end")
  /\ UNCHANGED <<instance, session, open, builds, stopping>>

PatrolHealthy(i) ==
  /\ Here(i, "patrol") /\ session[i].exit \in open /\ session[i].exhausted # 0
  /\ session' = [session EXCEPT ![i].exhausted = 0]
  /\ UNCHANGED <<instance, open, builds, work, stopping>>

\* Enough failures in a row, or a gap in which the process was frozen.
PatrolFails(i) ==
  /\ Here(i, "patrol") /\ session[i].exit # 0
  /\ work' = [work EXCEPT ![i].at = "recover", ![i].exit = session[i].exit]
  /\ UNCHANGED <<instance, session, open, builds, stopping>>

RunEnds(i) ==
  /\ Here(i, "end") /\ ~session[i].done
  /\ session' = [session EXCEPT ![i].done = TRUE]
  /\ UNCHANGED <<instance, open, builds, work, stopping>>

-----------------------------------------------------------------------------
(* Diallers                                                                *)

\* The first try fails; a dial that succeeds changes nothing here.
DialFails(d) ==
  /\ Here(d, "idle") /\ instance # 0 /\ session[instance].exit # 0
  /\ work' = [work EXCEPT ![d] = [Resting EXCEPT !.at = "recover", !.inst = instance,
                                                 !.exit = session[instance].exit]]
  /\ UNCHANGED <<instance, session, open, builds, stopping>>

\* The patrol goes on with its next tick, the dialler dials once more and is done.
Return(g) ==
  work' = [work EXCEPT ![g] = IF g \in Inst THEN [@ EXCEPT !.at = "patrol"] ELSE Resting]

-----------------------------------------------------------------------------
(* Recovery: recoverStaleSession, with the gate of its round               *)

RecoverStale(g) ==
  /\ Here(g, "recover") /\ My(g).exit # work[g].exit
  /\ Return(g)
  /\ UNCHANGED <<instance, session, open, builds, stopping>>

RecoverEnters(g) ==
  /\ Here(g, "recover") /\ My(g).exit = work[g].exit
  /\ Goto(g, "merge")
  /\ UNCHANGED <<instance, session, open, builds, stopping>>

RoundBegins(g) ==
  /\ Here(g, "merge") /\ ~My(g).round
  /\ session' = [session EXCEPT ![work[g].inst].round = TRUE]
  /\ Goto(g, "ladder")
  /\ UNCHANGED <<instance, open, builds, stopping>>

\* Mutant: whoever comes while a round runs begins one of its own.
RoundNotShared(g) ==
  /\ Here(g, "merge") /\ My(g).round
  /\ Goto(g, "ladder")
  /\ UNCHANGED <<instance, session, open, builds, stopping>>

RoundShared(g) ==
  /\ Here(g, "merge") /\ My(g).round
  /\ Goto(g, "wait")
  /\ UNCHANGED <<instance, session, open, builds, stopping>>

Waiters(g) == {h \in Goroutine : Here(h, "wait") /\ work[h].inst = work[g].inst}

\* Mutant: the round is over, and those who wait for it are not told.
RoundEndsSilently(g, recovered) ==
  /\ Here(g, "ladder") /\ (recovered => work[g].exit \in open)
  /\ session' = [session EXCEPT ![work[g].inst].round = FALSE]
  /\ Goto(g, "decide")
  /\ UNCHANGED <<instance, open, builds, stopping>>

\* Mutant: a recovered round takes one lost round back instead of all of them.
RoundEndsTakesBack(g, recovered) ==
  /\ Here(g, "ladder") /\ (recovered => work[g].exit \in open)
  /\ session' = [session EXCEPT ![work[g].inst].round = FALSE,
                   ![work[g].inst].exhausted = IF recovered THEN @ - 1 ELSE IF @ < 2 THEN @ + 1 ELSE @]
  /\ work' = [h \in Goroutine |->
                IF h = g \/ h \in Waiters(g) THEN [work[h] EXCEPT !.at = "decide"] ELSE work[h]]
  /\ UNCHANGED <<instance, open, builds, stopping>>

RoundEnds(g, recovered) ==
  /\ Here(g, "ladder") /\ (recovered => work[g].exit \in open)
  /\ session' = [session EXCEPT ![work[g].inst].round = FALSE,
                   ![work[g].inst].exhausted = IF recovered THEN 0 ELSE IF @ < 2 THEN @ + 1 ELSE @]
  /\ work' = [h \in Goroutine |->
                IF h = g \/ h \in Waiters(g) THEN [work[h] EXCEPT !.at = "decide"] ELSE work[h]]
  /\ UNCHANGED <<instance, open, builds, stopping>>

NotExhausted(g) ==
  /\ Here(g, "decide") /\ My(g).exhausted < 2
  /\ Return(g)
  /\ UNCHANGED <<instance, session, open, builds, stopping>>

Exhausted(g) ==
  /\ Here(g, "decide") /\ My(g).exhausted = 2
  /\ session' = [session EXCEPT ![work[g].inst].exhausted = 0]
  /\ Goto(g, "rebuild")
  /\ UNCHANGED <<instance, open, builds, stopping>>

-----------------------------------------------------------------------------
(* rebuildSession                                                          *)

RebuildTooSoon(g) ==
  /\ Here(g, "rebuild") /\ My(g).cooling
  /\ Return(g)
  /\ UNCHANGED <<instance, session, open, builds, stopping>>

RebuildBegins(g) ==
  /\ Here(g, "rebuild") /\ ~My(g).cooling
  /\ session' = [session EXCEPT ![work[g].inst].cooling = TRUE]
  /\ work' = [work EXCEPT ![g].at = "teardown", ![g].exit = My(g).exit]
  /\ UNCHANGED <<instance, open, builds, stopping>>

RebuildCloses(g) ==
  /\ Here(g, "teardown")
  /\ open' = open \ {work[g].exit}
  /\ Goto(g, "again")
  /\ UNCHANGED <<instance, session, builds, stopping>>

RebuildBuilds(g) == Here(g, "again") /\ Built(g, "swap")
RebuildCannotBuild(g) == Here(g, "again") /\ FinishAs(g, "failed")

\* Mutant: the swap does not look whether the session has finished.
SwapsBlindly(g) ==
  /\ Here(g, "swap")
  /\ session' = [session EXCEPT ![work[g].inst].exit = work[g].exit]
  /\ Return(g)
  /\ UNCHANGED <<instance, open, builds, stopping>>

Swaps(g) ==
  /\ Here(g, "swap") /\ ~My(g).finishing
  /\ session' = [session EXCEPT ![work[g].inst].exit = work[g].exit]
  /\ Return(g)
  /\ UNCHANGED <<instance, open, builds, stopping>>

TooLate(g) ==
  /\ Here(g, "swap") /\ My(g).finishing
  /\ open' = open \ {work[g].exit}
  /\ Return(g)
  /\ UNCHANGED <<instance, session, builds, stopping>>

\* serviceRebuildCooldown, longer than a rebuild takes.
CooldownEnds(i) ==
  /\ session[i].cooling
  /\ \A g \in Goroutine : work[g].inst = i => work[g].at \notin {"teardown", "again", "swap"}
  /\ session' = [session EXCEPT ![i].cooling = FALSE]
  /\ UNCHANGED <<instance, open, builds, work, stopping>>

-----------------------------------------------------------------------------
Recovery(g) ==
  \/ RecoverStale(g) \/ RecoverEnters(g) \/ RoundBegins(g) \/ RoundShared(g)
  \/ \E recovered \in BOOLEAN : RoundEnds(g, recovered)
  \/ NotExhausted(g) \/ Exhausted(g)
  \/ RebuildTooSoon(g) \/ RebuildBegins(g) \/ RebuildCloses(g)
  \/ RebuildBuilds(g) \/ RebuildCannotBuild(g) \/ Swaps(g) \/ TooLate(g)

Run(i) ==
  \/ RunBuilds(i) \/ RunCannotBuild(i) \/ RunStores(i)
  \/ WarmStopped(i) \/ WarmFails(i) \/ WarmUp(i) \/ SetReady(i)
  \/ PatrolGone(i) \/ RunEnds(i)

Patrol(i) == PatrolHealthy(i) \/ PatrolFails(i)

HostSessionNext ==
  \/ StartSession \/ StopSession \/ SetStopping
  \/ \E i \in Inst : Run(i) \/ Patrol(i) \/ PatrolStopped(i) \/ CooldownEnds(i)
  \/ \E d \in Dialler : DialFails(d)
  \/ \E g \in Goroutine : Recovery(g) \/ Finish(g)

HostSessionSpec == HostSessionInit /\ [][HostSessionNext]_hostSessionVars

\* Goroutines run; the select of the patrol, entered again and again, takes the
\* closed stopCh some time.
HostSessionFairness ==
  /\ WF_hostSessionVars(\E i \in Inst : Run(i))
  /\ SF_hostSessionVars(\E i \in Inst : PatrolStopped(i))
  /\ \A g \in Goroutine : WF_hostSessionVars(Recovery(g) \/ Finish(g))

-----------------------------------------------------------------------------
(* Properties                                                              *)

HostSessionTypeOK ==
  /\ instance \in 0 .. MaxInst /\ stopping \in 0 .. MaxInst
  /\ builds \in 0 .. MaxBuilds /\ open \subseteq 1 .. builds
  /\ session \in [Inst ->
       [state : {"none", "starting", "ready", "failed", "stopping", "idle"},
        stop : BOOLEAN, finishing : BOOLEAN, done : BOOLEAN, exit : 0 .. MaxBuilds,
        exhausted : 0 .. 2, cooling : BOOLEAN, round : BOOLEAN]]
  /\ work \in [Goroutine ->
       [at : {"idle", "build", "store", "warm", "warmed", "patrol", "end", "recover", "merge",
              "ladder", "wait", "decide", "rebuild", "teardown", "again", "swap",
              "finish", "closing", "final"},
        inst : 0 .. MaxInst, exit : 0 .. MaxBuilds, final : {"none", "idle", "failed"}]]

\* An open exit session is the current one of an instance that has not begun
\* to finish, or in the hands of a goroutine that will install or close it: none is
\* left behind by a rebuild that overlaps a stop (rebuildSession: 防孤儿).
InHand(g) == work[g].at \in {"store", "swap", "teardown", "closing"}
NoOrphan ==
  \A s \in open :
    \/ \E i \in Inst : session[i].exit = s /\ ~session[i].finishing
    \/ \E g \in Goroutine : InHand(g) /\ work[g].exit = s

\* At most one goroutine of an instance climbs the ladder, and whoever waits for
\* a round waits for one that runs (recoverGate.merge).
OneRoundAtATime ==
  \A i \in Inst :
    /\ Cardinality({g \in Goroutine : Here(g, "ladder") /\ work[g].inst = i}) =
         (IF session[i].round THEN 1 ELSE 0)
    /\ (\E g \in Goroutine : Here(g, "wait") /\ work[g].inst = i) => session[i].round

\* A host's instance has one exit session and one round of recovery at a time.
OneSessionPerHost == NoOrphan /\ OneRoundAtATime

\* A stopped instance comes to its end, whatever round or rebuild its patrol is
\* in (Stop: 各阶段都有界且响应取消).
StoppedInstanceEnds ==
  \A i \in Inst : []<>(session[i].stop => session[i].done)
=============================================================================
