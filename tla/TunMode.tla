------------------------------- MODULE TunMode -------------------------------
(* The core of the phone's tunnel (clientcore/cmd/clientcore/tunmode.go,          *)
(* probe_lib.go, app_portfwd.go): a generation warms up without a TUN fd, waits     *)
(* for one, serves, and ends. Its goroutine outlives its stop; the extension          *)
(* prepares, attaches, stops and changes the port forwards from other threads. The    *)
(* lock, the stage and the health are shared by all generations, and each change of    *)
(* them is preceded by a look whether the generation is still the current one.       *)
EXTENDS Integers, FiniteSets

CONSTANT MaxRuns   \* bound: generations

ASSUME TunModeAssumption == MaxRuns \in Nat \ {0}

VARIABLES
  lock,      \* probeRunning
  now,       \* tunNow, 0 before the first
  stage,     \* stageNow
  healthy,   \* tunHealthy
  run,       \* the generations
  begin,     \* tunBegin under way: where
  stopper,   \* tunStopWait under way: where, and its generation
  caller,    \* tunSetPortForwardsJSON under way
  forced     \* history: a stop timed out and freed the lock itself
tunVars == <<lock, now, stage, healthy, run, begin, stopper, caller, forced>>

Run == 1..MaxRuns
\* at: where its goroutine is; next, writes: the stage it has looked it may write.
NoRun == [at |-> "none", stop |-> FALSE, done |-> FALSE, client |-> "none", shut |-> FALSE,
          fd |-> FALSE, forwards |-> FALSE, writes |-> "none", next |-> "none"]
Nobody == [at |-> "idle", of |-> 0]

TunInit ==
  /\ lock = 0 /\ now = 0 /\ stage = "idle" /\ healthy = FALSE /\ forced = FALSE
  /\ run = [g \in Run |-> NoRun] /\ begin = "idle"
  /\ stopper = Nobody /\ caller = Nobody

Callers == <<begin, stopper, caller>>

\* tunBegin: the lock is taken, the configuration and the log are looked at, and only
\* then is there a new generation.
BeginLocks ==
  /\ begin = "idle" /\ lock = 0 /\ now < MaxRuns /\ lock' = 1 /\ begin' = "locked"
  /\ UNCHANGED <<now, stage, healthy, run, stopper, caller, forced>>
BeginRefuses ==
  /\ begin = "locked" /\ lock' = 0 /\ begin' = "idle"
  /\ UNCHANGED <<now, stage, healthy, run, stopper, caller, forced>>
BeginCreates ==
  /\ begin = "locked" /\ healthy' = TRUE /\ now' = now + 1 /\ begin' = "created"
  /\ UNCHANGED <<lock, stage, run, stopper, caller, forced>>
BeginStarts ==
  /\ begin = "created" /\ stage' = "preparing" /\ begin' = "idle"
  /\ run' = [run EXCEPT ![now].at = "starts"]
  /\ UNCHANGED <<lock, now, healthy, stopper, caller, forced>>

RunOnly == UNCHANGED <<lock, now, stage, healthy, begin, stopper, caller, forced>>
\* setStageIfCurrent: the look, and later the write.
Sets(g, r, s, next) ==
  run' = [run EXCEPT ![g] = IF now = g THEN [r EXCEPT !.at = "writes", !.writes = s, !.next = next]
                            ELSE [r EXCEPT !.at = next]]
WritesStage(g) ==
  /\ run[g].at = "writes" /\ stage' = run[g].writes
  /\ run' = [run EXCEPT ![g].at = run[g].next, ![g].writes = "none", ![g].next = "none"]
  /\ UNCHANGED <<lock, now, healthy, Callers, forced>>

\* Mutant: a client that comes after the stop is kept.
SessionStartsAnyway(g) ==
  /\ run[g].at = "starts" /\ run' = [run EXCEPT ![g].at = "probes", ![g].client = "live"] /\ RunOnly
\* The session is built; a stop that came before closes its client right here.
SessionStarts(g) ==
  /\ run[g].at = "starts"
  /\ run' = [run EXCEPT ![g].at = "probes", ![g].client = IF run[g].shut THEN "closed" ELSE "live"]
  /\ RunOnly
SessionFails(g) == run[g].at = "starts" /\ Sets(g, run[g], "failed", "rests") /\ RunOnly

\* Warm-up: an answer, or none within the window, makes the generation ready.
WarmsUp(g) == run[g].at = "probes" /\ Sets(g, run[g], "ready", "waits") /\ RunOnly
WarmUpFails(g) == run[g].at = "probes" /\ Sets(g, run[g], "failed", "closes") /\ RunOnly
WarmUpStopped(g) ==
  /\ run[g].at = "probes" /\ run[g].stop /\ Sets(g, run[g], "idle", "closes") /\ RunOnly

TakesFd(g) ==
  /\ run[g].at = "waits" /\ run[g].fd
  /\ run' = [run EXCEPT ![g].fd = FALSE, ![g].at = "hands"] /\ RunOnly
\* Mutant: nothing ends the wait but a stop.
GivesUpOnStop(g) ==
  /\ run[g].at = "waits" /\ run[g].stop /\ Sets(g, run[g], "idle", "reclaims") /\ RunOnly
\* A stop, or nobody attached for attachDeadline.
GivesUp(g) == run[g].at = "waits" /\ Sets(g, run[g], "idle", "reclaims") /\ RunOnly
\* reclaimAttachFd: an fd that came in the same instant is taken out, not closed.
Reclaims(g) ==
  /\ run[g].at = "reclaims" /\ run' = [run EXCEPT ![g].fd = FALSE, ![g].at = "closes"] /\ RunOnly

AttachesFd(g) == run[g].at = "hands" /\ Sets(g, run[g], "attached", "opens") /\ RunOnly
AttachFails(g) == run[g].at = "hands" /\ Sets(g, run[g], "failed", "closes") /\ RunOnly
\* The bridge and the port forwards of the configuration.
OpensDoors(g) ==
  /\ run[g].at = "opens" /\ run' = [run EXCEPT ![g].at = "serves", ![g].forwards = TRUE] /\ RunOnly
\* Mutant: a generation that serves ends when its fd does.
EndsUnhealthy(g) ==
  /\ run[g].at = "serves" /\ run[g].stop /\ ~healthy
  /\ run' = [run EXCEPT ![g].at = "closes", ![g].forwards = FALSE] /\ RunOnly
\* The deferred calls, in their order: bridge and forwards, client, stage.
ClosesDoors(g) ==
  /\ run[g].at = "serves" /\ run[g].stop
  /\ run' = [run EXCEPT ![g].at = "closes", ![g].forwards = FALSE] /\ RunOnly

\* closeClientOnce: a client that is not there yet is remembered as closed.
ClientClosed(r) == [r EXCEPT !.shut = TRUE, !.client = IF @ = "live" /\ ~r.shut THEN "closed" ELSE @]
ClosesClient(g) ==
  /\ run[g].at = "closes" /\ run' = [run EXCEPT ![g] = [ClientClosed(run[g]) EXCEPT !.at = "rests"]] /\ RunOnly
\* Mutant: the stage is left as it is.
RestsQuietly(g) == run[g].at = "rests" /\ run' = [run EXCEPT ![g].at = "finishes"] /\ RunOnly
\* A failure stays to be read.
Rests(g) ==
  /\ run[g].at = "rests"
  /\ IF stage = "failed" THEN run' = [run EXCEPT ![g].at = "finishes"]
     ELSE Sets(g, run[g], "idle", "finishes")
  /\ RunOnly

\* finish: done first; then the look; then the shared state.
Finishes(g) ==
  /\ run[g].at = "finishes"
  /\ run' = [run EXCEPT ![g].stop = TRUE, ![g].done = TRUE, ![g].at = IF now = g THEN "frees" ELSE "gone"]
  /\ RunOnly
\* Mutant: the lock is counted down, whoever holds it.
FreesOne(g) ==
  /\ run[g].at = "frees" /\ healthy' = FALSE /\ lock' = lock - 1 /\ run' = [run EXCEPT ![g].at = "gone"]
  /\ UNCHANGED <<now, stage, Callers, forced>>
Frees(g) ==
  /\ run[g].at = "frees" /\ healthy' = FALSE /\ lock' = 0 /\ run' = [run EXCEPT ![g].at = "gone"]
  /\ UNCHANGED <<now, stage, Callers, forced>>

\* markUnhealthy, from the fd's reader and the patrol: only of the current generation.
MarksUnhealthy(g) ==
  /\ run[g].at \in {"opens", "serves"} /\ now = g /\ healthy /\ healthy' = FALSE
  /\ UNCHANGED <<lock, now, stage, run, Callers, forced>>

StopOnly == UNCHANGED <<now, stage, begin, caller>>
StopSignals ==
  /\ stopper.at = "idle" /\ now # 0 /\ lock = 1 /\ ~run[now].done
  /\ run' = [run EXCEPT ![now].stop = TRUE] /\ stopper' = [at |-> "looks", of |-> now]
  /\ UNCHANGED <<lock, healthy, forced>> /\ StopOnly
\* A warm-up may not listen: its client is closed under it.
StopInterrupts ==
  /\ stopper.at = "looks" /\ stopper' = [stopper EXCEPT !.at = "waits"]
  /\ run' = [run EXCEPT ![stopper.of] = IF stage = "preparing" THEN ClientClosed(@) ELSE @]
  /\ UNCHANGED <<lock, healthy, forced>> /\ StopOnly
\* Mutant: the stop that saw the generation done frees the lock.
StopReturnsFreeing ==
  /\ stopper.at = "waits" /\ run[stopper.of].done /\ stopper' = Nobody /\ lock' = 0
  /\ UNCHANGED <<healthy, forced, run>> /\ StopOnly
StopReturns ==
  /\ stopper.at = "waits" /\ run[stopper.of].done /\ stopper' = Nobody
  /\ UNCHANGED <<lock, healthy, forced, run>> /\ StopOnly
\* Three seconds are over.
StopGivesUp ==
  /\ stopper.at = "waits" /\ stopper' = (IF now = stopper.of THEN [stopper EXCEPT !.at = "forces"] ELSE Nobody)
  /\ UNCHANGED <<lock, healthy, forced, run>> /\ StopOnly
StopForces ==
  /\ stopper.at = "forces" /\ stopper' = Nobody /\ lock' = 0 /\ healthy' = FALSE /\ forced' = TRUE
  /\ UNCHANGED run /\ StopOnly

AttachOnly == UNCHANGED <<lock, now, healthy, begin, stopper, caller, forced>>
\* The rest of attachTun is a look at the stage, every 20 ms, for the answer.
AttachSends ==
  /\ caller.at = "idle" /\ now # 0 /\ lock = 1 /\ stage = "ready" /\ ~run[now].fd
  /\ run' = [run EXCEPT ![now].fd = TRUE] /\ UNCHANGED stage /\ AttachOnly
\* An fd that is none: the stage fails, whoever's it is.
AttachNonsense ==
  /\ caller.at = "idle" /\ stage = "ready" /\ stage' = "failed" /\ UNCHANGED run /\ AttachOnly

\* A new table for the running generation: look, listen, look again.
SetOnly == UNCHANGED <<lock, now, stage, healthy, begin, stopper, forced>>
SetLooks ==
  /\ caller.at = "idle" /\ now # 0 /\ lock = 1 /\ stage = "attached" /\ ~run[now].done /\ run[now].client # "none"
  /\ caller' = [at |-> "applies", of |-> now] /\ UNCHANGED run /\ SetOnly
SetApplies ==
  /\ caller.at = "applies" /\ caller' = [caller EXCEPT !.at = "looks"]
  /\ run' = [run EXCEPT ![caller.of].forwards = TRUE] /\ SetOnly
SetLooksAgain ==
  /\ caller.at = "looks" /\ caller' = Nobody
  /\ run' = [run EXCEPT ![caller.of].forwards = @ /\ now = caller.of /\ ~run[caller.of].done] /\ SetOnly

RunSteps(g) ==
  \/ WritesStage(g) \/ SessionStarts(g) \/ SessionFails(g)
  \/ WarmsUp(g) \/ WarmUpFails(g) \/ WarmUpStopped(g)
  \/ TakesFd(g) \/ GivesUp(g) \/ Reclaims(g)
  \/ AttachesFd(g) \/ AttachFails(g) \/ OpensDoors(g) \/ ClosesDoors(g)
  \/ ClosesClient(g) \/ Rests(g) \/ Finishes(g) \/ Frees(g)
BeginSteps == BeginRefuses \/ BeginCreates \/ BeginStarts
SetSteps == SetApplies \/ SetLooksAgain
TunNext ==
  \/ BeginLocks \/ BeginSteps
  \/ \E g \in Run : RunSteps(g) \/ MarksUnhealthy(g)
  \/ StopSignals \/ StopInterrupts \/ StopReturns \/ StopGivesUp \/ StopForces
  \/ AttachSends \/ AttachNonsense
  \/ SetLooks \/ SetSteps
\* Goroutines run on, calls that were made return; every wait of a generation has a bound
\* but the one of a generation that serves.
TunFairness ==
  /\ \A g \in Run : WF_tunVars(RunSteps(g))
  /\ WF_tunVars(BeginSteps) /\ WF_tunVars(SetSteps)
  /\ WF_tunVars(StopInterrupts \/ StopReturns \/ StopForces)
TunSpec == TunInit /\ [][TunNext]_tunVars /\ TunFairness
-----------------------------------------------------------------------------
Alive == {g \in Run : run[g].at \notin {"none", "gone"}}

\* What every variable may hold.
TunTypeOK ==
  /\ lock \in {0, 1} /\ now \in 0..MaxRuns /\ healthy \in BOOLEAN /\ forced \in BOOLEAN
  /\ stage \in {"idle", "preparing", "ready", "attached", "failed"}
  /\ begin \in {"idle", "locked", "created"}
  /\ \A g \in Run : run[g].at # "none" => g <= now

\* A generation that is gone has closed its client, also the one that a stop during the
\* warm-up had come too early to close.
ClientsAreClosed == \A g \in Run : run[g].at = "gone" => run[g].client # "live"

\* As long as no stop was forced, at most one generation is alive, and the lock is only
\* free when none is: a new one never starts beside an old one.
LockMeansAlive == ~forced => Cardinality(Alive) <= 1 /\ (lock = 0 => Alive = {})

\* As long as no stop was forced, the extension is told that the tunnel runs only when the
\* current generation has attached its fd.
RunningIsServing ==
  ~forced /\ lock = 1 /\ healthy /\ stage = "attached" =>
    run[now].at \in {"opens", "serves", "closes", "rests", "writes"}

\* Generations of the tunnel follow one another: one alive, one lock, one client,
\* and what the extension is told is true of the current one.
GenerationsAreSerial == TunTypeOK /\ ClientsAreClosed /\ LockMeansAlive /\ RunningIsServing

\* A generation that became ready does not hold the lock for ever when nobody attaches.
ReadyIsNotForever == \A g \in Run : []<>(run[g].at \in {"none", "serves", "gone"})

\* A generation that is asked to stop ends, wherever it was.
StoppedRunEnds == \A g \in Run : []<>(run[g].stop => run[g].at = "gone")
-----------------------------------------------------------------------------
(* What the code does not keep. The second look of a new table asks for done,     *)
(* which is closed after the forwards were stopped and the client was closed. A      *)
(* forced stop leaves a generation that frees the lock of the next one, taken          *)
(* before there is a next one. done is closed before the lock is free.              *)
NoOrphanForwards == \A g \in Run : run[g].at = "gone" /\ caller.of # g => ~run[g].forwards
LockIsItsOwn == [][\A g \in Run : Frees(g) => begin = "idle" /\ now = g]_tunVars
StoppedMeansFree == [][StopReturns => lock = 0 \/ now # stopper.of]_tunVars
=============================================================================
