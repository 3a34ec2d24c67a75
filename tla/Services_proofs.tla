--------------------------- MODULE Services_proofs ---------------------------
(* Theorems about the parts that MCServices composes: the phone's tunnel, the Go     *)
(* client of the control plane, and the client together with the streams of the      *)
(* daemon's end of the connection.                                                  *)
EXTENDS MCServices, Streams_proofs

-----------------------------------------------------------------------------
(* The tunnel: as long as no stop was forced, its generations follow one another. *)

At == {"none", "starts", "probes", "waits", "reclaims", "hands", "opens", "serves", "closes",
       "rests", "finishes", "frees", "gone", "writes"}
Stages == {"idle", "preparing", "ready", "attached", "failed"}
Runs == [at : At, stop : BOOLEAN, done : BOOLEAN, client : {"none", "live", "closed"},
         shut : BOOLEAN, fd : BOOLEAN, forwards : BOOLEAN,
         writes : {"none", "idle", "ready", "attached", "failed"}, next : At]

\* What a generation writes into the stage, and where it goes on from there.
Pairs == {<<"failed", "rests">>, <<"ready", "waits">>, <<"failed", "closes">>,
          <<"idle", "closes">>, <<"idle", "reclaims">>, <<"attached", "opens">>,
          <<"idle", "finishes">>}

\* Where a generation is, or goes when it has written the stage.
Pos(r) == IF r.at = "writes" THEN r.next ELSE r.at

\* One generation: its client is there once it started, closed once it rests, and a
\* client that was closed too early was not opened.
Sound(r) ==
  /\ r \in Runs
  /\ r.at = "writes" => <<r.writes, r.next>> \in Pairs
  /\ r.client = "live" => ~r.shut
  /\ Pos(r) \in {"none", "starts"} => r.client = "none"
  /\ Pos(r) \in {"rests", "finishes", "frees", "gone"} => r.client # "live"

Calls == [at : {"idle", "looks", "waits", "forces", "applies"}, of : 0 .. MaxRuns]

Typed ==
  /\ TunTypeOK /\ run \in [Run -> Runs] /\ \A g \in Run : Sound(run[g])
  /\ stopper \in Calls /\ caller \in Calls
  /\ stopper.at # "idle" => stopper.of # 0
  /\ caller.at # "idle" => caller.of # 0

\* A generation that is being made has its number and nothing else.
BeginIsFirst ==
  /\ begin = "locked" => now < MaxRuns
  /\ begin = "created" => now # 0 /\ run[now].at = "none"

\* The lock: only the current generation is alive, none while it is free or being handed
\* to the next one, and what the stage says of serving is the current one's.
Serial ==
  /\ Alive \subseteq {now}
  /\ lock = 0 => Alive = {} /\ begin = "idle"
  /\ begin # "idle" => Alive = {}
  /\ stage = "attached" => now # 0 /\ run[now].at \in {"opens", "serves", "closes", "rests", "writes"}

TunInv == Typed /\ BeginIsFirst /\ (~forced => Serial)

-----------------------------------------------------------------------------
(* Records *)

LEMMA NoRunSound == Sound(NoRun)
BY DEF NoRun, Sound, Pos, Runs, At

\* The steps that move a generation on.
LEMMA MovedSound ==
  ASSUME NEW r, Sound(r), NEW a \in At, a # "writes",
         a \in {"none", "starts"} => r.client = "none",
         a \in {"rests", "finishes", "frees", "gone"} => r.client # "live"
  PROVE  Sound([r EXCEPT !.at = a])
<1>1. r \in Runs
  BY DEF Sound
<1>2. [r EXCEPT !.at = a] \in Runs
  BY <1>1 DEF Runs
<1> QED BY <1>1, <1>2 DEF Sound, Pos, Runs

LEMMA FlagsSound ==
  ASSUME NEW r, Sound(r), NEW b \in BOOLEAN
  PROVE  /\ Sound([r EXCEPT !.fd = b]) /\ Sound([r EXCEPT !.forwards = b])
         /\ Sound([r EXCEPT !.stop = b]) /\ Sound([r EXCEPT !.done = b])
         /\ [r EXCEPT !.fd = b].at = r.at /\ [r EXCEPT !.forwards = b].at = r.at
         /\ [r EXCEPT !.stop = b].at = r.at /\ [r EXCEPT !.done = b].at = r.at
         /\ [r EXCEPT !.fd = b].client = r.client /\ [r EXCEPT !.forwards = b].client = r.client
         /\ [r EXCEPT !.stop = b].client = r.client /\ [r EXCEPT !.done = b].client = r.client
<1>1. r \in Runs
  BY DEF Sound
<1>2. [r EXCEPT !.fd = b] \in Runs /\ [r EXCEPT !.forwards = b] \in Runs
  BY <1>1 DEF Runs
<1>3. [r EXCEPT !.stop = b] \in Runs /\ [r EXCEPT !.done = b] \in Runs
  BY <1>1 DEF Runs
<1>4. Sound([r EXCEPT !.fd = b]) /\ [r EXCEPT !.fd = b].at = r.at /\ [r EXCEPT !.fd = b].client = r.client
  BY <1>1, <1>2 DEF Sound, Pos, Runs
<1>5. Sound([r EXCEPT !.forwards = b]) /\ [r EXCEPT !.forwards = b].at = r.at /\ [r EXCEPT !.forwards = b].client = r.client
  BY <1>1, <1>2 DEF Sound, Pos, Runs
<1>6. Sound([r EXCEPT !.stop = b]) /\ [r EXCEPT !.stop = b].at = r.at /\ [r EXCEPT !.stop = b].client = r.client
  BY <1>1, <1>3 DEF Sound, Pos, Runs
<1>7. Sound([r EXCEPT !.done = b]) /\ [r EXCEPT !.done = b].at = r.at /\ [r EXCEPT !.done = b].client = r.client
  BY <1>1, <1>3 DEF Sound, Pos, Runs
<1> QED BY <1>4, <1>5, <1>6, <1>7

LEMMA ClosedSound ==
  ASSUME NEW r, Sound(r)
  PROVE  Sound(ClientClosed(r)) /\ ClientClosed(r).at = r.at /\ ClientClosed(r).client # "live"
<1>1. r \in Runs
  BY DEF Sound
<1>2. ClientClosed(r) \in Runs
  BY <1>1 DEF Runs, ClientClosed
<1>3. /\ ClientClosed(r).at = r.at /\ ClientClosed(r).next = r.next /\ ClientClosed(r).writes = r.writes
      /\ ClientClosed(r).client = IF r.client = "live" /\ ~r.shut THEN "closed" ELSE r.client
  BY <1>1 DEF Runs, ClientClosed
<1> QED BY <1>1, <1>2, <1>3 DEF Sound, Pos

\* setStageIfCurrent: to the writing, or past it.
LEMMA SetsSound ==
  ASSUME TunInv, NEW g \in Run, NEW s, NEW next, <<s, next>> \in Pairs,
         next \in {"rests", "finishes"} => run[g].client # "live",
         Sets(g, run[g], s, next)
  PROVE  /\ run' = [run EXCEPT ![g] = run'[g]]
         /\ Sound(run'[g]) /\ run'[g].at = (IF now = g THEN "writes" ELSE next)
<1>1. Sound(run[g]) /\ run[g] \in Runs /\ run \in [Run -> Runs]
  BY DEF TunInv, Typed
<1>2. s \in {"idle", "ready", "attached", "failed"} /\ next \in At
      /\ next \notin {"none", "starts", "writes", "frees", "gone"}
  BY DEF Pairs, At
<1>3. CASE now = g
  <2> DEFINE q == [run[g] EXCEPT !.at = "writes", !.writes = s, !.next = next]
  <2>1. q \in Runs
    <3>1. "writes" \in At
      BY DEF At
    <3> QED BY <1>1, <1>2, <3>1 DEF Runs
  <2>2. q.at = "writes" /\ q.writes = s /\ q.next = next /\ q.client = run[g].client /\ q.shut = run[g].shut
    BY <1>1 DEF Runs
  <2>3. run' = [run EXCEPT ![g] = q]
    BY <1>3 DEF Sets
  <2> HIDE DEF q
  <2>4. Sound(q)
    BY <1>1, <1>2, <2>1, <2>2 DEF Sound, Pos
  <2> QED BY <1>1, <1>3, <2>2, <2>3, <2>4
<1>4. CASE now # g
  <2> DEFINE q == [run[g] EXCEPT !.at = next]
  <2>1. Sound(q) /\ q.at = next
    BY <1>1, <1>2, MovedSound DEF Runs
  <2>2. run' = [run EXCEPT ![g] = q]
    BY <1>4 DEF Sets
  <2> HIDE DEF q
  <2> QED BY <1>1, <1>4, <2>1, <2>2
<1> QED BY <1>3, <1>4

-----------------------------------------------------------------------------
(* One step of one generation *)

Serving == {"opens", "serves", "closes", "rests", "writes"}

\* Generation g goes on, and is sound where it arrives; one that serves leaves the places
\* of one that serves only by writing another stage.
Moved(g) ==
  /\ run' = [run EXCEPT ![g] = run'[g]] /\ Sound(run'[g])
  /\ run[g].at \notin {"none", "gone"} /\ run'[g].at # "none"
  /\ run[g].at \in Serving /\ now = g /\ stage' = "attached" => run'[g].at \in Serving

LEMMA SetterMoves ==
  ASSUME TunInv, NEW g \in Run, RunOnly, NEW s, NEW next, <<s, next>> \in Pairs,
         next \in {"rests", "finishes"} => run[g].client # "live",
         Sets(g, run[g], s, next), run[g].at \notin {"none", "gone"}
  PROVE  Moved(g)
<1>1. next # "none"
  BY DEF Pairs
<1> QED BY <1>1, SetsSound DEF Moved, Serving

LEMMA RunStepMoves ==
  ASSUME TunInv, NEW g \in Run, RunSteps(g)
  PROVE  /\ Moved(g)
         /\ \/ RunOnly
            \/ WritesStage(g)
            \/ Frees(g)
<1>1. Sound(run[g]) /\ run[g] \in Runs /\ run \in [Run -> Runs]
  BY DEF TunInv, Typed
<1>2. CASE WritesStage(g)
  <2> DEFINE q1 == [run[g] EXCEPT !.at = run[g].next]
  <2> DEFINE q2 == [q1 EXCEPT !.writes = "none"]
  <2> DEFINE q == [q2 EXCEPT !.next = "none"]
  <2>1. run[g].at = "writes" /\ <<run[g].writes, run[g].next>> \in Pairs /\ stage' = run[g].writes
    BY <1>1, <1>2 DEF WritesStage, Sound
  <2>2. run[g].next \in At /\ run[g].next \notin {"none", "starts", "writes", "frees", "gone"}
    BY <2>1 DEF Pairs, At
  <2>3. run[g].writes = "attached" => run[g].next = "opens"
    BY <2>1 DEF Pairs
  <2>4. q1 \in Runs /\ q1.at = run[g].next /\ q1.client = run[g].client /\ q1.shut = run[g].shut
    BY <1>1, <2>2 DEF Runs
  <2>5. run' = [run EXCEPT ![g] = q]
    BY <1>1, <1>2 DEF WritesStage
  <2> HIDE DEF q1
  <2>6. q2 \in Runs /\ q2.at = q1.at /\ q2.client = q1.client /\ q2.shut = q1.shut
    BY <2>4 DEF Runs
  <2> HIDE DEF q2
  <2>7. q \in Runs /\ q.at = q2.at /\ q.client = q2.client /\ q.shut = q2.shut
    <3>1. "none" \in At
      BY DEF At
    <3> QED BY <2>6, <3>1 DEF Runs
  <2> HIDE DEF q
  <2>8. Sound(q)
    BY <1>1, <2>1, <2>2, <2>4, <2>6, <2>7 DEF Sound, Pos
  <2>9. run'[g] = q
    BY <1>1, <2>5
  <2>10. stage' = "attached" => q.at \in Serving
    BY <2>1, <2>3, <2>4, <2>6, <2>7 DEF Serving
  <2> QED BY <1>2, <2>1, <2>2, <2>4, <2>5, <2>6, <2>7, <2>8, <2>9, <2>10 DEF Moved
<1>3. CASE SessionStarts(g)
  <2> DEFINE q1 == [run[g] EXCEPT !.at = "probes"]
  <2> DEFINE q == [q1 EXCEPT !.client = IF run[g].shut THEN "closed" ELSE "live"]
  <2>1. run[g].at = "starts" /\ run' = [run EXCEPT ![g] = q] /\ RunOnly
    BY <1>1, <1>3 DEF SessionStarts
  <2>2. q1 \in Runs /\ q1.at = "probes" /\ q1.shut = run[g].shut
    BY <1>1 DEF Runs, At
  <2> HIDE DEF q1
  <2>3. q \in Runs /\ q.at = "probes" /\ q.shut = run[g].shut
        /\ q.client = (IF run[g].shut THEN "closed" ELSE "live")
    BY <2>2 DEF Runs
  <2> HIDE DEF q
  <2>4. Sound(q)
    BY <2>3 DEF Sound, Pos
  <2> QED BY <1>1, <2>1, <2>3, <2>4 DEF Moved, Serving
<1>4. CASE \/ WarmsUp(g) \/ WarmUpFails(g) \/ WarmUpStopped(g) \/ GivesUp(g)
           \/ AttachesFd(g) \/ AttachFails(g)
  <2>1. RunOnly /\ run[g].at \notin {"none", "gone"}
    BY <1>4 DEF WarmsUp, WarmUpFails, WarmUpStopped, GivesUp, AttachesFd, AttachFails
  <2>2. PICK p \in {<<"ready", "waits">>, <<"failed", "closes">>, <<"idle", "closes">>,
                    <<"idle", "reclaims">>, <<"attached", "opens">>} : Sets(g, run[g], p[1], p[2])
    BY <1>4 DEF WarmsUp, WarmUpFails, WarmUpStopped, GivesUp, AttachesFd, AttachFails
  <2>3. <<p[1], p[2]>> \in Pairs /\ p[2] \notin {"rests", "finishes"}
    BY DEF Pairs
  <2> QED BY <2>1, <2>2, <2>3, SetterMoves
<1>5. CASE SessionFails(g)
  <2>1. run[g].at = "starts" /\ Sets(g, run[g], "failed", "rests") /\ RunOnly
    BY <1>5 DEF SessionFails
  <2>2. run[g].client = "none" /\ <<"failed", "rests">> \in Pairs
    BY <1>1, <2>1 DEF Sound, Pos, Pairs
  <2> QED BY <2>1, <2>2, SetterMoves
<1>6. CASE TakesFd(g) \/ Reclaims(g)
  <2> DEFINE q1 == [run[g] EXCEPT !.fd = FALSE]
  <2>1. PICK a \in {"hands", "closes"} : run' = [run EXCEPT ![g] = [q1 EXCEPT !.at = a]]
    BY <1>1, <1>6 DEF TakesFd, Reclaims
  <2>2. run[g].at \in {"waits", "reclaims"} /\ RunOnly
    BY <1>6 DEF TakesFd, Reclaims
  <2>3. Sound(q1) /\ q1 \in Runs
    BY <1>1, FlagsSound DEF Sound
  <2> HIDE DEF q1
  <2>4. Sound([q1 EXCEPT !.at = a]) /\ [q1 EXCEPT !.at = a].at = a
    BY <2>3, MovedSound DEF Runs, At
  <2> QED BY <1>1, <2>1, <2>2, <2>4 DEF Moved, Serving
<1>7. CASE OpensDoors(g) \/ ClosesDoors(g)
  <2>1. PICK a \in {"serves", "closes"}, b \in BOOLEAN :
          run' = [run EXCEPT ![g] = [[run[g] EXCEPT !.forwards = b] EXCEPT !.at = a]]
    BY <1>1, <1>7 DEF OpensDoors, ClosesDoors
  <2> DEFINE q1 == [run[g] EXCEPT !.forwards = b]
  <2>2. run[g].at \in {"opens", "serves"} /\ RunOnly
    BY <1>7 DEF OpensDoors, ClosesDoors
  <2>3. Sound(q1) /\ q1 \in Runs
    BY <1>1, FlagsSound DEF Sound
  <2>4. run' = [run EXCEPT ![g] = [q1 EXCEPT !.at = a]]
    BY <2>1
  <2> HIDE DEF q1
  <2>5. Sound([q1 EXCEPT !.at = a]) /\ [q1 EXCEPT !.at = a].at = a
    BY <2>3, MovedSound DEF Runs, At
  <2> QED BY <1>1, <2>2, <2>4, <2>5 DEF Moved, Serving
<1>8. CASE ClosesClient(g)
  <2> DEFINE q1 == ClientClosed(run[g])
  <2>1. run[g].at = "closes" /\ run' = [run EXCEPT ![g] = [q1 EXCEPT !.at = "rests"]] /\ RunOnly
    BY <1>8 DEF ClosesClient
  <2>2. Sound(q1) /\ q1 \in Runs /\ q1.client # "live"
    BY <1>1, ClosedSound DEF Sound
  <2> HIDE DEF q1
  <2>3. Sound([q1 EXCEPT !.at = "rests"]) /\ [q1 EXCEPT !.at = "rests"].at = "rests"
    BY <2>2, MovedSound DEF Runs, At
  <2> QED BY <1>1, <2>1, <2>3 DEF Moved, Serving
<1>9. CASE Rests(g)
  <2>1. run[g].at = "rests" /\ run[g].client # "live" /\ RunOnly
    BY <1>1, <1>9 DEF Rests, Sound, Pos
  <2>2. CASE stage = "failed"
    <3>1. run' = [run EXCEPT ![g] = [run[g] EXCEPT !.at = "finishes"]]
      BY <1>1, <1>9, <2>2 DEF Rests
    <3>2. Sound([run[g] EXCEPT !.at = "finishes"]) /\ [run[g] EXCEPT !.at = "finishes"].at = "finishes"
      BY <1>1, <2>1, MovedSound DEF Runs, At
    <3> QED BY <1>1, <2>1, <2>2, <3>1, <3>2 DEF Moved, RunOnly
  <2>3. CASE stage # "failed"
    <3>1. Sets(g, run[g], "idle", "finishes") /\ <<"idle", "finishes">> \in Pairs
      BY <1>9, <2>3 DEF Rests, Pairs
    <3> QED BY <2>1, <3>1, SetterMoves
  <2> QED BY <2>2, <2>3
<1>10. CASE Finishes(g)
  <2> DEFINE q1 == [run[g] EXCEPT !.stop = TRUE]
  <2> DEFINE q2 == [q1 EXCEPT !.done = TRUE]
  <2>1. run[g].at = "finishes" /\ run[g].client # "live" /\ RunOnly
    BY <1>1, <1>10 DEF Finishes, Sound, Pos
  <2>2. PICK a \in {"frees", "gone"} : run' = [run EXCEPT ![g] = [q2 EXCEPT !.at = a]]
    BY <1>1, <1>10 DEF Finishes
  <2>3. Sound(q1) /\ q1.client # "live"
    BY <1>1, <2>1, FlagsSound
  <2> HIDE DEF q1
  <2>4. Sound(q2) /\ q2 \in Runs /\ q2.client # "live"
    BY <2>3, FlagsSound DEF Sound
  <2> HIDE DEF q2
  <2>5. Sound([q2 EXCEPT !.at = a]) /\ [q2 EXCEPT !.at = a].at = a
    BY <2>4, MovedSound DEF Runs, At
  <2> QED BY <1>1, <2>1, <2>2, <2>5 DEF Moved, Serving
<1>11. CASE Frees(g)
  <2>1. run[g].at = "frees" /\ run' = [run EXCEPT ![g] = [run[g] EXCEPT !.at = "gone"]]
    BY <1>1, <1>11 DEF Frees
  <2>2. run[g].client # "live"
    BY <1>1, <2>1 DEF Sound, Pos
  <2>3. Sound([run[g] EXCEPT !.at = "gone"]) /\ [run[g] EXCEPT !.at = "gone"].at = "gone"
    BY <1>1, <2>2, MovedSound DEF Runs, At
  <2> QED BY <1>1, <1>11, <2>1, <2>3 DEF Moved, Serving
<1> QED BY <1>2, <1>3, <1>4, <1>5, <1>6, <1>7, <1>8, <1>9, <1>10, <1>11 DEF RunSteps

-----------------------------------------------------------------------------
(* The invariant *)

LEMMA TunInvInit == TunInit => TunInv
<1> SUFFICES ASSUME TunInit PROVE TunInv
  OBVIOUS
<1> USE TunModeAssumption DEF TunInit
<1>1. \A g \in Run : run[g] = NoRun /\ NoRun.at = "none"
  BY DEF NoRun
<1>2. NoRun \in Runs
  BY NoRunSound DEF Sound
<1>3. stopper \in Calls /\ caller \in Calls /\ stopper.at = "idle" /\ caller.at = "idle"
  BY DEF Calls, Nobody
<1>4. Typed
  <2>1. TunTypeOK
    <3>1. \A g \in Run : run[g].at = "none"
      BY <1>1
    <3>2. lock \in {0, 1} /\ now \in 0 .. MaxRuns
      OBVIOUS
    <3> QED BY <3>1, <3>2 DEF TunTypeOK
  <2>2. run \in [Run -> Runs]
    BY <1>2
  <2>3. \A g \in Run : Sound(run[g])
    BY <1>1, NoRunSound
  <2> QED BY <1>3, <2>1, <2>2, <2>3 DEF Typed
<1>5. Alive = {}
  BY <1>1 DEF Alive
<1> QED BY <1>4, <1>5 DEF TunInv, BeginIsFirst, Serial

LEMMA RunStepKept ==
  ASSUME TunInv, NEW g \in Run, RunSteps(g)
  PROVE  TunInv'
<1> USE DEF TunInv
<1>1. /\ run' = [run EXCEPT ![g] = run'[g]] /\ Sound(run'[g])
      /\ run[g].at \notin {"none", "gone"} /\ run'[g].at # "none"
      /\ run[g].at \in Serving /\ now = g /\ stage' = "attached" => run'[g].at \in Serving
  BY RunStepMoves DEF Moved
<1>2. RunOnly \/ WritesStage(g) \/ Frees(g)
  BY RunStepMoves
<1>3. UNCHANGED <<now, begin, stopper, caller, forced>>
  BY <1>2 DEF RunOnly, WritesStage, Frees, Callers
<1>4. run \in [Run -> Runs] /\ run'[g] \in Runs
  BY <1>1 DEF Typed, Sound
<1>5. \A h \in Run \ {g} : run'[h] = run[h]
  BY <1>1, <1>4
<1>6. lock' \in {0, 1} /\ healthy' \in BOOLEAN
  BY <1>2 DEF RunOnly, WritesStage, Frees, Typed, TunTypeOK
<1>7. stage' \in Stages
  <2>1. CASE WritesStage(g)
    <3>1. <<run[g].writes, run[g].next>> \in Pairs /\ stage' = run[g].writes
      BY <2>1 DEF WritesStage, Typed, Sound
    <3> QED BY <3>1 DEF Pairs, Stages
  <2> QED BY <1>2, <2>1 DEF RunOnly, Frees, Typed, TunTypeOK, Stages
<1>8. Typed'
  <2>1. run' \in [Run -> Runs]
    BY <1>1, <1>4
  <2>2. \A h \in Run : Sound(run'[h])
    BY <1>1, <1>5 DEF Typed
  <2>3. \A h \in Run : run'[h].at # "none" => h <= now
    BY <1>1, <1>5 DEF Typed, TunTypeOK
  <2> QED BY <1>3, <1>6, <1>7, <2>1, <2>2, <2>3 DEF Typed, TunTypeOK, Stages
<1>9. BeginIsFirst'
  <2>1. begin = "created" => now \in Run /\ now # g
    BY <1>1 DEF BeginIsFirst, Typed, TunTypeOK, Run
  <2> QED BY <1>3, <1>5, <2>1 DEF BeginIsFirst
<1>10. ASSUME ~forced PROVE Serial'
  <2>1. Serial
    BY <1>10
  <2>2. g \in Alive
    BY <1>1 DEF Alive
  <2>3. g = now /\ lock # 0 /\ begin = "idle"
    BY <2>1, <2>2 DEF Serial
  <2>4. Alive' \subseteq {now}
    BY <1>3, <1>5, <2>1, <2>3 DEF Serial, Alive
  <2>5. lock' = 0 => Alive' = {}
    <3>1. CASE Frees(g)
      <4>1. run'[g].at = "gone"
        BY <1>4, <3>1 DEF Frees
      <4> QED BY <2>3, <2>4, <4>1 DEF Alive
    <3> QED BY <1>2, <2>3, <3>1 DEF RunOnly, WritesStage
  <2>6. stage' = "attached" => run[g].at \in Serving
    BY <1>2, <2>1, <2>3 DEF RunOnly, WritesStage, Frees, Serial, Serving
  <2>7. stage' = "attached" => now # 0 /\ run'[now].at \in Serving
    BY <1>1, <2>3, <2>6, TunModeAssumption DEF Run
  <2> QED BY <1>3, <2>3, <2>4, <2>5, <2>7 DEF Serial, Serving
<1> QED BY <1>3, <1>8, <1>9, <1>10

\* A call that changes a flag of a generation moves none.
LEMMA EditKept ==
  ASSUME TunInv, NEW g \in Run, NEW q, Sound(q), q.at = run[g].at,
         run' = [run EXCEPT ![g] = q],
         UNCHANGED <<lock, now, stage, healthy, begin, forced>>,
         stopper' \in Calls, caller' \in Calls,
         stopper'.at # "idle" => stopper'.of # 0, caller'.at # "idle" => caller'.of # 0
  PROVE  TunInv'
<1> USE DEF TunInv
<1>1. run \in [Run -> Runs] /\ q \in Runs
  BY DEF Typed, Sound
<1>2. \A h \in Run : run'[h].at = run[h].at /\ Sound(run'[h])
  BY <1>1 DEF Typed
<1>3. Typed'
  BY <1>1, <1>2 DEF Typed, TunTypeOK
<1>4. Alive' = Alive
  BY <1>2 DEF Alive
<1>5. now # 0 => now \in Run
  BY DEF Typed, TunTypeOK, Run
<1> QED BY <1>2, <1>3, <1>4, <1>5 DEF BeginIsFirst, Serial

LEMMA BeginKept ==
  ASSUME TunInv, BeginLocks \/ BeginSteps
  PROVE  TunInv'
<1> USE DEF TunInv
<1>1. now \in 0 .. MaxRuns /\ (now # 0 => now \in Run) /\ now \in Nat
  BY TunModeAssumption DEF Typed, TunTypeOK, Run
<1>2. CASE BeginLocks
  <2>1. Typed'
    BY <1>2 DEF BeginLocks, Typed, TunTypeOK
  <2> QED BY <1>2, <2>1 DEF BeginLocks, BeginIsFirst, Serial, Alive
<1>3. CASE BeginRefuses
  <2>1. Typed'
    BY <1>3 DEF BeginRefuses, Typed, TunTypeOK
  <2> QED BY <1>3, <2>1 DEF BeginRefuses, BeginIsFirst, Serial, Alive
<1>4. CASE BeginCreates
  <2>1. /\ begin = "locked" /\ now < MaxRuns /\ now' = now + 1 /\ begin' = "created"
        /\ healthy' = TRUE /\ UNCHANGED <<lock, stage, run, stopper, caller, forced>>
    BY <1>4 DEF BeginCreates, BeginIsFirst
  <2>2. now + 1 \in Run /\ now + 1 \in 0 .. MaxRuns
    BY <1>1, <2>1, TunModeAssumption DEF Run
  <2>3. \A g \in Run : g <= now => g <= now + 1
    BY <1>1 DEF Run
  <2>4. Typed'
    BY <2>1, <2>2, <2>3 DEF Typed, TunTypeOK
  <2>5. run[now + 1].at = "none"
    BY <1>1, <2>2 DEF Typed, TunTypeOK
  <2>6. ~forced => Alive = {} /\ lock # 0
    BY <2>1 DEF Serial
  <2>7. ~forced => stage # "attached"
    BY <1>1, <2>6 DEF Serial, Alive
  <2> QED BY <2>1, <2>2, <2>4, <2>5, <2>6, <2>7, <1>1 DEF BeginIsFirst, Serial, Alive
<1>5. CASE BeginStarts
  <2> DEFINE q == [run[now] EXCEPT !.at = "starts"]
  <2>1. /\ begin = "created" /\ begin' = "idle" /\ stage' = "preparing"
        /\ UNCHANGED <<lock, now, healthy, stopper, caller, forced>>
        /\ now \in Run /\ run[now].at = "none"
    BY <1>1, <1>5 DEF BeginStarts, BeginIsFirst
  <2>2. Sound(run[now]) /\ run[now] \in Runs /\ run \in [Run -> Runs]
    BY <2>1 DEF Typed
  <2>3. Sound(q) /\ q.at = "starts"
    <3>1. run[now].client = "none"
      BY <2>1, <2>2 DEF Sound, Pos
    <3> QED BY <2>2, <3>1, MovedSound DEF Runs, At
  <2>4. run' = [run EXCEPT ![now] = q]
    BY <1>5 DEF BeginStarts
  <2> HIDE DEF q
  <2>5. run' \in [Run -> Runs] /\ run'[now] = q /\ \A h \in Run \ {now} : run'[h] = run[h]
    BY <2>1, <2>2, <2>3, <2>4 DEF Sound
  <2>6. \A h \in Run : run'[h].at # "none" => h <= now
    BY <1>1, <2>5 DEF Typed, TunTypeOK
  <2>7. Typed'
    BY <2>1, <2>3, <2>5, <2>6 DEF Typed, TunTypeOK
  <2>8. ~forced => Alive = {} /\ lock # 0
    BY <2>1 DEF Serial
  <2>9. ~forced => Alive' \subseteq {now}
    BY <2>5, <2>8 DEF Alive
  <2> QED BY <2>1, <2>7, <2>8, <2>9 DEF BeginIsFirst, Serial
<1> QED BY <1>2, <1>3, <1>4, <1>5 DEF BeginSteps

LEMMA StopKept ==
  ASSUME TunInv, StopSignals \/ StopInterrupts \/ StopReturns \/ StopGivesUp \/ StopForces
  PROVE  TunInv'
<1> USE DEF TunInv
<1>1. /\ now \in 0 .. MaxRuns /\ (now # 0 => now \in Run)
      /\ (stopper.at # "idle" => stopper.of \in Run)
  BY DEF Typed, TunTypeOK, Run, Calls
<1>2. stopper \in Calls /\ caller \in Calls /\ run \in [Run -> Runs] /\ \A g \in Run : Sound(run[g])
  BY DEF Typed
<1>3. CASE StopSignals
  <2>1. /\ now \in Run /\ run' = [run EXCEPT ![now] = [run[now] EXCEPT !.stop = TRUE]]
        /\ stopper' = [at |-> "looks", of |-> now]
        /\ UNCHANGED <<lock, now, stage, healthy, begin, forced, caller>>
    BY <1>1, <1>2, <1>3 DEF StopSignals, StopOnly
  <2>2. stopper' \in Calls /\ stopper'.of # 0
    BY <2>1 DEF Calls, Run
  <2>3. Sound([run[now] EXCEPT !.stop = TRUE]) /\ [run[now] EXCEPT !.stop = TRUE].at = run[now].at
    BY <1>2, <2>1, FlagsSound
  <2>4. caller.at # "idle" => caller.of # 0
    BY DEF Typed
  <2> QED BY <1>2, <2>1, <2>2, <2>3, <2>4, EditKept
<1>4. CASE StopInterrupts
  <2> DEFINE q == IF stage = "preparing" THEN ClientClosed(run[stopper.of]) ELSE run[stopper.of]
  <2>1. /\ stopper.of \in Run /\ stopper' = [stopper EXCEPT !.at = "waits"]
        /\ UNCHANGED <<lock, now, stage, healthy, begin, forced, caller>>
    BY <1>1, <1>4 DEF StopInterrupts, StopOnly
  <2>2. run' = [run EXCEPT ![stopper.of] = q]
    BY <1>4 DEF StopInterrupts
  <2>3. stopper' \in Calls /\ stopper'.of # 0
    BY <1>2, <2>1 DEF Calls, Run
  <2>4. Sound(q) /\ q.at = run[stopper.of].at
    BY <1>2, <2>1, ClosedSound
  <2>5. caller.at # "idle" => caller.of # 0
    BY DEF Typed
  <2> HIDE DEF q
  <2> QED BY <1>2, <2>1, <2>2, <2>3, <2>4, <2>5, EditKept
<1>5. CASE StopReturns \/ StopGivesUp \/ StopForces
  <2>1. /\ UNCHANGED <<now, stage, begin, caller, run>>
        /\ lock' \in {0, 1} /\ healthy' \in BOOLEAN /\ forced' \in BOOLEAN
        /\ ~forced' => ~forced /\ lock' = lock
    BY <1>5 DEF StopReturns, StopGivesUp, StopForces, StopOnly, Typed, TunTypeOK
  <2>2. stopper' = Nobody \/ (stopper' = [stopper EXCEPT !.at = "forces"] /\ stopper.at # "idle")
    BY <1>5 DEF StopReturns, StopGivesUp, StopForces
  <2>3. stopper' \in Calls /\ (stopper'.at # "idle" => stopper'.of # 0)
    BY <1>1, <1>2, <2>2, TunModeAssumption DEF Calls, Nobody, Run
  <2>4. Typed'
    BY <2>1, <2>3 DEF Typed, TunTypeOK
  <2> QED BY <2>1, <2>4 DEF BeginIsFirst, Serial, Alive
<1> QED BY <1>3, <1>4, <1>5

LEMMA CallKept ==
  ASSUME TunInv, AttachSends \/ AttachNonsense \/ SetLooks \/ SetSteps
  PROVE  TunInv'
<1> USE DEF TunInv
<1>1. /\ now \in 0 .. MaxRuns /\ (now # 0 => now \in Run)
      /\ (caller.at # "idle" => caller.of \in Run)
  BY DEF Typed, TunTypeOK, Run, Calls
<1>2. /\ stopper \in Calls /\ caller \in Calls /\ run \in [Run -> Runs]
      /\ \A g \in Run : Sound(run[g])
      /\ (stopper.at # "idle" => stopper.of # 0) /\ (caller.at # "idle" => caller.of # 0)
  BY DEF Typed
<1>3. CASE AttachSends
  <2>1. /\ now \in Run /\ run' = [run EXCEPT ![now] = [run[now] EXCEPT !.fd = TRUE]]
        /\ UNCHANGED <<lock, now, stage, healthy, begin, forced, caller, stopper>>
    BY <1>1, <1>2, <1>3 DEF AttachSends, AttachOnly
  <2>2. Sound([run[now] EXCEPT !.fd = TRUE]) /\ [run[now] EXCEPT !.fd = TRUE].at = run[now].at
    BY <1>2, <2>1, FlagsSound
  <2> QED BY <1>2, <2>1, <2>2, EditKept
<1>4. CASE AttachNonsense
  <2>1. /\ stage' = "failed"
        /\ UNCHANGED <<run, lock, now, healthy, begin, forced, caller, stopper>>
    BY <1>4 DEF AttachNonsense, AttachOnly
  <2>2. Typed'
    BY <2>1 DEF Typed, TunTypeOK
  <2> QED BY <2>1, <2>2 DEF BeginIsFirst, Serial, Alive
<1>5. CASE SetLooks
  <2>1. /\ now \in Run /\ caller' = [at |-> "applies", of |-> now]
        /\ UNCHANGED <<run, lock, now, stage, healthy, begin, forced, stopper>>
    BY <1>1, <1>5 DEF SetLooks, SetOnly
  <2>2. caller' \in Calls /\ caller'.of # 0
    BY <2>1 DEF Calls, Run
  <2>3. Typed'
    BY <2>1, <2>2 DEF Typed, TunTypeOK
  <2> QED BY <2>1, <2>3 DEF BeginIsFirst, Serial, Alive
<1>6. CASE SetApplies
  <2>1. /\ caller.of \in Run /\ caller' = [caller EXCEPT !.at = "looks"]
        /\ run' = [run EXCEPT ![caller.of] = [run[caller.of] EXCEPT !.forwards = TRUE]]
        /\ UNCHANGED <<lock, now, stage, healthy, begin, forced, stopper>>
    BY <1>1, <1>2, <1>6 DEF SetApplies, SetOnly
  <2>2. caller' \in Calls /\ caller'.of # 0
    BY <1>2, <2>1 DEF Calls, Run
  <2> DEFINE q == [run[caller.of] EXCEPT !.forwards = TRUE]
  <2>3. Sound(q) /\ q.at = run[caller.of].at
    BY <1>2, <2>1, FlagsSound
  <2> QED BY <1>2, <2>1, <2>2, <2>3, EditKept
<1>7. CASE SetLooksAgain
  <2> DEFINE b == run[caller.of].forwards /\ now = caller.of /\ ~run[caller.of].done
  <2> DEFINE q == [run[caller.of] EXCEPT !.forwards = b]
  <2>1. /\ caller.of \in Run /\ caller' = Nobody
        /\ UNCHANGED <<lock, now, stage, healthy, begin, forced, stopper>>
    BY <1>1, <1>7 DEF SetLooksAgain, SetOnly
  <2>2. run' = [run EXCEPT ![caller.of] = q]
    BY <1>7 DEF SetLooksAgain
  <2>3. caller' \in Calls /\ caller'.at = "idle"
    BY <2>1, TunModeAssumption DEF Calls, Nobody
  <2>4. b \in BOOLEAN
    BY <1>2, <2>1 DEF Runs
  <2>5. Sound(q) /\ q.at = run[caller.of].at
    <3> HIDE DEF b
    <3> QED BY <1>2, <2>1, <2>4, FlagsSound
  <2> HIDE DEF q
  <2> QED BY <1>2, <2>1, <2>2, <2>3, <2>5, EditKept
<1> QED BY <1>3, <1>4, <1>5, <1>6, <1>7 DEF SetSteps

LEMMA TunInvStep == TunInv /\ [TunNext]_tunVars => TunInv'
<1> SUFFICES ASSUME TunInv, [TunNext]_tunVars PROVE TunInv'
  OBVIOUS
<1>1. ASSUME UNCHANGED tunVars PROVE TunInv'
  BY <1>1 DEF tunVars, TunInv, Typed, TunTypeOK, BeginIsFirst, Serial, Alive
<1>2. ASSUME NEW g \in Run, MarksUnhealthy(g) PROVE TunInv'
  BY <1>2 DEF MarksUnhealthy, Callers, TunInv, Typed, TunTypeOK, BeginIsFirst, Serial, Alive
<1> QED BY <1>1, <1>2, RunStepKept, BeginKept, StopKept, CallKept DEF TunNext

\* The generations' inductive invariant holds in every reachable state.
THEOREM TunInvHolds == TunSpec => []TunInv
BY TunInvInit, TunInvStep, PTL DEF TunSpec

\* Generations of the phone's tunnel follow one another as long as no stop was forced: one
\* alive, one lock, clients closed, and a stage that is true of the current one.
THEOREM TunnelsAreSerial == TunSpec => []GenerationsAreSerial
<1>1. ASSUME TunInv PROVE GenerationsAreSerial
  <2>1. TunTypeOK
    BY <1>1 DEF TunInv, Typed
  <2>2. ClientsAreClosed
    BY <1>1 DEF TunInv, Typed, ClientsAreClosed, Sound, Pos
  <2>3. LockMeansAlive
    <3> SUFFICES ASSUME ~forced PROVE Cardinality(Alive) <= 1 /\ (lock = 0 => Alive = {})
      BY DEF LockMeansAlive
    <3>1. Serial
      BY <1>1 DEF TunInv
    <3>2. Alive = {} \/ Alive = {now}
      BY <3>1 DEF Serial
    <3>3. Cardinality({}) = 0 /\ Cardinality({now}) = 1
      BY FS_EmptySet, FS_Singleton
    <3>4. lock = 0 => Alive = {}
      BY <3>1 DEF Serial
    <3>5. Cardinality(Alive) = 0 \/ Cardinality(Alive) = 1
      BY <3>2, <3>3
    <3> QED BY <3>4, <3>5
  <2>4. RunningIsServing
    BY <1>1 DEF TunInv, Serial, RunningIsServing
  <2> QED BY <2>1, <2>2, <2>3, <2>4 DEF GenerationsAreSerial
<1> QED BY <1>1, TunInvHolds, PTL

-----------------------------------------------------------------------------
(* The Go client of the control plane *)

WireFrames == [type : {"rsp", "data", "end", "goodbye", "eof"}, n : Nat]
ServerStates == [answer : {"none", "ok", "refused"}, sent : Nat, ended : BOOLEAN, gone : BOOLEAN]
ClientStates ==
  [closed : BOOLEAN, reader : {"run", "blocked", "gone"},
   open : {"idle", "pending", "open", "failed"}, known : BOOLEAN, shut : {"no", "closing", "done"}]
RecvStates ==
  [recv : Seq(Nat), end : {"none", "closed"}, mark : {"none", "closed", "conn"}, held : Nat]
ReadStates == [got : Seq(Nat), reason : {"none", "closed", "conn"}]
FreshRecv == [recv |-> <<>>, end |-> "none", mark |-> "none", held |-> 0]
FreshRead == [got |-> <<>>, reason |-> "none"]

ClientTyped ==
  /\ server \in ServerStates /\ wire \in Seq(WireFrames) /\ client \in ClientStates
  /\ stream \in RecvStates /\ reading \in ReadStates

\* After what the server said last nothing comes.
LastFrames ==
  \A i \in 1 .. Len(wire) :
    /\ wire[i].type = "end" => server.ended
    /\ wire[i].type \in {"goodbye", "eof"} => server.gone

\* Behind r frames and c data frames that are not on the wire any more come the others, in
\* order; what comes behind all the data is none.
OnWire(q, sent, c, r) ==
  /\ r <= Len(q) /\ c <= sent /\ sent <= c + (Len(q) - r)
  /\ \A i \in r + 1 .. Len(q) :
       /\ q[i].type # "rsp" /\ (q[i].type = "data" <=> c + (i - r) <= sent)
       /\ q[i].type = "data" => q[i].n = c + (i - r)

\* Until the answer is read it is the first frame.
Unanswered ==
  client.open \in {"idle", "pending"} =>
    IF server.answer = "none"
    THEN server.sent = 0 /\ \A i \in 1 .. Len(wire) : wire[i].type \in {"goodbye", "eof"}
    ELSE /\ client.open = "pending" /\ wire[1].type = "rsp"
         /\ OnWire(wire, server.sent, 0, 1)

\* A stream is known from its answer on.
Acquainted ==
  /\ client.known <=> client.open = "open"
  /\ ~client.known => stream = FreshRecv /\ reading = FreshRead /\ client.reader # "blocked"
                      /\ client.shut = "no"
  /\ client.known => \A i \in 1 .. Len(wire) : wire[i].type # "rsp"
  /\ client.closed /\ client.reader # "gone" => client.shut # "no"
  /\ client.known /\ (client.closed \/ stream.end # "none") => stream.mark # "none"
  /\ reading.reason = "closed" => stream.end # "none"

\* What the reader has put down, or still holds.
Held == IF client.reader = "blocked" THEN 1 ELSE 0
TakenOff == Len(reading.got) + Len(stream.recv) + Held

\* The data are read in order, wait in recv, are held, and come on the wire, until the
\* client was closed while the reader held one.
Intact == ~client.closed \/ client.shut = "no" \/ stream.mark = "closed"
DataLine ==
  client.known /\ Intact =>
    /\ \A i \in 1 .. Len(reading.got) : reading.got[i] = i
    /\ \A i \in 1 .. Len(stream.recv) : stream.recv[i] = Len(reading.got) + i
    /\ client.reader = "blocked" => stream.held = TakenOff
    /\ OnWire(wire, server.sent, TakenOff, 0)
    /\ stream.mark = "closed" =>
         /\ server.ended /\ TakenOff = server.sent /\ client.reader # "blocked"
         /\ reading.reason = "closed" => stream.recv = <<>>

ClientInv == ClientTyped /\ LastFrames /\ Unanswered /\ Acquainted /\ DataLine

-----------------------------------------------------------------------------
(* The wire *)

LEMMA QueueFacts ==
  ASSUME NEW T, NEW q \in Seq(T), NEW x \in T
  PROVE  /\ Append(q, x) \in Seq(T) /\ Len(Append(q, x)) = Len(q) + 1 /\ Len(q) \in Nat
         /\ \A i \in 1 .. Len(q) : Append(q, x)[i] = q[i] /\ q[i] \in T
         /\ Append(q, x)[Len(q) + 1] = x
OBVIOUS

LEMMA RestFacts ==
  ASSUME NEW T, NEW q \in Seq(T), q # <<>>
  PROVE  /\ Tail(q) \in Seq(T) /\ Len(q) \in Nat \ {0} /\ Len(Tail(q)) = Len(q) - 1
         /\ Head(q) = q[1] /\ q[1] \in T
         /\ \A i \in 1 .. Len(q) - 1 : Tail(q)[i] = q[i + 1]
OBVIOUS

LEMMA JoinFacts ==
  ASSUME NEW T, NEW p \in Seq(T), NEW q \in Seq(T)
  PROVE  /\ p \o q \in Seq(T) /\ Len(p \o q) = Len(p) + Len(q)
         /\ Len(p) \in Nat /\ Len(q) \in Nat
         /\ \A i \in 1 .. Len(p) : (p \o q)[i] = p[i]
         /\ \A i \in 1 .. Len(q) : (p \o q)[Len(p) + i] = q[i]
OBVIOUS

LEMMA FrameRead ==
  ASSUME NEW q \in Seq(WireFrames), q # <<>>, NEW sent \in Nat, NEW c \in Nat,
         OnWire(q, sent, c, 0)
  PROVE  /\ Head(q).type # "rsp"
         /\ Head(q).type = "data" => Head(q).n = c + 1 /\ OnWire(Tail(q), sent, c + 1, 0)
         /\ Head(q).type # "data" => sent = c /\ OnWire(Tail(q), sent, c, 0)
<1> DEFINE k == Len(q)
           p == Tail(q)
<1>1. /\ k \in Nat \ {0} /\ Len(p) = k - 1 /\ Head(q) = q[1]
      /\ \A i \in 1 .. k - 1 : p[i] = q[i + 1]
  BY RestFacts
<1>2. /\ c <= sent /\ sent <= c + k
      /\ \A i \in 1 .. k : /\ q[i].type # "rsp" /\ (q[i].type = "data" <=> c + i <= sent)
                           /\ q[i].type = "data" => q[i].n = c + i
  BY <1>1 DEF OnWire
<1> HIDE DEF k, p
<1>3. /\ q[1].type # "rsp" /\ (q[1].type = "data" <=> c + 1 <= sent)
      /\ q[1].type = "data" => q[1].n = c + 1
  BY <1>1, <1>2
<1>4. ASSUME NEW i \in 1 .. k - 1
      PROVE  /\ p[i].type # "rsp" /\ (p[i].type = "data" <=> c + (i + 1) <= sent)
             /\ p[i].type = "data" => p[i].n = c + (i + 1)
  <2>1. i + 1 \in 1 .. k
    BY <1>1
  <2> QED BY <1>1, <1>2, <2>1
<1>5. CASE q[1].type = "data"
  <2>1. c + 1 <= sent /\ sent <= (c + 1) + (k - 1)
    BY <1>1, <1>2, <1>3, <1>5
  <2>2. OnWire(p, sent, c + 1, 0)
    <3>1. \A i \in 0 + 1 .. Len(p) : i \in 1 .. k - 1 /\ c + (i + 1) = (c + 1) + (i - 0)
      BY <1>1
    <3>2. (c + 1) + (k - 1) = (c + 1) + (Len(p) - 0) /\ 0 <= Len(p)
      BY <1>1
    <3> QED BY <1>4, <2>1, <3>1, <3>2 DEF OnWire
  <2> QED BY <1>1, <1>3, <1>5, <2>2 DEF p
<1>6. CASE q[1].type # "data"
  <2>1. sent = c
    BY <1>1, <1>2, <1>3, <1>6
  <2>2. OnWire(p, sent, c, 0)
    <3>1. ASSUME NEW i \in 0 + 1 .. Len(p) PROVE p[i].type # "rsp" /\ p[i].type # "data"
      <4>1. i \in 1 .. k - 1
        BY <1>1, <3>1
      <4>2. ~(c + (i + 1) <= c)
        BY <4>1
      <4> QED BY <1>4, <2>1, <4>1, <4>2
    <3> QED BY <1>1, <2>1, <3>1 DEF OnWire
  <2> QED BY <1>1, <1>3, <1>6, <2>1, <2>2 DEF p
<1> QED BY <1>5, <1>6

LEMMA AnswerRead ==
  ASSUME NEW q \in Seq(WireFrames), q # <<>>, NEW sent \in Nat, OnWire(q, sent, 0, 1)
  PROVE  OnWire(Tail(q), sent, 0, 0)
<1> DEFINE k == Len(q)
           p == Tail(q)
<1>1. /\ k \in Nat \ {0} /\ Len(p) = k - 1 /\ \A i \in 1 .. k - 1 : p[i] = q[i + 1]
  BY RestFacts
<1>2. /\ sent <= k - 1
      /\ \A i \in 2 .. k : /\ q[i].type # "rsp" /\ (q[i].type = "data" <=> i - 1 <= sent)
                           /\ q[i].type = "data" => q[i].n = i - 1
  BY <1>1 DEF OnWire
<1> HIDE DEF k, p
<1>3. ASSUME NEW i \in 1 .. k - 1
      PROVE  /\ p[i].type # "rsp" /\ (p[i].type = "data" <=> i <= sent)
             /\ p[i].type = "data" => p[i].n = i
  <2>1. i + 1 \in 2 .. k /\ (i + 1) - 1 = i
    BY <1>1
  <2> QED BY <1>1, <1>2, <2>1
<1> QED BY <1>1, <1>2, <1>3 DEF OnWire, p

LEMMA DataSent ==
  ASSUME NEW q \in Seq(WireFrames), NEW sent \in Nat, NEW c \in Nat, NEW r \in {0, 1},
         NEW f \in WireFrames, f.type = "data", f.n = sent + 1,
         OnWire(q, sent, c, r), \A i \in r + 1 .. Len(q) : q[i].type = "data"
  PROVE  OnWire(Append(q, f), sent + 1, c, r)
<1> DEFINE k == Len(q)
           p == Append(q, f)
<1>1. /\ k \in Nat /\ Len(p) = k + 1 /\ p[k + 1] = f /\ \A i \in 1 .. k : p[i] = q[i]
  BY QueueFacts
<1>2. /\ r <= k /\ c <= sent /\ sent <= c + (k - r)
      /\ \A i \in r + 1 .. k : q[i].type = "data" /\ c + (i - r) <= sent /\ q[i].n = c + (i - r)
  BY DEF OnWire
<1> HIDE DEF k, p
<1>3. sent = c + (k - r)
  <2>1. CASE k = r
    BY <1>1, <1>2, <2>1
  <2>2. CASE k # r
    <3>1. k \in r + 1 .. k
      BY <1>1, <1>2, <2>2
    <3>2. c + (k - r) <= sent
      BY <1>2, <3>1
    <3> QED BY <1>1, <1>2, <3>2
  <2> QED BY <2>1, <2>2
<1>4. ASSUME NEW i \in r + 1 .. k + 1
      PROVE  p[i].type = "data" /\ c + (i - r) <= sent + 1 /\ p[i].n = c + (i - r)
  <2>1. CASE i = k + 1
    BY <1>1, <1>2, <1>3, <2>1
  <2>2. CASE i # k + 1
    <3>1. i \in r + 1 .. k /\ i \in 1 .. k
      BY <1>1, <2>2
    <3> QED BY <1>1, <1>2, <3>1
  <2> QED BY <2>1, <2>2
<1>5. r <= k + 1 /\ c <= sent + 1 /\ sent + 1 <= c + ((k + 1) - r)
  BY <1>1, <1>2, <1>3
<1> QED BY <1>1, <1>4, <1>5 DEF OnWire, p

LEMMA LastSent ==
  ASSUME NEW q \in Seq(WireFrames), NEW sent \in Nat, NEW c \in Nat, NEW r \in {0, 1},
         NEW f \in WireFrames, f.type \notin {"rsp", "data"}, OnWire(q, sent, c, r)
  PROVE  OnWire(Append(q, f), sent, c, r)
<1> DEFINE k == Len(q)
           p == Append(q, f)
<1>1. /\ k \in Nat /\ Len(p) = k + 1 /\ p[k + 1] = f /\ \A i \in 1 .. k : p[i] = q[i]
  BY QueueFacts
<1>2. /\ r <= k /\ c <= sent /\ sent <= c + (k - r)
      /\ \A i \in r + 1 .. k :
           /\ q[i].type # "rsp" /\ (q[i].type = "data" <=> c + (i - r) <= sent)
           /\ q[i].type = "data" => q[i].n = c + (i - r)
  BY DEF OnWire
<1> HIDE DEF k, p
<1>3. ASSUME NEW i \in r + 1 .. k + 1
      PROVE  /\ p[i].type # "rsp" /\ (p[i].type = "data" <=> c + (i - r) <= sent)
             /\ p[i].type = "data" => p[i].n = c + (i - r)
  <2>1. CASE i = k + 1
    <3>1. ~(c + (i - r) <= sent)
      BY <1>1, <1>2, <2>1
    <3> QED BY <1>1, <2>1, <3>1
  <2>2. CASE i # k + 1
    <3>1. i \in r + 1 .. k /\ i \in 1 .. k
      BY <1>1, <2>2
    <3> QED BY <1>1, <1>2, <3>1
  <2> QED BY <2>1, <2>2
<1>4. r <= k + 1 /\ sent <= c + ((k + 1) - r)
  BY <1>1, <1>2
<1> QED BY <1>1, <1>2, <1>3, <1>4 DEF OnWire, p

-----------------------------------------------------------------------------
(* The actions *)

LEMMA ServerKept ==
  ASSUME ClientInv, Server
  PROVE  ClientInv'
<1>1. /\ server \in ServerStates /\ wire \in Seq(WireFrames) /\ client \in ClientStates
      /\ Len(wire) \in Nat /\ \A i \in 1 .. Len(wire) : wire[i] \in WireFrames
  BY DEF ClientInv, ClientTyped
<1>2. ASSUME NEW f \in WireFrames, Sends(f)
      PROVE  /\ wire' \in Seq(WireFrames) /\ Len(wire') = Len(wire) + 1
             /\ wire'[Len(wire) + 1] = f /\ \A i \in 1 .. Len(wire) : wire'[i] = wire[i]
             /\ \A i \in 1 .. Len(wire') : i \in 1 .. Len(wire) \/ i = Len(wire) + 1
             /\ wire' = Append(wire, f) /\ UNCHANGED <<client, stream, reading>>
             /\ TakenOff' = TakenOff /\ Intact' = Intact
  <2>1. wire' = Append(wire, f) /\ UNCHANGED <<client, stream, reading>>
    BY <1>2 DEF Sends
  <2> QED BY <1>1, <2>1, QueueFacts DEF TakenOff, Held, Intact
<1>3. CASE ServerAnswers
  <2>1. PICK ok \in BOOLEAN :
          /\ server' = [server EXCEPT !.answer = IF ok THEN "ok" ELSE "refused"]
          /\ Sends(Frame("rsp", IF ok THEN 1 ELSE 0))
    BY <1>3 DEF ServerAnswers
  <2> DEFINE f == Frame("rsp", IF ok THEN 1 ELSE 0)
  <2>2. f \in WireFrames /\ f.type = "rsp"
    BY DEF Frame, WireFrames
  <2>3. Sends(f)
    BY <2>1
  <2> HIDE DEF f
  <2>4. client.open = "pending" /\ server.answer = "none" /\ ~server.gone
    BY <1>3 DEF ServerAnswers
  <2>5. /\ server' \in ServerStates /\ server'.answer # "none" /\ server'.sent = server.sent
        /\ server'.ended = server.ended /\ server'.gone = server.gone
    BY <1>1, <2>1 DEF ServerStates
  <2>6. server.sent = 0 /\ \A i \in 1 .. Len(wire) : wire[i].type \in {"goodbye", "eof"}
    BY <2>4 DEF ClientInv, Unanswered
  <2>7. Len(wire) = 0
    BY <1>1, <2>4, <2>6 DEF ClientInv, LastFrames
  <2>8. ~client.known
    BY <2>4 DEF ClientInv, Acquainted
  <2>9. /\ wire' \in Seq(WireFrames) /\ Len(wire') = 1 /\ wire'[1] = f
        /\ UNCHANGED <<client, stream, reading>>
    BY <1>2, <2>2, <2>3, <2>7
  <2>10. ClientTyped'
    BY <2>5, <2>9 DEF ClientInv, ClientTyped
  <2>11. Unanswered'
    <3>1. OnWire(wire', server'.sent, 0, 1)
      BY <2>5, <2>6, <2>9 DEF OnWire
    <3> QED BY <2>2, <2>4, <2>5, <2>9, <3>1 DEF Unanswered
  <2>12. LastFrames'
    BY <2>2, <2>9 DEF LastFrames
  <2>13. Acquainted' /\ DataLine'
    BY <2>8, <2>9 DEF ClientInv, Acquainted, DataLine
  <2> QED BY <2>10, <2>11, <2>12, <2>13 DEF ClientInv
<1>4. CASE ServerSendsData
  <2> DEFINE f == Frame("data", server.sent + 1)
  <2>1. /\ server.answer = "ok" /\ ~server.ended /\ ~server.gone
        /\ server' = [server EXCEPT !.sent = @ + 1] /\ Sends(f)
    BY <1>4 DEF ServerSendsData
  <2>2. server.sent \in Nat /\ f \in WireFrames /\ f.type = "data" /\ f.n = server.sent + 1
    BY <1>1 DEF ServerStates, Frame, WireFrames
  <2> HIDE DEF f
  <2>3. /\ server' \in ServerStates /\ server'.answer = "ok" /\ server'.sent = server.sent + 1
        /\ ~server'.ended /\ ~server'.gone
    BY <1>1, <2>1 DEF ServerStates
  <2>4. /\ wire' \in Seq(WireFrames) /\ Len(wire') = Len(wire) + 1
        /\ wire'[Len(wire) + 1] = f /\ \A i \in 1 .. Len(wire) : wire'[i] = wire[i]
        /\ \A i \in 1 .. Len(wire') : i \in 1 .. Len(wire) \/ i = Len(wire) + 1
        /\ wire' = Append(wire, f) /\ UNCHANGED <<client, stream, reading>>
        /\ TakenOff' = TakenOff /\ Intact' = Intact
    BY <1>2, <2>1, <2>2
  <2>5. \A i \in 1 .. Len(wire) : wire[i].type \in {"rsp", "data"}
    BY <1>1, <2>1 DEF ClientInv, LastFrames, WireFrames
  <2>6. ASSUME NEW c \in Nat, NEW r \in {0, 1}, OnWire(wire, server.sent, c, r)
        PROVE  OnWire(wire', server'.sent, c, r)
    <3>1. \A i \in r + 1 .. Len(wire) : wire[i].type = "data"
      BY <1>1, <2>5, <2>6 DEF OnWire
    <3>2. OnWire(Append(wire, f), server.sent + 1, c, r)
      BY <1>1, <2>2, <2>6, <3>1, DataSent
    <3> QED BY <2>3, <2>4, <3>2
  <2>7. ClientTyped'
    BY <2>3, <2>4 DEF ClientInv, ClientTyped
  <2>8. LastFrames'
    BY <2>2, <2>4, <2>5 DEF LastFrames
  <2>9. Unanswered'
    <3> SUFFICES ASSUME client.open \in {"idle", "pending"}
                 PROVE  /\ client.open = "pending" /\ wire'[1].type = "rsp"
                        /\ OnWire(wire', server'.sent, 0, 1)
      BY <2>3, <2>4 DEF Unanswered
    <3>1. client.open = "pending" /\ wire[1].type = "rsp" /\ OnWire(wire, server.sent, 0, 1)
      BY <2>1 DEF ClientInv, Unanswered
    <3>2. 1 \in 1 .. Len(wire)
      BY <1>1, <3>1 DEF OnWire
    <3> QED BY <2>4, <2>6, <3>1, <3>2
  <2>10. Acquainted'
    BY <2>2, <2>4 DEF ClientInv, Acquainted
  <2>11. DataLine'
    <3> SUFFICES ASSUME client.known, Intact PROVE DataLine'
      BY <2>4 DEF DataLine
    <3>1. TakenOff \in Nat
      BY DEF ClientInv, ClientTyped, TakenOff, Held, RecvStates, ReadStates
    <3>2. OnWire(wire', server'.sent, TakenOff, 0)
      BY <2>6, <3>1 DEF ClientInv, DataLine
    <3>3. stream.mark # "closed"
      BY <2>1 DEF ClientInv, DataLine
    <3> QED BY <2>4, <3>2, <3>3 DEF ClientInv, DataLine
  <2> QED BY <2>7, <2>8, <2>9, <2>10, <2>11 DEF ClientInv
<1>5. CASE ServerEndsStream \/ ServerSaysGoodbye \/ ConnectionBreaks
  <2>1. PICK f \in {Frame("end", 0), Frame("goodbye", 0), Frame("eof", 0)} :
          /\ Sends(f)
          /\ \/ /\ f.type = "end" /\ server' = [server EXCEPT !.ended = TRUE]
                /\ server.answer = "ok"
             \/ f.type \in {"goodbye", "eof"} /\ server' = [server EXCEPT !.gone = TRUE]
    BY <1>5 DEF ServerEndsStream, ServerSaysGoodbye, ConnectionBreaks, Frame
  <2>2. f \in WireFrames /\ f.type \in {"end", "goodbye", "eof"}
    BY DEF Frame, WireFrames
  <2>3. /\ server' \in ServerStates /\ server'.answer = server.answer
        /\ server'.sent = server.sent /\ server.sent \in Nat
        /\ server.ended => server'.ended
        /\ server.gone => server'.gone
        /\ f.type = "end" => server'.ended
        /\ f.type \in {"goodbye", "eof"} => server'.gone
        /\ f.type = "end" => server.answer = "ok"
    BY <1>1, <2>1, <2>2 DEF ServerStates
  <2>4. /\ wire' \in Seq(WireFrames) /\ Len(wire') = Len(wire) + 1
        /\ wire'[Len(wire) + 1] = f /\ \A i \in 1 .. Len(wire) : wire'[i] = wire[i]
        /\ \A i \in 1 .. Len(wire') : i \in 1 .. Len(wire) \/ i = Len(wire) + 1
        /\ wire' = Append(wire, f) /\ UNCHANGED <<client, stream, reading>>
        /\ TakenOff' = TakenOff /\ Intact' = Intact
    BY <1>2, <2>1, <2>2
  <2>5. ASSUME NEW c \in Nat, NEW r \in {0, 1}, OnWire(wire, server.sent, c, r)
        PROVE  OnWire(wire', server'.sent, c, r)
    <3>1. OnWire(Append(wire, f), server.sent, c, r)
      BY <1>1, <2>2, <2>3, <2>5, LastSent
    <3> QED BY <2>3, <2>4, <3>1
  <2>6. ClientTyped'
    BY <2>3, <2>4 DEF ClientInv, ClientTyped
  <2>7. LastFrames'
    <3> SUFFICES ASSUME NEW i \in 1 .. Len(wire')
                 PROVE  /\ wire'[i].type = "end" => server'.ended
                        /\ wire'[i].type \in {"goodbye", "eof"} => server'.gone
      BY DEF LastFrames
    <3>1. CASE i = Len(wire) + 1
      BY <2>3, <2>4, <3>1
    <3>2. CASE i \in 1 .. Len(wire)
      <4>1. wire'[i] = wire[i]
        BY <2>4, <3>2
      <4>2. /\ wire[i].type = "end" => server.ended
            /\ wire[i].type \in {"goodbye", "eof"} => server.gone
        BY <3>2 DEF ClientInv, LastFrames
      <4>3. (server.ended => server'.ended) /\ (server.gone => server'.gone)
        BY <2>3
      <4> QED BY <4>1, <4>2, <4>3, Zenon
    <3> QED BY <2>4, <3>1, <3>2
  <2>8. Unanswered'
    <3> SUFFICES ASSUME client.open \in {"idle", "pending"} PROVE Unanswered'
      BY <2>4 DEF Unanswered
    <3>1. CASE server.answer = "none"
      BY <2>2, <2>3, <2>4, <3>1 DEF ClientInv, Unanswered
    <3>2. CASE server.answer # "none"
      <4>1. client.open = "pending" /\ wire[1].type = "rsp" /\ OnWire(wire, server.sent, 0, 1)
        BY <3>2 DEF ClientInv, Unanswered
      <4>2. 1 \in 1 .. Len(wire)
        BY <1>1, <4>1 DEF OnWire
      <4>3. OnWire(wire', server'.sent, 0, 1) /\ wire'[1].type = "rsp"
        BY <2>4, <2>5, <4>1, <4>2
      <4> QED BY <2>3, <2>4, <3>2, <4>1, <4>3 DEF Unanswered
    <3> QED BY <3>1, <3>2
  <2>9. Acquainted'
    BY <2>2, <2>4 DEF ClientInv, Acquainted
  <2>10. DataLine'
    <3> SUFFICES ASSUME client.known, Intact PROVE DataLine'
      BY <2>4 DEF DataLine
    <3>1. TakenOff \in Nat
      BY DEF ClientInv, ClientTyped, TakenOff, Held, RecvStates, ReadStates
    <3>2. OnWire(wire', server'.sent, TakenOff, 0)
      BY <2>5, <3>1 DEF ClientInv, DataLine
    <3>3. stream.mark = "closed" =>
            /\ server'.ended /\ TakenOff = server'.sent /\ client.reader # "blocked"
            /\ reading.reason = "closed" => stream.recv = <<>>
      <4>1. stream.mark = "closed" =>
              /\ server.ended /\ TakenOff = server.sent /\ client.reader # "blocked"
              /\ reading.reason = "closed" => stream.recv = <<>>
        BY DEF ClientInv, DataLine
      <4>2. (server.ended => server'.ended) /\ server'.sent = server.sent
        BY <2>3
      <4> QED BY <4>1, <4>2, Zenon
    <3>4. /\ \A i \in 1 .. Len(reading.got) : reading.got[i] = i
          /\ \A i \in 1 .. Len(stream.recv) : stream.recv[i] = Len(reading.got) + i
          /\ client.reader = "blocked" => stream.held = TakenOff
      BY DEF ClientInv, DataLine
    <3> QED BY <2>4, <3>2, <3>3, <3>4 DEF DataLine
  <2> QED BY <2>6, <2>7, <2>8, <2>9, <2>10 DEF ClientInv
<1> QED BY <1>3, <1>4, <1>5 DEF Server

LEMMA ClientFacts ==
  ASSUME ClientInv
  PROVE  /\ server \in ServerStates /\ wire \in Seq(WireFrames) /\ client \in ClientStates
         /\ stream \in RecvStates /\ reading \in ReadStates
         /\ stream.recv \in Seq(Nat) /\ reading.got \in Seq(Nat) /\ server.sent \in Nat
         /\ Len(wire) \in Nat /\ Len(stream.recv) \in Nat /\ Len(reading.got) \in Nat
         /\ Held \in {0, 1} /\ TakenOff \in Nat
<1>1. /\ server \in ServerStates /\ wire \in Seq(WireFrames) /\ client \in ClientStates
      /\ stream \in RecvStates /\ reading \in ReadStates
  BY DEF ClientInv, ClientTyped
<1>2. stream.recv \in Seq(Nat) /\ reading.got \in Seq(Nat) /\ server.sent \in Nat
  BY <1>1 DEF RecvStates, ReadStates, ServerStates
<1>3. Len(wire) \in Nat /\ Len(stream.recv) \in Nat /\ Len(reading.got) \in Nat
  BY <1>1, <1>2
<1>4. Held \in {0, 1} /\ Held \in Nat
  BY DEF Held
<1>5. TakenOff \in Nat
  <2>1. \A a, b, c \in Nat : a + b + c \in Nat
    OBVIOUS
  <2>2. Len(reading.got) + Len(stream.recv) + Held \in Nat
    BY <1>3, <1>4, <2>1
  <2> QED BY <2>2 DEF TakenOff
<1> QED BY <1>1, <1>2, <1>3, <1>4, <1>5

\* What the reader takes is the first frame; until it is the answer nothing moves, and for a
\* stream that is known it is the next data frame, or all of them are read.
LEMMA ArrivedFacts ==
  ASSUME ClientInv, client.reader = "run", wire # <<>>, wire' = Tail(wire), UNCHANGED server
  PROVE  /\ wire' \in Seq(WireFrames) /\ Head(wire) \in WireFrames
         /\ LastFrames'
         /\ Head(wire).type = "end" => server.ended
         /\ Head(wire).type \in {"data", "end"} => client.open \in {"open", "failed"}
         /\ client.open \in {"idle", "pending"} /\ Head(wire).type \in {"goodbye", "eof"} =>
              server.answer = "none" /\ \A i \in 1 .. Len(wire') : wire'[i].type \in {"goodbye", "eof"}
         /\ client.open \in {"idle", "pending"} /\ Head(wire).type = "rsp" =>
              client.open = "pending" /\ OnWire(wire', server.sent, 0, 0)
         /\ client.known => Head(wire).type # "rsp" /\ \A i \in 1 .. Len(wire') : wire'[i].type # "rsp"
         /\ client.known /\ Intact /\ Head(wire).type = "data" =>
              /\ Head(wire).n = TakenOff + 1 /\ OnWire(wire', server.sent, TakenOff + 1, 0)
              /\ stream.mark # "closed"
         /\ client.known /\ Intact /\ Head(wire).type # "data" =>
              TakenOff = server.sent /\ OnWire(wire', server.sent, TakenOff, 0)
<1>1. /\ wire \in Seq(WireFrames) /\ server.sent \in Nat /\ TakenOff \in Nat
  BY ClientFacts
<1>2. /\ Tail(wire) \in Seq(WireFrames) /\ Len(wire) \in Nat \ {0}
      /\ Len(Tail(wire)) = Len(wire) - 1 /\ Head(wire) = wire[1] /\ wire[1] \in WireFrames
      /\ \A i \in 1 .. Len(wire) - 1 : Tail(wire)[i] = wire[i + 1]
  BY <1>1, RestFacts
<1>3. /\ 1 \in 1 .. Len(wire) /\ Len(wire') = Len(wire) - 1
      /\ \A i \in 1 .. Len(wire') : i + 1 \in 1 .. Len(wire) /\ wire'[i] = wire[i + 1]
  BY <1>2
<1>4. LastFrames' /\ (Head(wire).type = "end" => server.ended)
  <2>1. \A i \in 1 .. Len(wire) : /\ wire[i].type = "end" => server.ended
                                  /\ wire[i].type \in {"goodbye", "eof"} => server.gone
    BY DEF ClientInv, LastFrames
  <2> QED BY <1>2, <1>3, <2>1 DEF LastFrames
<1>5. ASSUME client.open \in {"idle", "pending"}
      PROVE  \/ /\ server.answer = "none"
                /\ \A i \in 1 .. Len(wire) : wire[i].type \in {"goodbye", "eof"}
             \/ /\ client.open = "pending" /\ wire[1].type = "rsp"
                /\ OnWire(wire', server.sent, 0, 0)
  BY <1>1, <1>5, AnswerRead DEF ClientInv, Unanswered
<1>6. client.open \in {"idle", "pending", "open", "failed"}
  BY DEF ClientInv, ClientTyped, ClientStates
<1>7. client.known => \A i \in 1 .. Len(wire) : wire[i].type # "rsp"
  BY DEF ClientInv, Acquainted
<1>8. ASSUME client.known, Intact
      PROVE  /\ OnWire(wire, server.sent, TakenOff, 0)
             /\ stream.mark = "closed" => TakenOff = server.sent
  BY <1>8 DEF ClientInv, DataLine
<1>9. ASSUME client.known, Intact, Head(wire).type = "data"
      PROVE  /\ Head(wire).n = TakenOff + 1 /\ OnWire(wire', server.sent, TakenOff + 1, 0)
             /\ stream.mark # "closed"
  <2>1. Head(wire).n = TakenOff + 1 /\ OnWire(wire', server.sent, TakenOff + 1, 0)
    BY <1>1, <1>8, <1>9, FrameRead
  <2>2. TakenOff + 1 <= server.sent
    BY <2>1 DEF OnWire
  <2> QED BY <1>1, <1>8, <1>9, <2>1, <2>2
<1>10. ASSUME client.known, Intact, Head(wire).type # "data"
       PROVE  TakenOff = server.sent /\ OnWire(wire', server.sent, TakenOff, 0)
  BY <1>1, <1>8, <1>10, FrameRead
<1>11. /\ Head(wire).type \in {"data", "end"} => client.open \in {"open", "failed"}
       /\ client.open \in {"idle", "pending"} /\ Head(wire).type \in {"goodbye", "eof"} =>
            server.answer = "none" /\ \A i \in 1 .. Len(wire') : wire'[i].type \in {"goodbye", "eof"}
       /\ client.open \in {"idle", "pending"} /\ Head(wire).type = "rsp" =>
            client.open = "pending" /\ OnWire(wire', server.sent, 0, 0)
  BY <1>2, <1>3, <1>5, <1>6
<1>12. client.known => Head(wire).type # "rsp" /\ \A i \in 1 .. Len(wire') : wire'[i].type # "rsp"
  BY <1>2, <1>3, <1>7
<1> QED BY <1>2, <1>4, <1>9, <1>10, <1>11, <1>12

LEMMA ReadsAnswerKept ==
  ASSUME ClientInv, ReadsAnswer
  PROVE  ClientInv'
<1>1. /\ client.reader = "run" /\ wire # <<>> /\ Head(wire).type = "rsp" /\ wire' = Tail(wire)
      /\ UNCHANGED <<server, stream, reading>>
  BY DEF ReadsAnswer, Arrived
<1>2. /\ client \in ClientStates /\ server \in ServerStates /\ stream \in RecvStates
      /\ reading \in ReadStates
  BY ClientFacts
<1>3. /\ wire' \in Seq(WireFrames) /\ LastFrames' /\ ~client.known
      /\ client.open \in {"idle", "pending"} =>
           client.open = "pending" /\ OnWire(wire', server.sent, 0, 0)
  BY <1>1, ArrivedFacts
<1>4. /\ client.open \in {"pending", "failed"} /\ stream = FreshRecv /\ reading = FreshRead
      /\ client.shut = "no" /\ ~client.closed
  <2>1. client.open \in {"idle", "pending", "failed", "open"}
    BY <1>2 DEF ClientStates
  <2> QED BY <1>1, <1>3, <2>1 DEF ClientInv, Acquainted
<1>5. CASE client.open = "pending" /\ Head(wire).n = 1
  <2>1. client' = [client EXCEPT !.known = TRUE, !.open = "open"]
    BY <1>5 DEF ReadsAnswer
  <2>2. /\ client' \in ClientStates /\ client'.known = TRUE /\ client'.open = "open"
        /\ client'.reader = "run" /\ client'.shut = "no" /\ client'.closed = client.closed
    BY <1>1, <1>2, <1>4, <2>1 DEF ClientStates
  <2>3. ClientTyped' /\ Unanswered'
    BY <1>1, <1>2, <1>3, <2>2 DEF ClientTyped, Unanswered
  <2>4. OnWire(wire', server.sent, 0, 0)
    BY <1>3, <1>5
  <2>5. \A i \in 1 .. Len(wire') : wire'[i].type # "rsp"
    BY <2>4 DEF OnWire
  <2>6. Acquainted'
    BY <1>1, <1>4, <2>2, <2>5 DEF Acquainted, FreshRecv, FreshRead
  <2>7. TakenOff' = 0
    BY <1>1, <1>4, <2>2 DEF TakenOff, Held, FreshRecv, FreshRead
  <2>8. DataLine'
    BY <1>1, <1>4, <2>2, <2>4, <2>7 DEF DataLine, FreshRecv, FreshRead
  <2> QED BY <1>3, <2>3, <2>6, <2>8 DEF ClientInv
<1>6. CASE ~(client.open = "pending" /\ Head(wire).n = 1)
  <2> DEFINE known == client.open = "pending" /\ Head(wire).n = 1
             open == IF client.open # "pending" THEN client.open
                     ELSE IF Head(wire).n = 1 THEN "open" ELSE "failed"
  <2>1. client' = [client EXCEPT !.known = known, !.open = open]
    BY DEF ReadsAnswer
  <2>2. known \in BOOLEAN /\ ~known /\ open = "failed"
    <3>1. known \in BOOLEAN /\ ~known
      BY <1>6, Zenon
    <3>2. CASE client.open = "pending"
      <4>1. Head(wire).n # 1
        BY <1>6, <3>2
      <4> QED BY <3>1, <3>2, <4>1
    <3>3. CASE client.open = "failed"
      BY <3>1, <3>3
    <3> QED BY <1>4, <3>2, <3>3
  <2> HIDE DEF known, open
  <2>3. /\ client' \in ClientStates /\ client'.known = known /\ client'.open = "failed"
        /\ client'.reader = "run" /\ client'.shut = "no" /\ client'.closed = client.closed
    BY <1>1, <1>2, <1>4, <2>1, <2>2 DEF ClientStates
  <2>4. ~client'.known
    BY <2>2, <2>3
  <2>5. ClientTyped' /\ Unanswered' /\ DataLine'
    BY <1>1, <1>2, <1>3, <2>3, <2>4 DEF ClientTyped, Unanswered, DataLine
  <2>6. Acquainted'
    BY <1>1, <1>4, <2>3, <2>4 DEF Acquainted, FreshRecv, FreshRead
  <2> QED BY <1>3, <2>5, <2>6 DEF ClientInv
<1> QED BY <1>5, <1>6

LEMMA ReadsDataKept ==
  ASSUME ClientInv, ReadsData
  PROVE  ClientInv'
<1>1. /\ client.reader = "run" /\ wire # <<>> /\ Head(wire).type = "data" /\ wire' = Tail(wire)
      /\ UNCHANGED <<server, reading>>
  BY DEF ReadsData, Arrived
<1>2. /\ client \in ClientStates /\ server \in ServerStates /\ stream \in RecvStates
      /\ reading \in ReadStates /\ stream.recv \in Seq(Nat) /\ reading.got \in Seq(Nat)
      /\ Len(stream.recv) \in Nat /\ Len(reading.got) \in Nat
  BY ClientFacts
<1>3. /\ wire' \in Seq(WireFrames) /\ Head(wire) \in WireFrames /\ LastFrames'
      /\ client.open \in {"open", "failed"}
      /\ client.known => \A i \in 1 .. Len(wire') : wire'[i].type # "rsp"
      /\ client.known /\ Intact =>
           /\ Head(wire).n = TakenOff + 1 /\ OnWire(wire', server.sent, TakenOff + 1, 0)
           /\ stream.mark # "closed"
  BY <1>1, ArrivedFacts
<1>4. /\ client.known <=> client.open = "open"
      /\ ~client.known => stream = FreshRecv /\ reading = FreshRead /\ client.shut = "no"
      /\ client.closed => client.shut # "no"
      /\ client.known /\ (client.closed \/ stream.end # "none") => stream.mark # "none"
      /\ reading.reason = "closed" => stream.end # "none"
  BY <1>1 DEF ClientInv, Acquainted
<1>5. TakenOff = Len(reading.got) + Len(stream.recv)
  BY <1>1, <1>2 DEF TakenOff, Held
<1>6. CASE ~client.known
  <2>1. UNCHANGED <<client, stream>>
    BY <1>6 DEF ReadsData
  <2>2. ClientTyped' /\ Unanswered' /\ DataLine'
    BY <1>1, <1>2, <1>3, <1>6, <2>1 DEF ClientTyped, Unanswered, DataLine
  <2>3. Acquainted'
    BY <1>1, <1>4, <1>6, <2>1 DEF Acquainted
  <2> QED BY <1>3, <2>2, <2>3 DEF ClientInv
<1>7. CASE client.known /\ Len(stream.recv) < RecvRoom
  <2> DEFINE n == Head(wire).n
             p == Append(stream.recv, n)
  <2>1. stream' = [stream EXCEPT !.recv = p] /\ UNCHANGED client
    BY <1>7 DEF ReadsData
  <2>2. n \in Nat
    BY <1>3 DEF WireFrames
  <2>3. /\ p \in Seq(Nat) /\ Len(p) = Len(stream.recv) + 1 /\ p[Len(stream.recv) + 1] = n
        /\ \A i \in 1 .. Len(stream.recv) : p[i] = stream.recv[i]
    BY <1>2, <2>2, QueueFacts
  <2>4. /\ stream' \in RecvStates /\ stream'.recv = p /\ stream'.end = stream.end
        /\ stream'.mark = stream.mark /\ stream'.held = stream.held
    BY <1>2, <2>1, <2>3 DEF RecvStates
  <2> HIDE DEF p, n
  <2>5. ClientTyped' /\ Unanswered'
    BY <1>1, <1>2, <1>3, <2>1, <2>4 DEF ClientTyped, Unanswered
  <2>6. Acquainted'
    BY <1>1, <1>3, <1>4, <1>7, <2>1, <2>4 DEF Acquainted
  <2>7. Intact' = Intact
    BY <2>1, <2>4 DEF Intact
  <2>8. TakenOff' = Len(reading.got) + (Len(stream.recv) + 1)
    <3>1. Held' = 0 /\ reading' = reading
      BY <1>1, <2>1 DEF Held
    <3>2. TakenOff' = Len(reading.got) + (Len(stream.recv) + 1) + 0
      BY <2>3, <2>4, <3>1 DEF TakenOff
    <3> QED BY <1>2, <3>2
  <2>9. DataLine'
    <3> SUFFICES ASSUME Intact PROVE DataLine'
      BY <2>7 DEF DataLine
    <3>1. /\ n = TakenOff + 1 /\ OnWire(wire', server.sent, TakenOff + 1, 0)
          /\ stream.mark # "closed"
      BY <1>3, <1>7 DEF n
    <3>2. /\ \A i \in 1 .. Len(reading.got) : reading.got[i] = i
          /\ \A i \in 1 .. Len(stream.recv) : stream.recv[i] = Len(reading.got) + i
      BY <1>7 DEF ClientInv, DataLine
    <3>3. ASSUME NEW i \in 1 .. Len(p) PROVE p[i] = Len(reading.got) + i
      <4>1. CASE i = Len(stream.recv) + 1
        <5>1. n = (Len(reading.got) + Len(stream.recv)) + 1
          BY <1>5, <3>1
        <5>2. \A a, b \in Nat : (a + b) + 1 = a + (b + 1)
          OBVIOUS
        <5> QED BY <1>2, <2>3, <4>1, <5>1, <5>2
      <4>2. CASE i # Len(stream.recv) + 1
        <5>1. i \in 1 .. Len(stream.recv)
          BY <1>2, <2>3, <4>2, SMTT(60)
        <5> QED BY <2>3, <3>2, <5>1
      <4> QED BY <4>1, <4>2
    <3>4. TakenOff' = TakenOff + 1
      <4>1. \A a, b \in Nat : a + (b + 1) = (a + b) + 1
        OBVIOUS
      <4> QED BY <1>2, <1>5, <2>8, <4>1
    <3> QED BY <1>1, <2>1, <2>4, <3>1, <3>2, <3>3, <3>4 DEF DataLine
  <2> QED BY <1>3, <2>5, <2>6, <2>9 DEF ClientInv
<1>8. CASE client.known /\ ~(Len(stream.recv) < RecvRoom)
  <2> DEFINE n == Head(wire).n
  <2>1. stream' = [stream EXCEPT !.held = n] /\ client' = [client EXCEPT !.reader = "blocked"]
    BY <1>8 DEF ReadsData
  <2>2. n \in Nat
    BY <1>3 DEF WireFrames
  <2>3. /\ stream' \in RecvStates /\ stream'.recv = stream.recv /\ stream'.end = stream.end
        /\ stream'.mark = stream.mark /\ stream'.held = n
        /\ client' \in ClientStates /\ client'.known = client.known /\ client'.open = client.open
        /\ client'.reader = "blocked" /\ client'.shut = client.shut
        /\ client'.closed = client.closed
    BY <1>2, <2>1, <2>2 DEF RecvStates, ClientStates
  <2> HIDE DEF n
  <2>4. ClientTyped' /\ Unanswered'
    BY <1>1, <1>2, <1>3, <2>3 DEF ClientTyped, Unanswered
  <2>5. Acquainted'
    BY <1>1, <1>3, <1>4, <1>8, <2>3 DEF Acquainted
  <2>6. Intact' = Intact
    BY <2>3 DEF Intact
  <2>7. TakenOff' = TakenOff + 1
    BY <1>1, <1>2, <1>5, <2>3 DEF TakenOff, Held
  <2>8. DataLine'
    <3> SUFFICES ASSUME Intact PROVE DataLine'
      BY <2>6 DEF DataLine
    <3>1. /\ n = TakenOff + 1 /\ OnWire(wire', server.sent, TakenOff + 1, 0)
          /\ stream.mark # "closed"
      BY <1>3, <1>8 DEF n
    <3>2. /\ \A i \in 1 .. Len(reading.got) : reading.got[i] = i
          /\ \A i \in 1 .. Len(stream.recv) : stream.recv[i] = Len(reading.got) + i
      BY <1>8 DEF ClientInv, DataLine
    <3> QED BY <1>1, <2>3, <2>7, <3>1, <3>2 DEF DataLine
  <2> QED BY <1>3, <2>4, <2>5, <2>8 DEF ClientInv
<1> QED BY <1>6, <1>7, <1>8

\* What the reader holds is dropped only when the client was closed by its command.
LEMMA DeliversHeldKept ==
  ASSUME ClientInv, DeliversHeld
  PROVE  ClientInv'
<1>1. /\ client.reader = "blocked" /\ client' = [client EXCEPT !.reader = "run"]
      /\ UNCHANGED <<server, wire, reading>>
      /\ \/ stream' = [stream EXCEPT !.recv = Append(stream.recv, stream.held), !.held = 0]
         \/ client.closed /\ stream' = [stream EXCEPT !.held = 0]
  BY DEF DeliversHeld
<1>2. /\ client \in ClientStates /\ server \in ServerStates /\ stream \in RecvStates
      /\ reading \in ReadStates /\ stream.recv \in Seq(Nat) /\ reading.got \in Seq(Nat)
      /\ Len(stream.recv) \in Nat /\ Len(reading.got) \in Nat /\ wire \in Seq(WireFrames)
      /\ stream.held \in Nat
  BY ClientFacts DEF RecvStates
<1>3. /\ client.known <=> client.open = "open"
      /\ client.known
      /\ \A i \in 1 .. Len(wire) : wire[i].type # "rsp"
      /\ client.closed => client.shut # "no"
      /\ client.closed \/ stream.end # "none" => stream.mark # "none"
      /\ reading.reason = "closed" => stream.end # "none"
  BY <1>1 DEF ClientInv, Acquainted
<1>4. /\ client' \in ClientStates /\ client'.known = client.known /\ client'.open = client.open
      /\ client'.reader = "run" /\ client'.shut = client.shut /\ client'.closed = client.closed
  BY <1>1, <1>2 DEF ClientStates
<1> DEFINE p == Append(stream.recv, stream.held)
<1>5. /\ p \in Seq(Nat) /\ Len(p) = Len(stream.recv) + 1
      /\ p[Len(stream.recv) + 1] = stream.held
      /\ \A i \in 1 .. Len(stream.recv) : p[i] = stream.recv[i]
  BY <1>2, QueueFacts
<1>6. /\ stream' \in RecvStates /\ stream'.end = stream.end /\ stream'.mark = stream.mark
      /\ stream'.recv = p \/ client.closed
  <2>1. CASE stream' = [stream EXCEPT !.recv = p, !.held = 0]
    BY <1>2, <1>5, <2>1 DEF RecvStates
  <2>2. CASE client.closed /\ stream' = [stream EXCEPT !.held = 0]
    BY <1>2, <2>2 DEF RecvStates
  <2> QED BY <1>1, <2>1, <2>2
<1> HIDE DEF p
<1>7. ClientTyped' /\ Unanswered' /\ LastFrames'
  BY <1>1, <1>2, <1>3, <1>4, <1>6 DEF ClientInv, ClientTyped, Unanswered, LastFrames
<1>8. Acquainted'
  BY <1>1, <1>3, <1>4, <1>6 DEF Acquainted
<1>9. Intact' = Intact
  BY <1>4, <1>6 DEF Intact
<1>10. DataLine'
  <2> SUFFICES ASSUME Intact PROVE DataLine'
    BY <1>9 DEF DataLine
  <2>1. /\ \A i \in 1 .. Len(reading.got) : reading.got[i] = i
        /\ \A i \in 1 .. Len(stream.recv) : stream.recv[i] = Len(reading.got) + i
        /\ stream.held = TakenOff /\ OnWire(wire, server.sent, TakenOff, 0)
        /\ stream.mark # "closed"
    BY <1>1, <1>3 DEF ClientInv, DataLine
  <2>2. stream'.recv = p
    BY <1>3, <1>6, <2>1 DEF Intact
  <2>3. TakenOff = (Len(reading.got) + Len(stream.recv)) + 1
    BY <1>1 DEF TakenOff, Held
  <2>4. TakenOff' = TakenOff
    <3>1. Held' = 0 /\ reading' = reading
      BY <1>1, <1>4 DEF Held
    <3>2. TakenOff' = (Len(reading.got) + (Len(stream.recv) + 1)) + 0
      BY <1>5, <2>2, <3>1 DEF TakenOff
    <3>3. \A a, b \in Nat : (a + (b + 1)) + 0 = (a + b) + 1
      OBVIOUS
    <3> QED BY <1>2, <2>3, <3>2, <3>3
  <2>5. ASSUME NEW i \in 1 .. Len(p) PROVE p[i] = Len(reading.got) + i
    <3>1. CASE i = Len(stream.recv) + 1
      <4>1. stream.held = (Len(reading.got) + Len(stream.recv)) + 1
        BY <2>1, <2>3
      <4>2. \A a, b \in Nat : (a + b) + 1 = a + (b + 1)
        OBVIOUS
      <4> QED BY <1>2, <1>5, <3>1, <4>1, <4>2
    <3>2. CASE i # Len(stream.recv) + 1
      <4>1. i \in 1 .. Len(stream.recv)
        BY <1>2, <1>5, <3>2
      <4> QED BY <1>5, <2>1, <4>1
    <3> QED BY <3>1, <3>2
  <2> QED BY <1>1, <1>4, <1>6, <2>1, <2>2, <2>4, <2>5 DEF DataLine
<1> QED BY <1>7, <1>8, <1>10 DEF ClientInv

\* The end comes behind all the data.
LEMMA ReadsEndKept ==
  ASSUME ClientInv, ReadsEnd
  PROVE  ClientInv'
<1>1. /\ client.reader = "run" /\ wire # <<>> /\ Head(wire).type = "end" /\ wire' = Tail(wire)
      /\ UNCHANGED <<server, client, reading>>
  BY DEF ReadsEnd, Arrived
<1>2. /\ client \in ClientStates /\ server \in ServerStates /\ stream \in RecvStates
      /\ reading \in ReadStates
  BY ClientFacts
<1>3. /\ wire' \in Seq(WireFrames) /\ LastFrames' /\ server.ended
      /\ client.open \in {"open", "failed"}
      /\ client.known => \A i \in 1 .. Len(wire') : wire'[i].type # "rsp"
      /\ client.known /\ Intact => TakenOff = server.sent /\ OnWire(wire', server.sent, TakenOff, 0)
  BY <1>1, ArrivedFacts
<1>4. /\ client.known <=> client.open = "open"
      /\ ~client.known => stream = FreshRecv /\ reading = FreshRead /\ client.shut = "no"
      /\ client.closed => client.shut # "no"
      /\ client.known /\ (client.closed \/ stream.end # "none") => stream.mark # "none"
      /\ reading.reason = "closed" => stream.end # "none"
  BY <1>1 DEF ClientInv, Acquainted
<1>5. CASE ~client.known
  <2>1. UNCHANGED stream
    BY <1>5 DEF ReadsEnd
  <2>2. ClientTyped' /\ Unanswered' /\ DataLine'
    BY <1>1, <1>2, <1>3, <1>5, <2>1 DEF ClientTyped, Unanswered, DataLine
  <2>3. Acquainted'
    BY <1>1, <1>4, <1>5, <2>1 DEF Acquainted
  <2> QED BY <1>3, <2>2, <2>3 DEF ClientInv
<1>6. CASE client.known
  <2> DEFINE m == IF stream.mark = "none" THEN "closed" ELSE stream.mark
  <2>1. stream' = [stream EXCEPT !.end = "closed", !.mark = m]
    BY <1>6 DEF ReadsEnd
  <2>2. m \in {"closed", "conn"}
    BY <1>2 DEF RecvStates
  <2>3. /\ m # "none" /\ (m = "closed" => stream.mark \in {"none", "closed"})
        /\ (stream.mark = "closed" => m = "closed")
    BY <2>2
  <2> HIDE DEF m
  <2>4. /\ stream' \in RecvStates /\ stream'.recv = stream.recv /\ stream'.end = "closed"
        /\ stream'.mark = m /\ stream'.held = stream.held
    BY <1>2, <2>1, <2>2 DEF RecvStates
  <2>5. ClientTyped' /\ Unanswered'
    BY <1>1, <1>2, <1>3, <2>4 DEF ClientTyped, Unanswered
  <2>6. Acquainted'
    BY <1>1, <1>3, <1>4, <1>6, <2>3, <2>4 DEF Acquainted
  <2>7. TakenOff' = TakenOff
    BY <1>1, <2>4 DEF TakenOff, Held
  <2>8. DataLine'
    <3> SUFFICES ASSUME Intact' PROVE DataLine'
      BY DEF DataLine
    <3>1. Intact
      BY <1>1, <1>4, <1>6, <2>3, <2>4 DEF Intact
    <3>2. /\ \A i \in 1 .. Len(reading.got) : reading.got[i] = i
          /\ \A i \in 1 .. Len(stream.recv) : stream.recv[i] = Len(reading.got) + i
          /\ stream.mark = "closed" => (reading.reason = "closed" => stream.recv = <<>>)
      BY <1>6, <3>1 DEF ClientInv, DataLine
    <3>3. m = "closed" => (reading.reason = "closed" => stream.recv = <<>>)
      BY <1>4, <1>6, <2>3, <3>2
    <3> QED BY <1>1, <1>3, <1>6, <2>4, <2>7, <3>1, <3>2, <3>3 DEF DataLine
  <2> QED BY <1>3, <2>5, <2>6, <2>8 DEF ClientInv
<1> QED BY <1>5, <1>6

\* The connection ends for the client: by the server's goodbye, by an error, by its command.
LEMMA MarkedConnKept ==
  ASSUME ClientInv, NEW m, m = MarkConn, stream' = [stream EXCEPT !.mark = m],
         client' \in ClientStates, client'.open = client.open, client'.known = client.known,
         client'.shut = client.shut, UNCHANGED <<server, reading>>,
         client.closed => client'.closed,
         client'.reader = client.reader \/ (client.reader = "run" /\ client'.reader = "gone"),
         client'.closed /\ client'.reader # "gone" => client.closed \/ client.shut # "no",
         client'.closed # client.closed => client.known \/ client'.reader = "gone",
         wire' \in Seq(WireFrames), LastFrames', Unanswered',
         client.known => \A i \in 1 .. Len(wire') : wire'[i].type # "rsp",
         client.known /\ Intact => OnWire(wire', server.sent, TakenOff, 0)
  PROVE  ClientInv'
<1>1. /\ client \in ClientStates /\ server \in ServerStates /\ stream \in RecvStates
      /\ reading \in ReadStates /\ client.closed \in BOOLEAN /\ client.known \in BOOLEAN
      /\ client'.closed \in BOOLEAN
  BY ClientFacts DEF ClientStates
<1>2. /\ client.known <=> client.open = "open"
      /\ ~client.known => stream = FreshRecv /\ reading = FreshRead /\ client.reader # "blocked"
                          /\ client.shut = "no"
      /\ client.closed /\ client.reader # "gone" => client.shut # "no"
      /\ client.known /\ (client.closed \/ stream.end # "none") => stream.mark # "none"
      /\ reading.reason = "closed" => stream.end # "none"
  BY DEF ClientInv, Acquainted
<1>3. /\ m \in {"none", "closed", "conn"} /\ (client.known => m # "none")
      /\ (m = "closed" <=> stream.mark = "closed") /\ (~client.known => m = "none")
  BY <1>1, <1>2 DEF MarkConn, RecvStates, FreshRecv
<1>4. /\ stream' \in RecvStates /\ stream'.recv = stream.recv /\ stream'.end = stream.end
      /\ stream'.mark = m /\ stream'.held = stream.held
  BY <1>1, <1>3 DEF RecvStates
<1>5. ~client.known => stream' = FreshRecv
  BY <1>2, <1>3 DEF FreshRecv
<1>6. ClientTyped'
  BY <1>1, <1>4 DEF ClientTyped
<1>7. Acquainted'
  BY <1>1, <1>2, <1>3, <1>4, <1>5 DEF Acquainted
<1>8. DataLine'
  <2> SUFFICES ASSUME client.known, Intact' PROVE DataLine'
    BY DEF DataLine
  <2>1. Intact
    BY <1>1, <1>3, <1>4 DEF Intact
  <2>2. TakenOff' = TakenOff /\ (client'.reader = "blocked" <=> client.reader = "blocked")
    BY <1>4 DEF TakenOff, Held
  <2>3. /\ \A i \in 1 .. Len(reading.got) : reading.got[i] = i
        /\ \A i \in 1 .. Len(stream.recv) : stream.recv[i] = Len(reading.got) + i
        /\ client.reader = "blocked" => stream.held = TakenOff
        /\ stream.mark = "closed" =>
             /\ server.ended /\ TakenOff = server.sent /\ client.reader # "blocked"
             /\ reading.reason = "closed" => stream.recv = <<>>
    BY <2>1 DEF ClientInv, DataLine
  <2> QED BY <1>3, <1>4, <2>1, <2>2, <2>3 DEF DataLine
<1> QED BY <1>6, <1>7, <1>8 DEF ClientInv

LEMMA ConnectionEndsKept ==
  ASSUME ClientInv, ReadsGoodbye \/ ReadsError \/ CloseClient
  PROVE  ClientInv'
<1>1. client \in ClientStates /\ wire \in Seq(WireFrames)
  BY ClientFacts
<1>2. CASE ReadsGoodbye
  <2>1. /\ client.reader = "run" /\ wire # <<>> /\ Head(wire).type = "goodbye"
        /\ wire' = Tail(wire) /\ UNCHANGED <<server, reading>>
        /\ client' = [client EXCEPT !.closed = TRUE, !.reader = "gone"]
        /\ stream' = [stream EXCEPT !.mark = MarkConn]
    BY <1>2 DEF ReadsGoodbye, Arrived
  <2>2. /\ client' \in ClientStates /\ client'.open = client.open
        /\ client'.known = client.known /\ client'.shut = client.shut
        /\ client'.reader = "gone" /\ client'.closed = TRUE
    BY <1>1, <2>1 DEF ClientStates
  <2>3. /\ wire' \in Seq(WireFrames) /\ LastFrames'
        /\ client.known => \A i \in 1 .. Len(wire') : wire'[i].type # "rsp"
        /\ client.known /\ Intact => OnWire(wire', server.sent, TakenOff, 0)
        /\ client.open \in {"idle", "pending"} =>
             server.answer = "none" /\ \A i \in 1 .. Len(wire') : wire'[i].type \in {"goodbye", "eof"}
    BY <2>1, ArrivedFacts
  <2>4. Unanswered'
    BY <2>1, <2>2, <2>3 DEF ClientInv, Unanswered
  <2> QED BY <2>1, <2>2, <2>3, <2>4, MarkedConnKept
<1>3. CASE ReadsError \/ CloseClient
  <2>1. /\ UNCHANGED <<server, wire, reading>> /\ stream' = [stream EXCEPT !.mark = MarkConn]
        /\ \/ client.reader = "run" /\ client' = [client EXCEPT !.reader = "gone"]
           \/ client.shut = "closing" /\ client' = [client EXCEPT !.closed = TRUE]
    BY <1>3 DEF ReadsError, CloseClient
  <2>2. /\ client' \in ClientStates /\ client'.open = client.open
        /\ client'.known = client.known /\ client'.shut = client.shut
        /\ \/ client.reader = "run" /\ client'.reader = "gone" /\ client'.closed = client.closed
           \/ client.shut = "closing" /\ client'.closed = TRUE /\ client'.reader = client.reader
    BY <1>1, <2>1 DEF ClientStates
  <2>3. client.shut = "closing" => client.known
    BY DEF ClientInv, Acquainted
  <2>4. LastFrames' /\ Unanswered'
    BY <2>1, <2>2 DEF ClientInv, LastFrames, Unanswered
  <2>5. /\ client.known => \A i \in 1 .. Len(wire) : wire[i].type # "rsp"
        /\ client.known /\ Intact => OnWire(wire, server.sent, TakenOff, 0)
    BY DEF ClientInv, Acquainted, DataLine
  <2> QED BY <1>1, <2>1, <2>2, <2>3, <2>4, <2>5, MarkedConnKept
<1> QED BY <1>2, <1>3

\* The command's calls.
LEMMA CallsKept ==
  ASSUME ClientInv, OpenStream \/ OpenStreamFails \/ ClientCloseBegins \/ ClientCloses
  PROVE  ClientInv'
<1>1. client \in ClientStates
  BY ClientFacts
<1>2. /\ UNCHANGED <<server, wire, stream, reading>>
      /\ \/ /\ client.open = "idle" /\ client' = [client EXCEPT !.open = "pending"]
         \/ /\ client.open = "pending" /\ client' = [client EXCEPT !.open = "failed"]
         \/ /\ client.open = "open" /\ client' = [client EXCEPT !.shut = "closing"]
         \/ /\ client.shut = "closing" /\ client' = [client EXCEPT !.shut = "done"]
  BY DEF OpenStream, OpenStreamFails, ClientCloseBegins, ClientCloses
<1>3. /\ client' \in ClientStates /\ client'.known = client.known
      /\ client'.reader = client.reader /\ client'.closed = client.closed
      /\ \/ client.open = "idle" /\ client'.open = "pending" /\ client'.shut = client.shut
         \/ client.open = "pending" /\ client'.open = "failed" /\ client'.shut = client.shut
         \/ client.open = "open" /\ client'.open = "open" /\ client'.shut = "closing"
         \/ client.shut = "closing" /\ client'.open = client.open /\ client'.shut = "done"
  BY <1>1, <1>2 DEF ClientStates
<1>4. ClientTyped' /\ LastFrames'
  BY <1>2, <1>3 DEF ClientInv, ClientTyped, LastFrames
<1>5. Unanswered'
  BY <1>2, <1>3 DEF ClientInv, Unanswered
<1>6. Acquainted'
  BY <1>2, <1>3 DEF ClientInv, Acquainted
<1>7. DataLine'
  <2> SUFFICES ASSUME client.known, Intact' PROVE DataLine'
    BY <1>3 DEF DataLine
  <2>1. Intact
    BY <1>2, <1>3 DEF Intact
  <2>2. TakenOff' = TakenOff
    BY <1>2, <1>3 DEF TakenOff, Held
  <2> QED BY <1>2, <1>3, <2>1, <2>2 DEF ClientInv, DataLine
<1> QED BY <1>4, <1>5, <1>6, <1>7 DEF ClientInv

\* streamConn.Read takes what is in recv: one item, or at the end all of it.
LEMMA ReadingKept ==
  ASSUME ClientInv, ReadReceives \/ ReadSeesEnd \/ ReadSeesClosed
  PROVE  ClientInv'
<1>1. /\ client \in ClientStates /\ server \in ServerStates /\ stream \in RecvStates
      /\ reading \in ReadStates /\ stream.recv \in Seq(Nat) /\ reading.got \in Seq(Nat)
      /\ Len(stream.recv) \in Nat /\ Len(reading.got) \in Nat /\ wire \in Seq(WireFrames)
      /\ Held \in Nat
  BY ClientFacts
<1> DEFINE g == Len(reading.got)
           c == Len(stream.recv)
<1>2. /\ client.open = "open" /\ reading.reason = "none" /\ UNCHANGED <<server, wire, client>>
  BY DEF ReadReceives, ReadSeesEnd, ReadSeesClosed, Reads, ReadEnds
<1>3. PICK p, q, reason :
        /\ p \in Seq(Nat) /\ q \in Seq(Nat) /\ reason \in {"none", "closed", "conn"}
        /\ reading' = [reading EXCEPT !.got = p, !.reason = reason]
        /\ stream' = [stream EXCEPT !.recv = q]
        /\ Len(p) + Len(q) = g + c /\ Len(p) \in Nat /\ Len(q) \in Nat
        /\ \A i \in 1 .. g : p[i] = reading.got[i]
        /\ \A i \in g + 1 .. Len(p) : i - g \in 1 .. c /\ p[i] = stream.recv[i - g]
        /\ \A i \in 1 .. Len(q) : (i + Len(p)) - g \in 1 .. c /\ q[i] = stream.recv[(i + Len(p)) - g]
        /\ reason = "closed" => q = <<>> /\ stream.end # "none"
  <2>1. CASE ReadReceives
    <3> DEFINE p == Append(reading.got, Head(stream.recv))
               q == Tail(stream.recv)
    <3>1. stream.recv # <<>>
      BY <2>1 DEF ReadReceives
    <3>2. /\ q \in Seq(Nat) /\ c \in Nat \ {0} /\ Len(q) = c - 1
          /\ Head(stream.recv) = stream.recv[1] /\ stream.recv[1] \in Nat
          /\ \A i \in 1 .. c - 1 : q[i] = stream.recv[i + 1]
      BY <1>1, <3>1, RestFacts
    <3>3. /\ p \in Seq(Nat) /\ Len(p) = g + 1 /\ p[g + 1] = stream.recv[1] /\ g \in Nat
          /\ \A i \in 1 .. g : p[i] = reading.got[i]
      BY <1>1, <3>2, QueueFacts
    <3>4. /\ reading' = [reading EXCEPT !.got = p, !.reason = "none"]
          /\ stream' = [stream EXCEPT !.recv = q]
      <4>1. reading' = [reading EXCEPT !.got = p] /\ stream' = [stream EXCEPT !.recv = q]
        BY <2>1 DEF ReadReceives
      <4> QED BY <1>1, <1>2, <4>1 DEF ReadStates
    <3> HIDE DEF p, q, g, c
    <3>5. \A i \in g + 1 .. Len(p) : i - g \in 1 .. c /\ p[i] = stream.recv[i - g]
      <4> SUFFICES ASSUME NEW i \in g + 1 .. Len(p)
                   PROVE  i - g \in 1 .. c /\ p[i] = stream.recv[i - g]
        OBVIOUS
      <4>1. i = g + 1 /\ i - g = 1
        BY <3>3
      <4> QED BY <3>2, <3>3, <4>1
    <3>6. \A i \in 1 .. Len(q) : (i + Len(p)) - g \in 1 .. c /\ q[i] = stream.recv[(i + Len(p)) - g]
      <4> SUFFICES ASSUME NEW i \in 1 .. Len(q)
                   PROVE  (i + Len(p)) - g \in 1 .. c /\ q[i] = stream.recv[(i + Len(p)) - g]
        OBVIOUS
      <4>1. (i + Len(p)) - g = i + 1 /\ i + 1 \in 1 .. c /\ i \in 1 .. c - 1
        BY <3>2, <3>3
      <4> QED BY <3>2, <4>1
    <3>7. Len(p) + Len(q) = g + c /\ Len(p) \in Nat /\ Len(q) \in Nat
      BY <3>2, <3>3
    <3> WITNESS p, q, "none"
    <3> QED BY <3>2, <3>3, <3>4, <3>5, <3>6, <3>7
  <2>2. ASSUME NEW reason \in {"closed", "conn"}, ReadEnds(reason),
               reason = "closed" => stream.end # "none"
        PROVE  \E p, q, why :
          /\ p \in Seq(Nat) /\ q \in Seq(Nat) /\ why \in {"none", "closed", "conn"}
          /\ reading' = [reading EXCEPT !.got = p, !.reason = why]
          /\ stream' = [stream EXCEPT !.recv = q]
          /\ Len(p) + Len(q) = g + c /\ Len(p) \in Nat /\ Len(q) \in Nat
          /\ \A i \in 1 .. g : p[i] = reading.got[i]
          /\ \A i \in g + 1 .. Len(p) : i - g \in 1 .. c /\ p[i] = stream.recv[i - g]
          /\ \A i \in 1 .. Len(q) : (i + Len(p)) - g \in 1 .. c /\ q[i] = stream.recv[(i + Len(p)) - g]
          /\ why = "closed" => q = <<>> /\ stream.end # "none"
    <3> DEFINE p == reading.got \o stream.recv
    <3>1. /\ p \in Seq(Nat) /\ Len(p) = g + c /\ g \in Nat /\ c \in Nat
          /\ \A i \in 1 .. g : p[i] = reading.got[i]
          /\ \A i \in 1 .. c : p[g + i] = stream.recv[i]
      <4>1. reading.got \in Seq(Nat) /\ stream.recv \in Seq(Nat)
        BY <1>1
      <4> HIDE DEF p, g, c
      <4>2. ASSUME NEW a \in Seq(Nat), NEW b \in Seq(Nat)
            PROVE  /\ a \o b \in Seq(Nat) /\ Len(a \o b) = Len(a) + Len(b)
                   /\ Len(a) \in Nat /\ Len(b) \in Nat
                   /\ \A i \in 1 .. Len(a) : (a \o b)[i] = a[i]
                   /\ \A i \in 1 .. Len(b) : (a \o b)[Len(a) + i] = b[i]
        BY JoinFacts
      <4> QED BY <4>1, <4>2, Zenon DEF p, g, c
    <3>2. /\ reading' = [reading EXCEPT !.got = p, !.reason = reason]
          /\ stream' = [stream EXCEPT !.recv = <<>>]
      BY <2>2 DEF ReadEnds
    <3> HIDE DEF p, g, c
    <3>3. \A i \in g + 1 .. Len(p) : i - g \in 1 .. c /\ p[i] = stream.recv[i - g]
      <4> SUFFICES ASSUME NEW i \in g + 1 .. Len(p)
                   PROVE  i - g \in 1 .. c /\ p[i] = stream.recv[i - g]
        OBVIOUS
      <4>1. i - g \in 1 .. c /\ g + (i - g) = i
        BY <3>1
      <4> QED BY <3>1, <4>1
    <3>4. <<>> \in Seq(Nat) /\ Len(<<>>) = 0 /\ 1 .. Len(<<>>) = {}
      OBVIOUS
    <3>5. Len(p) + Len(<<>>) = g + c /\ Len(p) \in Nat /\ Len(<<>>) \in Nat
      BY <3>1, <3>4
    <3> QED BY <2>2, <3>1, <3>2, <3>3, <3>4, <3>5
  <2>3. stream.end \in {"none", "closed"}
    BY <1>1 DEF RecvStates
  <2> QED BY <2>1, <2>2, <2>3 DEF ReadSeesEnd, ReadSeesClosed
<1>4. /\ reading' \in ReadStates /\ reading'.got = p /\ reading'.reason = reason
      /\ stream' \in RecvStates /\ stream'.recv = q /\ stream'.end = stream.end
      /\ stream'.mark = stream.mark /\ stream'.held = stream.held
  BY <1>1, <1>3 DEF ReadStates, RecvStates
<1>5. ClientTyped' /\ LastFrames' /\ Unanswered'
  BY <1>1, <1>2, <1>4 DEF ClientInv, ClientTyped, LastFrames, Unanswered
<1>6. Acquainted'
  BY <1>2, <1>3, <1>4 DEF ClientInv, Acquainted
<1>7. Intact' = Intact
  BY <1>2, <1>4 DEF Intact
<1>8. TakenOff = (g + c) + Held /\ TakenOff' = (Len(p) + Len(q)) + Held
  BY <1>2, <1>4 DEF TakenOff, Held
<1>9. DataLine'
  <2> SUFFICES ASSUME client.known, Intact PROVE DataLine'
    BY <1>2, <1>7 DEF DataLine
  <2>1. /\ \A i \in 1 .. g : reading.got[i] = i
        /\ \A i \in 1 .. c : stream.recv[i] = g + i
        /\ client.reader = "blocked" => stream.held = TakenOff
        /\ OnWire(wire, server.sent, TakenOff, 0)
        /\ stream.mark = "closed" =>
             /\ server.ended /\ TakenOff = server.sent /\ client.reader # "blocked"
    BY DEF ClientInv, DataLine
  <2>2. TakenOff' = TakenOff /\ g \in Nat /\ c \in Nat
    BY <1>1, <1>3, <1>8
  <2> HIDE DEF g, c
  <2>3. ASSUME NEW i \in 1 .. Len(p) PROVE p[i] = i
    <3>1. CASE i \in 1 .. g
      BY <1>3, <2>1, <3>1
    <3>2. CASE i \notin 1 .. g
      <4>1. i \in g + 1 .. Len(p)
        BY <1>3, <2>2, <3>2
      <4>2. p[i] = g + (i - g)
        BY <1>3, <2>1, <4>1
      <4> QED BY <2>2, <4>2
    <3> QED BY <3>1, <3>2
  <2>4. ASSUME NEW i \in 1 .. Len(q) PROVE q[i] = Len(p) + i
    <3>1. q[i] = g + ((i + Len(p)) - g)
      BY <1>3, <2>1
    <3> QED BY <1>3, <2>2, <3>1
  <2> QED BY <1>2, <1>3, <1>4, <2>1, <2>2, <2>3, <2>4 DEF DataLine
<1> QED BY <1>5, <1>6, <1>9 DEF ClientInv

LEMMA ClientInvInit == ClientInit => ClientInv
<1> SUFFICES ASSUME ClientInit PROVE ClientInv
  OBVIOUS
<1>1. ClientTyped
  BY DEF ClientInit, ClientTyped, ServerStates, ClientStates, RecvStates, ReadStates
<1>2. LastFrames /\ Unanswered /\ DataLine
  BY DEF ClientInit, LastFrames, Unanswered, DataLine
<1>3. Acquainted
  BY DEF ClientInit, Acquainted, FreshRecv, FreshRead
<1> QED BY <1>1, <1>2, <1>3 DEF ClientInv

LEMMA ClientInvStep == ClientInv /\ [ClientNext]_clientVars => ClientInv'
<1> SUFFICES ASSUME ClientInv, [ClientNext]_clientVars PROVE ClientInv'
  OBVIOUS
<1>1. CASE Reader
  BY <1>1, ReadsAnswerKept, ReadsDataKept, DeliversHeldKept, ReadsEndKept, ConnectionEndsKept DEF Reader
<1>2. CASE Command \/ OpenStream \/ ClientCloseBegins \/ ReadReceives
  BY <1>2, CallsKept, ReadingKept, ConnectionEndsKept DEF Command
<1>3. CASE UNCHANGED clientVars
  BY <1>3 DEF clientVars, ClientInv, ClientTyped, LastFrames, Unanswered, Acquainted, DataLine,
              Intact, TakenOff, Held
<1> QED BY <1>1, <1>2, <1>3, ServerKept DEF ClientNext

\* The client's reader, its calls and the command keep what arrives in the order of the
\* frames: what waits in a stream's channel, is held by the reader or is still on the wire
\* continues what the command has read, and the end is behind all of it (control/client.go).
THEOREM ClientKept == ClientSpec => []ClientInv
BY ClientInvInit, ClientInvStep, PTL DEF ClientSpec

LEMMA AllRead ==
  ASSUME ClientInv
  PROVE  ReadsAllBeforeEnd
<1>1. /\ reading.got \in Seq(Nat) /\ Len(reading.got) \in Nat
      /\ ~client.known => reading = FreshRead
  BY ClientFacts DEF ClientInv, Acquainted
<1>2. CASE ~client.known
  BY <1>1, <1>2 DEF ReadsAllBeforeEnd, FreshRead
<1>3. CASE client.known
  <2>1. client.shut = "no" => \A i \in 1 .. Len(reading.got) : reading.got[i] = i
    BY <1>3 DEF ClientInv, DataLine, Intact
  <2>2. ASSUME reading.reason = "closed", stream.mark = "closed"
        PROVE  Len(reading.got) = server.sent
    <3>1. /\ TakenOff = server.sent /\ client.reader # "blocked" /\ stream.recv = <<>>
      BY <1>3, <2>2 DEF ClientInv, DataLine, Intact
    <3> QED BY <1>1, <3>1 DEF TakenOff, Held
  <2> QED BY <2>1, <2>2 DEF ReadsAllBeforeEnd
<1> QED BY <1>2, <1>3

-----------------------------------------------------------------------------
(* Both ends together *)

\* What a stream carries arrives in order, without a gap, and before its end: the daemon's
\* writer, the backend and the command see the frames in the order of their numbers, however
\* reader, dispatcher, pumps, writer and finish interleave.
THEOREM OrderIsKept == StreamSpec /\ ClientSpec => []StreamsInOrder
<1>1. StreamInv /\ ClientInv => StreamsInOrder
  BY InOrder, AllRead DEF StreamsInOrder
<1> QED BY <1>1, StreamsKept, ClientKept, PTL
==============================================================================
