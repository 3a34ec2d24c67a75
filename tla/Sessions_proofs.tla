--------------------------- MODULE Sessions_proofs ---------------------------
(* Theorems about what goroutines and timers start, replace and stop, for any      *)
(* number of each: one exit session and one round of recovery (HostSession), the    *)
(* ladder a round climbs (Ladder), the device table (DeviceTable), the import of a  *)
(* state directory (NodeState), the identity files (Identity); and the backend's    *)
(* bind with its relay legs and remotes (ServerBind).                             *)
EXTENDS MCSessions, ServerBind, FiniteSetTheorems, SequenceTheorems, TLAPS

-----------------------------------------------------------------------------
(* The exit session of a host and its rounds (HostSession).                    *)

States == {"none", "starting", "ready", "failed", "stopping", "idle"}
HostPlaces == {"idle", "build", "store", "warm", "warmed", "patrol", "end", "recover", "merge",
       "ladder", "wait", "decide", "rebuild", "teardown", "again", "swap",
       "finish", "closing", "final"}
Session == [state : States, stop : BOOLEAN, finishing : BOOLEAN, done : BOOLEAN,
            exit : 0 .. MaxBuilds, exhausted : 0 .. 2, cooling : BOOLEAN, round : BOOLEAN]
Work == [at : HostPlaces, inst : 0 .. MaxInst, exit : 0 .. MaxBuilds, final : {"none", "idle", "failed"}]

Typed ==
  /\ instance \in 0 .. MaxInst /\ stopping \in 0 .. MaxInst
  /\ builds \in 0 .. MaxBuilds /\ open \subseteq 1 .. builds
  /\ session \in [Inst -> Session] /\ work \in [Goroutine -> Work]

Numbered ==
  /\ \A i \in Inst : session[i].exit <= builds
  /\ \A g \in Goroutine : work[g].exit <= builds

\* Who works does so for an instance that was started, the start goroutine for its own;
\* an instance that was not started holds no exit session.
PlacedIn(g, w, last) ==
  /\ w.at = "idle" => w.inst = 0
  /\ w.at # "idle" => w.inst \in Inst /\ w.inst <= last
  /\ w.at \in {"build", "store", "warm", "warmed", "patrol", "end"} => g \in Inst
  /\ g \in Inst /\ w.at # "idle" => w.inst = g
Placed ==
  /\ \A g \in Goroutine : PlacedIn(g, work[g], instance)
  /\ \A i \in Inst : i > instance => session[i].exit = 0

\* Until the first exit session is stored nobody else works for the instance.
StartsAlone ==
  \A i \in Inst : work[i].at \in {"build", "store"} =>
    /\ session[i].exit = 0 /\ ~session[i].finishing
    /\ \A g \in Goroutine : work[g].inst = i => g = i

\* One goroutine rebuilds an instance, in the time in which nobody else may: the exit
\* session that the instance still shows is the one it closes, or is closed.
Rebuilding == {"teardown", "again", "swap"}
RebuildsAlone ==
  \A g \in Goroutine : work[g].at \in Rebuilding =>
    /\ session[work[g].inst].cooling
    /\ \A h \in Goroutine : work[h].at \in Rebuilding /\ work[h].inst = work[g].inst => h = g
    /\ \/ session[work[g].inst].exit \notin open
       \/ work[g].at = "teardown" /\ session[work[g].inst].exit = work[g].exit

\* A round runs exactly as long as one goroutine climbs; who waits, waits for one that runs.
Climbs(g, i) == work[g].at = "ladder" /\ work[g].inst = i
RoundsAreClimbed ==
  \A i \in Inst :
    /\ session[i].round =>
         \E g \in Goroutine : Climbs(g, i) /\ (\A h \in Goroutine : Climbs(h, i) => h = g)
    /\ ~session[i].round =>
         \A g \in Goroutine : work[g].inst = i => work[g].at \notin {"ladder", "wait"}

HostInv ==
  /\ Typed /\ Numbered /\ Placed
  /\ StartsAlone /\ RebuildsAlone /\ RoundsAreClimbed /\ NoOrphan

-----------------------------------------------------------------------------
(* Records *)

\* w at another place, with another exit session, and with another end.
Placing(w, a) == [w EXCEPT !.at = a]
Moved(w, a, e) == [[w EXCEPT !.at = a] EXCEPT !.exit = e]
Sent(w, a, e, f) == [[[w EXCEPT !.at = a] EXCEPT !.exit = e] EXCEPT !.final = f]

LEMMA PlacingHolds ==
  ASSUME NEW w \in Work, NEW a \in HostPlaces
  PROVE  /\ Placing(w, a) \in Work /\ Placing(w, a).at = a
         /\ Placing(w, a).inst = w.inst /\ Placing(w, a).exit = w.exit
         /\ Placing(w, a) = Moved(w, a, w.exit) /\ Placing(w, a) = Sent(w, a, w.exit, w.final)
<1>1. /\ Placing(w, a) \in Work /\ Placing(w, a).at = a
      /\ Placing(w, a).inst = w.inst /\ Placing(w, a).exit = w.exit
  BY DEF Work, Placing
<1>2. Placing(w, a) = Moved(w, a, w.exit)
  BY DEF Work, Placing, Moved
<1>3. Placing(w, a) = Sent(w, a, w.exit, w.final)
  BY DEF Work, Placing, Sent
<1> QED BY <1>1, <1>2, <1>3

LEMMA MovedHolds ==
  ASSUME NEW w \in Work, NEW a \in HostPlaces, NEW e \in 0 .. MaxBuilds
  PROVE  /\ Moved(w, a, e) \in Work /\ Moved(w, a, e).at = a
         /\ Moved(w, a, e).inst = w.inst /\ Moved(w, a, e).exit = e
         /\ Moved(w, a, e) = Sent(w, a, e, w.final)
<1>1. /\ Moved(w, a, e) \in Work /\ Moved(w, a, e).at = a
      /\ Moved(w, a, e).inst = w.inst /\ Moved(w, a, e).exit = e
  BY DEF Work, Moved
<1>2. Moved(w, a, e) = Sent(w, a, e, w.final)
  BY DEF Work, Moved, Sent
<1> QED BY <1>1, <1>2

LEMMA SentHolds ==
  ASSUME NEW w \in Work, NEW a \in HostPlaces, NEW e \in 0 .. MaxBuilds, NEW f \in {"none", "idle", "failed"}
  PROVE  /\ Sent(w, a, e, f) \in Work /\ Sent(w, a, e, f).at = a
         /\ Sent(w, a, e, f).inst = w.inst /\ Sent(w, a, e, f).exit = e
BY DEF Work, Sent

Joined(w, a, n, e) == [w EXCEPT !.at = a, !.inst = n, !.exit = e]
JoinedAt(w, a, n) == [w EXCEPT !.at = a, !.inst = n]

LEMMA JoinedHolds ==
  ASSUME NEW w \in Work, NEW a \in HostPlaces, NEW n \in 0 .. MaxInst, NEW e \in 0 .. MaxBuilds
  PROVE  /\ Joined(w, a, n, e) \in Work /\ Joined(w, a, n, e).at = a
         /\ Joined(w, a, n, e).inst = n /\ Joined(w, a, n, e).exit = e
BY DEF Work, Joined

LEMMA BegunHolds ==
  ASSUME NEW w \in Work, NEW a \in HostPlaces, NEW n \in 0 .. MaxInst
  PROVE  /\ JoinedAt(w, a, n) \in Work /\ JoinedAt(w, a, n).at = a
         /\ JoinedAt(w, a, n).inst = n /\ JoinedAt(w, a, n).exit = w.exit
BY DEF Work, JoinedAt

\* What the invariant reads of a session's record.
Same(x, y) == /\ x.exit = y.exit /\ x.finishing = y.finishing
              /\ x.cooling = y.cooling /\ x.round = y.round

LEMMA SessionUpdates ==
  ASSUME NEW x \in Session
  PROVE  /\ \A b \in BOOLEAN : /\ [x EXCEPT !.stop = b] \in Session /\ Same([x EXCEPT !.stop = b], x)
                              /\ [x EXCEPT !.done = b] \in Session /\ Same([x EXCEPT !.done = b], x)
         /\ \A s \in States : [x EXCEPT !.state = s] \in Session /\ Same([x EXCEPT !.state = s], x)
         /\ \A n \in 0 .. 2 : [x EXCEPT !.exhausted = n] \in Session /\ Same([x EXCEPT !.exhausted = n], x)
<1>1. \A b \in BOOLEAN : /\ [x EXCEPT !.stop = b] \in Session /\ Same([x EXCEPT !.stop = b], x)
                        /\ [x EXCEPT !.done = b] \in Session /\ Same([x EXCEPT !.done = b], x)
  BY DEF Session, Same
<1>2. \A s \in States : [x EXCEPT !.state = s] \in Session /\ Same([x EXCEPT !.state = s], x)
  BY DEF Session, Same
<1>3. \A n \in 0 .. 2 : [x EXCEPT !.exhausted = n] \in Session /\ Same([x EXCEPT !.exhausted = n], x)
  BY DEF Session, Same
<1> QED BY <1>1, <1>2, <1>3

LEMMA RestingWorks == /\ Resting \in Work /\ Resting.at = "idle"
                      /\ Resting.inst = 0 /\ Resting.exit = 0
BY SessionAssumption DEF Resting, Work, HostPlaces

LEMMA BlankSessions ==
  /\ NewInstance \in Session /\ NewInstance.exit = 0 /\ ~NewInstance.finishing /\ ~NewInstance.round
  /\ Unused \in Session /\ Unused.exit = 0 /\ ~Unused.round
<1>1. NewInstance \in Session /\ NewInstance.exit = 0 /\ ~NewInstance.finishing /\ ~NewInstance.round
  BY SessionAssumption DEF NewInstance, Session, States
<1>2. Unused = [NewInstance EXCEPT !.state = "none"] /\ "none" \in States
  BY DEF Unused, States
<1>3. Unused \in Session /\ Same(Unused, NewInstance)
  BY <1>1, <1>2, SessionUpdates
<1> QED BY <1>1, <1>3 DEF Same

-----------------------------------------------------------------------------
LEMMA HostInvInit == HostSessionInit => HostInv
<1> SUFFICES ASSUME HostSessionInit PROVE HostInv
  OBVIOUS
<1> USE SessionAssumption DEF HostSessionInit
<1>1. \A g \in Goroutine : work[g] = Resting
  OBVIOUS
<1>2. \A i \in Inst : session[i] = Unused
  OBVIOUS
<1>3. session \in [Inst -> Session] /\ work \in [Goroutine -> Work]
  BY BlankSessions, RestingWorks
<1>4. Typed
  BY <1>3 DEF Typed
<1>5. Numbered /\ Placed
  BY <1>1, <1>2, BlankSessions, RestingWorks DEF Numbered, Placed, PlacedIn
<1>6. Inst \subseteq Goroutine
  BY DEF Goroutine
<1>7. StartsAlone /\ RebuildsAlone /\ RoundsAreClimbed /\ NoOrphan
  BY <1>1, <1>2, <1>6, BlankSessions, RestingWorks
     DEF StartsAlone, RebuildsAlone, Rebuilding, RoundsAreClimbed, NoOrphan
<1> QED BY <1>4, <1>5, <1>7 DEF HostInv

-----------------------------------------------------------------------------
(* Steps that hold nothing: a goroutine goes on with no exit session in its hands *)

SameHold == \A i \in Inst : Same(session'[i], session[i])

\* Goroutine g goes from a place where it holds nothing to another one.
Walks(g) ==
  /\ UNCHANGED <<instance, open, builds>> /\ stopping' \in 0 .. MaxInst
  /\ session' \in [Inst -> Session] /\ SameHold
  /\ work' = [work EXCEPT ![g] = work'[g]] /\ work'[g] \in Work
  /\ work'[g].exit <= builds /\ PlacedIn(g, work'[g], instance)
  /\ work[g].at \notin {"store", "swap", "teardown", "closing", "ladder", "wait"}
  /\ work'[g].at \notin {"build", "store", "teardown", "again", "swap", "ladder"}
  /\ work'[g].at = "wait" => session[work'[g].inst].round
  /\ \/ work'[g].inst \in {0, work[g].inst}
     \/ work'[g].inst \in Inst /\ session[work'[g].inst].exit # 0

LEMMA WalkKept ==
  ASSUME HostInv, NEW g \in Goroutine, Walks(g)
  PROVE  HostInv'
<1> USE DEF HostInv, Walks
<1>1. work \in [Goroutine -> Work] /\ work' \in [Goroutine -> Work]
  BY DEF Typed
<1>2. \A h \in Goroutine \ {g} : work'[h] = work[h]
  BY <1>1
<1>3. Inst \subseteq Goroutine
  BY DEF Goroutine
<1>4. \A h \in Goroutine : work[h].inst \in Nat /\ (work[h].at # "idle" => work[h].inst \in Inst)
  BY <1>1, SessionAssumption DEF Placed, PlacedIn, Work
<1>5. Typed'
  BY <1>1 DEF Typed
<1>6. Numbered'
  BY <1>2 DEF Numbered, SameHold, Same
<1>7. Placed'
  BY <1>2 DEF Placed, SameHold, Same
<1>8. StartsAlone'
  <2> SUFFICES ASSUME NEW i \in Inst, work'[i].at \in {"build", "store"}
               PROVE  /\ session'[i].exit = 0 /\ ~session'[i].finishing
                      /\ \A h \in Goroutine : work'[h].inst = i => h = i
    BY DEF StartsAlone
  <2>1. i # g /\ work'[i] = work[i]
    BY <1>2, <1>3
  <2>2. session[i].exit = 0 /\ ~session[i].finishing /\ \A h \in Goroutine : work[h].inst = i => h = i
    BY <2>1 DEF StartsAlone
  <2>3. work'[g].inst # i
    BY <2>1, <2>2 DEF Inst
  <2> QED BY <1>2, <2>2, <2>3 DEF SameHold, Same
<1>9. RebuildsAlone'
  <2> SUFFICES ASSUME NEW r \in Goroutine, work'[r].at \in Rebuilding
               PROVE  /\ session'[work'[r].inst].cooling
                      /\ \A h \in Goroutine : work'[h].at \in Rebuilding /\ work'[h].inst = work'[r].inst => h = r
                      /\ \/ session'[work'[r].inst].exit \notin open
                         \/ work'[r].at = "teardown" /\ session'[work'[r].inst].exit = work'[r].exit
    BY DEF RebuildsAlone
  <2>1. r # g /\ work'[r] = work[r] /\ work[r].inst \in Inst
    BY <1>2, <1>4 DEF Rebuilding
  <2>2. \A h \in Goroutine : work'[h].at \in Rebuilding => h # g /\ work'[h] = work[h]
    BY <1>2 DEF Rebuilding
  <2> QED BY <2>1, <2>2 DEF RebuildsAlone, SameHold, Same
<1>10. RoundsAreClimbed'
  <2> SUFFICES ASSUME NEW i \in Inst
               PROVE  /\ session'[i].round =>
                           \E h \in Goroutine : Climbs(h, i)' /\ (\A k \in Goroutine : Climbs(k, i)' => k = h)
                      /\ ~session'[i].round =>
                           \A h \in Goroutine : work'[h].inst = i => work'[h].at \notin {"ladder", "wait"}
    BY DEF RoundsAreClimbed
  <2>1. \A h \in Goroutine : Climbs(h, i)' <=> Climbs(h, i)
    BY <1>2 DEF Climbs
  <2>2. session'[i].round = session[i].round
    BY DEF SameHold, Same
  <2> QED BY <1>2, <2>1, <2>2 DEF RoundsAreClimbed
<1>11. NoOrphan'
  <2>1. \A h \in Goroutine : InHand(h) => InHand(h)' /\ work'[h] = work[h]
    BY <1>2 DEF InHand
  <2> QED BY <2>1 DEF NoOrphan, SameHold, Same
<1> QED BY <1>5, <1>6, <1>7, <1>8, <1>9, <1>10, <1>11

\* A step of the manager or of a session's flags, no goroutine's.
LEMMA FlagKept ==
  ASSUME HostInv, UNCHANGED <<instance, open, builds, work>>, stopping' \in 0 .. MaxInst,
         session' \in [Inst -> Session], SameHold
  PROVE  HostInv'
<1> USE DEF HostInv
<1>1. \A h \in Goroutine : work[h].at # "idle" => work[h].inst \in Inst
  BY DEF Placed, PlacedIn
<1>2. Typed' /\ Numbered' /\ Placed'
  BY DEF Typed, Numbered, Placed, SameHold, Same
<1>3. StartsAlone'
  BY DEF StartsAlone, SameHold, Same
<1>4. RebuildsAlone'
  BY <1>1 DEF RebuildsAlone, Rebuilding, SameHold, Same
<1>5. RoundsAreClimbed'
  BY DEF RoundsAreClimbed, Climbs, SameHold, Same
<1>6. NoOrphan'
  BY DEF NoOrphan, InHand, SameHold, Same
<1> QED BY <1>2, <1>3, <1>4, <1>5, <1>6

LEMMA FlagChanges ==
  ASSUME HostInv, NEW i \in Inst, NEW x \in Session, Same(x, session[i]),
         session' = [session EXCEPT ![i] = x]
  PROVE  session' \in [Inst -> Session] /\ SameHold
BY DEF HostInv, Typed, SameHold, Same

LEMMA NothingChanges == HostInv /\ UNCHANGED session => session' \in [Inst -> Session] /\ SameHold
BY DEF HostInv, Typed, SameHold, Same

Quiet == {"idle", "build", "store", "teardown", "again", "swap", "ladder"}
LEMMA GoesKept ==
  ASSUME HostInv, NEW g \in Goroutine, NEW a \in HostPlaces \ Quiet, NEW f \in {"none", "idle", "failed"},
         NEW e \in 0 .. MaxBuilds, e <= builds,
         work' = [work EXCEPT ![g] = Sent(work[g], a, e, f)],
         work[g].at \notin {"idle", "store", "swap", "teardown", "closing", "ladder", "wait"},
         a \in {"warm", "warmed", "patrol", "end"} => g \in Inst,
         a = "wait" => session[work[g].inst].round,
         UNCHANGED <<instance, open, builds>>, stopping' \in 0 .. MaxInst,
         session' \in [Inst -> Session], SameHold
  PROVE  HostInv'
<1> DEFINE w == Sent(work[g], a, e, f)
<1>1. work[g] \in Work /\ work \in [Goroutine -> Work]
  BY DEF HostInv, Typed
<1>2. w \in Work /\ w.at = a /\ w.inst = work[g].inst /\ w.exit = e
  BY <1>1, SentHolds
<1>3. work' = [work EXCEPT ![g] = w] /\ work'[g] = w
  BY <1>1
<1> HIDE DEF w
<1>4. PlacedIn(g, work[g], instance)
  BY DEF HostInv, Placed
<1>5. PlacedIn(g, w, instance)
  BY <1>2, <1>4 DEF PlacedIn, Quiet
<1> QED BY <1>2, <1>3, <1>5, WalkKept DEF Walks, Quiet

\* Goto and FinishAs are walks of this shape.
LEMMA GotoKept ==
  ASSUME HostInv, NEW g \in Goroutine, NEW a \in HostPlaces \ Quiet, Goto(g, a),
         work[g].at \notin {"idle", "store", "swap", "teardown", "closing", "ladder", "wait"},
         a \in {"warm", "warmed", "patrol", "end"} => g \in Inst,
         a = "wait" => session[work[g].inst].round,
         UNCHANGED <<instance, open, builds>>, stopping' \in 0 .. MaxInst,
         session' \in [Inst -> Session], SameHold
  PROVE  HostInv'
<1>1. work[g] \in Work /\ work[g].exit <= builds
  BY DEF HostInv, Typed, Numbered
<1>2. Placing(work[g], a) = Sent(work[g], a, work[g].exit, work[g].final)
  BY <1>1, PlacingHolds
<1>3. work' = [work EXCEPT ![g] = Sent(work[g], a, work[g].exit, work[g].final)]
  BY <1>2 DEF Goto, Placing
<1>4. work[g].exit \in 0 .. MaxBuilds /\ work[g].final \in {"none", "idle", "failed"}
  BY <1>1 DEF Work
<1> QED BY <1>1, <1>3, <1>4, GoesKept

LEMMA FinishAsKept ==
  ASSUME HostInv, NEW g \in Goroutine, NEW f \in {"idle", "failed"}, FinishAs(g, f),
         work[g].at \in {"build", "warm", "patrol", "again"}
  PROVE  HostInv'
<1>1. work[g] \in Work /\ work[g].exit <= builds /\ stopping \in 0 .. MaxInst
  BY DEF HostInv, Typed, Numbered
<1>2. work' = [work EXCEPT ![g] = Sent(work[g], "finish", work[g].exit, f)]
  <2>1. [[work[g] EXCEPT !.at = "finish"] EXCEPT !.final = f] = Sent(work[g], "finish", work[g].exit, f)
    BY <1>1 DEF Work, Sent
  <2> QED BY <2>1 DEF FinishAs
<1>3. work[g].exit \in 0 .. MaxBuilds
  BY <1>1 DEF Work
<1>4. PICK a \in HostPlaces \ Quiet : a = "finish"
  BY DEF HostPlaces, Quiet
<1>5. UNCHANGED <<instance, session, open, builds, stopping>>
  BY DEF FinishAs
<1>6. PICK e \in 0 .. MaxBuilds : e = work[g].exit /\ e <= builds
  BY <1>1, <1>3
<1>7. work' = [work EXCEPT ![g] = Sent(work[g], a, e, f)] /\ a \notin {"warm", "warmed", "patrol", "end", "wait"}
      /\ UNCHANGED <<instance, open, builds>> /\ stopping' \in 0 .. MaxInst
      /\ work[g].at \notin {"idle", "store", "swap", "teardown", "closing", "ladder", "wait"}
  BY <1>1, <1>2, <1>4, <1>5, <1>6
<1>8. session' \in [Inst -> Session] /\ SameHold
  BY <1>5, NothingChanges
<1> QED BY <1>6, <1>7, <1>8, GoesKept

\* The patrol goes on, or the dialler is done.
LEMMA ReturnWorks ==
  ASSUME HostInv, NEW g \in Goroutine, Return(g), work[g].at # "idle"
  PROVE  /\ work' = [work EXCEPT ![g] = work'[g]] /\ work'[g] \in Work
         /\ work'[g].exit <= builds /\ PlacedIn(g, work'[g], instance)
         /\ work'[g].at \in {"patrol", "idle"} /\ work'[g].inst \in {0, work[g].inst}
<1>1. work \in [Goroutine -> Work] /\ work[g].exit <= builds /\ PlacedIn(g, work[g], instance)
      /\ builds \in Nat
  BY SessionAssumption DEF HostInv, Typed, Numbered, Placed
<1>2. CASE g \in Inst
  <2> DEFINE w == Placing(work[g], "patrol")
  <2>1. work' = [work EXCEPT ![g] = w]
    BY <1>2 DEF Return, Placing
  <2>2. w \in Work /\ w.at = "patrol" /\ w.inst = work[g].inst /\ w.exit = work[g].exit
    <3>1. "patrol" \in HostPlaces
      BY DEF HostPlaces
    <3> QED BY <1>1, <3>1, PlacingHolds
  <2> HIDE DEF w
  <2> QED BY <1>1, <1>2, <2>1, <2>2 DEF PlacedIn
<1>3. CASE g \notin Inst
  <2>1. work' = [work EXCEPT ![g] = Resting]
    BY <1>3 DEF Return
  <2> QED BY <1>1, <1>3, <2>1, RestingWorks DEF PlacedIn
<1> QED BY <1>2, <1>3

LEMMA ReturnKept ==
  ASSUME HostInv, NEW g \in Goroutine, Return(g),
         work[g].at \in {"recover", "decide", "rebuild"},
         UNCHANGED <<instance, session, open, builds, stopping>>
  PROVE  HostInv'
<1>1. stopping' \in 0 .. MaxInst
  BY DEF HostInv, Typed
<1> QED BY <1>1, ReturnWorks, NothingChanges, WalkKept DEF Walks

-----------------------------------------------------------------------------
(* The steps that hold nothing, one by one *)

LEMMA ManagerKept ==
  ASSUME HostInv, StopSession \/ SetStopping
  PROVE  HostInv'
<1>1. /\ instance \in 0 .. MaxInst /\ stopping \in 0 .. MaxInst
      /\ \A i \in Inst : session[i] \in Session
  BY DEF HostInv, Typed
<1>2. CASE StopSession
  <2>1. instance \in Inst /\ stopping' = instance /\ UNCHANGED <<instance, open, builds, work>>
    BY <1>1, <1>2 DEF StopSession, Inst
  <2>2. session' = [session EXCEPT ![instance] = [session[instance] EXCEPT !.stop = TRUE]]
    BY <1>2 DEF StopSession
  <2>3. [session[instance] EXCEPT !.stop = TRUE] \in Session
        /\ Same([session[instance] EXCEPT !.stop = TRUE], session[instance])
    BY <1>1, <2>1, SessionUpdates
  <2> QED BY <1>1, <2>1, <2>2, <2>3, FlagChanges, FlagKept
<1>3. CASE SetStopping
  <2> DEFINE s == IF session[stopping].state \in {"starting", "ready"} THEN "stopping"
                  ELSE session[stopping].state
  <2>1. stopping \in Inst /\ stopping' = 0 /\ UNCHANGED <<instance, open, builds, work>>
    BY <1>1, <1>3 DEF SetStopping, Inst
  <2>2. session' = [session EXCEPT ![stopping] = [session[stopping] EXCEPT !.state = s]]
    BY <1>3 DEF SetStopping
  <2>3. s \in States
    BY <1>1, <2>1 DEF Session, States
  <2> HIDE DEF s
  <2>4. [session[stopping] EXCEPT !.state = s] \in Session
        /\ Same([session[stopping] EXCEPT !.state = s], session[stopping])
    BY <1>1, <2>1, <2>3, SessionUpdates
  <2>5. stopping' \in 0 .. MaxInst
    BY <2>1, SessionAssumption
  <2> QED BY <2>1, <2>2, <2>4, <2>5, FlagChanges, FlagKept
<1> QED BY <1>2, <1>3

LEMMA RunKept ==
  ASSUME HostInv, NEW i \in Inst, Run(i) \/ Patrol(i) \/ PatrolStopped(i),
         ~RunBuilds(i), ~RunStores(i)
  PROVE  HostInv'
<1>1. /\ i \in Goroutine /\ session[i] \in Session /\ stopping \in 0 .. MaxInst
      /\ session[i].exit <= builds
  BY DEF HostInv, Typed, Goroutine, Numbered
<1>2. work[i].at # "idle" => work[i].inst = i
  BY <1>1 DEF HostInv, Placed, PlacedIn
<1>3. CASE RunCannotBuild(i) \/ WarmStopped(i) \/ WarmFails(i) \/ PatrolStopped(i)
  BY <1>1, <1>3, FinishAsKept DEF RunCannotBuild, WarmStopped, WarmFails, PatrolStopped, Here
<1>4. CASE WarmUp(i) \/ PatrolGone(i)
  <2>1. PICK a \in {"warmed", "end"} : Goto(i, a)
    BY <1>4 DEF WarmUp, PatrolGone
  <2>2. a \in HostPlaces \ Quiet /\ a # "wait"
    BY <2>1 DEF HostPlaces, Quiet
  <2>3. work[i].at \in {"warm", "patrol"} /\ UNCHANGED <<instance, session, open, builds, stopping>>
    BY <1>4 DEF WarmUp, PatrolGone, Here
  <2> QED BY <1>1, <2>1, <2>2, <2>3, GotoKept, NothingChanges
<1>5. CASE SetReady(i)
  <2>1. session' = [session EXCEPT ![i] = [session[i] EXCEPT !.state = "ready"]] /\ "ready" \in States
    BY <1>5 DEF SetReady, States
  <2>2. session' \in [Inst -> Session] /\ SameHold
    BY <1>1, <2>1, SessionUpdates, FlagChanges
  <2>3. /\ Goto(i, "patrol") /\ work[i].at = "warmed" /\ UNCHANGED <<instance, open, builds, stopping>>
        /\ "patrol" \in HostPlaces \ Quiet
    BY <1>5 DEF SetReady, Here, HostPlaces, Quiet
  <2> QED BY <1>1, <2>2, <2>3, GotoKept
<1>6. CASE PatrolHealthy(i)
  <2>1. session' = [session EXCEPT ![i] = [session[i] EXCEPT !.exhausted = 0]] /\ 0 \in 0 .. 2
    BY <1>6 DEF PatrolHealthy
  <2>2. session' \in [Inst -> Session] /\ SameHold
    BY <1>1, <2>1, SessionUpdates, FlagChanges
  <2> QED BY <1>1, <1>6, <2>2, FlagKept DEF PatrolHealthy
<1>7. CASE RunEnds(i)
  <2>1. session' = [session EXCEPT ![i] = [session[i] EXCEPT !.done = TRUE]]
    BY <1>7 DEF RunEnds
  <2>2. session' \in [Inst -> Session] /\ SameHold
    BY <1>1, <2>1, SessionUpdates, FlagChanges
  <2> QED BY <1>1, <1>7, <2>2, FlagKept DEF RunEnds
<1>8. CASE PatrolFails(i)
  <2>1. work[i].at = "patrol" /\ UNCHANGED <<instance, session, open, builds, stopping>>
        /\ session[i].exit \in 0 .. MaxBuilds /\ work[i] \in Work
    BY <1>1, <1>8 DEF PatrolFails, Here, Session, HostInv, Typed
  <2>2. PICK a \in HostPlaces \ Quiet : a = "recover"
    BY DEF HostPlaces, Quiet
  <2>3. PICK e \in 0 .. MaxBuilds : e = session[i].exit /\ e <= builds
    BY <1>1, <2>1
  <2>4. PICK f \in {"none", "idle", "failed"} : f = work[i].final
    BY <2>1 DEF Work
  <2>5. work' = [work EXCEPT ![i] = Moved(work[i], a, e)]
    BY <1>8, <2>2, <2>3 DEF PatrolFails, Moved
  <2>6. Moved(work[i], a, e) = Sent(work[i], a, e, f)
    BY <2>1, <2>2, <2>4, MovedHolds
  <2>7. a \notin {"warm", "warmed", "patrol", "end", "wait"} /\ stopping' \in 0 .. MaxInst
        /\ work[i].at \notin {"idle", "store", "swap", "teardown", "closing", "ladder", "wait"}
        /\ UNCHANGED <<instance, open, builds>> /\ work' = [work EXCEPT ![i] = Sent(work[i], a, e, f)]
    BY <1>1, <2>1, <2>2, <2>5, <2>6
  <2>8. session' \in [Inst -> Session] /\ SameHold
    BY <2>1, NothingChanges
  <2> QED BY <1>1, <2>3, <2>7, <2>8, GoesKept
<1> QED BY <1>3, <1>4, <1>5, <1>6, <1>7, <1>8 DEF Run, Patrol

LEMMA DialKept ==
  ASSUME HostInv, NEW d \in Dialler, DialFails(d)
  PROVE  HostInv'
<1> DEFINE w == Joined(Resting, "recover", instance, session[instance].exit)
<1>1. /\ d \in Goroutine /\ d \notin Inst /\ instance \in Inst /\ stopping \in 0 .. MaxInst
      /\ session[instance] \in Session /\ session[instance].exit <= builds
      /\ work[d].at = "idle" /\ session[instance].exit # 0
      /\ UNCHANGED <<instance, session, open, builds, stopping>>
      /\ work \in [Goroutine -> Work]
  BY SessionAssumption DEF DialFails, Here, Goroutine, Inst, HostInv, Typed, Numbered
<1>2. w \in Work /\ w.at = "recover" /\ w.inst = instance /\ w.exit = session[instance].exit
  <2>1. instance \in 0 .. MaxInst /\ session[instance].exit \in 0 .. MaxBuilds
    BY <1>1 DEF Session, Inst
  <2>2. "recover" \in HostPlaces
    BY DEF HostPlaces
  <2> QED BY <2>1, <2>2, RestingWorks, JoinedHolds
<1>3. work' = [work EXCEPT ![d] = w]
  BY DEF DialFails, Joined
<1> HIDE DEF w
<1>4. work'[d] = w
  BY <1>1, <1>3
<1>5. PlacedIn(d, w, instance)
  BY <1>1, <1>2, SessionAssumption DEF PlacedIn, Inst
<1> QED BY <1>1, <1>2, <1>3, <1>4, <1>5, NothingChanges, WalkKept DEF Walks

LEMMA FinishEnds ==
  ASSUME HostInv, NEW g \in Goroutine, FinishSetsState(g)
  PROVE  HostInv'
<1>1. /\ work \in [Goroutine -> Work] /\ work[g].at = "final" /\ work[g].inst \in Inst
      /\ work[g].exit <= builds /\ PlacedIn(g, work[g], instance) /\ stopping \in 0 .. MaxInst
      /\ UNCHANGED <<instance, open, builds, stopping>> /\ builds \in Nat
      /\ session[work[g].inst] \in Session
  BY SessionAssumption DEF FinishSetsState, Here, HostInv, Typed, Numbered, Placed, PlacedIn
<1>2. session' \in [Inst -> Session] /\ SameHold
  <2>1. work[g].final \in States
    BY <1>1 DEF Work, States
  <2>2. session' = [session EXCEPT ![work[g].inst] = [session[work[g].inst] EXCEPT !.state = work[g].final]]
    BY DEF FinishSetsState
  <2> QED BY <1>1, <2>1, <2>2, SessionUpdates, FlagChanges
<1>3. CASE g \in Inst
  <2>1. Goto(g, "end") /\ "end" \in HostPlaces \ Quiet
    BY <1>3 DEF FinishSetsState, Goto, HostPlaces, Quiet
  <2> QED BY <1>1, <1>2, <1>3, <2>1, GotoKept
<1>4. CASE g \notin Inst
  <2>1. work' = [work EXCEPT ![g] = Resting] /\ work'[g] = Resting
    BY <1>1, <1>4 DEF FinishSetsState
  <2>2. PlacedIn(g, Resting, instance)
    BY <1>4, RestingWorks DEF PlacedIn
  <2>3. Resting.exit <= builds /\ Resting.inst \in {0, work[g].inst} /\ Resting \in Work
    BY <1>1, RestingWorks
  <2>4. Resting.at \notin {"build", "store", "teardown", "again", "swap", "ladder", "wait"}
    BY RestingWorks
  <2>5. work[g].at \notin {"store", "swap", "teardown", "closing", "ladder", "wait"}
    BY <1>1
  <2>6. Walks(g)
    BY <1>1, <1>2, <2>1, <2>2, <2>3, <2>4, <2>5 DEF Walks
  <2> QED BY <2>6, WalkKept
<1> QED BY <1>3, <1>4

-----------------------------------------------------------------------------
(* Parts of the invariant, for the steps that take, give or close an exit session *)

\* Only goroutine g moves, and stays with its instance or leaves it.
Alone(g) ==
  /\ work' = [work EXCEPT ![g] = work'[g]] /\ work'[g] \in Work
  /\ work'[g].exit <= builds' /\ PlacedIn(g, work'[g], instance)
  /\ work'[g].inst \in {0, work[g].inst}
  /\ work'[g].at \in {"build", "store"} => work[g].at \in {"build", "store"}
  /\ instance' = instance /\ stopping' = stopping

\* Only the session of instance i changes.
Only(i) ==
  /\ session' = [session EXCEPT ![i] = session'[i]] /\ session'[i] \in Session
  /\ session'[i].exit <= builds'

LEMMA Others ==
  ASSUME HostInv, NEW g \in Goroutine, Alone(g)
  PROVE  /\ work' \in [Goroutine -> Work]
         /\ \A h \in Goroutine \ {g} : work'[h] = work[h]
BY DEF HostInv, Typed, Alone

LEMMA OtherSessions ==
  ASSUME HostInv, NEW i \in Inst, Only(i)
  PROVE  /\ session' \in [Inst -> Session]
         /\ \A j \in Inst \ {i} : session'[j] = session[j]
BY DEF HostInv, Typed, Only

LEMMA Works ==
  ASSUME HostInv, NEW g \in Goroutine, work[g].at # "idle"
  PROVE  /\ work[g].inst \in Inst /\ work[g].inst <= instance /\ work[g].inst # 0
         /\ session[work[g].inst] \in Session /\ work[g] \in Work
         /\ PlacedIn(g, work[g], instance) /\ builds \in Nat
         /\ (work[g].at \notin {"build", "store"} => work[work[g].inst].at \notin {"build", "store"})
<1>1. PlacedIn(g, work[g], instance)
  BY DEF HostInv, Placed
<1>2. work[g].inst \in Inst /\ work[g].inst <= instance /\ work[g].inst # 0
  BY <1>1 DEF PlacedIn, Inst
<1>3. work[work[g].inst].at \in {"build", "store"} => g = work[g].inst
  BY <1>2 DEF HostInv, StartsAlone
<1> QED BY <1>1, <1>2, <1>3, SessionAssumption DEF HostInv, Typed

LEMMA TypedKept ==
  ASSUME HostInv, NEW g \in Goroutine, Alone(g), NEW i \in Inst, Only(i) \/ UNCHANGED session,
         i <= instance, builds' \in 0 .. MaxBuilds, builds <= builds', open' \subseteq 1 .. builds'
  PROVE  Typed' /\ Numbered' /\ Placed'
<1> USE DEF HostInv
<1>1. /\ work' \in [Goroutine -> Work] /\ session' \in [Inst -> Session]
      /\ \A h \in Goroutine \ {g} : work'[h] = work[h]
      /\ \A j \in Inst \ {i} : session'[j] = session[j]
      /\ session'[i].exit <= builds'
  <2>1. session[i].exit \in 0 .. MaxBuilds /\ session[i].exit <= builds /\ builds \in 0 .. MaxBuilds
    BY DEF Typed, Session, Numbered
  <2>2. session[i].exit <= builds'
    BY <2>1, SessionAssumption
  <2> QED BY <2>2, Others, OtherSessions DEF Typed, Only
<1>2. Typed'
  BY <1>1 DEF Typed, Alone
<1>3. Numbered'
  <2>1. \A h \in Goroutine : work[h].exit \in 0 .. MaxBuilds /\ work[h].exit <= builds
    BY DEF Typed, Work, Numbered
  <2>2. \A j \in Inst : session[j].exit \in 0 .. MaxBuilds /\ session[j].exit <= builds
    BY DEF Typed, Session, Numbered
  <2>3. \A n \in 0 .. MaxBuilds : n <= builds => n <= builds'
    BY SessionAssumption DEF Typed
  <2>4. \A h \in Goroutine : work'[h].exit <= builds'
    BY <1>1, <2>1, <2>3 DEF Alone
  <2>5. \A j \in Inst : session'[j].exit <= builds'
    BY <1>1, <2>2, <2>3
  <2> QED BY <2>4, <2>5 DEF Numbered
<1>4. Placed'
  <2>1. \A j \in Inst : j > instance => j # i
    BY DEF Inst, Typed
  <2> QED BY <1>1, <2>1 DEF Placed, Alone
<1> QED BY <1>2, <1>3, <1>4

LEMMA StartsKept ==
  ASSUME HostInv, NEW g \in Goroutine, Alone(g),
         NEW i \in Inst, Only(i) \/ UNCHANGED session,
         \/ session'[i].exit = session[i].exit /\ session'[i].finishing = session[i].finishing
         \/ work'[i].at \notin {"build", "store"}
  PROVE  StartsAlone'
<1> SUFFICES ASSUME NEW j \in Inst, work'[j].at \in {"build", "store"}
             PROVE  /\ session'[j].exit = 0 /\ ~session'[j].finishing
                    /\ \A h \in Goroutine : work'[h].inst = j => h = j
  BY DEF StartsAlone
<1>1. \A h \in Goroutine \ {g} : work'[h] = work[h]
  BY Others
<1>2. j \in Goroutine /\ j # 0
  BY DEF Goroutine, Inst
<1>3. work[j].at \in {"build", "store"}
  BY <1>1, <1>2 DEF Alone
<1>4. session[j].exit = 0 /\ ~session[j].finishing /\ \A h \in Goroutine : work[h].inst = j => h = j
  BY <1>3 DEF HostInv, StartsAlone
<1>5. \A h \in Goroutine : work'[h].inst = j => work[h].inst = j
  BY <1>1, <1>2 DEF Alone
<1>6. session'[j].exit = session[j].exit /\ session'[j].finishing = session[j].finishing
  BY OtherSessions
<1> QED BY <1>4, <1>5, <1>6

LEMMA RoundsKept ==
  ASSUME HostInv, NEW g \in Goroutine, Alone(g),
         NEW i \in Inst, Only(i) \/ UNCHANGED session, session'[i].round = session[i].round,
         work[g].at \notin {"ladder", "wait"}, work'[g].at \notin {"ladder", "wait"}
  PROVE  RoundsAreClimbed'
<1>1. \A h \in Goroutine \ {g} : work'[h] = work[h]
  BY Others
<1>2. \A j \in Inst : session'[j].round = session[j].round
  BY OtherSessions
<1>3. \A h \in Goroutine, j \in Inst : Climbs(h, j)' <=> Climbs(h, j)
  BY <1>1 DEF Climbs
<1>4. \A h \in Goroutine : work'[h].at \in {"ladder", "wait"} => h # g
  OBVIOUS
<1> QED BY <1>1, <1>2, <1>3, <1>4 DEF HostInv, RoundsAreClimbed

LEMMA RebuildsKept ==
  ASSUME HostInv, NEW g \in Goroutine, Alone(g),
         NEW i \in Inst, Only(i) \/ UNCHANGED session,
         \/ session'[i].cooling = session[i].cooling /\ session'[i].exit \in {0, session[i].exit}
         \/ \A h \in Goroutine \ {g} : work[h].inst = i => work[h].at \notin Rebuilding,
         work'[g].at \notin Rebuilding,
         open' \subseteq open \cup {builds + 1}
  PROVE  RebuildsAlone'
<1> SUFFICES ASSUME NEW r \in Goroutine, work'[r].at \in Rebuilding
             PROVE  /\ session'[work'[r].inst].cooling
                    /\ \A h \in Goroutine : work'[h].at \in Rebuilding /\ work'[h].inst = work'[r].inst => h = r
                    /\ \/ session'[work'[r].inst].exit \notin open'
                       \/ work'[r].at = "teardown" /\ session'[work'[r].inst].exit = work'[r].exit
  BY DEF RebuildsAlone
<1>1. \A h \in Goroutine \ {g} : work'[h] = work[h]
  BY Others
<1>2. r # g /\ work'[r] = work[r] /\ work[r].inst \in Inst
  BY <1>1, Works DEF Rebuilding
<1>3. \A h \in Goroutine : work'[h].at \in Rebuilding => work'[h] = work[h]
  BY <1>1
<1>4. session'[work[r].inst].cooling = session[work[r].inst].cooling
      /\ session'[work[r].inst].exit \in {0, session[work[r].inst].exit}
  BY <1>2, OtherSessions
<1>5. /\ session[work[r].inst].cooling
      /\ \A h \in Goroutine : work[h].at \in Rebuilding /\ work[h].inst = work[r].inst => h = r
      /\ \/ session[work[r].inst].exit \notin open
         \/ work[r].at = "teardown" /\ session[work[r].inst].exit = work[r].exit
  BY <1>2 DEF HostInv, RebuildsAlone
<1>6. 0 \notin open' /\ (session[work[r].inst].exit \notin open => session[work[r].inst].exit \notin open')
  <2>1. session[work[r].inst].exit \in 0 .. MaxBuilds /\ session[work[r].inst].exit <= builds
        /\ builds \in 0 .. MaxBuilds /\ open \subseteq 1 .. builds
    BY <1>2 DEF HostInv, Typed, Session, Numbered
  <2>2. 0 \notin open /\ builds + 1 # 0 /\ session[work[r].inst].exit # builds + 1
    BY <2>1, SessionAssumption
  <2> QED BY <2>2
<1> QED BY <1>2, <1>3, <1>4, <1>5, <1>6

-----------------------------------------------------------------------------
(* Recovery steps that hold nothing *)

LEMMA RecoverKept ==
  ASSUME HostInv, NEW g \in Goroutine,
         \/ RecoverStale(g) \/ NotExhausted(g) \/ RebuildTooSoon(g)
         \/ RecoverEnters(g) \/ RoundShared(g) \/ Exhausted(g) \/ RebuildCannotBuild(g)
  PROVE  HostInv'
<1>1. stopping \in 0 .. MaxInst
  BY DEF HostInv, Typed
<1>2. CASE RecoverStale(g) \/ NotExhausted(g) \/ RebuildTooSoon(g)
  BY <1>2, ReturnKept DEF RecoverStale, NotExhausted, RebuildTooSoon, Here
<1>3. CASE RecoverEnters(g)
  <2>1. "merge" \in HostPlaces \ Quiet
    BY DEF HostPlaces, Quiet
  <2> QED BY <1>1, <1>3, <2>1, GotoKept, NothingChanges DEF RecoverEnters, Here
<1>4. CASE RoundShared(g)
  <2>1. "wait" \in HostPlaces \ Quiet
    BY DEF HostPlaces, Quiet
  <2> QED BY <1>1, <1>4, <2>1, GotoKept, NothingChanges DEF RoundShared, Here, My
<1>5. CASE Exhausted(g)
  <2>1. "rebuild" \in HostPlaces \ Quiet
    BY DEF HostPlaces, Quiet
  <2>2. work[g].at = "decide" /\ work[g].inst \in Inst /\ session[work[g].inst] \in Session
    BY <1>5, Works DEF Exhausted, Here
  <2>3. session' = [session EXCEPT ![work[g].inst] = [session[work[g].inst] EXCEPT !.exhausted = 0]]
    BY <1>5 DEF Exhausted
  <2>4. 0 \in 0 .. 2
    OBVIOUS
  <2>5. session' \in [Inst -> Session] /\ SameHold
    BY <2>2, <2>3, <2>4, SessionUpdates, FlagChanges
  <2> QED BY <1>1, <1>5, <2>1, <2>2, <2>5, GotoKept DEF Exhausted
<1>6. CASE RebuildCannotBuild(g)
  BY <1>6, FinishAsKept DEF RebuildCannotBuild, Here
<1> QED BY <1>2, <1>3, <1>4, <1>5, <1>6

-----------------------------------------------------------------------------
(* Steps that take, give or close an exit session *)

WithExit(x, n) == [x EXCEPT !.exit = n]
Finishing(x) == [x EXCEPT !.finishing = TRUE]
Cooling(x, b) == [x EXCEPT !.cooling = b]
Round(x, b) == [x EXCEPT !.round = b]

LEMMA ExitHolds ==
  ASSUME NEW x \in Session, NEW n \in 0 .. MaxBuilds
  PROVE  /\ WithExit(x, n) \in Session /\ WithExit(x, n).exit = n
         /\ WithExit(x, n).finishing = x.finishing /\ WithExit(x, n).cooling = x.cooling
         /\ WithExit(x, n).round = x.round
BY DEF Session, WithExit

LEMMA FinishingHolds ==
  ASSUME NEW x \in Session
  PROVE  /\ Finishing(x) \in Session /\ Finishing(x).exit = x.exit
         /\ Finishing(x).cooling = x.cooling /\ Finishing(x).round = x.round
BY DEF Session, Finishing

LEMMA CoolingHolds ==
  ASSUME NEW x \in Session, NEW b \in BOOLEAN
  PROVE  /\ Cooling(x, b) \in Session /\ Cooling(x, b).cooling = b /\ Cooling(x, b).exit = x.exit
         /\ Cooling(x, b).finishing = x.finishing /\ Cooling(x, b).round = x.round
BY DEF Session, Cooling

LEMMA RoundHolds ==
  ASSUME NEW x \in Session, NEW b \in BOOLEAN
  PROVE  /\ Round(x, b) \in Session /\ Round(x, b).round = b /\ Round(x, b).exit = x.exit
         /\ Round(x, b).finishing = x.finishing /\ Round(x, b).cooling = x.cooling
BY DEF Session, Round

\* A step that gives instance i another record.
LEMMA SetsOnly ==
  ASSUME HostInv, NEW i \in Inst, NEW x \in Session, x.exit <= builds',
         session' = [session EXCEPT ![i] = x]
  PROVE  Only(i) /\ session'[i] = x /\ \A j \in Inst \ {i} : session'[j] = session[j]
BY DEF HostInv, Typed, Only

\* The first places are reached from each other only, the patrol's by the start goroutine only.
MayGo(g, a) ==
  /\ a \in {"build", "store"} => work[g].at \in {"build", "store"}
  /\ a \in {"warm", "warmed", "patrol", "end"} => g \in Inst

\* Goroutine g goes from one place to another, and has exit session e in its hands.
LEMMA Steps ==
  ASSUME HostInv, NEW g \in Goroutine, NEW a \in HostPlaces \ {"idle"}, NEW e \in 0 .. MaxBuilds,
         e <= builds', work[g].at # "idle",
         work' = [work EXCEPT ![g] = Moved(work[g], a, e)],
         MayGo(g, a), UNCHANGED <<instance, stopping>>
  PROVE  /\ Alone(g) /\ work'[g].at = a /\ work'[g].exit = e /\ work'[g].inst = work[g].inst
         /\ \A h \in Goroutine \ {g} : work'[h] = work[h]
<1> DEFINE w == Moved(work[g], a, e)
<1>1. work[g] \in Work /\ work \in [Goroutine -> Work] /\ PlacedIn(g, work[g], instance)
  BY DEF HostInv, Typed, Placed
<1>2. w \in Work /\ w.at = a /\ w.inst = work[g].inst /\ w.exit = e
  BY <1>1, MovedHolds
<1>3. work' = [work EXCEPT ![g] = w] /\ work'[g] = w
  BY <1>1
<1> HIDE DEF w
<1>4. PlacedIn(g, w, instance)
  BY <1>1, <1>2 DEF PlacedIn, MayGo
<1>5. Alone(g)
  BY <1>2, <1>3, <1>4 DEF Alone, MayGo
<1> QED BY <1>2, <1>3, <1>5, Others

\* Goto keeps what the goroutine holds.
LEMMA Goes ==
  ASSUME HostInv, NEW g \in Goroutine, NEW a \in HostPlaces \ {"idle"}, Goto(g, a),
         work[g].at # "idle", builds' = builds,
         MayGo(g, a), UNCHANGED <<instance, stopping>>
  PROVE  /\ Alone(g) /\ work'[g].at = a /\ work'[g].exit = work[g].exit
         /\ work'[g].inst = work[g].inst
         /\ \A h \in Goroutine \ {g} : work'[h] = work[h]
<1>1. work[g] \in Work /\ work[g].exit <= builds /\ work[g].exit \in 0 .. MaxBuilds
  BY DEF HostInv, Typed, Numbered, Work
<1>e. PICK e \in 0 .. MaxBuilds : e = work[g].exit /\ e <= builds'
  BY <1>1
<1>2. Placing(work[g], a) = Moved(work[g], a, e)
  BY <1>1, <1>e, PlacingHolds
<1>3. work' = [work EXCEPT ![g] = Moved(work[g], a, e)]
  BY <1>2 DEF Goto, Placing
<1>4. /\ Alone(g) /\ work'[g].at = a /\ work'[g].exit = e /\ work'[g].inst = work[g].inst
      /\ \A h \in Goroutine \ {g} : work'[h] = work[h]
  BY <1>3, <1>e, Steps
<1> QED BY <1>4, <1>e

\* What is open is still held when nobody but g moves and nothing is closed that it holds.
LEMMA OrphansKept ==
  ASSUME HostInv, NEW g \in Goroutine, \A h \in Goroutine \ {g} : work'[h] = work[h],
         UNCHANGED session,
         \A s \in open' : \/ InHand(g)' /\ work'[g].exit = s
                          \/ s \in open /\ (InHand(g) => work[g].exit # s)
  PROVE  NoOrphan'
<1> SUFFICES ASSUME NEW s \in open'
             PROVE  \/ \E i \in Inst : session'[i].exit = s /\ ~session'[i].finishing
                    \/ \E h \in Goroutine : InHand(h)' /\ work'[h].exit = s
  BY DEF NoOrphan
<1>1. CASE InHand(g)' /\ work'[g].exit = s
  BY <1>1
<1>2. CASE s \in open /\ (InHand(g) => work[g].exit # s)
  <2>1. CASE \E i \in Inst : session[i].exit = s /\ ~session[i].finishing
    BY <2>1
  <2>2. CASE \E h \in Goroutine : InHand(h) /\ work[h].exit = s
    <3>1. PICK h \in Goroutine : InHand(h) /\ work[h].exit = s
      BY <2>2
    <3>2. work'[h] = work[h] /\ InHand(h)'
      BY <1>2, <3>1 DEF InHand
    <3> QED BY <3>1, <3>2
  <2> QED BY <1>2, <2>1, <2>2 DEF HostInv, NoOrphan
<1> QED BY <1>1, <1>2

LEMMA BuiltKept ==
  ASSUME HostInv, NEW g \in Goroutine, (RunBuilds(g) /\ g \in Inst) \/ RebuildBuilds(g)
  PROVE  HostInv'
<1>1. PICK a \in {"store", "swap"} :
         Built(g, a) /\ work[g].at = (IF a = "store" THEN "build" ELSE "again")
  BY DEF RunBuilds, RebuildBuilds, Here
<1>2. /\ builds' = builds + 1 /\ builds' \in 0 .. MaxBuilds /\ builds \in Nat
      /\ open' = open \cup {builds + 1} /\ open \subseteq 1 .. builds
      /\ UNCHANGED <<instance, session, stopping>>
  BY <1>1, SessionAssumption DEF Built, HostInv, Typed
<1>3. work' = [work EXCEPT ![g] = Moved(work[g], a, builds + 1)]
  BY <1>1 DEF Built, Moved
<1>4. work[g].at # "idle" /\ a \in HostPlaces \ {"idle"} /\ (a \in {"build", "store"} => work[g].at \in {"build", "store"})
      /\ a \notin {"warm", "warmed", "patrol", "end"} /\ work[g].at \notin {"ladder", "wait"}
  BY <1>1 DEF HostPlaces
<1>n. PICK n \in 0 .. MaxBuilds : n = builds + 1 /\ n <= builds'
  BY <1>2
<1>m. MayGo(g, a)
  BY <1>4 DEF MayGo
<1>5. /\ Alone(g) /\ work'[g].at = a /\ work'[g].exit = builds + 1 /\ work'[g].inst = work[g].inst
      /\ \A h \in Goroutine \ {g} : work'[h] = work[h]
  BY <1>2, <1>3, <1>4, <1>m, <1>n, Steps
<1>i. PICK i \in Inst : i = work[g].inst
  BY <1>4, Works
<1>6. i \in Inst /\ i <= instance
  BY <1>4, <1>i, Works
<1>7. Typed' /\ Numbered' /\ Placed'
  <2>1. builds <= builds' /\ open' \subseteq 1 .. builds'
    BY <1>2
  <2> QED BY <1>2, <1>5, <1>6, <2>1, TypedKept
<1>8. StartsAlone'
  BY <1>2, <1>5, <1>6, StartsKept
<1>9. RoundsAreClimbed'
  BY <1>1, <1>2, <1>4, <1>5, <1>6, RoundsKept
<1>10. RebuildsAlone'
  <2>1. CASE a = "store"
    BY <1>2, <1>5, <1>6, <2>1, RebuildsKept DEF Rebuilding
  <2>2. CASE a = "swap"
    <3>1. \A h \in Goroutine : work'[h].at \in Rebuilding => work[h].at \in Rebuilding /\ work'[h].inst = work[h].inst
      BY <1>1, <1>5, <2>2 DEF Rebuilding
    <3> SUFFICES ASSUME NEW r \in Goroutine, work'[r].at \in Rebuilding
                 PROVE  /\ session'[work'[r].inst].cooling
                        /\ \A h \in Goroutine : work'[h].at \in Rebuilding /\ work'[h].inst = work'[r].inst => h = r
                        /\ \/ session'[work'[r].inst].exit \notin open'
                           \/ work'[r].at = "teardown" /\ session'[work'[r].inst].exit = work'[r].exit
      BY DEF RebuildsAlone
    <3>2. /\ session[work[r].inst].cooling
          /\ \A h \in Goroutine : work[h].at \in Rebuilding /\ work[h].inst = work[r].inst => h = r
          /\ \/ session[work[r].inst].exit \notin open
             \/ work[r].at = "teardown" /\ session[work[r].inst].exit = work[r].exit
      BY <3>1 DEF HostInv, RebuildsAlone
    <3>3. work[r].inst \in Inst /\ session[work[r].inst].exit <= builds /\ session[work[r].inst].exit \in Nat
      BY <3>1, Works DEF Rebuilding, HostInv, Numbered, Session
    <3>4. session[work[r].inst].exit \notin open => session[work[r].inst].exit \notin open'
      BY <1>2, <3>3
    <3>5. r # g => work'[r] = work[r]
      BY <1>5
    <3>6. r = g => work[r].at # "teardown"
      BY <1>1, <2>2
    <3> QED BY <1>2, <3>1, <3>2, <3>4, <3>5, <3>6
  <2> QED BY <2>1, <2>2
<1>11. NoOrphan'
  <2>1. ~InHand(g) /\ InHand(g)'
    BY <1>1, <1>5 DEF InHand
  <2> QED BY <1>2, <1>5, <2>1, OrphansKept
<1> QED BY <1>7, <1>8, <1>9, <1>10, <1>11 DEF HostInv

LEMMA RunStoresKept ==
  ASSUME HostInv, NEW i \in Inst, RunStores(i)
  PROVE  HostInv'
<1>1. i \in Goroutine /\ work[i].at = "store" /\ UNCHANGED <<instance, open, builds, stopping>>
      /\ Goto(i, "warm") /\ "warm" \in HostPlaces \ {"idle"}
  BY DEF RunStores, Here, Goroutine, HostPlaces
<1>m. MayGo(i, "warm") /\ work[i].at # "idle"
  BY <1>1 DEF MayGo
<1>2. /\ Alone(i) /\ work'[i].at = "warm" /\ work'[i].exit = work[i].exit /\ work'[i].inst = work[i].inst
      /\ \A h \in Goroutine \ {i} : work'[h] = work[h]
  BY <1>1, <1>m, Goes
<1>3. work[i].inst = i /\ i <= instance /\ session[i] \in Session /\ work[i] \in Work
      /\ work[i].exit \in 0 .. MaxBuilds /\ work[i].exit <= builds
  BY <1>1, Works DEF PlacedIn, Work, HostInv, Numbered
<1>4. session[i].exit = 0 /\ ~session[i].finishing /\ \A h \in Goroutine : work[h].inst = i => h = i
  BY <1>1 DEF HostInv, StartsAlone
<1> DEFINE x == WithExit(session[i], work[i].exit)
<1>5. session' = [session EXCEPT ![i] = x]
  BY DEF RunStores, WithExit
<1>6. x \in Session /\ x.exit = work[i].exit /\ x.finishing = session[i].finishing /\ x.round = session[i].round
  BY <1>3, ExitHolds
<1> HIDE DEF x
<1>8. Only(i) /\ session'[i] = x
  BY <1>1, <1>3, <1>5, <1>6, SetsOnly
<1>9. builds \in 0 .. MaxBuilds /\ open \subseteq 1 .. builds /\ builds \in Nat
  BY SessionAssumption DEF HostInv, Typed
<1>10. Typed' /\ Numbered' /\ Placed'
  BY <1>1, <1>2, <1>3, <1>8, <1>9, TypedKept
<1>11. StartsAlone'
  BY <1>1, <1>2, <1>8, StartsKept
<1>12. RebuildsAlone'
  BY <1>1, <1>2, <1>4, <1>8, RebuildsKept DEF Rebuilding
<1>13. RoundsAreClimbed'
  BY <1>1, <1>2, <1>6, <1>8, RoundsKept
<1>14. NoOrphan'
  <2>1. \A j \in Inst \ {i} : session'[j] = session[j]
    BY <1>8, OtherSessions
  <2>2. \A h \in Goroutine \ {i} : InHand(h) => InHand(h)'
    BY <1>2 DEF InHand
  <2>3. 0 \notin open
    BY <1>9
  <2> SUFFICES ASSUME NEW s \in open
               PROVE  \/ \E j \in Inst : session'[j].exit = s /\ ~session'[j].finishing
                      \/ \E h \in Goroutine : InHand(h)' /\ work'[h].exit = s
    BY <1>1 DEF NoOrphan
  <2>4. CASE s = work[i].exit
    BY <1>4, <1>6, <1>8, <2>4
  <2>5. CASE s # work[i].exit
    <3>1. \/ \E j \in Inst \ {i} : session[j].exit = s /\ ~session[j].finishing
          \/ \E h \in Goroutine \ {i} : InHand(h) /\ work[h].exit = s
      BY <1>4, <2>3, <2>5 DEF HostInv, NoOrphan
    <3> QED BY <1>2, <2>1, <2>2, <3>1
  <2> QED BY <2>4, <2>5
<1> QED BY <1>10, <1>11, <1>12, <1>13, <1>14 DEF HostInv

LEMMA FinishTakesKept ==
  ASSUME HostInv, NEW g \in Goroutine, FinishTakes(g)
  PROVE  HostInv'
<1>i. PICK i \in Inst : i = work[g].inst
  BY Works DEF FinishTakes, Here
<1>1. work[g].at = "finish" /\ UNCHANGED <<instance, open, builds, stopping>> /\ "closing" \in HostPlaces \ {"idle"}
  BY DEF FinishTakes, Here, HostPlaces
<1>2. /\ i \in Inst /\ i <= instance /\ session[i] \in Session /\ work[i].at \notin {"build", "store"}
      /\ session[i].exit \in 0 .. MaxBuilds /\ session[i].exit <= builds
  BY <1>1, <1>i, Works DEF HostInv, Numbered, Session
<1>3. work' = [work EXCEPT ![g] = Moved(work[g], "closing", session[i].exit)]
  BY <1>i DEF FinishTakes, My, Moved
<1>e. PICK e \in 0 .. MaxBuilds : e = session[i].exit /\ e <= builds'
  BY <1>1, <1>2
<1>a. PICK a \in HostPlaces \ {"idle"} : a = "closing"
  BY <1>1
<1>p. work[g].at # "idle" /\ MayGo(g, a)
      /\ UNCHANGED <<instance, stopping>> /\ work' = [work EXCEPT ![g] = Moved(work[g], a, e)]
  BY <1>1, <1>3, <1>a, <1>e DEF MayGo
<1>s. /\ Alone(g) /\ work'[g].at = a /\ work'[g].exit = e /\ work'[g].inst = work[g].inst
      /\ \A h \in Goroutine \ {g} : work'[h] = work[h]
  BY <1>e, <1>p, Steps
<1>4. /\ Alone(g) /\ work'[g].at = "closing" /\ work'[g].exit = session[i].exit /\ work'[g].inst = i
      /\ \A h \in Goroutine \ {g} : work'[h] = work[h]
  <2>1. work'[g].at = "closing" /\ work'[g].exit = session[i].exit
    BY <1>a, <1>e, <1>s
  <2>2. work'[g].inst = i
    BY <1>i, <1>s
  <2> QED BY <1>s, <2>1, <2>2
<1> DEFINE y == Finishing(session[i])
<1> DEFINE x == WithExit(y, 0)
<1>5. session' = [session EXCEPT ![i] = x]
  BY <1>i DEF FinishTakes, Finishing, WithExit
<1>6. x \in Session /\ x.exit = 0 /\ x.cooling = session[i].cooling /\ x.round = session[i].round
  <2>1. y \in Session /\ y.cooling = session[i].cooling /\ y.round = session[i].round
    BY <1>2, FinishingHolds
  <2> HIDE DEF y
  <2>2. 0 \in 0 .. MaxBuilds
    BY SessionAssumption
  <2> QED BY <2>1, <2>2, ExitHolds
<1> HIDE DEF x
<1>7. builds \in 0 .. MaxBuilds /\ open \subseteq 1 .. builds
      /\ builds \in Nat
  BY SessionAssumption DEF HostInv, Typed
<1>8. Only(i) /\ session'[i] = x
  <2>1. x.exit <= builds'
    BY <1>1, <1>6, <1>7
  <2> QED BY <1>2, <1>5, <1>6, <2>1, SetsOnly
<1>9. Typed' /\ Numbered' /\ Placed'
  BY <1>1, <1>2, <1>4, <1>7, <1>8, TypedKept
<1>10. StartsAlone'
  <2>1. i \in Goroutine /\ work'[i].at \notin {"build", "store"}
    BY <1>2, <1>4 DEF Goroutine
  <2> QED BY <1>2, <1>4, <1>8, <2>1, StartsKept
<1>11. RebuildsAlone'
  BY <1>1, <1>2, <1>4, <1>6, <1>7, <1>8, RebuildsKept DEF Rebuilding
<1>12. RoundsAreClimbed'
  BY <1>1, <1>2, <1>4, <1>6, <1>8, RoundsKept
<1>13. NoOrphan'
  <2>1. \A j \in Inst \ {i} : session'[j] = session[j]
    BY <1>2, <1>8, OtherSessions
  <2>2. \A h \in Goroutine : InHand(h) => InHand(h)' /\ work'[h] = work[h]
    BY <1>1, <1>4 DEF InHand
  <2>3. InHand(g)'
    BY <1>4 DEF InHand
  <2> SUFFICES ASSUME NEW s \in open
               PROVE  \/ \E j \in Inst : session'[j].exit = s /\ ~session'[j].finishing
                      \/ \E h \in Goroutine : InHand(h)' /\ work'[h].exit = s
    BY <1>1 DEF NoOrphan
  <2>4. CASE s = session[i].exit
    BY <1>4, <2>3, <2>4
  <2>5. CASE s # session[i].exit
    <3>1. \/ \E j \in Inst \ {i} : session[j].exit = s /\ ~session[j].finishing
          \/ \E h \in Goroutine : InHand(h) /\ work[h].exit = s
      BY <2>5 DEF HostInv, NoOrphan
    <3> QED BY <2>1, <2>2, <3>1
  <2> QED BY <2>4, <2>5
<1> QED BY <1>9, <1>10, <1>11, <1>12, <1>13 DEF HostInv

\* What a goroutine holds is closed, and it holds it no longer.
LEMMA ClosesKept ==
  ASSUME HostInv, NEW g \in Goroutine, Alone(g), open' = open \ {work[g].exit},
         UNCHANGED <<session, builds>>, work[g].at \in {"closing", "teardown", "swap"},
         work'[g].at \in {"final", "again", "patrol", "idle"},
         work'[g].at = "again" =>
           work[g].at = "teardown" /\ work'[g].inst = work[g].inst /\ work'[g].exit = work[g].exit
  PROVE  HostInv'
<1> DEFINE i == work[g].inst
<1>1. i \in Inst /\ i <= instance /\ builds \in 0 .. MaxBuilds /\ open' \subseteq 1 .. builds /\ builds \in Nat
  BY Works DEF HostInv, Typed
<1>2. \A h \in Goroutine \ {g} : work'[h] = work[h]
  BY Others
<1>3. Typed' /\ Numbered' /\ Placed'
  BY <1>1, TypedKept
<1>4. StartsAlone'
  BY <1>1, StartsKept
<1>5. RoundsAreClimbed'
  BY <1>1, RoundsKept
<1>6. RebuildsAlone'
  <2>1. CASE work'[g].at # "again"
    BY <1>1, <2>1, RebuildsKept DEF Rebuilding
  <2>2. CASE work'[g].at = "again"
    <3>1. \A h \in Goroutine : work'[h].at \in Rebuilding => work[h].at \in Rebuilding /\ work'[h].inst = work[h].inst
      BY <1>2, <2>2 DEF Rebuilding
    <3> SUFFICES ASSUME NEW r \in Goroutine, work'[r].at \in Rebuilding
                 PROVE  /\ session'[work'[r].inst].cooling
                        /\ \A h \in Goroutine : work'[h].at \in Rebuilding /\ work'[h].inst = work'[r].inst => h = r
                        /\ \/ session'[work'[r].inst].exit \notin open'
                           \/ work'[r].at = "teardown" /\ session'[work'[r].inst].exit = work'[r].exit
      BY DEF RebuildsAlone
    <3>2. /\ session[work[r].inst].cooling
          /\ \A h \in Goroutine : work[h].at \in Rebuilding /\ work[h].inst = work[r].inst => h = r
          /\ \/ session[work[r].inst].exit \notin open
             \/ work[r].at = "teardown" /\ session[work[r].inst].exit = work[r].exit
      BY <3>1 DEF HostInv, RebuildsAlone
    <3>3. r # g => work'[r] = work[r]
      BY <1>2
    <3>4. r = g => session[work[r].inst].exit \notin open'
      BY <3>2
    <3> QED BY <3>1, <3>2, <3>3, <3>4
  <2> QED BY <2>1, <2>2
<1>7. NoOrphan'
  BY <1>2, OrphansKept
<1> QED BY <1>3, <1>4, <1>5, <1>6, <1>7 DEF HostInv

LEMMA ReturnsAlone ==
  ASSUME HostInv, NEW g \in Goroutine, Return(g), work[g].at # "idle",
         UNCHANGED <<instance, builds, stopping>>
  PROVE  Alone(g) /\ work'[g].at \in {"patrol", "idle"}
BY ReturnWorks DEF Alone

LEMMA HandsClosed ==
  ASSUME HostInv, NEW g \in Goroutine, FinishCloses(g) \/ RebuildCloses(g) \/ TooLate(g)
  PROVE  HostInv'
<1>1. CASE FinishCloses(g) \/ RebuildCloses(g)
  <2>1. PICK a \in {"final", "again"} : Goto(g, a) /\ work[g].at = (IF a = "final" THEN "closing" ELSE "teardown")
    BY <1>1 DEF FinishCloses, RebuildCloses, Here
  <2>2. open' = open \ {work[g].exit} /\ UNCHANGED <<instance, session, builds, stopping>>
    BY <1>1 DEF FinishCloses, RebuildCloses
  <2>3. a \in HostPlaces \ {"idle"} /\ MayGo(g, a)
        /\ work[g].at # "idle" /\ work[g].at \in {"closing", "teardown"}
        /\ (a = "again" => work[g].at = "teardown")
    BY <2>1 DEF HostPlaces, MayGo
  <2>4. /\ Alone(g) /\ work'[g].at = a /\ work'[g].exit = work[g].exit
        /\ work'[g].inst = work[g].inst
    BY <2>1, <2>2, <2>3, Goes
  <2> QED BY <2>2, <2>3, <2>4, ClosesKept
<1>2. CASE TooLate(g)
  <2>1. work[g].at = "swap" /\ Return(g) /\ open' = open \ {work[g].exit}
        /\ UNCHANGED <<instance, session, builds, stopping>>
    BY <1>2 DEF TooLate, Here
  <2>2. Alone(g) /\ work'[g].at \in {"patrol", "idle"}
    BY <2>1, ReturnsAlone
  <2> QED BY <2>1, <2>2, ClosesKept
<1> QED BY <1>1, <1>2

LEMMA RebuildBeginsKept ==
  ASSUME HostInv, NEW g \in Goroutine, RebuildBegins(g)
  PROVE  HostInv'
<1>i. PICK i \in Inst : i = work[g].inst
  BY Works DEF RebuildBegins, Here
<1>1. work[g].at = "rebuild" /\ ~session[i].cooling /\ UNCHANGED <<instance, open, builds, stopping>>
      /\ "teardown" \in HostPlaces \ {"idle"}
  BY <1>i DEF RebuildBegins, Here, My, HostPlaces
<1>2. /\ i \in Inst /\ i <= instance /\ session[i] \in Session
      /\ session[i].exit \in 0 .. MaxBuilds /\ session[i].exit <= builds
  BY <1>1, <1>i, Works DEF HostInv, Numbered, Session
<1>3. work' = [work EXCEPT ![g] = Moved(work[g], "teardown", session[i].exit)]
  BY <1>i DEF RebuildBegins, My, Moved
<1>e. PICK e \in 0 .. MaxBuilds : e = session[i].exit /\ e <= builds'
  BY <1>1, <1>2
<1>a. PICK a \in HostPlaces \ {"idle"} : a = "teardown"
  BY <1>1
<1>p. work[g].at # "idle" /\ MayGo(g, a)
      /\ UNCHANGED <<instance, stopping>> /\ work' = [work EXCEPT ![g] = Moved(work[g], a, e)]
  BY <1>1, <1>3, <1>a, <1>e DEF MayGo
<1>s. /\ Alone(g) /\ work'[g].at = a /\ work'[g].exit = e /\ work'[g].inst = work[g].inst
      /\ \A h \in Goroutine \ {g} : work'[h] = work[h]
  BY <1>e, <1>p, Steps
<1>4. /\ Alone(g) /\ work'[g].at = "teardown" /\ work'[g].exit = session[i].exit /\ work'[g].inst = i
      /\ \A h \in Goroutine \ {g} : work'[h] = work[h]
  <2>1. work'[g].at = "teardown" /\ work'[g].exit = session[i].exit
    BY <1>a, <1>e, <1>s
  <2>2. work'[g].inst = i
    BY <1>i, <1>s
  <2> QED BY <1>s, <2>1, <2>2
<1> DEFINE x == Cooling(session[i], TRUE)
<1>5. session' = [session EXCEPT ![i] = x]
  BY <1>i DEF RebuildBegins, Cooling
<1>6. x \in Session /\ x.cooling /\ x.exit = session[i].exit /\ x.round = session[i].round
      /\ x.finishing = session[i].finishing
  BY <1>2, CoolingHolds
<1> HIDE DEF x
<1>7. builds \in 0 .. MaxBuilds /\ open \subseteq 1 .. builds
      /\ builds \in Nat
  BY SessionAssumption DEF HostInv, Typed
<1>8. Only(i) /\ session'[i] = x
  BY <1>1, <1>2, <1>5, <1>6, <1>7, SetsOnly
<1>9. \A j \in Inst \ {i} : session'[j] = session[j]
  BY <1>2, <1>8, OtherSessions
<1>10. Typed' /\ Numbered' /\ Placed'
  BY <1>1, <1>2, <1>4, <1>7, <1>8, TypedKept
<1>11. StartsAlone'
  BY <1>2, <1>4, <1>6, <1>7, <1>8, StartsKept
<1>12. RoundsAreClimbed'
  BY <1>1, <1>2, <1>4, <1>6, <1>8, RoundsKept
<1>13. RebuildsAlone'
  <2>1. \A h \in Goroutine : work[h].inst = i => work[h].at \notin Rebuilding
    BY <1>1 DEF HostInv, RebuildsAlone
  <2> SUFFICES ASSUME NEW r \in Goroutine, work'[r].at \in Rebuilding
               PROVE  /\ session'[work'[r].inst].cooling
                      /\ \A h \in Goroutine : work'[h].at \in Rebuilding /\ work'[h].inst = work'[r].inst => h = r
                      /\ \/ session'[work'[r].inst].exit \notin open'
                         \/ work'[r].at = "teardown" /\ session'[work'[r].inst].exit = work'[r].exit
    BY DEF RebuildsAlone
  <2>2. CASE r = g
    BY <1>4, <1>6, <1>8, <2>1, <2>2
  <2>3. CASE r # g
    <3>1. work'[r] = work[r] /\ work[r].at \in Rebuilding /\ work[r].inst # i /\ work[r].inst \in Inst
      BY <1>4, <2>1, <2>3, Works DEF Rebuilding
    <3>2. /\ session[work[r].inst].cooling
          /\ \A h \in Goroutine : work[h].at \in Rebuilding /\ work[h].inst = work[r].inst => h = r
          /\ \/ session[work[r].inst].exit \notin open
             \/ work[r].at = "teardown" /\ session[work[r].inst].exit = work[r].exit
      BY <3>1 DEF HostInv, RebuildsAlone
    <3> QED BY <1>1, <1>4, <1>9, <3>1, <3>2
  <2> QED BY <2>2, <2>3
<1>14. NoOrphan'
  <2>1. \A h \in Goroutine : InHand(h) => InHand(h)' /\ work'[h] = work[h]
    BY <1>1, <1>4 DEF InHand
  <2>2. \A j \in Inst : session'[j].exit = session[j].exit /\ session'[j].finishing = session[j].finishing
    BY <1>6, <1>8, <1>9
  <2> QED BY <1>1, <2>1, <2>2 DEF HostInv, NoOrphan
<1> QED BY <1>10, <1>11, <1>12, <1>13, <1>14 DEF HostInv

LEMMA SwapsKept ==
  ASSUME HostInv, NEW g \in Goroutine, Swaps(g)
  PROVE  HostInv'
<1>i. PICK i \in Inst : i = work[g].inst
  BY Works DEF Swaps, Here
<1>1. work[g].at = "swap" /\ ~session[i].finishing /\ Return(g) /\ UNCHANGED <<instance, open, builds, stopping>>
  BY <1>i DEF Swaps, Here, My
<1>2. /\ i \in Inst /\ i <= instance /\ session[i] \in Session /\ work[i].at \notin {"build", "store"}
      /\ work[g].exit \in 0 .. MaxBuilds /\ work[g].exit <= builds
  BY <1>1, <1>i, Works DEF HostInv, Numbered, Work
<1>3. Alone(g) /\ work'[g].at \in {"patrol", "idle"}
  BY <1>1, ReturnsAlone
<1>4. \A h \in Goroutine \ {g} : work'[h] = work[h]
  BY <1>3, Others
<1> DEFINE x == WithExit(session[i], work[g].exit)
<1>5. session' = [session EXCEPT ![i] = x]
  BY <1>i DEF Swaps, WithExit
<1>6. x \in Session /\ x.exit = work[g].exit /\ x.round = session[i].round
      /\ x.finishing = session[i].finishing
  BY <1>2, ExitHolds
<1> HIDE DEF x
<1>7. builds \in 0 .. MaxBuilds /\ open \subseteq 1 .. builds
      /\ builds \in Nat
  BY SessionAssumption DEF HostInv, Typed
<1>8. Only(i) /\ session'[i] = x
  BY <1>1, <1>2, <1>5, <1>6, <1>7, SetsOnly
<1>9. \A j \in Inst \ {i} : session'[j] = session[j]
  BY <1>2, <1>8, OtherSessions
<1>10. session[i].exit \notin open /\ \A h \in Goroutine \ {g} : work[h].inst = i => work[h].at \notin Rebuilding
  BY <1>1, <1>i DEF HostInv, RebuildsAlone, Rebuilding
<1>11. Typed' /\ Numbered' /\ Placed'
  BY <1>1, <1>2, <1>3, <1>7, <1>8, TypedKept
<1>12. StartsAlone'
  <2>1. work'[i].at \notin {"build", "store"}
    BY <1>2, <1>3, <1>4 DEF Goroutine
  <2> QED BY <1>2, <1>3, <1>8, <2>1, StartsKept
<1>13. RoundsAreClimbed'
  BY <1>1, <1>2, <1>3, <1>6, <1>7, <1>8, RoundsKept
<1>14. RebuildsAlone'
  BY <1>1, <1>2, <1>3, <1>8, <1>10, RebuildsKept DEF Rebuilding
<1>15. NoOrphan'
  <2>1. \A h \in Goroutine \ {g} : InHand(h) => InHand(h)' /\ work'[h] = work[h]
    BY <1>4 DEF InHand
  <2> SUFFICES ASSUME NEW s \in open
               PROVE  \/ \E j \in Inst : session'[j].exit = s /\ ~session'[j].finishing
                      \/ \E h \in Goroutine : InHand(h)' /\ work'[h].exit = s
    BY <1>1 DEF NoOrphan
  <2>2. CASE s = work[g].exit
    BY <1>1, <1>2, <1>6, <1>8, <1>i, <2>2
  <2>3. CASE s # work[g].exit
    <3>1. \/ \E j \in Inst \ {i} : session[j].exit = s /\ ~session[j].finishing
          \/ \E h \in Goroutine \ {g} : InHand(h) /\ work[h].exit = s
      BY <1>10, <2>3 DEF HostInv, NoOrphan
    <3> QED BY <1>9, <2>1, <3>1
  <2> QED BY <2>2, <2>3
<1> QED BY <1>11, <1>12, <1>13, <1>14, <1>15 DEF HostInv

LEMMA CooldownKept ==
  ASSUME HostInv, NEW i \in Inst, CooldownEnds(i)
  PROVE  HostInv'
<1> DEFINE x == Cooling(session[i], FALSE)
<1>1. /\ UNCHANGED <<instance, open, builds, work, stopping>> /\ session' = [session EXCEPT ![i] = x]
      /\ \A g \in Goroutine : work[g].inst = i => work[g].at \notin Rebuilding
      /\ session[i] \in Session
  BY DEF CooldownEnds, Cooling, Rebuilding, HostInv, Typed
<1>2. x \in Session /\ x.exit = session[i].exit /\ x.round = session[i].round
      /\ x.finishing = session[i].finishing
  BY <1>1, CoolingHolds
<1> HIDE DEF x
<1>3. /\ session' \in [Inst -> Session]
      /\ \A j \in Inst \ {i} : session'[j] = session[j]
      /\ \A j \in Inst : /\ session'[j].exit = session[j].exit /\ session'[j].round = session[j].round
                         /\ session'[j].finishing = session[j].finishing
  BY <1>1, <1>2 DEF HostInv, Typed
<1>4. Typed'
  BY <1>1, <1>3 DEF HostInv, Typed
<1>5. Numbered' /\ Placed'
  BY <1>1, <1>3 DEF HostInv, Numbered, Placed
<1>6. StartsAlone'
  BY <1>1, <1>3 DEF HostInv, StartsAlone
<1>7. RebuildsAlone'
  <2>1. \A r \in Goroutine : work[r].at \in Rebuilding => work[r].inst \in Inst \ {i}
    BY <1>1, Works DEF Rebuilding
  <2> QED BY <1>1, <1>3, <2>1 DEF HostInv, RebuildsAlone
<1>8. RoundsAreClimbed'
  BY <1>1, <1>3 DEF HostInv, RoundsAreClimbed, Climbs
<1>9. NoOrphan'
  BY <1>1, <1>3 DEF HostInv, NoOrphan, InHand
<1> QED BY <1>4, <1>5, <1>6, <1>7, <1>8, <1>9 DEF HostInv

-----------------------------------------------------------------------------
(* The manager starts another instance *)

LEMMA StartKept ==
  ASSUME HostInv, StartSession
  PROVE  HostInv'
<1>1. PICK n \in Inst : n = instance + 1
  BY DEF StartSession
<1>2. /\ instance' = n /\ UNCHANGED <<open, builds, stopping>> /\ n \in Goroutine /\ n # 0
      /\ instance \in 0 .. MaxInst /\ n > instance /\ n \in 0 .. MaxInst
  BY <1>1 DEF StartSession, HostInv, Typed, Goroutine, Inst
<1> DEFINE w == JoinedAt(Resting, "build", n)
<1>3. session' = [session EXCEPT ![n] = NewInstance] /\ work' = [work EXCEPT ![n] = w]
  BY <1>1 DEF StartSession, JoinedAt
<1>4. w \in Work /\ w.at = "build" /\ w.inst = n /\ w.exit = 0
  <2>1. "build" \in HostPlaces
    BY DEF HostPlaces
  <2> QED BY <1>2, <2>1, RestingWorks, BegunHolds
<1> HIDE DEF w
<1>5. /\ session' \in [Inst -> Session] /\ work' \in [Goroutine -> Work]
      /\ session'[n] = NewInstance /\ work'[n] = w
      /\ \A i \in Inst \ {n} : session'[i] = session[i]
      /\ \A g \in Goroutine \ {n} : work'[g] = work[g]
  BY <1>2, <1>3, <1>4, BlankSessions DEF HostInv, Typed
<1>6. \A g \in Goroutine : work[g].inst # n /\ (work[g].at # "idle" => g # n /\ work[g].inst \in Inst)
  <2> SUFFICES ASSUME NEW g \in Goroutine
               PROVE  work[g].inst # n /\ (work[g].at # "idle" => g # n /\ work[g].inst \in Inst)
    OBVIOUS
  <2>1. PlacedIn(g, work[g], instance)
    BY DEF HostInv, Placed
  <2> QED BY <1>2, <2>1 DEF PlacedIn
<1>7. Typed'
  BY <1>2, <1>5 DEF HostInv, Typed
<1>8. builds \in Nat /\ 0 \notin open /\ session[n].exit = 0
  BY <1>2, SessionAssumption DEF HostInv, Typed, Placed
<1>9. Numbered'
  BY <1>2, <1>4, <1>5, <1>8, BlankSessions DEF HostInv, Numbered
<1>10. Placed'
  <2>1. \A i \in Inst : i > n => i > instance /\ i # n
    BY <1>1, <1>2 DEF Inst
  <2>2. PlacedIn(n, w, n)
    BY <1>2, <1>4 DEF PlacedIn
  <2>3. \A g \in Goroutine : PlacedIn(g, work[g], n)
    <3> SUFFICES ASSUME NEW g \in Goroutine PROVE PlacedIn(g, work[g], n)
      OBVIOUS
    <3>1. PlacedIn(g, work[g], instance) /\ work[g] \in Work
      BY DEF HostInv, Placed, Typed
    <3>2. work[g].inst <= instance => work[g].inst <= n
      BY <1>1, <1>2, <3>1, SessionAssumption DEF Work
    <3> QED BY <3>1, <3>2 DEF PlacedIn
  <2>4. \A i \in Inst : i > n => session'[i].exit = 0
    BY <1>5, <2>1 DEF HostInv, Placed
  <2>5. \A g \in Goroutine : PlacedIn(g, work'[g], n)
    BY <1>5, <2>2, <2>3
  <2> QED BY <1>2, <2>4, <2>5 DEF Placed
<1>11. StartsAlone'
  <2> SUFFICES ASSUME NEW i \in Inst, work'[i].at \in {"build", "store"}
               PROVE  /\ session'[i].exit = 0 /\ ~session'[i].finishing
                      /\ \A h \in Goroutine : work'[h].inst = i => h = i
    BY DEF StartsAlone
  <2>1. CASE i = n
    BY <1>5, <1>6, <2>1, BlankSessions
  <2>2. CASE i # n
    <3>1. i \in Goroutine /\ work'[i] = work[i] /\ session'[i] = session[i]
      BY <1>5, <2>2 DEF Goroutine
    <3> QED BY <1>4, <1>5, <2>2, <3>1 DEF HostInv, StartsAlone
  <2> QED BY <2>1, <2>2
<1>12. RebuildsAlone'
  <2>1. \A r \in Goroutine : work'[r].at \in Rebuilding =>
           work'[r] = work[r] /\ work[r].inst \in Inst /\ session'[work[r].inst] = session[work[r].inst]
    BY <1>4, <1>5, <1>6 DEF Rebuilding
  <2> QED BY <1>2, <2>1 DEF HostInv, RebuildsAlone
<1>13. RoundsAreClimbed'
  <2> SUFFICES ASSUME NEW i \in Inst
               PROVE  /\ session'[i].round =>
                           \E h \in Goroutine : Climbs(h, i)' /\ (\A k \in Goroutine : Climbs(k, i)' => k = h)
                      /\ ~session'[i].round =>
                           \A h \in Goroutine : work'[h].inst = i => work'[h].at \notin {"ladder", "wait"}
    BY DEF RoundsAreClimbed
  <2>1. CASE i = n
    BY <1>4, <1>5, <1>6, <2>1, BlankSessions
  <2>2. CASE i # n
    <3>1. session'[i] = session[i]
      BY <1>5, <2>2
    <3>2. work[n].at = "idle"
      BY <1>2, <1>6
    <3>3. \A h \in Goroutine : Climbs(h, i)' <=> Climbs(h, i)
      BY <1>4, <1>5, <3>2 DEF Climbs
    <3>4. \A h \in Goroutine : work'[h].inst = i => work'[h] = work[h]
      BY <1>4, <1>5, <2>2
    <3> QED BY <3>1, <3>3, <3>4 DEF HostInv, RoundsAreClimbed
  <2> QED BY <2>1, <2>2
<1>14. NoOrphan'
  <2>1. \A h \in Goroutine : InHand(h) => InHand(h)' /\ work'[h] = work[h]
    BY <1>5, <1>6 DEF InHand
  <2>2. \A i \in Inst : session[i].exit \in open => session'[i] = session[i]
    BY <1>5, <1>8
  <2> QED BY <1>2, <2>1, <2>2 DEF HostInv, NoOrphan
<1> QED BY <1>7, <1>9, <1>10, <1>11, <1>12, <1>13, <1>14 DEF HostInv

-----------------------------------------------------------------------------
(* A round begins and ends *)

LEMMA RoundBeginsKept ==
  ASSUME HostInv, NEW g \in Goroutine, RoundBegins(g)
  PROVE  HostInv'
<1>i. PICK i \in Inst : i = work[g].inst
  BY Works DEF RoundBegins, Here
<1>1. work[g].at = "merge" /\ ~session[i].round /\ Goto(g, "ladder") /\ UNCHANGED <<instance, open, builds, stopping>>
  BY <1>i DEF RoundBegins, Here, My
<1>2. /\ i <= instance /\ session[i] \in Session /\ session[i].exit <= builds
      /\ builds \in Nat /\ builds \in 0 .. MaxBuilds /\ open \subseteq 1 .. builds
  BY <1>1, <1>i, Works DEF HostInv, Numbered, Typed
<1>a. PICK a \in HostPlaces \ {"idle"} : a = "ladder"
  BY DEF HostPlaces
<1>p. Goto(g, a) /\ MayGo(g, a) /\ work[g].at # "idle"
  BY <1>1, <1>a DEF MayGo
<1>3. /\ Alone(g) /\ work'[g].at = "ladder" /\ work'[g].inst = i
      /\ \A h \in Goroutine \ {g} : work'[h] = work[h]
  BY <1>1, <1>a, <1>i, <1>p, Goes
<1> DEFINE x == Round(session[i], TRUE)
<1>4. session' = [session EXCEPT ![i] = x]
  BY <1>i DEF RoundBegins, Round
<1>5. x \in Session /\ x.round /\ x.exit = session[i].exit /\ x.finishing = session[i].finishing
      /\ x.cooling = session[i].cooling
  BY <1>2, RoundHolds
<1> HIDE DEF x
<1>6. Only(i) /\ session'[i] = x /\ \A j \in Inst \ {i} : session'[j] = session[j]
  BY <1>1, <1>2, <1>4, <1>5, SetsOnly
<1>7. Typed' /\ Numbered' /\ Placed'
  BY <1>1, <1>2, <1>3, <1>6, TypedKept
<1>8. StartsAlone'
  BY <1>3, <1>5, <1>6, StartsKept
<1>9. RebuildsAlone'
  BY <1>1, <1>3, <1>5, <1>6, RebuildsKept DEF Rebuilding
<1>10. RoundsAreClimbed'
  <2> SUFFICES ASSUME NEW j \in Inst
               PROVE  /\ session'[j].round =>
                           \E h \in Goroutine : Climbs(h, j)' /\ (\A k \in Goroutine : Climbs(k, j)' => k = h)
                      /\ ~session'[j].round =>
                           \A h \in Goroutine : work'[h].inst = j => work'[h].at \notin {"ladder", "wait"}
    BY DEF RoundsAreClimbed
  <2>1. CASE j = i
    <3>1. \A h \in Goroutine : work[h].inst = i => work[h].at \notin {"ladder", "wait"}
      BY <1>1 DEF HostInv, RoundsAreClimbed
    <3>2. Climbs(g, i)' /\ \A k \in Goroutine : Climbs(k, i)' => k = g
      BY <1>3, <3>1 DEF Climbs
    <3> QED BY <1>5, <1>6, <2>1, <3>2
  <2>2. CASE j # i
    <3>1. session'[j] = session[j]
      BY <1>6, <2>2
    <3>2. \A h \in Goroutine : work'[h].inst = j => work'[h] = work[h]
      BY <1>3, <2>2
    <3>3. \A h \in Goroutine : Climbs(h, j)' <=> Climbs(h, j)
      BY <1>1, <1>3, <2>2 DEF Climbs
    <3> QED BY <3>1, <3>2, <3>3 DEF HostInv, RoundsAreClimbed
  <2> QED BY <2>1, <2>2
<1>11. NoOrphan'
  <2>1. \A h \in Goroutine : InHand(h) => InHand(h)' /\ work'[h] = work[h]
    BY <1>1, <1>3 DEF InHand
  <2>2. \A j \in Inst : session'[j].exit = session[j].exit /\ session'[j].finishing = session[j].finishing
    BY <1>5, <1>6
  <2> QED BY <1>1, <2>1, <2>2 DEF HostInv, NoOrphan
<1> QED BY <1>7, <1>8, <1>9, <1>10, <1>11 DEF HostInv

\* Whoever climbed or waited for the round of g goes on to decide, all others stay.
LEMMA RoundEndsKept ==
  ASSUME HostInv, NEW g \in Goroutine, NEW recovered \in BOOLEAN, RoundEnds(g, recovered)
  PROVE  HostInv'
<1>i. PICK i \in Inst : i = work[g].inst
  BY Works DEF RoundEnds, Here
<1>1. work[g].at = "ladder" /\ UNCHANGED <<instance, open, builds, stopping>>
  BY DEF RoundEnds, Here
<1>2. /\ session[i] \in Session /\ session \in [Inst -> Session] /\ work \in [Goroutine -> Work]
      /\ \A h \in Goroutine : Climbs(h, i) => h = g
  BY <1>1, <1>i DEF HostInv, Typed, RoundsAreClimbed, Climbs
<1> DEFINE y == Round(session[i], FALSE)
<1> DEFINE n == IF recovered THEN 0
                ELSE IF session[i].exhausted < 2 THEN session[i].exhausted + 1 ELSE session[i].exhausted
<1> DEFINE x == [y EXCEPT !.exhausted = n]
<1>3. session' = [session EXCEPT ![i] = x]
  BY <1>i, <1>2 DEF RoundEnds, Round, Session
<1>4. x \in Session /\ ~x.round /\ x.exit = session[i].exit /\ x.finishing = session[i].finishing
      /\ x.cooling = session[i].cooling
  <2>1. n \in 0 .. 2
    BY <1>2 DEF Session
  <2>2. /\ y \in Session /\ ~y.round /\ y.exit = session[i].exit /\ y.finishing = session[i].finishing
        /\ y.cooling = session[i].cooling
    BY <1>2, RoundHolds
  <2> HIDE DEF n, y
  <2> QED BY <2>1, <2>2, SessionUpdates DEF Same
<1> HIDE DEF x
<1>5. /\ session' \in [Inst -> Session] /\ session'[i] = x
      /\ \A j \in Inst \ {i} : session'[j] = session[j]
      /\ \A j \in Inst : /\ session'[j].exit = session[j].exit /\ session'[j].cooling = session[j].cooling
                         /\ session'[j].finishing = session[j].finishing
  BY <1>2, <1>3, <1>4
<1>6. /\ work' \in [Goroutine -> Work]
      /\ \A h \in Goroutine : work'[h].inst = work[h].inst /\ work'[h].exit = work[h].exit
      /\ \A h \in Goroutine : \/ work'[h] = work[h]
                              \/ work'[h].at = "decide" /\ work[h].at \in {"ladder", "wait"} /\ work[h].inst = i
      /\ \A h \in Goroutine : work'[h].inst = i => work'[h].at \notin {"ladder", "wait"}
  <2> DEFINE Decides(h) == Placing(work[h], "decide")
  <2>1. \A h \in Goroutine : /\ Decides(h) \in Work /\ Decides(h).at = "decide"
                             /\ Decides(h).inst = work[h].inst /\ Decides(h).exit = work[h].exit
    <3>1. "decide" \in HostPlaces
      BY DEF HostPlaces
    <3>2. \A h \in Goroutine : work[h] \in Work
      BY <1>2
    <3> QED BY <3>1, <3>2, PlacingHolds
  <2>2. \A h \in Goroutine : (h = g \/ h \in Waiters(g)) =>
          work'[h] = Decides(h) /\ work[h].at \in {"ladder", "wait"} /\ work[h].inst = i
    BY <1>i, <1>1 DEF RoundEnds, Waiters, Here, Placing
  <2>3. \A h \in Goroutine : ~(h = g \/ h \in Waiters(g)) =>
          work'[h] = work[h] /\ (work[h].inst = i => work[h].at \notin {"ladder", "wait"})
    BY <1>i, <1>2 DEF RoundEnds, Waiters, Here, Climbs
  <2> HIDE DEF Decides
  <2>4. work' = [h \in Goroutine |-> work'[h]] /\ \A h \in Goroutine : work'[h] \in Work
    <3>1. work' = [h \in Goroutine |-> work'[h]]
      BY DEF RoundEnds
    <3>2. \A h \in Goroutine : work'[h] \in Work
      BY <1>2, <2>1, <2>2, <2>3
    <3> QED BY <3>1, <3>2
  <2>5. work' \in [Goroutine -> Work]
    BY <2>4
  <2>6. \A h \in Goroutine : work'[h].inst = work[h].inst /\ work'[h].exit = work[h].exit
    BY <2>1, <2>2, <2>3
  <2>7. \A h \in Goroutine : \/ work'[h] = work[h]
                             \/ work'[h].at = "decide" /\ work[h].at \in {"ladder", "wait"} /\ work[h].inst = i
    BY <2>1, <2>2, <2>3
  <2>8. \A h \in Goroutine : work'[h].inst = i => work'[h].at \notin {"ladder", "wait"}
    <3>1. \A h \in Goroutine : (h = g \/ h \in Waiters(g)) => work'[h].at = "decide"
      BY <2>1, <2>2
    <3> QED BY <2>3, <3>1
  <2> QED BY <2>5, <2>6, <2>7, <2>8
<1>7. Typed'
  BY <1>1, <1>5, <1>6 DEF HostInv, Typed
<1>8. Numbered'
  BY <1>1, <1>5, <1>6 DEF HostInv, Numbered
<1>9. Placed'
  <2>1. \A h \in Goroutine : PlacedIn(h, work'[h], instance)
    <3> SUFFICES ASSUME NEW h \in Goroutine PROVE PlacedIn(h, work'[h], instance)
      OBVIOUS
    <3>1. PlacedIn(h, work[h], instance)
      BY DEF HostInv, Placed
    <3>2. \/ work'[h] = work[h]
          \/ work'[h].at = "decide" /\ work[h].at \in {"ladder", "wait"} /\ work'[h].inst = work[h].inst
      BY <1>6
    <3> QED BY <3>1, <3>2 DEF PlacedIn
  <2> QED BY <1>1, <1>5, <2>1 DEF HostInv, Placed
<1>10. StartsAlone'
  <2>1. \A j \in Inst : work'[j].at \in {"build", "store"} => work[j].at \in {"build", "store"}
    BY <1>6 DEF Goroutine
  <2> QED BY <1>5, <1>6, <2>1 DEF HostInv, StartsAlone
<1>11. RebuildsAlone'
  <2>1. \A h \in Goroutine : work'[h].at \in Rebuilding => work'[h] = work[h] /\ work[h].inst \in Inst
    BY <1>6, Works DEF Rebuilding
  <2> QED BY <1>1, <1>5, <2>1 DEF HostInv, RebuildsAlone
<1>12. RoundsAreClimbed'
  <2> SUFFICES ASSUME NEW j \in Inst
               PROVE  /\ session'[j].round =>
                           \E h \in Goroutine : Climbs(h, j)' /\ (\A k \in Goroutine : Climbs(k, j)' => k = h)
                      /\ ~session'[j].round =>
                           \A h \in Goroutine : work'[h].inst = j => work'[h].at \notin {"ladder", "wait"}
    BY DEF RoundsAreClimbed
  <2>1. CASE j = i
    BY <1>4, <1>5, <1>6, <2>1
  <2>2. CASE j # i
    <3>1. session'[j] = session[j]
      BY <1>5, <2>2
    <3>2. \A h \in Goroutine : work'[h].inst = j => work'[h] = work[h]
      BY <1>6, <2>2
    <3>3. \A h \in Goroutine : Climbs(h, j)' <=> Climbs(h, j)
      BY <1>6, <2>2 DEF Climbs
    <3> QED BY <3>1, <3>2, <3>3 DEF HostInv, RoundsAreClimbed
  <2> QED BY <2>1, <2>2
<1>13. NoOrphan'
  <2>1. \A h \in Goroutine : InHand(h) => InHand(h)' /\ work'[h] = work[h]
    BY <1>6 DEF InHand
  <2> QED BY <1>1, <1>5, <2>1 DEF HostInv, NoOrphan
<1> QED BY <1>7, <1>8, <1>9, <1>10, <1>11, <1>12, <1>13 DEF HostInv

-----------------------------------------------------------------------------
LEMMA HostInvStep == HostInv /\ [HostSessionNext]_hostSessionVars => HostInv'
<1> SUFFICES ASSUME HostInv, [HostSessionNext]_hostSessionVars PROVE HostInv'
  OBVIOUS
<1>1. CASE StartSession
  BY <1>1, StartKept
<1>2. CASE StopSession \/ SetStopping
  BY <1>2, ManagerKept
<1>3. ASSUME NEW i \in Inst, Run(i) \/ Patrol(i) \/ PatrolStopped(i) \/ CooldownEnds(i)
      PROVE  HostInv'
  <2>1. i \in Goroutine
    BY DEF Goroutine
  <2> QED BY <1>3, <2>1, RunKept, BuiltKept, RunStoresKept, CooldownKept
<1>4. ASSUME NEW d \in Dialler, DialFails(d)
      PROVE  HostInv'
  BY <1>4, DialKept
<1>5. ASSUME NEW g \in Goroutine, Recovery(g)
      PROVE  HostInv'
  BY <1>5, RecoverKept, RoundBeginsKept, RoundEndsKept, RebuildBeginsKept, HandsClosed,
     BuiltKept, SwapsKept DEF Recovery
<1>6. ASSUME NEW g \in Goroutine, Finish(g)
      PROVE  HostInv'
  BY <1>6, FinishTakesKept, HandsClosed, FinishEnds DEF Finish
<1>7. CASE UNCHANGED hostSessionVars
  BY <1>7, NothingChanges, FlagKept DEF hostSessionVars, HostInv, Typed
<1> QED BY <1>1, <1>2, <1>3, <1>4, <1>5, <1>6, <1>7 DEF HostSessionNext

\* The inductive invariant: whoever holds an exit session is known, one goroutine climbs a
\* round and one rebuilds (service.go: rebuildSession, recoverGate).
THEOREM HostInvHolds == HostSessionSpec => []HostInv
BY HostInvInit, HostInvStep, PTL DEF HostSessionSpec

LEMMA HostTypes == HostInv => HostSessionTypeOK
BY DEF HostInv, Typed, HostSessionTypeOK, Session, States, Work, HostPlaces

\* The variables of the session, the manager and the goroutines keep their types.
THEOREM HostTypesHold == HostSessionSpec => []HostSessionTypeOK
BY HostTypes, HostInvHolds, PTL

LEMMA OneClimbs == HostInv => OneRoundAtATime
<1> SUFFICES ASSUME HostInv, NEW i \in Inst
             PROVE  /\ Cardinality({g \in Goroutine : Here(g, "ladder") /\ work[g].inst = i}) =
                         (IF session[i].round THEN 1 ELSE 0)
                    /\ (\E g \in Goroutine : Here(g, "wait") /\ work[g].inst = i) => session[i].round
  BY DEF OneRoundAtATime
<1> DEFINE climbers == {g \in Goroutine : Here(g, "ladder") /\ work[g].inst = i}
<1>1. session[i].round \in BOOLEAN
  BY DEF HostInv, Typed, Session
<1>2. CASE session[i].round
  <2>1. PICK g \in Goroutine : Climbs(g, i) /\ \A h \in Goroutine : Climbs(h, i) => h = g
    BY <1>2 DEF HostInv, RoundsAreClimbed
  <2>2. climbers = {g}
    BY <2>1 DEF Climbs, Here
  <2> QED BY <1>2, <2>2, FS_Singleton
<1>3. CASE ~session[i].round
  <2>1. \A h \in Goroutine : work[h].inst = i => work[h].at \notin {"ladder", "wait"}
    BY <1>3 DEF HostInv, RoundsAreClimbed
  <2>2. climbers = {} /\ ~\E g \in Goroutine : Here(g, "wait") /\ work[g].inst = i
    BY <2>1 DEF Here
  <2> QED BY <1>3, <2>2, FS_EmptySet
<1> QED BY <1>2, <1>3

\* A host's instance has one exit session and one round of recovery at a time: no exit session
\* is left open by a rebuild that overlaps a stop, and who waits for a round waits for one
\* that runs (service.go: finish, rebuildSession, recoverGate.merge).
THEOREM OneSessionAndRound == HostSessionSpec => []OneSessionPerHost
<1>1. HostInv => OneSessionPerHost
  BY OneClimbs DEF HostInv, OneSessionPerHost
<1> QED BY <1>1, HostInvHolds, PTL

-----------------------------------------------------------------------------
(* The import of a state directory (NodeState).                                *)

Stages == {"idle", "probing", "moving", "placing", "removing", "restoring", "leaving", "clearing"}
Outcomes == {"none", "running", "failed", "done", "killed"}
Imports == [n : 0 .. MaxImports, next : Piece, at : Stages, moved : SUBSET Piece, placed : SUBSET Piece]
Found == [before : [Piece -> Origin], disturbed : BOOLEAN, last : Outcomes]

NodeTyped ==
  /\ place \in [Piece -> Origin] /\ aside \in [1 .. MaxImports -> [Piece -> Origin]]
  /\ import \in Imports /\ seen \in Found
  /\ process \in {"none", "running"} /\ starts \in 0 .. MaxStarts
  /\ import.at # "idle" => import.n # 0 /\ seen.last = "running"
  /\ import.at = "idle" => seen.last # "running"
  /\ import.n = 0 => seen.last = "none"

\* How far the loops have come: the pieces moved and placed are behind the next one.
LoopsInOrder(i) ==
  /\ i.at = "probing" => i.moved = {} /\ i.placed = {} /\ i.next = 1
  /\ i.at = "moving" => i.moved \subseteq 1 .. i.next - 1 /\ i.placed = {}
  /\ i.at = "placing" => i.placed = 1 .. i.next - 1
  /\ i.at = "clearing" => i.placed = Piece

\* What the import found at p is put aside, if there was anything.
PutAside(i, old, kept, p) == old[p] = NoPiece \/ kept[i.n][p] = old[p]
OldIsSafe(i, s, now, kept, p) ==
  /\ i.at = "moving" /\ p < i.next => PutAside(i, s.before, kept, p)
  /\ i.at \in {"probing", "moving"} /\ i.next <= p => s.before[p] \in {NoPiece, now[p]}
  /\ i.at = "placing" => PutAside(i, s.before, kept, p)
  /\ i.at = "removing" /\ p \in i.moved \cup i.placed => PutAside(i, s.before, kept, p)
  /\ i.at = "restoring" /\ p \in i.moved /\ i.next <= p => PutAside(i, s.before, kept, p)
  /\ i.at \in {"removing", "restoring", "leaving"} =>
       s.before[p] = now[p] \/ PutAside(i, s.before, kept, p)
  /\ i.at = "idle" /\ s.last \in {"killed", "failed"} =>
       s.before[p] = now[p] \/ PutAside(i, s.before, kept, p) \/ i.placed = Piece

\* Where a piece is while nothing else changes the directory.
Steady(i, s, now, kept, p) ==
  LET old == s.before[p] IN
  /\ i.at \in {"moving", "placing", "removing"} /\ p \in i.moved => kept[i.n][p] = old
  /\ i.at = "restoring" /\ p \in i.moved /\ i.next <= p => kept[i.n][p] = old
  /\ i.at = "moving" => now[p] = IF p < i.next THEN NoPiece ELSE old
  /\ i.at = "placing" => now[p] = IF p < i.next THEN From(i.n) ELSE NoPiece
  /\ i.at = "moving" /\ p < i.next /\ p \notin i.moved => old = NoPiece
  /\ i.at = "placing" /\ p \notin i.moved => old = NoPiece
  /\ i.at = "removing" /\ p \in i.placed /\ p \notin i.moved => old = NoPiece
  /\ i.at = "removing" /\ p \in i.placed /\ p < i.next => now[p] = NoPiece
  /\ i.at = "removing" /\ p \notin i.placed => now[p] = IF p \in i.moved THEN NoPiece ELSE old
  /\ i.at = "restoring" /\ (p \notin i.moved \/ p < i.next) => now[p] = old
  /\ i.at \in {"probing", "leaving"} => now[p] = old
  /\ i.at = "idle" /\ s.last = "failed" => now[p] = old
  /\ i.at = "clearing" \/ (i.at = "idle" /\ s.last = "done") => now[p] = From(i.n)

NodeInv ==
  /\ NodeTyped /\ LoopsInOrder(import)
  /\ \A p \in Piece : OldIsSafe(import, seen, place, aside, p)
  /\ ~seen.disturbed => \A p \in Piece : Steady(import, seen, place, aside, p)

-----------------------------------------------------------------------------
LEMMA Origins ==
  /\ NoPiece \in Origin /\ FreshPiece \in Origin
  /\ \A n \in 0 .. MaxImports : From(n) \in Origin
BY DEF Origin

LEMMA Bounds == PieceCount \in Nat \ {0} /\ MaxImports \in Nat /\ MaxStarts \in Nat /\ Piece = 1 .. PieceCount
BY PieceCountAssumption, NodeBounds DEF Piece

LEMMA ImportFacts ==
  ASSUME NodeInv
  PROVE  /\ import.n \in 0 .. MaxImports /\ import.next \in Piece /\ import.at \in Stages
         /\ import.moved \subseteq Piece /\ import.placed \subseteq Piece
         /\ import.at # "idle" => import.n \in 1 .. MaxImports /\ seen.last = "running"
BY Bounds DEF NodeInv, NodeTyped, Imports

\* What one step of a loop makes of the import.
LEMMA Advances ==
  ASSUME NodeInv, NEW moved \in SUBSET Piece, NEW placed \in SUBSET Piece, NEW to \in Stages,
         Advance(moved, placed, to)
  PROVE  /\ import' \in Imports /\ import'.n = import.n
         /\ import'.moved = moved /\ import'.placed = placed
         /\ import.next = PieceCount => import'.at = to /\ import'.next = 1
         /\ import.next # PieceCount => import'.at = import.at /\ import'.next = import.next + 1
<1> DEFINE at == IF import.next = PieceCount THEN to ELSE import.at
           next == IF import.next = PieceCount THEN 1 ELSE import.next + 1
           q == [import EXCEPT !.moved = moved, !.placed = placed, !.at = at, !.next = next]
<1>1. at \in Stages /\ next \in Piece
  BY Bounds, ImportFacts
<1>2. import' = q
  BY DEF Advance
<1>3. /\ import.next = PieceCount => at = to /\ next = 1
      /\ import.next # PieceCount => at = import.at /\ next = import.next + 1
  OBVIOUS
<1> HIDE DEF at, next
<1>4. /\ q \in Imports /\ q.n = import.n /\ q.moved = moved /\ q.placed = placed
      /\ q.at = at /\ q.next = next
  BY <1>1 DEF NodeInv, NodeTyped, Imports
<1> HIDE DEF q
<1> QED BY <1>2, <1>3, <1>4

LEMMA Failing ==
  ASSUME NodeInv, Fails
  PROVE  /\ import' \in Imports /\ import'.n = import.n /\ import'.at = "removing" /\ import'.next = 1
         /\ import'.moved = import.moved /\ import'.placed = import.placed
<1> DEFINE q == [import EXCEPT !.at = "removing", !.next = 1]
<1>1. import' = q
  BY DEF Fails
<1>2. "removing" \in Stages /\ 1 \in Piece
  BY Bounds DEF Stages
<1>3. /\ q \in Imports /\ q.n = import.n /\ q.at = "removing" /\ q.next = 1
      /\ q.moved = import.moved /\ q.placed = import.placed
  BY <1>2 DEF NodeInv, NodeTyped, Imports
<1> HIDE DEF q
<1> QED BY <1>1, <1>3

LEMMA Ending ==
  ASSUME NodeInv, NEW how \in Outcomes, Ends(how)
  PROVE  /\ import' \in Imports /\ import'.n = import.n /\ import'.at = "idle"
         /\ import'.moved = import.moved /\ import'.placed = import.placed
         /\ seen' \in Found /\ seen'.last = how /\ seen'.before = seen.before
         /\ seen'.disturbed = seen.disturbed
<1> DEFINE q == [import EXCEPT !.at = "idle"]
           s == [seen EXCEPT !.last = how]
<1>1. import' = q /\ seen' = s
  BY DEF Ends
<1>2. "idle" \in Stages
  BY DEF Stages
<1>3. /\ q \in Imports /\ q.n = import.n /\ q.at = "idle"
      /\ q.moved = import.moved /\ q.placed = import.placed
  BY <1>2 DEF NodeInv, NodeTyped, Imports
<1>4. /\ s \in Found /\ s.last = how /\ s.before = seen.before /\ s.disturbed = seen.disturbed
  BY DEF NodeInv, NodeTyped, Found
<1> HIDE DEF q, s
<1> QED BY <1>1, <1>3, <1>4

LEMMA Disturbing ==
  ASSUME NodeInv, seen' = [seen EXCEPT !.disturbed = TRUE]
  PROVE  seen' \in Found /\ seen'.disturbed /\ seen'.before = seen.before /\ seen'.last = seen.last
BY DEF NodeInv, NodeTyped, Found

-----------------------------------------------------------------------------
LEMMA ProcessStartKept == NodeInv /\ ProcessStarts => NodeInv'
<1> SUFFICES ASSUME NodeInv, ProcessStarts PROVE NodeInv'
  OBVIOUS
<1>1. /\ seen' \in Found /\ seen'.disturbed /\ seen'.before = seen.before /\ seen'.last = seen.last
      /\ UNCHANGED <<aside, import>> /\ import.at # "probing"
  BY Disturbing DEF ProcessStarts
<1>2. place' \in [Piece -> Origin]
      /\ \A p \in Piece : place[p] # NoPiece => place'[p] = place[p]
  BY Origins DEF ProcessStarts, NodeInv, NodeTyped
<1>3. NodeTyped'
  BY <1>1, <1>2, Bounds DEF ProcessStarts, NodeInv, NodeTyped
<1>4. ASSUME NEW p \in Piece PROVE OldIsSafe(import, seen, place, aside, p)'
  BY <1>1, <1>2 DEF OldIsSafe, PutAside, NodeInv
<1> QED BY <1>1, <1>3, <1>4 DEF NodeInv, LoopsInOrder

LEMMA BeginKept == NodeInv /\ ImportBegins => NodeInv'
<1> SUFFICES ASSUME NodeInv, ImportBegins PROVE NodeInv'
  OBVIOUS
<1>1. /\ import' = [n |-> import.n + 1, at |-> "probing", next |-> 1, moved |-> {}, placed |-> {}]
      /\ seen' = [before |-> place, disturbed |-> FALSE, last |-> "running"]
      /\ UNCHANGED <<place, aside, process, starts>>
      /\ import.n < MaxImports
  BY DEF ImportBegins, Begun
<1>2. import.n + 1 \in 1 .. MaxImports
  BY <1>1, ImportFacts, Bounds
<1>3. import' \in Imports /\ seen' \in Found
  BY <1>1, <1>2, Bounds DEF NodeInv, NodeTyped, Imports, Found, Stages, Outcomes
<1>4. NodeTyped' /\ LoopsInOrder(import)'
  BY <1>1, <1>2, <1>3 DEF NodeInv, NodeTyped, LoopsInOrder
<1>5. ASSUME NEW p \in Piece
      PROVE  OldIsSafe(import, seen, place, aside, p)' /\ Steady(import, seen, place, aside, p)'
  BY <1>1 DEF OldIsSafe, Steady
<1> QED BY <1>4, <1>5 DEF NodeInv

\* An import that ends with its error, or is killed.
LEMMA StopKept == NodeInv /\ (ImportUnpacks \/ ImportFails \/ ImportKilled) => NodeInv'
<1> SUFFICES ASSUME NodeInv, ImportUnpacks \/ ImportFails \/ ImportKilled PROVE NodeInv'
  OBVIOUS
<1>1. CASE /\ import.at = "probing" /\ import' = [import EXCEPT !.at = "moving"]
           /\ UNCHANGED <<place, aside, process, starts, seen>>
  <2> DEFINE q == [import EXCEPT !.at = "moving"]
  <2>1. "moving" \in Stages
    BY DEF Stages
  <2>2. /\ q \in Imports /\ q.n = import.n /\ q.at = "moving" /\ q.next = import.next
        /\ q.moved = import.moved /\ q.placed = import.placed
    BY <2>1 DEF NodeInv, NodeTyped, Imports
  <2>3. import' = q
    BY <1>1
  <2> HIDE DEF q
  <2>4. import.next = 1 /\ import.moved = {} /\ import.placed = {} /\ 1 .. 0 = {}
    BY <1>1 DEF NodeInv, LoopsInOrder
  <2>5. NodeTyped' /\ LoopsInOrder(import)'
    BY <1>1, <2>2, <2>3, <2>4 DEF NodeInv, NodeTyped, LoopsInOrder
  <2>6. ASSUME NEW p \in Piece PROVE OldIsSafe(import, seen, place, aside, p)'
    BY <1>1, <2>2, <2>3, <2>4, Bounds DEF NodeInv, OldIsSafe, PutAside
  <2>7. ASSUME NEW p \in Piece, ~seen.disturbed PROVE Steady(import, seen, place, aside, p)'
    BY <1>1, <2>2, <2>3, <2>4, <2>7, Bounds DEF NodeInv, Steady
  <2> QED BY <1>1, <2>5, <2>6, <2>7 DEF NodeInv
<1>2. CASE /\ import.at \in {"probing", "leaving"} /\ Ends("failed")
           /\ UNCHANGED <<place, aside, process, starts>>
  <2>1. "failed" \in Outcomes /\ "failed" # "running"
    BY DEF Outcomes
  <2>2. NodeTyped' /\ LoopsInOrder(import)'
    BY <1>2, <2>1, Ending DEF NodeInv, NodeTyped, LoopsInOrder
  <2>3. ASSUME NEW p \in Piece PROVE OldIsSafe(import, seen, place, aside, p)'
    BY <1>2, <2>1, Ending, Bounds DEF NodeInv, LoopsInOrder, OldIsSafe, PutAside
  <2>4. ASSUME NEW p \in Piece, ~seen.disturbed PROVE Steady(import, seen, place, aside, p)'
    BY <1>2, <2>1, <2>4, Ending DEF NodeInv, Steady
  <2> QED BY <1>2, <2>1, <2>2, <2>3, <2>4, Ending DEF NodeInv
<1>3. CASE ImportKilled
  <2>1. "killed" \in Outcomes
    BY DEF Outcomes
  <2>2. NodeTyped' /\ LoopsInOrder(import)'
    BY <1>3, <2>1, Ending DEF ImportKilled, NodeInv, NodeTyped, LoopsInOrder
  <2>3. ASSUME NEW p \in Piece PROVE OldIsSafe(import, seen, place, aside, p)'
    BY <1>3, <2>1, Ending, ImportFacts, Bounds
    DEF ImportKilled, NodeInv, LoopsInOrder, OldIsSafe, PutAside, Stages
  <2>4. ASSUME NEW p \in Piece PROVE Steady(import, seen, place, aside, p)'
    BY <1>3, <2>1, Ending DEF ImportKilled, Steady
  <2> QED BY <2>2, <2>3, <2>4 DEF NodeInv
<1> QED BY <1>1, <1>2, <1>3 DEF ImportUnpacks, ImportFails

-----------------------------------------------------------------------------
\* A step of the first loop.
LEMMA MoveKept == NodeInv /\ MoveOldAside => NodeInv'
<1> SUFFICES ASSUME NodeInv, MoveOldAside PROVE NodeInv'
  OBVIOUS
<1> DEFINE p == import.next
<1>0. /\ p \in Piece /\ import.at = "moving" /\ import.n \in 1 .. MaxImports /\ p \in 1 .. PieceCount
      /\ import.moved \subseteq 1 .. p - 1 /\ import.placed = {} /\ UNCHANGED <<process, starts, seen>>
      /\ seen.last = "running"
  BY ImportFacts, Bounds DEF MoveOldAside, NodeInv, LoopsInOrder
<1>a. "placing" \in Stages /\ import.moved \in SUBSET Piece /\ import.placed \in SUBSET Piece
      /\ import.moved \cup {p} \in SUBSET Piece
  BY <1>0, ImportFacts DEF Stages
<1>1. CASE \E moved \in {import.moved, import.moved \cup {p}} :
             /\ Advance(moved, import.placed, "placing")
             /\ moved = import.moved => place[p] = NoPiece /\ UNCHANGED <<place, aside>>
             /\ moved = import.moved \cup {p} =>
                  /\ aside' = [aside EXCEPT ![import.n][p] = place[p]]
                  /\ place' = [place EXCEPT ![p] = NoPiece]
  <2>1. PICK moved \in {import.moved, import.moved \cup {p}} :
             /\ Advance(moved, import.placed, "placing")
             /\ moved = import.moved => place[p] = NoPiece /\ UNCHANGED <<place, aside>>
             /\ moved = import.moved \cup {p} =>
                  /\ aside' = [aside EXCEPT ![import.n][p] = place[p]]
                  /\ place' = [place EXCEPT ![p] = NoPiece]
    BY <1>1
  <2>2. p \notin import.moved
    BY <1>0
  <2>3. /\ import' \in Imports /\ import'.n = import.n
        /\ import'.moved = moved /\ import'.placed = {}
        /\ import.next = PieceCount => import'.at = "placing" /\ import'.next = 1
        /\ import.next # PieceCount => import'.at = "moving" /\ import'.next = import.next + 1
    BY <1>0, <1>a, <2>1, Advances
  <2>4. /\ place' \in [Piece -> Origin] /\ place'[p] = NoPiece
        /\ \A q \in Piece : q # p => place'[q] = place[q]
        /\ aside' \in [1 .. MaxImports -> [Piece -> Origin]]
        /\ \A q \in Piece : q # p => aside'[import.n][q] = aside[import.n][q]
        /\ moved = import.moved => place[p] = NoPiece
        /\ moved = import.moved \cup {p} => aside'[import.n][p] = place[p]
    <3>1. CASE moved = import.moved
      BY <1>0, <2>1, <2>2, <3>1 DEF NodeInv, NodeTyped
    <3>2. CASE moved = import.moved \cup {p}
      <4>1. /\ aside' = [aside EXCEPT ![import.n] = [aside[import.n] EXCEPT ![p] = place[p]]]
            /\ place' = [place EXCEPT ![p] = NoPiece] /\ moved # import.moved
        BY <2>1, <2>2, <3>2
      <4>2. aside[import.n] \in [Piece -> Origin] /\ place[p] \in Origin
        BY <1>0 DEF NodeInv, NodeTyped
      <4>3. aside'[import.n] = [aside[import.n] EXCEPT ![p] = place[p]]
            /\ aside' \in [1 .. MaxImports -> [Piece -> Origin]]
        BY <1>0, <4>1, <4>2 DEF NodeInv, NodeTyped
      <4> QED BY <1>0, <3>2, <4>1, <4>2, <4>3, Origins DEF NodeInv, NodeTyped
    <3> QED BY <2>1, <3>1, <3>2
  <2>5. NodeTyped' /\ LoopsInOrder(import)'
    <3>1. NodeTyped'
      BY <1>0, <2>3, <2>4 DEF NodeInv, NodeTyped
    <3> QED BY <1>0, <2>1, <2>3, <3>1, Bounds DEF LoopsInOrder
  <2>6. ASSUME NEW q \in Piece PROVE OldIsSafe(import, seen, place, aside, q)'
    <3>1. OldIsSafe(import, seen, place, aside, q)
      BY DEF NodeInv
    <3>2. CASE q = p
      <4>1. seen.before[p] \in {NoPiece, place[p]}
        BY <1>0, <3>1, <3>2, Bounds DEF OldIsSafe
      <4>2. PutAside(import, seen.before, aside, q)' \/ seen.before[q] = NoPiece
        <5>1. CASE moved = import.moved
          BY <2>4, <3>2, <4>1, <5>1
        <5>2. CASE moved = import.moved \cup {p}
          BY <1>0, <2>3, <2>4, <3>2, <4>1, <5>2 DEF PutAside
        <5> QED BY <5>1, <5>2
      <4>3. PutAside(import, seen.before, aside, q)'
        BY <1>0, <4>2 DEF PutAside
      <4> QED BY <1>0, <2>3, <3>2, <4>3, Bounds DEF OldIsSafe
    <3>3. CASE q # p
      BY <1>0, <2>1, <2>3, <2>4, <3>1, <3>3, Bounds DEF OldIsSafe, PutAside
    <3> QED BY <3>2, <3>3
  <2>7. ASSUME NEW q \in Piece, ~seen.disturbed PROVE Steady(import, seen, place, aside, q)'
    <3>1. Steady(import, seen, place, aside, q)
      BY <2>7 DEF NodeInv
    <3> QED BY <1>0, <2>1, <2>2, <2>3, <2>4, <3>1, Bounds DEF Steady
  <2> QED BY <1>0, <2>5, <2>6, <2>7 DEF NodeInv
<1>2. CASE Fails /\ UNCHANGED <<place, aside>>
  <2>1. /\ import' \in Imports /\ import'.n = import.n /\ import'.at = "removing" /\ import'.next = 1
        /\ import'.moved = import.moved /\ import'.placed = {}
    BY <1>0, <1>2, Failing
  <2>2. NodeTyped' /\ LoopsInOrder(import)'
    BY <1>0, <1>2, <2>1 DEF NodeInv, NodeTyped, LoopsInOrder
  <2>3. ASSUME NEW q \in Piece PROVE OldIsSafe(import, seen, place, aside, q)'
    BY <1>0, <1>2, <2>1, Bounds DEF NodeInv, OldIsSafe, PutAside
  <2>4. ASSUME NEW q \in Piece, ~seen.disturbed PROVE Steady(import, seen, place, aside, q)'
    <3>1. Steady(import, seen, place, aside, q)
      BY <2>4 DEF NodeInv
    <3> QED BY <1>0, <1>2, <2>1, <3>1, Bounds DEF Steady
  <2> QED BY <1>0, <2>2, <2>3, <2>4 DEF NodeInv
<1> QED
  <2>1. \/ /\ place[p] = NoPiece
           /\ Advance(import.moved, import.placed, "placing")
           /\ UNCHANGED <<place, aside>>
        \/ /\ aside' = [aside EXCEPT ![import.n][p] = place[p]]
           /\ place' = [place EXCEPT ![p] = NoPiece]
           /\ Advance(import.moved \cup {p}, import.placed, "placing")
        \/ Fails /\ UNCHANGED <<place, aside>>
    BY DEF MoveOldAside
  <2>2. import.moved \cup {p} # import.moved
    BY <1>0
  <2> QED BY <1>1, <1>2, <2>1, <2>2

\* A step of the second loop.
LEMMA PlaceKept == NodeInv /\ PlaceNew => NodeInv'
<1> SUFFICES ASSUME NodeInv, PlaceNew PROVE NodeInv'
  OBVIOUS
<1> DEFINE p == import.next
<1>0. /\ p \in Piece /\ import.at = "placing" /\ import.n \in 1 .. MaxImports /\ p \in 1 .. PieceCount
      /\ import.placed = 1 .. p - 1 /\ UNCHANGED <<aside, process, starts, seen>>
      /\ seen.last = "running"
  BY ImportFacts, Bounds DEF PlaceNew, NodeInv, LoopsInOrder
<1>a. /\ "clearing" \in Stages /\ import.moved \in SUBSET Piece
      /\ import.placed \cup {p} \in SUBSET Piece /\ import.placed \cup {p} = 1 .. p
  BY <1>0, ImportFacts DEF Stages
<1>1. CASE /\ place' = [place EXCEPT ![p] = From(import.n)]
           /\ Advance(import.moved, import.placed \cup {p}, "clearing")
  <2>1. /\ import' \in Imports /\ import'.n = import.n
        /\ import'.moved = import.moved /\ import'.placed = 1 .. p
        /\ import.next = PieceCount => import'.at = "clearing" /\ import'.next = 1
        /\ import.next # PieceCount => import'.at = "placing" /\ import'.next = import.next + 1
    BY <1>0, <1>a, <1>1, Advances
  <2>2. /\ place' \in [Piece -> Origin] /\ place'[p] = From(import.n)
        /\ \A q \in Piece : q # p => place'[q] = place[q]
    BY <1>0, <1>1, Origins, ImportFacts DEF NodeInv, NodeTyped
  <2>3. NodeTyped' /\ LoopsInOrder(import)'
    <3>1. NodeTyped'
      BY <1>0, <2>1, <2>2 DEF NodeInv, NodeTyped
    <3> QED BY <1>0, <2>1, <3>1, Bounds DEF LoopsInOrder
  <2>4. ASSUME NEW q \in Piece PROVE OldIsSafe(import, seen, place, aside, q)'
    <3>1. PutAside(import, seen.before, aside, q)
      BY <1>0 DEF NodeInv, OldIsSafe
    <3> QED BY <1>0, <2>1, <3>1 DEF OldIsSafe, PutAside
  <2>5. ASSUME NEW q \in Piece, ~seen.disturbed PROVE Steady(import, seen, place, aside, q)'
    <3>1. Steady(import, seen, place, aside, q)
      BY <2>5 DEF NodeInv
    <3> QED BY <1>0, <2>1, <2>2, <3>1, Bounds DEF Steady
  <2> QED BY <1>0, <2>3, <2>4, <2>5 DEF NodeInv
<1>2. CASE Fails /\ UNCHANGED place
  <2>1. /\ import' \in Imports /\ import'.n = import.n /\ import'.at = "removing" /\ import'.next = 1
        /\ import'.moved = import.moved /\ import'.placed = 1 .. p - 1
    BY <1>0, <1>2, Failing
  <2>2. NodeTyped' /\ LoopsInOrder(import)'
    BY <1>0, <1>2, <2>1 DEF NodeInv, NodeTyped, LoopsInOrder
  <2>3. ASSUME NEW q \in Piece PROVE OldIsSafe(import, seen, place, aside, q)'
    BY <1>0, <1>2, <2>1, Bounds DEF NodeInv, OldIsSafe, PutAside
  <2>4. ASSUME NEW q \in Piece, ~seen.disturbed PROVE Steady(import, seen, place, aside, q)'
    <3>1. Steady(import, seen, place, aside, q)
      BY <2>4 DEF NodeInv
    <3> QED BY <1>0, <1>2, <2>1, <3>1, Bounds DEF Steady
  <2> QED BY <1>0, <2>2, <2>3, <2>4 DEF NodeInv
<1> QED BY <1>1, <1>2 DEF PlaceNew

\* A step of the roll-back's first loop.
LEMMA RemoveKept == NodeInv /\ RemovePlaced => NodeInv'
<1> SUFFICES ASSUME NodeInv, RemovePlaced PROVE NodeInv'
  OBVIOUS
<1> DEFINE p == import.next
<1>0. /\ p \in Piece /\ import.at = "removing" /\ import.n \in 1 .. MaxImports /\ p \in 1 .. PieceCount
      /\ UNCHANGED <<aside, process, starts, seen>> /\ seen.last = "running"
  BY ImportFacts, Bounds DEF RemovePlaced
<1>1. /\ import' \in Imports /\ import'.n = import.n
      /\ import'.moved = import.moved /\ import'.placed = import.placed
      /\ import.next = PieceCount => import'.at = "restoring" /\ import'.next = 1
      /\ import.next # PieceCount => import'.at = "removing" /\ import'.next = import.next + 1
  <2>1. "restoring" \in Stages /\ import.moved \in SUBSET Piece /\ import.placed \in SUBSET Piece
    BY ImportFacts DEF Stages
  <2> QED BY <1>0, <2>1, Advances DEF RemovePlaced
<1>2. /\ place' \in [Piece -> Origin]
      /\ \A q \in Piece : q # p => place'[q] = place[q]
      /\ p \in import.placed => place'[p] = NoPiece
      /\ p \notin import.placed => place'[p] = place[p]
  BY <1>0, Origins DEF RemovePlaced, NodeInv, NodeTyped
<1>3. NodeTyped' /\ LoopsInOrder(import)'
  BY <1>0, <1>1, <1>2 DEF NodeInv, NodeTyped, LoopsInOrder
<1>4. ASSUME NEW q \in Piece PROVE OldIsSafe(import, seen, place, aside, q)'
  <2>1. OldIsSafe(import, seen, place, aside, q)
    BY DEF NodeInv
  <2> QED BY <1>0, <1>1, <1>2, <2>1 DEF OldIsSafe, PutAside
<1>5. ASSUME NEW q \in Piece, ~seen.disturbed PROVE Steady(import, seen, place, aside, q)'
  <2>1. Steady(import, seen, place, aside, q)
    BY <1>5 DEF NodeInv
  <2> QED BY <1>0, <1>1, <1>2, <2>1, Bounds DEF Steady
<1> QED BY <1>0, <1>3, <1>4, <1>5 DEF NodeInv

\* A step of the roll-back's second loop.
LEMMA RestoreKept == NodeInv /\ RestoreOld => NodeInv'
<1> SUFFICES ASSUME NodeInv, RestoreOld PROVE NodeInv'
  OBVIOUS
<1> DEFINE p == import.next
<1>0. /\ p \in Piece /\ import.at = "restoring" /\ import.n \in 1 .. MaxImports /\ p \in 1 .. PieceCount
      /\ UNCHANGED <<process, starts>> /\ seen.last = "running"
  BY ImportFacts, Bounds DEF RestoreOld
<1>1. /\ import' \in Imports /\ import'.n = import.n
      /\ import'.moved = import.moved /\ import'.placed = import.placed
      /\ import.next = PieceCount => import'.at = "leaving" /\ import'.next = 1
      /\ import.next # PieceCount => import'.at = "restoring" /\ import'.next = import.next + 1
  <2>1. "leaving" \in Stages /\ import.moved \in SUBSET Piece /\ import.placed \in SUBSET Piece
    BY ImportFacts DEF Stages
  <2> QED BY <1>0, <2>1, Advances DEF RestoreOld
<1>2. CASE /\ p \in import.moved
           /\ place' = [place EXCEPT ![p] = aside[import.n][p]]
           /\ aside' = [aside EXCEPT ![import.n][p] = NoPiece]
           /\ UNCHANGED seen
  <2>1. aside[import.n] \in [Piece -> Origin] /\ aside[import.n][p] \in Origin
    BY <1>0 DEF NodeInv, NodeTyped
  <2>2. aside' = [aside EXCEPT ![import.n] = [aside[import.n] EXCEPT ![p] = NoPiece]]
    BY <1>2
  <2>3. aside'[import.n] = [aside[import.n] EXCEPT ![p] = NoPiece]
        /\ aside' \in [1 .. MaxImports -> [Piece -> Origin]]
    BY <1>0, <2>1, <2>2, Origins DEF NodeInv, NodeTyped
  <2>4. /\ place' \in [Piece -> Origin] /\ place'[p] = aside[import.n][p]
        /\ \A q \in Piece : q # p => place'[q] = place[q] /\ aside'[import.n][q] = aside[import.n][q]
    BY <1>0, <1>2, <2>1, <2>3 DEF NodeInv, NodeTyped
  <2>5. NodeTyped' /\ LoopsInOrder(import)'
    BY <1>0, <1>1, <1>2, <2>3, <2>4 DEF NodeInv, NodeTyped, LoopsInOrder
  <2>6. ASSUME NEW q \in Piece PROVE OldIsSafe(import, seen, place, aside, q)'
    <3>1. OldIsSafe(import, seen, place, aside, q)
      BY DEF NodeInv
    <3> QED BY <1>0, <1>1, <1>2, <2>4, <3>1, Bounds DEF OldIsSafe, PutAside
  <2>7. ASSUME NEW q \in Piece, ~seen.disturbed PROVE Steady(import, seen, place, aside, q)'
    <3>1. Steady(import, seen, place, aside, q)
      BY <2>7 DEF NodeInv
    <3> QED BY <1>0, <1>1, <1>2, <2>4, <3>1, Bounds DEF Steady
  <2> QED BY <1>2, <2>5, <2>6, <2>7 DEF NodeInv
<1>3. CASE /\ p \in import.moved => seen' = [seen EXCEPT !.disturbed = TRUE]
           /\ p \notin import.moved => UNCHANGED seen
           /\ UNCHANGED <<place, aside>>
  <2>1. /\ seen' \in Found /\ seen'.before = seen.before /\ seen'.last = seen.last
        /\ ~seen'.disturbed => p \notin import.moved /\ ~seen.disturbed
        /\ UNCHANGED <<place, aside>>
    BY <1>3, Disturbing DEF NodeInv, NodeTyped
  <2>2. NodeTyped' /\ LoopsInOrder(import)'
    BY <1>0, <1>1, <2>1 DEF NodeInv, NodeTyped, LoopsInOrder
  <2>3. ASSUME NEW q \in Piece PROVE OldIsSafe(import, seen, place, aside, q)'
    <3>1. OldIsSafe(import, seen, place, aside, q)
      BY DEF NodeInv
    <3> QED BY <1>0, <1>1, <2>1, <3>1, Bounds DEF OldIsSafe, PutAside
  <2>4. ASSUME NEW q \in Piece, ~seen'.disturbed PROVE Steady(import, seen, place, aside, q)'
    <3>1. Steady(import, seen, place, aside, q) /\ p \notin import.moved
      BY <2>1, <2>4 DEF NodeInv
    <3> QED BY <1>0, <1>1, <2>1, <3>1, Bounds DEF Steady
  <2> QED BY <2>2, <2>3, <2>4 DEF NodeInv
<1> QED BY <1>2, <1>3 DEF RestoreOld

\* All is in place: what was put aside is removed.
LEMMA ClearKept == NodeInv /\ ImportClears => NodeInv'
<1> SUFFICES ASSUME NodeInv, ImportClears PROVE NodeInv'
  OBVIOUS
<1>0. /\ import.next \in Piece /\ import.at = "clearing" /\ import.n \in 1 .. MaxImports
      /\ import.placed = Piece /\ UNCHANGED <<place, process, starts>> /\ seen.last = "running"
  BY ImportFacts DEF ImportClears, NodeInv, LoopsInOrder
<1>1. aside' \in [1 .. MaxImports -> [Piece -> Origin]]
  <2>1. aside[import.n] \in [Piece -> Origin]
        /\ aside' = [aside EXCEPT ![import.n] = [aside[import.n] EXCEPT ![import.next] = NoPiece]]
    BY <1>0 DEF ImportClears, NodeInv, NodeTyped
  <2> QED BY <1>0, <2>1, Origins DEF NodeInv, NodeTyped
<1>2. CASE Ends("done")
  <2>1. "done" \in Outcomes
    BY DEF Outcomes
  <2>2. NodeTyped' /\ LoopsInOrder(import)'
    BY <1>0, <1>1, <1>2, <2>1, Ending DEF NodeInv, NodeTyped, LoopsInOrder
  <2>3. ASSUME NEW q \in Piece PROVE OldIsSafe(import, seen, place, aside, q)'
    BY <1>2, <2>1, Ending DEF OldIsSafe
  <2>4. ASSUME NEW q \in Piece, ~seen.disturbed PROVE Steady(import, seen, place, aside, q)'
    BY <1>0, <1>2, <2>1, <2>4, Ending DEF NodeInv, Steady
  <2> QED BY <1>2, <2>1, <2>2, <2>3, <2>4, Ending DEF NodeInv
<1>3. CASE Advance(import.moved, import.placed, "clearing") /\ UNCHANGED seen
  <2>1. /\ import' \in Imports /\ import'.n = import.n /\ import'.at = "clearing"
        /\ import'.moved = import.moved /\ import'.placed = import.placed
    <3>1. "clearing" \in Stages /\ import.moved \in SUBSET Piece /\ import.placed \in SUBSET Piece
      BY ImportFacts DEF Stages
    <3> QED BY <1>0, <1>3, <3>1, Advances
  <2>2. NodeTyped' /\ LoopsInOrder(import)'
    BY <1>0, <1>1, <1>3, <2>1 DEF NodeInv, NodeTyped, LoopsInOrder
  <2>3. ASSUME NEW q \in Piece PROVE OldIsSafe(import, seen, place, aside, q)'
    BY <2>1 DEF OldIsSafe
  <2>4. ASSUME NEW q \in Piece, ~seen.disturbed PROVE Steady(import, seen, place, aside, q)'
    BY <1>0, <1>3, <2>1, <2>4 DEF NodeInv, Steady
  <2> QED BY <1>3, <2>2, <2>3, <2>4 DEF NodeInv
<1> QED BY <1>2, <1>3 DEF ImportClears

\* Wherever an import stands or ends, what it found at a piece is in its place or put aside,
\* and no piece is lost between the two (Import and placePieces in nodestate/artifact.go).
THEOREM ImportKept == NodeSpec => []NodeInv
<1>1. NodeInit => NodeInv
  <2> SUFFICES ASSUME NodeInit PROVE NodeInv
    OBVIOUS
  <2>1. 0 \in 0 .. MaxImports /\ 1 \in Piece
    BY Bounds
  <2>2. Nothing \in [Piece -> Origin] /\ All(From(0)) \in [Piece -> Origin]
    BY <2>1, Origins DEF Nothing, All
  <2>3. place \in [Piece -> Origin]
    BY <2>2 DEF NodeInit
  <2>4. /\ import = [n |-> 0, at |-> "idle", next |-> 1, moved |-> {}, placed |-> {}]
        /\ seen = [before |-> place, disturbed |-> FALSE, last |-> "none"]
    BY DEF NodeInit, Begun
  <2>5. NodeTyped
    BY <2>1, <2>2, <2>3, <2>4, Bounds DEF NodeInit, NodeTyped, Imports, Found, Stages, Outcomes
  <2>6. ASSUME NEW p \in Piece
        PROVE  OldIsSafe(import, seen, place, aside, p) /\ Steady(import, seen, place, aside, p)
    BY <2>4 DEF OldIsSafe, Steady
  <2> QED BY <2>4, <2>5, <2>6 DEF NodeInv, LoopsInOrder
<1>2. NodeInv /\ [NodeNext]_nodeVars => NodeInv'
  <2> SUFFICES ASSUME NodeInv, [NodeNext]_nodeVars PROVE NodeInv'
    OBVIOUS
  <2>1. CASE ProcessEnds
    BY <2>1 DEF ProcessEnds, NodeInv, NodeTyped
  <2>2. CASE UNCHANGED nodeVars
    BY <2>2 DEF nodeVars, NodeInv, NodeTyped
  <2> QED BY <2>1, <2>2, ProcessStartKept, BeginKept, StopKept, MoveKept, PlaceKept, RemoveKept, RestoreKept,
             ClearKept DEF NodeNext, ImportStep
<1> QED BY <1>1, <1>2, PTL DEF NodeSpec

LEMMA NothingIsHalf == NodeInv => AllOrNothing
<1> SUFFICES ASSUME NodeInv, import.at = "idle", ~seen.disturbed
             PROVE  /\ seen.last = "done" => place = All(From(import.n))
                    /\ seen.last = "failed" => place = seen.before
  BY DEF AllOrNothing
<1>1. place \in [Piece -> Origin] /\ seen.before \in [Piece -> Origin]
  BY DEF NodeInv, NodeTyped, Found
<1>2. ASSUME NEW p \in Piece
      PROVE  /\ seen.last = "done" => place[p] = From(import.n)
             /\ seen.last = "failed" => place[p] = seen.before[p]
  BY DEF NodeInv, Steady
<1> QED BY <1>1, <1>2 DEF All

LEMMA OldIsThere == NodeInv => OldKeptUntilReplaced
<1> SUFFICES ASSUME NodeInv, seen.last \in {"running", "killed", "failed"}, import.at # "clearing",
                    import.placed # Piece, NEW p \in Piece
             PROVE  \/ seen.before[p] \in {NoPiece, place[p]}
                    \/ \E n \in 1 .. MaxImports : aside[n][p] = seen.before[p]
  BY DEF OldKeptUntilReplaced
<1>1. OldIsSafe(import, seen, place, aside, p)
  BY DEF NodeInv
<1>2. import.n # 0
  BY DEF NodeInv, NodeTyped
<1>3. import.next \in 1 .. PieceCount /\ p \in 1 .. PieceCount
  BY ImportFacts, Bounds
<1>4. seen.before[p] \in {NoPiece, place[p]} \/ PutAside(import, seen.before, aside, p)
  <2>1. import.at = "idle" => seen.last \in {"killed", "failed"}
    BY DEF NodeInv, NodeTyped
  <2>2. import.at = "probing" => import.next = 1
    BY DEF NodeInv, LoopsInOrder
  <2> QED BY <1>1, <1>3, <2>1, <2>2, ImportFacts DEF OldIsSafe, Stages
<1> QED BY <1>2, <1>4, ImportFacts DEF PutAside

LEMMA NodeTypes == NodeInv => NodeTypeOK
BY DEF NodeInv, NodeTyped, Imports, Stages, Found, Outcomes, NodeTypeOK

-----------------------------------------------------------------------------
(* The identity files (Identity).                                              *)

Places == {"out", "reads", "waits", "archives", "recreates", "creates", "loses", "writes", "leaves"}
Loaders == [at : Places, of : File, key : 0..MaxKeys, locked : BOOLEAN]
Identities == [File -> 0..MaxKeys]

IdentityTyped ==
  /\ file \in [File -> -1..MaxKeys] /\ generated \in 0..MaxKeys
  /\ dirLock \in Process \cup {NoOne} /\ loader \in [Process -> Loaders]
  /\ got \in [Process -> Identities]
  /\ \A p \in Process : loader[p].at = "writes" => loader[p].key > 0

\* Who holds the lock is inside; where all take the lock, only that one is.
LockIsUsed == dirLock # NoOne => loader[dirLock].at # "out" /\ loader[dirLock].locked
OneInside == \A p \in Process : loader[p].at # "out" => dirLock = p

\* The file is as the process at it has seen or left it.
Left(r, now) ==
  /\ r.at \in {"waits", "archives", "writes"} => now[r.of] = -1
  /\ r.at \in {"creates", "recreates"} => now[r.of] = 0
LeftAlone(r, now, harm) ==
  harm = {} \/ ("unlocked" \notin harm /\ r.of = "devtag") => Left(r, now)
FilesAreTheirs == \A p \in Process : \A f \in File : got[p][f] # 0 => file[f] = got[p][f]

IdentityInv ==
  /\ IdentityTyped /\ LockIsUsed
  /\ "unlocked" \notin harmed => OneInside
  /\ \A p \in Process : LeftAlone(loader[p], file, harmed)
  /\ harmed = {} => FilesAreTheirs

-----------------------------------------------------------------------------
LEMMA IdentityFacts ==
  ASSUME IdentityInv, NEW p \in Process
  PROVE  /\ loader[p] \in Loaders /\ loader[p].at \in Places /\ loader[p].of \in File
         /\ loader[p].key \in 0..MaxKeys /\ got[p] \in Identities /\ loader \in [Process -> Loaders]
         /\ loader[p].locked \in BOOLEAN
         /\ got \in [Process -> Identities] /\ file \in [File -> -1..MaxKeys] /\ MaxKeys \in Nat \ {0}
         /\ \A f \in File : file[f] \in -1..MaxKeys
         /\ generated \in 0..MaxKeys /\ "master" \in File /\ "devtag" \in File
         /\ harmed = {} => "unlocked" \notin harmed
BY IdentityAssumption DEF IdentityInv, IdentityTyped, Loaders, File

\* What a step of a process inside may do.
LEMMA InsideKept ==
  ASSUME IdentityInv, NEW p \in Process, NEW q \in Loaders, NEW g \in Identities,
         loader[p].at # "out", loader' = [loader EXCEPT ![p] = q],
         q.at # "out", q.locked = loader[p].locked, q.at = "writes" => q.key > 0,
         UNCHANGED <<dirLock, harmed>>,
         file' \in [File -> -1..MaxKeys], generated' \in 0..MaxKeys,
         \A f \in File : f # loader[p].of => file'[f] = file[f],
         LeftAlone(q, file', harmed),
         got' = [got EXCEPT ![p] = g],
         harmed = {} => \A f \in File : g[f] # 0 => file'[f] = g[f],
         harmed = {} => \A f \in File : file'[f] # file[f] => file[f] <= 0
  PROVE  IdentityInv'
<1>1. /\ loader' \in [Process -> Loaders] /\ loader'[p] = q
      /\ got' \in [Process -> Identities] /\ got'[p] = g
      /\ \A r \in Process : r # p => loader'[r] = loader[r] /\ got'[r] = got[r]
  BY IdentityFacts
<1>2. IdentityTyped'
  BY <1>1 DEF IdentityInv, IdentityTyped
<1>3. LockIsUsed'
  BY <1>1 DEF IdentityInv, IdentityTyped, LockIsUsed
<1>4. ("unlocked" \notin harmed => OneInside)'
  BY <1>1 DEF IdentityInv, OneInside
<1>5. ASSUME NEW r \in Process PROVE LeftAlone(loader[r], file, harmed)'
  <2>1. CASE r = p
    BY <1>1, <2>1
  <2>2. CASE r # p
    <3>1. LeftAlone(loader[r], file, harmed) /\ loader[r].of \in File
      BY IdentityFacts DEF IdentityInv
    <3>2. "unlocked" \notin harmed => loader[r].at = "out"
      BY <2>2 DEF IdentityInv, OneInside
    <3> QED BY <1>1, <2>2, <3>1, <3>2 DEF LeftAlone, Left
  <2> QED BY <2>1, <2>2
<1>6. ASSUME harmed' = {}, NEW r \in Process, NEW f \in File, got'[r][f] # 0
      PROVE  file'[f] = got'[r][f]
  <2>1. CASE r = p
    BY <1>1, <1>6, <2>1
  <2>2. CASE r # p
    <3>1. got'[r] = got[r] /\ file[f] = got[r][f] /\ got[r][f] \in 0..MaxKeys
      BY <1>1, <1>6, <2>2, IdentityFacts DEF IdentityInv, FilesAreTheirs, Identities
    <3>2. file[f] > 0
      BY <1>6, <3>1, IdentityFacts
    <3> QED BY <1>6, <3>1, <3>2, IdentityFacts
  <2> QED BY <2>1, <2>2
<1> QED BY <1>2, <1>3, <1>4, <1>5, <1>6 DEF IdentityInv, FilesAreTheirs

\* A step from one place to the next that touches no file.
LEMMA StepKept ==
  ASSUME IdentityInv, NEW p \in Process, NEW where \in Places \ {"out", "writes"},
         loader[p].at # "out", Step(p, where), UNCHANGED <<file, dirLock, got, generated, harmed>>,
         harmed = {} \/ ("unlocked" \notin harmed /\ loader[p].of = "devtag") =>
           /\ where \in {"waits", "archives"} => file[loader[p].of] = -1
           /\ where \in {"creates", "recreates"} => file[loader[p].of] = 0
  PROVE  IdentityInv'
<1> DEFINE q == [loader[p] EXCEPT !.at = where]
<1>1. loader' = [loader EXCEPT ![p] = q]
  BY IdentityFacts DEF Step
<1>2. q \in Loaders /\ q.at = where /\ q.of = loader[p].of /\ q.locked = loader[p].locked
  BY IdentityFacts DEF Loaders
<1> HIDE DEF q
<1>3. LeftAlone(q, file', harmed)
  BY <1>2 DEF LeftAlone, Left
<1>4. got' = [got EXCEPT ![p] = got[p]]
  BY IdentityFacts
<1>5. harmed = {} => \A f \in File : got[p][f] # 0 => file'[f] = got[p][f]
  BY DEF IdentityInv, FilesAreTheirs
<1> QED BY <1>1, <1>2, <1>3, <1>4, <1>5, IdentityFacts, InsideKept

\* A process takes a key for the file it is at.
LEMMA TakesKept ==
  ASSUME IdentityInv, NEW p \in Process, NEW key \in 1..MaxKeys, loader[p].at # "out", Takes(p, key),
         UNCHANGED <<dirLock, generated, harmed>>,
         file' \in [File -> -1..MaxKeys], \A f \in File : f # loader[p].of => file'[f] = file[f],
         harmed = {} => file'[loader[p].of] = key,
         harmed = {} /\ file'[loader[p].of] # file[loader[p].of] => file[loader[p].of] <= 0
  PROVE  IdentityInv'
<1> DEFINE at == IF loader[p].of = "master" THEN "reads" ELSE "leaves"
           q == [loader[p] EXCEPT !.at = at, !.of = "devtag", !.key = 0]
           g == [got[p] EXCEPT ![loader[p].of] = key]
<1>1. loader' = [loader EXCEPT ![p] = q] /\ got' = [got EXCEPT ![p] = g]
  BY IdentityFacts DEF Takes
<1>2. at \in {"reads", "leaves"}
  OBVIOUS
<1> HIDE DEF at
<1>3. q \in Loaders /\ q.at = at /\ q.locked = loader[p].locked
  <2>1. at \in Places /\ "devtag" \in File /\ 0 \in 0..MaxKeys
    BY <1>2, IdentityFacts DEF Places
  <2> QED BY <2>1, IdentityFacts DEF Loaders
<1>4. g \in Identities /\ g[loader[p].of] = key /\ \A f \in File : f # loader[p].of => g[f] = got[p][f]
  BY IdentityFacts DEF Identities
<1> HIDE DEF q, g
<1>5. LeftAlone(q, file', harmed)
  BY <1>2, <1>3 DEF LeftAlone, Left
<1>6. ASSUME harmed = {}, NEW f \in File, g[f] # 0 PROVE file'[f] = g[f]
  BY <1>4, <1>6 DEF IdentityInv, FilesAreTheirs
<1>7. harmed = {} => \A f \in File : file'[f] # file[f] => file[f] <= 0
  OBVIOUS
<1> QED BY <1>1, <1>2, <1>3, <1>4, <1>5, <1>6, <1>7, IdentityFacts, InsideKept

-----------------------------------------------------------------------------
LEMMA ReadKept ==
  ASSUME IdentityInv, NEW p \in Process,
         \/ ReadsKey(p) \/ ReadsHalf(p) \/ ReadsNothing(p) \/ WaitEnds(p)
         \/ ArchiveFails(p) \/ CreateExists(p) \/ LoserReads(p)
  PROVE  IdentityInv'
<1> DEFINE f == loader[p].of
<1>0. {"waits", "archives", "creates", "leaves", "loses"} \subseteq Places \ {"out", "writes"}
  BY DEF Places
<1>1. CASE ReadsKey(p) \/ LoserReads(p)
  <2>1. file[f] \in 1..MaxKeys /\ Takes(p, file[f]) /\ loader[p].at # "out"
        /\ UNCHANGED <<file, dirLock, generated, harmed>>
    BY <1>1, IdentityFacts DEF ReadsKey, LoserReads
  <2> QED BY <2>1, IdentityFacts, TakesKept
<1>2. CASE ReadsHalf(p)
  <2>1. \E where \in {"waits", "archives"} : Step(p, where)
    BY <1>2 DEF ReadsHalf
  <2> QED BY <1>0, <1>2, <2>1, StepKept DEF ReadsHalf
<1>3. CASE ReadsNothing(p)
  BY <1>0, <1>3, StepKept DEF ReadsNothing
<1>4. CASE WaitEnds(p)
  <2>1. harmed = {} \/ ("unlocked" \notin harmed /\ f = "devtag") => file[f] = -1
    BY <1>4 DEF WaitEnds, IdentityInv, LeftAlone, Left
  <2> QED BY <1>0, <1>4, <2>1, StepKept DEF WaitEnds
<1>5. CASE ArchiveFails(p)
  BY <1>0, <1>5, StepKept DEF ArchiveFails
<1>6. CASE CreateExists(p)
  <2>1. \E where \in {"loses", "leaves"} : Step(p, where)
    BY <1>6 DEF CreateExists
  <2> QED BY <1>0, <1>6, <2>1, StepKept DEF CreateExists
<1> QED BY <1>1, <1>2, <1>3, <1>4, <1>5, <1>6

LEMMA WriteKept ==
  ASSUME IdentityInv, NEW p \in Process,
         Archives(p) \/ Creates(p) \/ WritesKey(p) \/ WriteFailsKey(p)
  PROVE  IdentityInv'
<1> DEFINE f == loader[p].of
           Owned == harmed = {} \/ ("unlocked" \notin harmed /\ f = "devtag")
<1>0. f \in File /\ (got' = [got EXCEPT ![p] = got[p]] \/ WritesKey(p))
  BY IdentityFacts DEF Archives, Creates, WriteFailsKey
<1>a. harmed = {} => \A h \in File : got[p][h] # 0 => file[h] = got[p][h] /\ file[h] > 0
  BY IdentityFacts DEF IdentityInv, FilesAreTheirs, Identities
<1>1. CASE Archives(p)
  <2> DEFINE q == [loader[p] EXCEPT !.at = "recreates"]
  <2>1. loader' = [loader EXCEPT ![p] = q] /\ loader[p].at # "out" /\ got' = [got EXCEPT ![p] = got[p]]
    BY <1>1, IdentityFacts DEF Archives, Step
  <2>2. q \in Loaders /\ q.at = "recreates" /\ q.of = f /\ q.locked = loader[p].locked
    <3>1. "recreates" \in Places
      BY DEF Places
    <3> QED BY <3>1, IdentityFacts DEF Loaders
  <2> HIDE DEF q
  <2>3. /\ file' \in [File -> -1..MaxKeys] /\ file'[f] = 0
        /\ \A h \in File : h # f => file'[h] = file[h]
    BY <1>1, IdentityFacts DEF Archives
  <2>4. LeftAlone(q, file', harmed)
    BY <2>2, <2>3 DEF LeftAlone, Left
  <2>5. harmed = {} => file[f] = -1
    BY <1>1 DEF Archives, IdentityInv, LeftAlone, Left
  <2>6. harmed = {} => \A h \in File : got[p][h] # 0 => file'[h] = got[p][h]
    BY <1>a, <2>3, <2>5
  <2>7. harmed = {} => \A h \in File : file'[h] # file[h] => file[h] <= 0
    BY <2>3, <2>5
  <2> QED BY <1>1, <2>1, <2>2, <2>3, <2>4, <2>6, <2>7, IdentityFacts, InsideKept DEF Archives
<1>2. CASE Creates(p)
  <2> DEFINE n == generated + 1
             q == [loader[p] EXCEPT !.at = "writes", !.key = n]
  <2>1. loader' = [loader EXCEPT ![p] = q] /\ loader[p].at # "out" /\ got' = [got EXCEPT ![p] = got[p]]
        /\ file[f] = 0 /\ generated' = n /\ UNCHANGED <<dirLock, harmed>>
    BY <1>2, IdentityFacts DEF Creates
  <2>2. n \in 1..MaxKeys
    BY <1>2, IdentityFacts DEF Creates
  <2> HIDE DEF n
  <2>3. q \in Loaders /\ q.at = "writes" /\ q.of = f /\ q.locked = loader[p].locked /\ q.key = n
    <3>1. "writes" \in Places /\ n \in 0..MaxKeys
      BY <2>2 DEF Places
    <3> QED BY <3>1, IdentityFacts DEF Loaders
  <2> HIDE DEF q
  <2>4. /\ file' \in [File -> -1..MaxKeys] /\ file'[f] = -1
        /\ \A h \in File : h # f => file'[h] = file[h]
    BY <1>2, IdentityFacts DEF Creates
  <2>5. LeftAlone(q, file', harmed)
    BY <2>3, <2>4 DEF LeftAlone, Left
  <2>6. harmed = {} => \A h \in File : got[p][h] # 0 => file'[h] = got[p][h]
    BY <1>a, <2>1, <2>4
  <2>7. \A h \in File : file'[h] # file[h] => file[h] <= 0
    BY <2>1, <2>4
  <2>8. generated' \in 0..MaxKeys /\ q.key > 0
    BY <2>1, <2>2, <2>3
  <2> QED BY <2>1, <2>3, <2>4, <2>5, <2>6, <2>7, <2>8, IdentityFacts, InsideKept
<1>3. CASE WritesKey(p)
  <2>1. loader[p].key \in 1..MaxKeys /\ f \in File
    BY <1>3, IdentityFacts DEF WritesKey, IdentityInv, IdentityTyped
  <2>2. /\ file' \in [File -> -1..MaxKeys]
        /\ \A h \in File : h # f => file'[h] = file[h]
        /\ file[f] = -1 => file'[f] = loader[p].key
        /\ file[f] # -1 => file'[f] = file[f]
    BY <1>3, <2>1, IdentityFacts DEF WritesKey
  <2>3. harmed = {} => file[f] = -1
    BY <1>3 DEF WritesKey, IdentityInv, LeftAlone, Left
  <2> QED BY <1>3, <2>1, <2>2, <2>3, TakesKept DEF WritesKey
<1>4. CASE WriteFailsKey(p)
  <2> DEFINE q == [loader[p] EXCEPT !.at = "leaves"]
  <2>1. loader' = [loader EXCEPT ![p] = q] /\ loader[p].at # "out" /\ got' = [got EXCEPT ![p] = got[p]]
        /\ UNCHANGED <<dirLock, generated, harmed>>
    BY <1>4, IdentityFacts DEF WriteFailsKey, Step
  <2>2. q \in Loaders /\ q.at = "leaves" /\ q.of = f /\ q.locked = loader[p].locked
    <3>1. "leaves" \in Places
      BY DEF Places
    <3> QED BY <3>1, IdentityFacts DEF Loaders
  <2> HIDE DEF q
  <2>3. /\ file' \in [File -> -1..MaxKeys]
        /\ \A h \in File : h # f => file'[h] = file[h]
        /\ loader[p].at # "writes" => file' = file
    BY <1>4, IdentityFacts DEF WriteFailsKey
  <2>4. LeftAlone(q, file', harmed)
    BY <2>2 DEF LeftAlone, Left
  <2>5. harmed = {} /\ loader[p].at = "writes" => file[f] = -1
    BY DEF IdentityInv, LeftAlone, Left
  <2>6. harmed = {} => \A h \in File : got[p][h] # 0 => file'[h] = got[p][h]
    BY <1>a, <2>3, <2>5
  <2>7. harmed = {} => \A h \in File : file'[h] # file[h] => file[h] <= 0
    BY <2>3, <2>5
  <2> QED BY <2>1, <2>2, <2>3, <2>4, <2>6, <2>7, IdentityFacts, InsideKept
<1> QED BY <1>1, <1>2, <1>3, <1>4

-----------------------------------------------------------------------------
\* A process comes in, or is out again: it leaves or dies.
LEMMA InAndOutKept ==
  ASSUME IdentityInv, NEW p \in Process, Locks(p) \/ GoesWithout(p) \/ Leaves(p) \/ Dies(p)
  PROVE  IdentityInv'
<1> DEFINE none == [f \in File |-> 0]
<1>0. none \in Identities
  BY IdentityFacts DEF Identities
<1> DEFINE ComesIn(q) == q.at = "reads" /\ q.locked /\ dirLock = NoOne /\ dirLock' = p /\ UNCHANGED harmed
           Intrudes(q) == /\ q.at = "reads" /\ loader[p].at = "out" /\ UNCHANGED dirLock
                          /\ harmed' = harmed \cup {"unlocked"}
           GoesOut(q) == q.at = "out" /\ dirLock' = (IF dirLock = p THEN NoOne ELSE dirLock) /\ UNCHANGED harmed
<1>1. PICK q \in Loaders, g \in Identities :
        /\ loader' = [loader EXCEPT ![p] = q] /\ got' = [got EXCEPT ![p] = g]
        /\ g = got[p] \/ g = none
        /\ ComesIn(q) \/ Intrudes(q) \/ GoesOut(q)
  <2>1. CASE Locks(p)
    <3> DEFINE q == [Out EXCEPT !.at = "reads", !.locked = TRUE]
    <3>1. q \in Loaders /\ q.at = "reads" /\ q.locked
      <4>1. Out \in Loaders
        BY IdentityFacts DEF Out, Loaders, Places
      <4>2. "reads" \in Places
        BY DEF Places
      <4> QED BY <4>1, <4>2 DEF Loaders
    <3>2. loader' = [loader EXCEPT ![p] = q] /\ got' = [got EXCEPT ![p] = none]
      BY <2>1 DEF Locks
    <3> HIDE DEF q
    <3>3. ComesIn(q)
      BY <2>1, <3>1 DEF Locks
    <3> HIDE DEF ComesIn, Intrudes, GoesOut
    <3> QED BY <1>0, <3>1, <3>2, <3>3
  <2>2. CASE GoesWithout(p)
    <3> DEFINE q == [Out EXCEPT !.at = "reads"]
    <3>1. q \in Loaders /\ q.at = "reads"
      <4>1. Out \in Loaders
        BY IdentityFacts DEF Out, Loaders, Places
      <4>2. "reads" \in Places
        BY DEF Places
      <4> QED BY <4>1, <4>2 DEF Loaders
    <3>2. loader' = [loader EXCEPT ![p] = q] /\ got' = [got EXCEPT ![p] = none]
      BY <2>2 DEF GoesWithout
    <3> HIDE DEF q
    <3>3. Intrudes(q)
      BY <2>2, <3>1 DEF GoesWithout
    <3> HIDE DEF ComesIn, Intrudes, GoesOut
    <3> QED BY <1>0, <3>1, <3>2, <3>3
  <2>3. CASE Dies(p)
    <3>1. Out \in Loaders /\ Out.at = "out"
      BY IdentityFacts DEF Out, Loaders, Places
    <3>2. loader' = [loader EXCEPT ![p] = Out] /\ got' = [got EXCEPT ![p] = none]
      BY <2>3 DEF Dies
    <3>3. GoesOut(Out)
      BY <2>3, <3>1 DEF Dies
    <3> HIDE DEF ComesIn, Intrudes, GoesOut
    <3> QED BY <1>0, <3>1, <3>2, <3>3
  <2>4. CASE Leaves(p)
    <3> DEFINE q == [loader[p] EXCEPT !.at = "out"]
    <3>1. "out" \in Places
      BY DEF Places
    <3>2. q \in Loaders /\ q.at = "out"
      BY <3>1, IdentityFacts DEF Loaders
    <3>3. loader' = [loader EXCEPT ![p] = q] /\ got' = [got EXCEPT ![p] = got[p]]
      BY <2>4, IdentityFacts DEF Leaves, Step
    <3> HIDE DEF q
    <3>4. GoesOut(q)
      BY <2>4, <3>2 DEF Leaves
    <3> HIDE DEF ComesIn, Intrudes, GoesOut
    <3> QED BY <3>2, <3>3, <3>4, IdentityFacts
  <2> QED BY <2>1, <2>2, <2>3, <2>4
<1>2. /\ loader' \in [Process -> Loaders] /\ loader'[p] = q
      /\ got' \in [Process -> Identities] /\ got'[p] = g
      /\ \A r \in Process : r # p => loader'[r] = loader[r] /\ got'[r] = got[r]
  BY <1>1, IdentityFacts
<1>3. /\ UNCHANGED <<file, generated>> /\ harmed \subseteq harmed'
      /\ harmed' # harmed => "unlocked" \in harmed'
  BY <1>1 DEF Locks, GoesWithout, Leaves, Dies
<1>4. p # NoOne /\ dirLock \in Process \cup {NoOne} /\ dirLock' \in {dirLock, p, NoOne}
  BY <1>1, NoOneAssumption DEF IdentityInv, IdentityTyped
<1>5. IdentityTyped'
  <2>1. q.at # "writes"
    BY <1>1
  <2> QED BY <1>2, <1>3, <1>4, <2>1 DEF IdentityInv, IdentityTyped
<1>6. LockIsUsed'
  <2>1. dirLock # NoOne => loader[dirLock].at # "out" /\ loader[dirLock].locked
    BY DEF IdentityInv, LockIsUsed
  <2> QED BY <1>1, <1>2, <1>4, <2>1 DEF LockIsUsed
<1>7. ("unlocked" \notin harmed => OneInside)'
  <2> SUFFICES ASSUME "unlocked" \notin harmed', NEW r \in Process, loader'[r].at # "out"
               PROVE  dirLock' = r
    BY DEF OneInside
  <2>1. "unlocked" \notin harmed /\ r # NoOne /\ (loader[r].at # "out" => dirLock = r)
    BY <1>3, NoOneAssumption DEF IdentityInv, OneInside
  <2> QED BY <1>1, <1>2, <2>1
<1>8. ASSUME NEW r \in Process PROVE LeftAlone(loader[r], file, harmed)'
  <2>1. CASE r = p
    BY <1>1, <1>2, <2>1 DEF LeftAlone, Left
  <2>2. CASE r # p
    <3>1. LeftAlone(loader[r], file, harmed) /\ loader'[r] = loader[r]
      BY <1>2, <2>2 DEF IdentityInv
    <3> QED BY <1>3, <3>1 DEF LeftAlone, Left
  <2> QED BY <2>1, <2>2
<1>9. ASSUME harmed' = {}, NEW r \in Process, NEW f \in File, got'[r][f] # 0
      PROVE  file'[f] = got'[r][f]
  <2>1. harmed = {} /\ (got[r][f] # 0 => file[f] = got[r][f])
    BY <1>3, <1>9 DEF IdentityInv, FilesAreTheirs
  <2>2. got'[r][f] = got[r][f]
    BY <1>1, <1>2, <1>9
  <2> QED BY <1>3, <1>9, <2>1, <2>2
<1> QED BY <1>5, <1>6, <1>7, <1>8, <1>9 DEF IdentityInv, FilesAreTheirs

LEMMA ResetKept == IdentityInv /\ Resets => IdentityInv'
<1> SUFFICES ASSUME IdentityInv, Resets PROVE IdentityInv'
  OBVIOUS
<1>1. /\ file' = [file EXCEPT !["master"] = 0] /\ harmed' = harmed \cup {"reset"}
      /\ UNCHANGED <<dirLock, loader, got, generated>>
  BY DEF Resets
<1>2. /\ file' \in [File -> -1..MaxKeys] /\ file'["devtag"] = file["devtag"]
      /\ harmed' # {} /\ ("unlocked" \in harmed' <=> "unlocked" \in harmed)
  BY <1>1, IdentityAssumption DEF IdentityInv, IdentityTyped, File
<1>3. ASSUME NEW r \in Process PROVE LeftAlone(loader[r], file, harmed)'
  BY <1>1, <1>2 DEF IdentityInv, LeftAlone, Left
<1> QED BY <1>1, <1>2, <1>3 DEF IdentityInv, IdentityTyped, LockIsUsed, OneInside

\* Where all processes take the lock, one is inside at a time, nobody changes the file it is at,
\* and what processes run with is what the files hold (LoadOrCreateIdentity in identity_store.go).
THEOREM IdentityKept == IdentitySpec => []IdentityInv
<1>1. IdentityInit => IdentityInv
  <2> SUFFICES ASSUME IdentityInit PROVE IdentityInv
    OBVIOUS
  <2>1. MaxKeys \in Nat \ {0} /\ Out \in Loaders /\ Out.at = "out" /\ [f \in File |-> 0] \in Identities
    BY IdentityAssumption DEF Out, Loaders, Places, File, Identities
  <2>2. IdentityTyped
    BY <2>1 DEF IdentityInit, IdentityTyped
  <2> QED BY <2>1, <2>2 DEF IdentityInit, IdentityInv, LockIsUsed, OneInside, LeftAlone, Left, FilesAreTheirs
<1>2. IdentityInv /\ [IdentityNext]_identityVars => IdentityInv'
  <2> SUFFICES ASSUME IdentityInv, [IdentityNext]_identityVars PROVE IdentityInv'
    OBVIOUS
  <2>1. CASE UNCHANGED identityVars
    BY <2>1 DEF identityVars, IdentityInv, IdentityTyped, LockIsUsed, OneInside, LeftAlone, Left, FilesAreTheirs
  <2> QED BY <2>1, ReadKept, WriteKept, InAndOutKept, ResetKept DEF IdentityNext
<1> QED BY <1>1, <1>2, PTL DEF IdentitySpec

LEMMA IdentityIsOne == IdentityInv => OneIdentity
BY DEF IdentityInv, FilesAreTheirs, OneIdentity

LEMMA IdentityTypes == IdentityInv => IdentityTypeOK
BY DEF IdentityInv, IdentityTyped, LockIsUsed, Identities, IdentityTypeOK

\* A complete tag changes only where a process went without the lock.
THEOREM TagStays == IdentitySpec => TagOutlivesReset
<1> DEFINE Stays == file["devtag"] > 0 /\ "unlocked" \notin harmed => file'["devtag"] = file["devtag"]
<1>1. IdentityInv /\ [IdentityNext]_identityVars => [Stays]_identityVars
  <2> SUFFICES ASSUME IdentityInv, IdentityNext, file["devtag"] > 0, "unlocked" \notin harmed
               PROVE  file'["devtag"] = file["devtag"]
    BY DEF identityVars
  <2>0. "devtag" \in File /\ file \in [File -> -1..MaxKeys] /\ file["devtag"] \notin {-1, 0}
    BY DEF IdentityInv, IdentityTyped, File
  <2>1. CASE Resets
    BY <2>0, <2>1 DEF Resets
  <2>2. ASSUME NEW p \in Process, Archives(p) \/ Creates(p) \/ WritesKey(p) \/ WriteFailsKey(p)
        PROVE  file'["devtag"] = file["devtag"]
    <3>1. LeftAlone(loader[p], file, harmed) /\ loader[p].of \in File
      BY IdentityFacts DEF IdentityInv
    <3>2. CASE loader[p].of # "devtag"
      BY <2>0, <2>2, <3>1, <3>2 DEF Archives, Creates, WritesKey, WriteFailsKey
    <3>3. CASE loader[p].of = "devtag"
      <4>1. loader[p].at \notin {"archives", "writes", "creates", "recreates"}
        BY <2>0, <3>1, <3>3 DEF LeftAlone, Left
      <4> QED BY <2>2, <4>1 DEF Archives, Creates, WritesKey, WriteFailsKey
    <3> QED BY <3>2, <3>3
  <2>3. CASE \E p \in Process :
               \/ Locks(p) \/ GoesWithout(p) \/ ReadsKey(p) \/ ReadsHalf(p) \/ ReadsNothing(p)
               \/ WaitEnds(p) \/ ArchiveFails(p) \/ CreateExists(p) \/ LoserReads(p)
               \/ Leaves(p) \/ Dies(p)
    BY <2>3 DEF Locks, GoesWithout, ReadsKey, ReadsHalf, ReadsNothing, WaitEnds, ArchiveFails,
       CreateExists, LoserReads, Leaves, Dies
  <2> QED BY <2>1, <2>2, <2>3 DEF IdentityNext
<1> QED BY <1>1, IdentityKept, PTL DEF IdentitySpec, TagOutlivesReset

-----------------------------------------------------------------------------
(* The ladder of a round (Ladder).                                             *)

RoundPlaces == {"none", "looks", "acts", "verifies", "ends", "over"}
Results == {0, -1, -3, -4, Running}
Rounds == [level : 0..3, at : RoundPlaces, did : SUBSET (1..3), rc : Results, disturbed : BOOLEAN]
Late == [action : 1..3, of : LadderRound]

SessionTyped ==
  /\ keys \in {"good", "stale", "none"} /\ enrolled \in BOOLEAN /\ socket \in BOOLEAN
  /\ ladderPath \in {"good", "bad", "none"} /\ armed \in BOOLEAN
LadderTyped ==
  /\ SessionTyped
  /\ cur \in 0..MaxRounds /\ round \in [LadderRound -> Rounds]
  /\ askers \in [Asker -> 0..MaxRounds] /\ late \subseteq Late

\* A round does its actions in their order, and looks before those of the next level.
InOrder(r) ==
  /\ r.at \in {"looks", "acts", "verifies"} =>
       /\ r.level \in 1..3 /\ r.did \subseteq 1..r.level
       /\ 2 \in r.did => 1 \in r.did
       /\ 3 \in r.did => {1, 2} \subseteq r.did
  /\ r.at = "looks" => r.level \notin r.did
  /\ r.at = "verifies" => r.did = 1..r.level

\* What the actions of an undisturbed round have done is so until a probe crosses.
HasDone(r, key, sock, path, reg) ==
  r.at \in {"looks", "acts", "verifies"} /\ ~r.disturbed =>
    /\ 1 \in r.did => key = "none"
    /\ 2 \in r.did => sock
    /\ 3 \in r.did => path = "none" /\ reg
Keeps(r) == HasDone(r, keys, socket, ladderPath, armed)
WillKeep(r) == HasDone(r, keys', socket', ladderPath', armed')

GateHolds == \A n \in LadderRound : round[n].at \notin {"none", "over"} <=> n = cur
LateInOrder ==
  \A l \in late : round[l.of].at # "none" /\ (l.action = 3 => {1, 2} \subseteq round[l.of].did)

LadderInv ==
  /\ LadderTyped /\ GateHolds /\ LateInOrder
  /\ \A n \in LadderRound : InOrder(round[n]) /\ Keeps(round[n])
  /\ UndisturbedRoundHeals

-----------------------------------------------------------------------------
LEMMA RoundFacts ==
  ASSUME LadderInv, NEW n \in LadderRound
  PROVE  /\ round[n] \in Rounds /\ round \in [LadderRound -> Rounds]
         /\ round[n].level \in 0..3 /\ round[n].at \in RoundPlaces /\ round[n].did \subseteq 1..3
         /\ round[n].rc \in Results /\ round[n].disturbed \in BOOLEAN
         /\ round[n].at \notin {"none", "over"} <=> n = cur
         /\ InOrder(round[n]) /\ Keeps(round[n])
         /\ round[n].rc = -1 => round[n].disturbed
BY DEF LadderInv, LadderTyped, Rounds, GateHolds, UndisturbedRoundHeals

LEMMA GateFacts ==
  LadderInv => MaxRounds \in Nat \ {0} /\ cur \in 0..MaxRounds /\ (cur # 0 => cur \in LadderRound) /\ 0 \notin LadderRound
BY LadderAssumption DEF LadderInv, LadderTyped, LadderRound

\* What a step of the round that runs may do.
LEMMA RunningKept ==
  ASSUME LadderInv, cur # 0, NEW q \in Rounds, round' = [round EXCEPT ![cur] = q],
         UNCHANGED Gate, SessionTyped',
         q.at \notin {"none", "over"}, InOrder(q), WillKeep(q), q.rc = -1 => q.disturbed,
         round[cur].did \subseteq q.did,
         \A l \in late' \ late : l \in Late /\ l.of = cur /\ (l.action = 3 => {1, 2} \subseteq q.did)
  PROVE  LadderInv'
<1>1. cur \in LadderRound /\ cur' = cur /\ askers' = askers
  BY GateFacts DEF Gate
<1>2. /\ round' \in [LadderRound -> Rounds] /\ round'[cur] = q
      /\ \A n \in LadderRound : n # cur => round'[n] = round[n]
  BY <1>1, RoundFacts
<1>3. LadderTyped'
  BY <1>1, <1>2 DEF LadderInv, LadderTyped
<1>4. GateHolds'
  BY <1>1, <1>2 DEF LadderInv, GateHolds
<1>5. ASSUME NEW l \in late' PROVE (round[l.of].at # "none" /\ (l.action = 3 => {1, 2} \subseteq round[l.of].did))'
  <2>1. CASE l \in late
    <3>1. round[l.of].at # "none" /\ (l.action = 3 => {1, 2} \subseteq round[l.of].did) /\ l.of \in LadderRound
      BY <2>1 DEF LadderInv, LadderTyped, LateInOrder, Late
    <3> QED BY <1>2, <3>1
  <2>2. CASE l \notin late
    BY <1>2, <2>2
  <2> QED BY <2>1, <2>2
<1>6. ASSUME NEW n \in LadderRound PROVE (InOrder(round[n]) /\ Keeps(round[n]))'
  <2>1. CASE n = cur
    BY <1>2, <2>1 DEF Keeps, WillKeep
  <2>2. CASE n # cur
    BY <1>2, <2>2, RoundFacts DEF InOrder, WillKeep, Keeps, HasDone
  <2> QED BY <2>1, <2>2
<1>7. UndisturbedRoundHeals'
  BY <1>2 DEF LadderInv, UndisturbedRoundHeals
<1> QED BY <1>3, <1>4, <1>5, <1>6, <1>7 DEF LadderInv, LateInOrder

\* Something fails, or an action comes late: the round that runs is disturbed.
LEMMA DisturbedKept ==
  ASSUME LadderInv, round' = Disturbed, UNCHANGED Gate, SessionTyped', late' \subseteq late
  PROVE  LadderInv'
<1>1. ASSUME NEW n \in LadderRound
      PROVE  /\ round'[n] \in Rounds /\ round'[n].at = round[n].at /\ round'[n].did = round[n].did
             /\ round'[n].level = round[n].level /\ round'[n].rc = round[n].rc
             /\ n = cur => round'[n].disturbed
             /\ n # cur => round'[n] = round[n]
  BY RoundFacts DEF Disturbed, Rounds
<1>2. round' \in [LadderRound -> Rounds] /\ cur' = cur /\ askers' = askers
  BY <1>1 DEF Disturbed, Gate
<1>3. LadderTyped'
  BY <1>2 DEF LadderInv, LadderTyped
<1>4. GateHolds'
  BY <1>1, <1>2 DEF LadderInv, GateHolds
<1>5. LateInOrder'
  BY <1>1 DEF LadderInv, LadderTyped, LateInOrder, Late
<1>6. ASSUME NEW n \in LadderRound PROVE (InOrder(round[n]) /\ Keeps(round[n]))'
  BY <1>1, RoundFacts DEF InOrder, WillKeep, Keeps, HasDone
<1>7. UndisturbedRoundHeals'
  BY <1>1 DEF LadderInv, UndisturbedRoundHeals
<1> QED BY <1>3, <1>4, <1>5, <1>6, <1>7 DEF LadderInv

LEMMA RunningFacts ==
  ASSUME LadderInv, NEW where \in {"looks", "acts", "verifies", "ends"}, At(where)
  PROVE  /\ cur # 0 /\ cur \in LadderRound /\ round[cur].at = where /\ round[cur] \in Rounds
         /\ InOrder(round[cur]) /\ Keeps(round[cur]) /\ (round[cur].rc = -1 => round[cur].disturbed)
         /\ where # "ends" => round[cur].level \in 1..3 /\ round[cur].did \subseteq 1..round[cur].level
BY GateFacts, RoundFacts DEF At, InOrder

LEMMA Missing ==
  ASSUME LadderInv, At("acts"), StillMissing # {}
  PROVE  /\ NextAction \in 1..round[cur].level /\ NextAction \in 1..3 /\ NextAction \notin round[cur].did
         /\ \A j \in 1..3 : j < NextAction => j \in round[cur].did
<1>1. round[cur].level \in 1..3 /\ StillMissing \subseteq 1..3
  BY RunningFacts DEF StillMissing
<1>2. \E k \in StillMissing : \A j \in StillMissing : k <= j
  <2>1. CASE 1 \in StillMissing
    BY <1>1, <2>1
  <2>2. CASE 1 \notin StillMissing /\ 2 \in StillMissing
    BY <1>1, <2>2
  <2>3. CASE 1 \notin StillMissing /\ 2 \notin StillMissing
    <3>1. PICK k \in StillMissing : k \in 1..3
      BY <1>1
    <3> QED BY <1>1, <2>3, <3>1
  <2> QED BY <2>1, <2>2, <2>3
<1>3. NextAction \in StillMissing /\ \A j \in StillMissing : NextAction <= j
  BY <1>2 DEF NextAction
<1>4. NextAction \in 1..round[cur].level /\ NextAction \notin round[cur].did
  BY <1>3 DEF StillMissing
<1>5. ASSUME NEW j \in 1..3, j < NextAction PROVE j \in round[cur].did
  <2>1. j \notin StillMissing /\ j \in 1..round[cur].level
    BY <1>1, <1>3, <1>4, <1>5
  <2> QED BY <2>1 DEF StillMissing
<1> QED BY <1>1, <1>3, <1>4, <1>5

LEMMA DoesWhat ==
  ASSUME SessionTyped, NEW k \in 1..3, Does(k)
  PROVE  /\ SessionTyped'
         /\ k = 1 => keys' = "none" /\ UNCHANGED <<socket, ladderPath, armed>>
         /\ k = 2 => socket' = TRUE /\ UNCHANGED <<keys, enrolled, ladderPath, armed>>
         /\ k = 3 => ladderPath' = "none" /\ armed' = TRUE /\ UNCHANGED <<keys, enrolled, socket>>
<1>1. CASE k = 1
  BY <1>1 DEF Does, SessionTyped
<1>2. CASE k = 2
  BY <1>2 DEF Does, SessionTyped
<1>3. CASE k = 3
  BY <1>3 DEF Does, SessionTyped
<1>4. k = 1 \/ k = 2 \/ k = 3
  OBVIOUS
<1> QED BY <1>1, <1>2, <1>3, <1>4

LEMMA OthersKeepPath ==
  ASSUME NEW k \in {1, 2}, Does(k)
  PROVE  ladderPath' = ladderPath
<1>1. CASE k = 1
  BY <1>1 DEF Does
<1>2. CASE k = 2
  BY <1>2 DEF Does
<1> QED BY <1>1, <1>2

LEMMA ProbeTypes ==
  SessionTyped /\ (CrossedOver \/ Unanswered \/ UNCHANGED LadderSession) => SessionTyped'
BY DEF SessionTyped, CrossedOver, Unanswered, LadderSession

\* A round that ends.
LEMMA EndingKept ==
  ASSUME LadderInv, NEW where \in {"looks", "acts", "verifies"}, At(where),
         NEW rc \in Results, NEW harm \in {round[cur].disturbed, TRUE},
         round' = [round EXCEPT ![cur] = [round[cur] EXCEPT !.at = "ends", !.rc = rc, !.disturbed = harm]],
         UNCHANGED Gate, SessionTyped', rc = -1 => harm,
         \A l \in late' \ late : l \in Late /\ l.of = cur /\ (l.action = 3 => {1, 2} \subseteq round[cur].did)
  PROVE  LadderInv'
<1> DEFINE q == [round[cur] EXCEPT !.at = "ends", !.rc = rc, !.disturbed = harm]
<1>1. "ends" \in RoundPlaces /\ harm \in BOOLEAN /\ cur \in LadderRound /\ cur # 0
  BY RunningFacts, RoundFacts DEF RoundPlaces
<1>2. /\ q \in Rounds /\ q.at = "ends" /\ q.rc = rc /\ q.disturbed = harm /\ q.did = round[cur].did
      /\ round' = [round EXCEPT ![cur] = q]
  BY <1>1, RunningFacts DEF Rounds
<1> HIDE DEF q
<1>3. InOrder(q) /\ WillKeep(q)
  BY <1>2 DEF InOrder, WillKeep, Keeps, HasDone
<1> QED BY <1>1, <1>2, <1>3, RunningKept

LEMMA LookKept == LadderInv /\ LooksFirst => LadderInv'
<1> SUFFICES ASSUME LadderInv, LooksFirst PROVE LadderInv'
  OBVIOUS
<1>0. At("looks") /\ SessionTyped /\ UNCHANGED Gate /\ late' = late
  BY DEF LooksFirst, RoundOnly, LadderInv, LadderTyped
<1>1. CASE CrossedOver /\ LadderEnds(0)
  <2>1. round' = [round EXCEPT ![cur] = [round[cur] EXCEPT !.at = "ends", !.rc = 0, !.disturbed = round[cur].disturbed]]
    BY <1>0, <1>1, RunningFacts DEF LadderEnds, Rounds
  <2>2. 0 \in Results
    BY DEF Results
  <2>3. SessionTyped' /\ late' \ late = {}
    BY <1>0, <1>1, ProbeTypes
  <2>4. 0 = -1 => round[cur].disturbed
    OBVIOUS
  <2> QED BY <1>0, <2>1, <2>2, <2>3, <2>4, EndingKept
<1>2. CASE RoundGoes("acts") /\ Unanswered
  <2> DEFINE q == [round[cur] EXCEPT !.at = "acts"]
  <2>1. /\ cur \in LadderRound /\ cur # 0 /\ round[cur].at = "looks" /\ round[cur] \in Rounds
        /\ round[cur].level \in 1..3 /\ "acts" \in RoundPlaces
    BY <1>0, RunningFacts DEF RoundPlaces
  <2>2. /\ round' = [round EXCEPT ![cur] = q] /\ q \in Rounds /\ q.at = "acts" /\ q.level = round[cur].level
        /\ q.did = round[cur].did /\ q.disturbed = round[cur].disturbed /\ q.rc = round[cur].rc
    BY <1>2, <2>1 DEF RoundGoes, Rounds
  <2> HIDE DEF q
  <2>3. InOrder(q) /\ 3 \notin q.did
    BY <1>0, <2>1, <2>2, RunningFacts DEF InOrder
  <2>4. WillKeep(q)
    BY <1>0, <1>2, <2>1, <2>2, <2>3, RunningFacts DEF WillKeep, Keeps, HasDone, Unanswered
  <2>5. q.rc = -1 => q.disturbed
    BY <1>0, <2>2, RunningFacts
  <2>6. SessionTyped'
    BY <1>0, <1>2, ProbeTypes
  <2> QED BY <1>0, <2>1, <2>2, <2>3, <2>4, <2>5, <2>6, RunningKept
<1> QED BY <1>1, <1>2 DEF LooksFirst

LEMMA ActKept == LadderInv /\ Acts => LadderInv'
<1> SUFFICES ASSUME LadderInv, Acts PROVE LadderInv'
  OBVIOUS
<1>0. /\ At("acts") /\ SessionTyped /\ UNCHANGED Gate /\ late' = late /\ StillMissing # {}
      /\ cur \in LadderRound /\ cur # 0 /\ round[cur].at = "acts" /\ round[cur] \in Rounds
      /\ round[cur].level \in 1..3
  BY RunningFacts DEF Acts, RoundOnly, LadderInv, LadderTyped
<1>1. PICK k \in 1..3 : /\ k = NextAction /\ k \in 1..round[cur].level /\ k \notin round[cur].did
                        /\ \A j \in 1..3 : j < k => j \in round[cur].did
                        /\ Does(k)
  BY <1>0, Missing DEF Acts
<1> DEFINE d == round[cur].did \cup {k}
           q == [round[cur] EXCEPT !.did = d]
<1>2. d \in SUBSET (1..3)
  BY <1>0, RoundFacts
<1>3. /\ round' = [round EXCEPT ![cur] = q] /\ q \in Rounds /\ q.at = "acts" /\ q.level = round[cur].level
      /\ q.did = d /\ q.disturbed = round[cur].disturbed /\ q.rc = round[cur].rc
  BY <1>0, <1>1, <1>2 DEF Acts, Rounds
<1> HIDE DEF q
<1>4. InOrder(q)
  BY <1>0, <1>1, <1>3, RunningFacts DEF InOrder
<1>5. /\ SessionTyped'
      /\ k = 1 => keys' = "none" /\ UNCHANGED <<socket, ladderPath, armed>>
      /\ k = 2 => socket' = TRUE /\ UNCHANGED <<keys, enrolled, ladderPath, armed>>
      /\ k = 3 => ladderPath' = "none" /\ armed' = TRUE /\ UNCHANGED <<keys, enrolled, socket>>
  BY <1>0, <1>1, DoesWhat
<1>6. WillKeep(q)
  <2>1. Keeps(round[cur])
    BY <1>0, RunningFacts
  <2> QED BY <1>0, <1>1, <1>3, <1>5, <2>1 DEF WillKeep, Keeps, HasDone
<1>7. q.rc = -1 => q.disturbed
  BY <1>0, <1>3, RunningFacts
<1>8. round[cur].did \subseteq q.did
  BY <1>3
<1> QED BY <1>0, <1>3, <1>4, <1>5, <1>6, <1>7, <1>8, RunningKept

LEMMA ActEndKept == LadderInv /\ (ActsNoMore \/ ActsTooLong \/ ActFails) => LadderInv'
<1> SUFFICES ASSUME LadderInv, ActsNoMore \/ ActsTooLong \/ ActFails PROVE LadderInv'
  OBVIOUS
<1>0. /\ At("acts") /\ SessionTyped /\ UNCHANGED Gate /\ UNCHANGED LadderSession
      /\ cur \in LadderRound /\ cur # 0 /\ round[cur].at = "acts" /\ round[cur] \in Rounds
      /\ round[cur].level \in 1..3 /\ round[cur].did \subseteq 1..round[cur].level
  BY RunningFacts DEF ActsNoMore, ActsTooLong, ActFails, RoundOnly, LadderInv, LadderTyped
<1>a. SessionTyped'
  BY <1>0, ProbeTypes
<1>1. CASE ActsNoMore
  <2> DEFINE q == [round[cur] EXCEPT !.at = "verifies"]
  <2>1. "verifies" \in RoundPlaces
    BY DEF RoundPlaces
  <2>2. /\ round' = [round EXCEPT ![cur] = q] /\ q \in Rounds /\ q.at = "verifies" /\ q.level = round[cur].level
        /\ q.did = round[cur].did /\ q.disturbed = round[cur].disturbed /\ q.rc = round[cur].rc
    BY <1>0, <1>1, <2>1 DEF ActsNoMore, RoundGoes, Rounds
  <2> HIDE DEF q
  <2>3. q.did = 1..q.level
    BY <1>0, <1>1, <2>2 DEF ActsNoMore, StillMissing
  <2>4. InOrder(q)
    BY <1>0, <2>2, <2>3, RunningFacts DEF InOrder
  <2>5. WillKeep(q)
    BY <1>0, <2>2, RunningFacts DEF WillKeep, Keeps, HasDone, LadderSession
  <2>6. q.rc = -1 => q.disturbed
    BY <1>0, <2>2, RunningFacts
  <2> QED BY <1>0, <1>1, <1>a, <2>2, <2>4, <2>5, <2>6, RunningKept DEF ActsNoMore, RoundOnly
<1>2. CASE ActsTooLong
  <2>1. round' = [round EXCEPT ![cur] = [round[cur] EXCEPT !.at = "ends", !.rc = -3, !.disturbed = TRUE]]
    BY <1>0, <1>2 DEF ActsTooLong, Rounds
  <2>2. -3 \in Results
    BY DEF Results
  <2>3. ASSUME NEW l \in late' \ late
        PROVE  l \in Late /\ l.of = cur /\ (l.action = 3 => {1, 2} \subseteq round[cur].did)
    <3>1. l = [action |-> NextAction, of |-> cur]
      BY <1>2, <2>3 DEF ActsTooLong
    <3>2. NextAction \in 1..3 /\ \A j \in 1..3 : j < NextAction => j \in round[cur].did
      BY <1>0, <1>2, Missing DEF ActsTooLong
    <3> QED BY <1>0, <3>1, <3>2 DEF Late
  <2> QED BY <1>0, <1>a, <2>1, <2>2, <2>3, EndingKept
<1>3. CASE ActFails
  <2>1. round' = [round EXCEPT ![cur] = [round[cur] EXCEPT !.at = "ends", !.rc = -4, !.disturbed = round[cur].disturbed]]
    BY <1>0, <1>3 DEF ActFails, LadderEnds, Rounds
  <2>2. -4 \in Results /\ late' = late
    BY <1>3 DEF Results, ActFails, RoundOnly
  <2>3. late' \ late = {} /\ (-4 = -1 => round[cur].disturbed)
    BY <2>2
  <2> QED BY <1>0, <1>a, <2>1, <2>2, <2>3, EndingKept
<1> QED BY <1>1, <1>2, <1>3

\* Once all three actions are done undisturbed, a probe crosses.
LEMMA VerifyKept == LadderInv /\ Verifies => LadderInv'
<1> SUFFICES ASSUME LadderInv, Verifies PROVE LadderInv'
  OBVIOUS
<1>0. /\ At("verifies") /\ SessionTyped /\ UNCHANGED Gate /\ late' = late
      /\ cur \in LadderRound /\ cur # 0 /\ round[cur].at = "verifies" /\ round[cur] \in Rounds
      /\ round[cur].level \in 1..3 /\ round[cur].did = 1..round[cur].level
  BY RunningFacts DEF Verifies, RoundOnly, LadderInv, LadderTyped, InOrder
<1>1. CASE CrossedOver /\ LadderEnds(0)
  <2>1. round' = [round EXCEPT ![cur] = [round[cur] EXCEPT !.at = "ends", !.rc = 0, !.disturbed = round[cur].disturbed]]
    BY <1>0, <1>1 DEF LadderEnds, Rounds
  <2>2. 0 \in Results
    BY DEF Results
  <2>3. SessionTyped' /\ late' \ late = {}
    BY <1>0, <1>1, ProbeTypes
  <2>4. 0 = -1 => round[cur].disturbed
    OBVIOUS
  <2> QED BY <1>0, <2>1, <2>2, <2>3, <2>4, EndingKept
<1>2. CASE ~Crosses /\ Unanswered /\ round[cur].level = 3 /\ LadderEnds(-1)
  <2>1. round' = [round EXCEPT ![cur] = [round[cur] EXCEPT !.at = "ends", !.rc = -1, !.disturbed = round[cur].disturbed]]
    BY <1>0, <1>2 DEF LadderEnds, Rounds
  <2>2. -1 \in Results
    BY DEF Results
  <2>3. round[cur].disturbed
    <3>1. {1, 2, 3} \subseteq round[cur].did /\ Keeps(round[cur])
      BY <1>0, <1>2, RunningFacts
    <3> QED BY <1>0, <1>2, <3>1, RoundFacts DEF WillKeep, Keeps, HasDone, Crosses
  <2> QED BY <1>0, <1>2, <2>1, <2>2, <2>3, ProbeTypes, EndingKept
<1>3. CASE /\ Unanswered /\ round[cur].level # 3
           /\ round' = [round EXCEPT ![cur].at = "looks", ![cur].level = @ + 1]
  <2> DEFINE higher == round[cur].level + 1
             q == [round[cur] EXCEPT !.at = "looks", !.level = higher]
  <2>1. higher \in 1..3 /\ higher \in 0..3 /\ "looks" \in RoundPlaces /\ round[cur].did = 1..(higher - 1)
    BY <1>0, <1>3 DEF RoundPlaces
  <2>2. round' = [round EXCEPT ![cur] = q]
    BY <1>0, <1>3 DEF Rounds
  <2> HIDE DEF higher
  <2>3. /\ q \in Rounds /\ q.at = "looks" /\ q.level = higher
        /\ q.did = round[cur].did /\ q.disturbed = round[cur].disturbed /\ q.rc = round[cur].rc
    BY <1>0, <2>1 DEF Rounds
  <2> HIDE DEF q
  <2>4. InOrder(q) /\ 3 \notin q.did
    BY <1>0, <2>1, <2>3 DEF InOrder
  <2>5. WillKeep(q)
    BY <1>0, <1>3, <2>3, <2>4, RunningFacts DEF WillKeep, Keeps, HasDone, Unanswered
  <2>6. q.rc = -1 => q.disturbed
    BY <1>0, <2>3, RunningFacts
  <2>7. SessionTyped'
    BY <1>0, <1>3, ProbeTypes
  <2> QED BY <1>0, <2>2, <2>3, <2>4, <2>5, <2>6, <2>7, RunningKept
<1> QED BY <1>1, <1>2, <1>3 DEF Verifies

-----------------------------------------------------------------------------
LEMMA AskKept ==
  ASSUME LadderInv, NEW a \in Asker, NEW from \in 1..3, AsksLadder(a, from)
  PROVE  LadderInv'
<1>0. UNCHANGED <<LadderSession, late>> /\ SessionTyped
  BY DEF AsksLadder, LadderInv, LadderTyped
<1>a. SessionTyped'
  BY <1>0, ProbeTypes
<1>1. CASE cur # 0
  <2>1. askers' = [askers EXCEPT ![a] = cur] /\ UNCHANGED <<cur, round>>
    BY <1>1 DEF AsksLadder
  <2>2. askers' \in [Asker -> 0..MaxRounds]
    BY <2>1, GateFacts DEF LadderInv, LadderTyped
  <2>3. LadderTyped'
    BY <1>0, <1>a, <2>1, <2>2 DEF LadderInv, LadderTyped
  <2>4. ASSUME NEW n \in LadderRound PROVE (InOrder(round[n]) /\ Keeps(round[n]))'
    BY <1>0, <2>1, RoundFacts DEF InOrder, Keeps, HasDone, LadderSession
  <2> QED BY <1>0, <2>1, <2>3, <2>4 DEF LadderInv, GateHolds, LateInOrder, UndisturbedRoundHeals
<1>2. CASE cur = 0
  <2>1. PICK n \in LadderRound :
          /\ round[n].at = "none" /\ cur' = n /\ askers' = [askers EXCEPT ![a] = n]
          /\ round' = [round EXCEPT ![n] = [NoRound EXCEPT !.level = from, !.at = "looks"]]
    BY <1>2 DEF AsksLadder
  <2> DEFINE q == [NoRound EXCEPT !.level = from, !.at = "looks"]
  <2>2. NoRound \in Rounds /\ NoRound.did = {} /\ NoRound.rc = Running /\ NoRound.disturbed = FALSE
    BY DEF NoRound, Rounds, RoundPlaces, Results
  <2>3. /\ q \in Rounds /\ q.at = "looks" /\ q.level = from /\ q.did = {} /\ q.rc = Running
        /\ q.disturbed = FALSE
    <3>1. "looks" \in RoundPlaces /\ from \in 0..3
      BY DEF RoundPlaces
    <3> QED BY <2>2, <3>1 DEF Rounds
  <2>4. round' = [round EXCEPT ![n] = q]
    BY <2>1
  <2> HIDE DEF q
  <2>5. /\ round' \in [LadderRound -> Rounds] /\ round'[n] = q
        /\ \A m \in LadderRound : m # n => round'[m] = round[m]
    BY <2>3, <2>4, RoundFacts
  <2>6. LadderTyped'
    <3>1. n \in 0..MaxRounds
      BY GateFacts DEF LadderRound
    <3> QED BY <1>0, <1>a, <2>1, <2>5, <3>1 DEF LadderInv, LadderTyped
  <2>7. GateHolds'
    <3>1. \A m \in LadderRound : round[m].at \in {"none", "over"}
      BY <1>2, GateFacts DEF LadderInv, GateHolds
    <3> QED BY <2>1, <2>3, <2>5, <3>1 DEF GateHolds
  <2>8. LateInOrder'
    <3>1. ASSUME NEW l \in late PROVE l.of # n /\ l.of \in LadderRound
      BY <2>1 DEF LadderInv, LadderTyped, LateInOrder, Late
    <3> QED BY <1>0, <2>5, <3>1 DEF LadderInv, LateInOrder
  <2>9. ASSUME NEW m \in LadderRound
        PROVE  (InOrder(round[m]) /\ Keeps(round[m]) /\ (round[m].rc = -1 => round[m].disturbed))'
    <3>1. CASE m = n
      BY <2>3, <2>5, <3>1 DEF InOrder, Keeps, HasDone, Running
    <3>2. CASE m # n
      BY <1>0, <2>5, <3>2, RoundFacts DEF InOrder, Keeps, HasDone, LadderSession
    <3> QED BY <3>1, <3>2
  <2> QED BY <2>6, <2>7, <2>8, <2>9 DEF LadderInv, UndisturbedRoundHeals
<1> QED BY <1>1, <1>2

LEMMA CloseKept == LadderInv /\ RoundCloses => LadderInv'
<1> SUFFICES ASSUME LadderInv, RoundCloses PROVE LadderInv'
  OBVIOUS
<1>0. /\ UNCHANGED <<LadderSession, askers, late>> /\ SessionTyped /\ cur' = 0
      /\ cur \in LadderRound /\ round[cur].at = "ends" /\ round[cur] \in Rounds
  BY RunningFacts DEF RoundCloses, LadderInv, LadderTyped
<1>a. SessionTyped'
  BY <1>0, ProbeTypes
<1> DEFINE q == [round[cur] EXCEPT !.at = "over"]
<1>1. "over" \in RoundPlaces
  BY DEF RoundPlaces
<1>2. /\ round' = [round EXCEPT ![cur] = q] /\ q \in Rounds /\ q.at = "over" /\ q.did = round[cur].did
      /\ q.rc = round[cur].rc /\ q.disturbed = round[cur].disturbed
  BY <1>0, <1>1 DEF RoundCloses, Rounds
<1> HIDE DEF q
<1>3. /\ round' \in [LadderRound -> Rounds] /\ round'[cur] = q
      /\ \A m \in LadderRound : m # cur => round'[m] = round[m]
  BY <1>0, <1>2, RoundFacts
<1>4. LadderTyped'
  BY <1>0, <1>a, <1>3, GateFacts DEF LadderInv, LadderTyped
<1>5. GateHolds'
  BY <1>0, <1>2, <1>3, GateFacts DEF LadderInv, GateHolds
<1>6. LateInOrder'
  <2>1. ASSUME NEW l \in late PROVE l.of \in LadderRound
    BY DEF LadderInv, LadderTyped, Late
  <2> QED BY <1>0, <1>2, <1>3, <2>1 DEF LadderInv, LateInOrder
<1>7. ASSUME NEW m \in LadderRound
      PROVE  (InOrder(round[m]) /\ Keeps(round[m]) /\ (round[m].rc = -1 => round[m].disturbed))'
  <2>1. CASE m = cur
    BY <1>2, <1>3, <2>1, RoundFacts DEF InOrder, Keeps, HasDone
  <2>2. CASE m # cur
    BY <1>0, <1>3, <2>2, RoundFacts DEF InOrder, Keeps, HasDone, LadderSession
  <2> QED BY <2>1, <2>2
<1> QED BY <1>4, <1>5, <1>6, <1>7 DEF LadderInv, UndisturbedRoundHeals

LEMMA ToldKept ==
  ASSUME LadderInv, NEW a \in Asker, Told(a)
  PROVE  LadderInv'
<1>1. askers' = [askers EXCEPT ![a] = 0] /\ UNCHANGED <<LadderSession, cur, round, late>>
  BY DEF Told
<1>2. askers' \in [Asker -> 0..MaxRounds] /\ SessionTyped'
  BY <1>1, GateFacts, ProbeTypes DEF LadderInv, LadderTyped
<1>3. LadderTyped'
  BY <1>1, <1>2 DEF LadderInv, LadderTyped
<1>4. ASSUME NEW n \in LadderRound PROVE (InOrder(round[n]) /\ Keeps(round[n]))'
  BY <1>1, RoundFacts DEF InOrder, Keeps, HasDone, LadderSession
<1> QED BY <1>1, <1>3, <1>4 DEF LadderInv, GateHolds, LateInOrder, UndisturbedRoundHeals

LEMMA HarmKept == LadderInv /\ (ExitRestarts \/ SocketFails \/ PathMoves \/ LateAction) => LadderInv'
<1> SUFFICES ASSUME LadderInv, ExitRestarts \/ SocketFails \/ PathMoves \/ LateAction PROVE LadderInv'
  OBVIOUS
<1>0. SessionTyped
  BY DEF LadderInv, LadderTyped
<1>1. CASE ExitRestarts \/ SocketFails \/ PathMoves
  <2>1. round' = Disturbed /\ UNCHANGED Gate /\ late' = late
    BY <1>1 DEF ExitRestarts, SocketFails, PathMoves, SomethingFails
  <2>2. SessionTyped'
    BY <1>0, <1>1 DEF ExitRestarts, SocketFails, PathMoves, SessionTyped
  <2> QED BY <2>1, <2>2, DisturbedKept
<1>2. CASE LateAction
  <2>1. PICK l \in late : Does(l.action) /\ late' = late \ {l} /\ round' = Disturbed /\ UNCHANGED Gate
    BY <1>2 DEF LateAction
  <2>2. l.action \in 1..3
    BY DEF LadderInv, LadderTyped, Late
  <2>3. SessionTyped'
    BY <1>0, <2>1, <2>2, DoesWhat
  <2> QED BY <2>1, <2>3, DisturbedKept
<1> QED BY <1>1, <1>2

\* What a round has done in its order is so until a probe crosses or something disturbs it;
\* so the probe after the last action of an undisturbed round crosses (run and the rungs of
\* hostsession/recover.go).
THEOREM LadderKept == LadderSpec => []LadderInv
<1>1. LadderInit => LadderInv
  <2> SUFFICES ASSUME LadderInit PROVE LadderInv
    OBVIOUS
  <2>1. /\ NoRound \in Rounds /\ NoRound.at = "none" /\ NoRound.rc = Running /\ 0 \in 0..MaxRounds
        /\ 0 \notin LadderRound
    BY LadderAssumption DEF NoRound, Rounds, RoundPlaces, Results, LadderRound
  <2>2. LadderTyped
    BY <2>1 DEF LadderInit, LadderTyped, SessionTyped
  <2>3. ASSUME NEW n \in LadderRound
        PROVE  round[n].at = "none" /\ round[n].rc # -1 /\ n # cur
    BY <2>1 DEF LadderInit, Running
  <2> QED BY <2>2, <2>3
      DEF LadderInit, LadderInv, GateHolds, LateInOrder, InOrder, Keeps, HasDone, UndisturbedRoundHeals
<1>2. LadderInv /\ [LadderNext]_ladderVars => LadderInv'
  <2> SUFFICES ASSUME LadderInv, [LadderNext]_ladderVars PROVE LadderInv'
    OBVIOUS
  <2>1. CASE UNCHANGED ladderVars
    BY <2>1 DEF ladderVars, LadderInv, LadderTyped, SessionTyped, GateHolds, LateInOrder, InOrder, Keeps,
       HasDone, UndisturbedRoundHeals
  <2> QED BY <2>1, LookKept, ActKept, ActEndKept, VerifyKept, CloseKept, AskKept, ToldKept, HarmKept
          DEF LadderNext, RoundSteps
<1> QED BY <1>1, <1>2, PTL DEF LadderSpec

\* The last level's round is the only one that fails, and only when it was disturbed.
THEOREM RoundHeals == LadderSpec => []UndisturbedRoundHeals
<1>1. LadderInv => UndisturbedRoundHeals
  BY DEF LadderInv
<1> QED BY <1>1, LadderKept, PTL

LEMMA LadderTypes == LadderInv => LadderTypeOK
<1> SUFFICES ASSUME LadderInv PROVE LadderTypeOK
  OBVIOUS
<1>1. ASSUME NEW n \in LadderRound
      PROVE  /\ round[n].at \notin {"none", "over"} <=> n = cur
             /\ round[n].rc \in {0, -1, -3, -4, Running}
  BY RoundFacts DEF Results
<1> QED BY <1>1 DEF LadderInv, LadderTyped, SessionTyped, LadderTypeOK

\* The adopted path is given up by the last action only, after the two before it.
THEOREM PathIsLast == LadderSpec => PathIsKeptTillLast
<1> DEFINE TopLevel == \/ At("acts") /\ {1, 2} \subseteq round[cur].did /\ round[cur].level = 3
                   \/ \E l \in late \ late' : l.action = 3 /\ {1, 2} \subseteq round[l.of].did
           IsLast == ladderPath # "none" /\ ladderPath' = "none" => TopLevel
<1>1. LadderInv /\ [LadderNext]_ladderVars => [IsLast]_ladderVars
  <2> SUFFICES ASSUME LadderInv, LadderNext, ladderPath # "none", ladderPath' = "none" PROVE TopLevel
    BY DEF ladderVars
  <2>0. SessionTyped
    BY DEF LadderInv, LadderTyped
  <2>1. CASE Acts
    <3>1. At("acts") /\ StillMissing # {}
      BY <2>1 DEF Acts
    <3>2. PICK k \in 1..3 : k = NextAction /\ Does(k)
      BY <2>1, <3>1, Missing DEF Acts
    <3>3. k # 1 /\ k # 2
      BY <3>2, OthersKeepPath
    <3>4. {1, 2} \subseteq round[cur].did /\ 3 \in 1..round[cur].level /\ round[cur].level \in 1..3
      BY <3>1, <3>2, <3>3, Missing, RunningFacts
    <3> QED BY <3>1, <3>4
  <2>2. CASE LateAction
    <3>1. PICK l \in late : Does(l.action) /\ late' = late \ {l}
      BY <2>2 DEF LateAction
    <3>2. l.action \in 1..3 /\ (l.action = 3 => {1, 2} \subseteq round[l.of].did)
      BY DEF LadderInv, LadderTyped, LateInOrder, Late
    <3>3. l.action = 3
      BY <3>1, <3>2, OthersKeepPath
    <3> QED BY <3>1, <3>2, <3>3
  <2>3. CASE ~Acts /\ ~LateAction
    BY <2>3 DEF LadderNext, RoundSteps, ExitRestarts, SocketFails, PathMoves, AsksLadder, Told, LooksFirst,
       ActsNoMore, ActsTooLong, ActFails, Verifies, RoundCloses, CrossedOver, Unanswered, LadderSession
  <2> QED BY <2>1, <2>2, <2>3
<1> QED BY <1>1, LadderKept, PTL DEF LadderSpec, PathIsKeptTillLast

-----------------------------------------------------------------------------
(* The device table (DeviceTable).                                             *)

Entry == [pub : Pub, sec : Secret, age : 0 .. MaxAge]
Ops == [do : {"add", "remove"}, pub : Pub, sec : Secret \cup {Absent}, sync : BOOLEAN]
Kept == [pub : Pub, sec : Secret]

\* An operation that adds a peer has a secret to add.
OpsInOrder(q) == \A i \in 1 .. Len(q) : q[i].do = "add" => q[i].sec \in Secret
Queues ==
  /\ opQueue \in Seq(Ops) /\ submit \in Seq(Ops) /\ Len(opQueue) <= QueueCap
  /\ OpsInOrder(opQueue) /\ OpsInOrder(submit)
  /\ waiting \in BOOLEAN /\ closing \in {"no", "begun", "done"}
DevicesTyped ==
  /\ peers \in [Pub -> Secret \cup {Absent}] /\ owner \in [Addr -> Pub \cup {Absent}]
  /\ holds \in [Device -> Kept] /\ regs \subseteq [dev : Device, pub : Pub, sec : Secret]
  /\ excused \subseteq Pub /\ news \in 0 .. MaxNews
Table ==
  /\ entries \in [Device -> Entry \cup {Absent}]
  /\ IsFiniteSet(Entered) /\ Cardinality(Entered) <= MaxDevices
  /\ OwnAddresses

DeviceInv == Table /\ Queues /\ DevicesTyped

-----------------------------------------------------------------------------
LEMMA DeviceBounds ==
  /\ MaxDevices \in Nat /\ QueueCap \in Nat /\ Grace \in Nat /\ TTL \in Nat /\ MaxAge \in Nat /\ MaxNews \in Nat
  /\ 0 < MaxDevices /\ 0 < QueueCap /\ Grace <= TTL /\ TTL < MaxAge
  /\ Absent \notin Pub /\ Absent \notin Entry
BY DeviceBoundsAssumption, DeviceKeysAssumption DEF Entry

LEMMA EntryFacts ==
  ASSUME Table, NEW d \in Entered
  PROVE  /\ d \in Device /\ entries[d] \in Entry
         /\ entries[d].pub \in Pub /\ entries[d].sec \in Secret /\ entries[d].age \in 0 .. MaxAge
BY DEF Table, Entered, Entry

LEMMA RegFacts ==
  ASSUME DevicesTyped, NEW r \in regs
  PROVE  /\ r.dev \in Device /\ r.pub \in Pub /\ r.sec \in Secret
         /\ NewEntry(r) \in Entry /\ NewEntry(r).pub = r.pub /\ NewEntry(r).sec = r.sec
         /\ NewEntry(r).age = 0 /\ NewEntry(r) # Absent
<1>1. r \in [dev : Device, pub : Pub, sec : Secret]
  BY DEF DevicesTyped
<1>2. NewEntry(r) \in Entry
  BY <1>1, DeviceBounds DEF NewEntry, Entry
<1> QED BY <1>1, <1>2, DeviceBounds DEF NewEntry

\* An entry that takes the place of another, or a free one, with no conflict among the rest.
LEMMA EnteredKept ==
  ASSUME Table, NEW d \in Device, NEW e \in Entry, NEW in, in \subseteq Entered,
         entries' \in [Device -> Entry \cup {Absent}], entries'[d] = e,
         Entered' = in \cup {d}, d \notin in \/ entries[d].pub # e.pub,
         \A c \in in : c # d => entries'[c] = entries[c],
         \A a \in AddrsOf(e.sec, e.pub) : \A c \in in :
           a \in AddrsOf(entries[c].sec, entries[c].pub) =>
             \E b \in in : a \in AddrsOf(entries[b].sec, entries[b].pub) /\ entries[b].pub = e.pub
  PROVE  OwnAddresses'
<1>1. ASSUME NEW c \in in, c # d, entries[c].pub # e.pub
      PROVE  AddrsOf(e.sec, e.pub) \cap AddrsOf(entries[c].sec, entries[c].pub) = {}
  <2>1. ASSUME NEW a \in AddrsOf(e.sec, e.pub) PROVE a \notin AddrsOf(entries[c].sec, entries[c].pub)
    <3> SUFFICES ASSUME a \in AddrsOf(entries[c].sec, entries[c].pub) PROVE FALSE
      OBVIOUS
    <3>1. PICK b \in in : a \in AddrsOf(entries[b].sec, entries[b].pub) /\ entries[b].pub = e.pub
      BY <1>1, <2>1
    <3>2. AddrsOf(entries[b].sec, entries[b].pub) \cap AddrsOf(entries[c].sec, entries[c].pub) = {}
      BY <1>1, <3>1 DEF Table, OwnAddresses
    <3> QED BY <3>1, <3>2
  <2> QED BY <2>1
<1> SUFFICES ASSUME NEW b \in in \cup {d}, NEW c \in in \cup {d}, entries'[b].pub # entries'[c].pub
             PROVE  AddrsOf(entries'[b].sec, entries'[b].pub) \cap AddrsOf(entries'[c].sec, entries'[c].pub) = {}
  BY DEF OwnAddresses, AddrsOf
<1>2. CASE b # d /\ c # d
  BY <1>2 DEF Table, OwnAddresses
<1>3. CASE b = d /\ c # d
  BY <1>1, <1>3
<1>4. CASE b # d /\ c = d
  BY <1>1, <1>4
<1> QED BY <1>2, <1>3, <1>4

\* Entries that stay or leave keep their addresses apart.
LEMMA FewerKept ==
  ASSUME Table, entries' \in [Device -> Entry \cup {Absent}], Entered' \subseteq Entered,
         \A d \in Entered' : entries'[d].pub = entries[d].pub /\ entries'[d].sec = entries[d].sec
  PROVE  Table'
<1>1. IsFiniteSet(Entered') /\ Cardinality(Entered') <= MaxDevices
  <2>1. IsFiniteSet(Entered) /\ Cardinality(Entered) <= MaxDevices /\ Entered' \in SUBSET Entered
    BY DEF Table
  <2>2. IsFiniteSet(Entered') /\ Cardinality(Entered') <= Cardinality(Entered)
    BY <2>1, FS_Subset
  <2>3. Cardinality(Entered) \in Nat /\ Cardinality(Entered') \in Nat
    BY <2>1, <2>2, FS_CardinalityType
  <2> QED BY <2>1, <2>2, <2>3, DeviceBounds
<1>2. OwnAddresses'
  BY DEF Table, OwnAddresses, AddrsOf
<1> QED BY <1>1, <1>2 DEF Table

LEMMA OneOp ==
  ASSUME NEW op \in Ops, op.do = "add" => op.sec \in Secret
  PROVE  <<op>> \in Seq(Ops) /\ OpsInOrder(<<op>>)
BY DEF OpsInOrder

LEMMA TwoOps ==
  ASSUME NEW o \in Ops, o.do = "add" => o.sec \in Secret, NEW p \in Ops, p.do = "add" => p.sec \in Secret
  PROVE  <<o, p>> \in Seq(Ops) /\ OpsInOrder(<<o, p>>)
<1>1. <<o, p>> \in Seq(Ops) /\ Len(<<o, p>>) = 2 /\ <<o, p>>[1] = o /\ <<o, p>>[2] = p
  OBVIOUS
<1> QED BY <1>1 DEF OpsInOrder

LEMMA JoinedOps ==
  ASSUME NEW s \in Seq(Ops), NEW t \in Seq(Ops), OpsInOrder(s), OpsInOrder(t)
  PROVE  s \o t \in Seq(Ops) /\ OpsInOrder(s \o t)
<1>1. s \o t \in Seq(Ops) /\ Len(s \o t) = Len(s) + Len(t) /\ Len(s) \in Nat /\ Len(t) \in Nat
  OBVIOUS
<1>2. ASSUME NEW i \in 1 .. Len(s \o t), (s \o t)[i].do = "add" PROVE (s \o t)[i].sec \in Secret
  <2>1. CASE i <= Len(s)
    <3>1. (s \o t)[i] = s[i] /\ i \in 1 .. Len(s)
      BY <1>1, <2>1
    <3> QED BY <1>2, <3>1 DEF OpsInOrder
  <2>2. CASE ~(i <= Len(s))
    <3>1. (s \o t)[i] = t[i - Len(s)] /\ i - Len(s) \in 1 .. Len(t)
      BY <1>1, <2>2
    <3> QED BY <1>2, <3>1 DEF OpsInOrder
  <2> QED BY <2>1, <2>2
<1> QED BY <1>1, <1>2 DEF OpsInOrder

LEMMA MadeOps ==
  ASSUME NEW p \in Pub, NEW s \in Secret, NEW y \in BOOLEAN
  PROVE  /\ RemovePeer(p, y) \in Ops /\ RemovePeer(p, y).do = "remove"
         /\ AddPeer(p, s) \in Ops /\ AddPeer(p, s).do = "add" /\ AddPeer(p, s).sec = s
BY DEF RemovePeer, AddPeer, Ops

LEMMA ConflictFree ==
  ASSUME NEW r, NEW in, ~Conflict(r, in)
  PROVE  \A a \in AddrsOf(r.sec, r.pub) : \A c \in in :
           a \in AddrsOf(entries[c].sec, entries[c].pub) =>
             \E b \in in : a \in AddrsOf(entries[b].sec, entries[b].pub) /\ entries[b].pub = r.pub
BY DEF Conflict

-----------------------------------------------------------------------------
\* The two ways to remember a key again.
LEMMA RefreshKept ==
  ASSUME DeviceInv, NEW r \in regs, Refresh(r)
  PROVE  DeviceInv'
<1> DEFINE e == [entries[r.dev] EXCEPT !.age = 0]
<1>1. /\ r.dev \in Entered /\ r.dev \in Device /\ entries[r.dev] \in Entry
      /\ entries \in [Device -> Entry \cup {Absent}]
      /\ UNCHANGED <<opQueue, submit, waiting, excused, deviceVars, clientVars>>
  BY EntryFacts DEF Refresh, DeviceInv, Table
<1>2. e \in Entry /\ e.pub = entries[r.dev].pub /\ e.sec = entries[r.dev].sec /\ e # Absent
  BY <1>1, DeviceBounds DEF Entry
<1>3. entries' = [entries EXCEPT ![r.dev] = e]
  BY <1>1 DEF Refresh, Entry
<1> HIDE DEF e
<1>4. /\ entries' \in [Device -> Entry \cup {Absent}] /\ entries'[r.dev] = e
      /\ \A d \in Device : d # r.dev => entries'[d] = entries[d]
  BY <1>1, <1>2, <1>3
<1>5. Entered' \subseteq Entered
  BY <1>1, <1>4 DEF Entered
<1>6. \A d \in Entered' : entries'[d].pub = entries[d].pub /\ entries'[d].sec = entries[d].sec
  BY <1>2, <1>4 DEF Entered
<1>7. Table'
  BY <1>4, <1>5, <1>6, FewerKept DEF DeviceInv
<1> QED BY <1>1, <1>7 DEF DeviceInv, Queues, DevicesTyped, deviceVars, clientVars

LEMMA RotateKept ==
  ASSUME DeviceInv, NEW r \in regs, Rotate(r)
  PROVE  DeviceInv'
<1> DEFINE old == entries[r.dev].pub
           e == NewEntry(r)
<1>1. /\ r.dev \in Entered /\ r.dev \in Device /\ old \in Pub /\ old # r.pub
      /\ r.pub \in Pub /\ r.sec \in Secret /\ e \in Entry /\ e.pub = r.pub /\ e.sec = r.sec /\ e # Absent
      /\ entries \in [Device -> Entry \cup {Absent}]
      /\ UNCHANGED <<opQueue, waiting, deviceVars, clientVars>>
  BY EntryFacts, RegFacts DEF Rotate, DeviceInv, Table
<1> HIDE DEF e
<1>2. CASE Conflict(r, Entered)
  <2>1. submit' = <<RemovePeer(old, FALSE)>> /\ excused' = excused \cup {old} /\ UNCHANGED entries
    BY <1>2 DEF Rotate
  <2>2. submit' \in Seq(Ops) /\ OpsInOrder(submit')
    BY <1>1, <2>1, MadeOps, OneOp
  <2>3. Table'
    BY <2>1 DEF DeviceInv, Table, Entered, OwnAddresses, AddrsOf
  <2> QED BY <1>1, <2>1, <2>2, <2>3 DEF DeviceInv, Queues, OpsInOrder, DevicesTyped, deviceVars, clientVars
<1>3. CASE ~Conflict(r, Entered)
  <2>1. /\ submit' = <<RemovePeer(old, FALSE), AddPeer(r.pub, r.sec)>> /\ excused' = excused \ {r.pub}
        /\ entries' = [entries EXCEPT ![r.dev] = e]
    BY <1>3 DEF Rotate, e
  <2>2. submit' \in Seq(Ops) /\ OpsInOrder(submit')
    BY <1>1, <2>1, MadeOps, TwoOps
  <2>3. /\ entries' \in [Device -> Entry \cup {Absent}] /\ entries'[r.dev] = e
        /\ \A d \in Device : d # r.dev => entries'[d] = entries[d]
    BY <1>1, <2>1
  <2>4. Entered' = Entered \cup {r.dev} /\ Entered' = Entered
    BY <1>1, <2>3 DEF Entered
  <2>5. OwnAddresses'
    <3>1. Table /\ Entered \subseteq Device
      BY DEF DeviceInv, Entered
    <3>2. \A a \in AddrsOf(e.sec, e.pub) : \A c \in Entered :
            a \in AddrsOf(entries[c].sec, entries[c].pub) =>
              \E b \in Entered : a \in AddrsOf(entries[b].sec, entries[b].pub) /\ entries[b].pub = e.pub
      BY <1>1, <1>3, ConflictFree
    <3> QED BY <1>1, <2>3, <2>4, <3>1, <3>2, EnteredKept
  <2>6. Table'
    BY <2>3, <2>4, <2>5 DEF DeviceInv, Table
  <2> QED BY <1>1, <2>1, <2>2, <2>6 DEF DeviceInv, Queues, OpsInOrder, DevicesTyped, deviceVars, clientVars
<1> QED BY <1>2, <1>3

\* The two ways into the table.
LEMMA AddKept ==
  ASSUME DeviceInv, NEW r \in regs, Add(r)
  PROVE  DeviceInv'
<1> DEFINE e == NewEntry(r)
<1>1. /\ r.dev \notin Entered /\ r.dev \in Device
      /\ r.pub \in Pub /\ r.sec \in Secret /\ e \in Entry /\ e.pub = r.pub /\ e.sec = r.sec /\ e # Absent
      /\ entries \in [Device -> Entry \cup {Absent}]
      /\ UNCHANGED <<opQueue, waiting, deviceVars, clientVars>>
      /\ submit' = <<AddPeer(r.pub, r.sec)>> /\ excused' = excused \ {r.pub}
      /\ entries' = [entries EXCEPT ![r.dev] = e]
      /\ Cardinality(Entered) < MaxDevices /\ ~Conflict(r, Entered)
  BY RegFacts DEF Add, DeviceInv, Table
<1> HIDE DEF e
<1>2. submit' \in Seq(Ops) /\ OpsInOrder(submit')
  BY <1>1, MadeOps, OneOp
<1>3. /\ entries' \in [Device -> Entry \cup {Absent}] /\ entries'[r.dev] = e
      /\ \A d \in Device : d # r.dev => entries'[d] = entries[d]
  BY <1>1
<1>4. Entered' = Entered \cup {r.dev}
  BY <1>1, <1>3 DEF Entered
<1>5. OwnAddresses'
  <2>1. Table /\ Entered \subseteq Device
    BY DEF DeviceInv, Entered
  <2>2. \A a \in AddrsOf(e.sec, e.pub) : \A c \in Entered :
          a \in AddrsOf(entries[c].sec, entries[c].pub) =>
            \E b \in Entered : a \in AddrsOf(entries[b].sec, entries[b].pub) /\ entries[b].pub = e.pub
    BY <1>1, ConflictFree
  <2> QED BY <1>1, <1>3, <1>4, <2>1, <2>2, EnteredKept
<1>6. IsFiniteSet(Entered') /\ Cardinality(Entered') <= MaxDevices
  <2>1. IsFiniteSet(Entered)
    BY DEF DeviceInv, Table
  <2>2. IsFiniteSet(Entered') /\ Cardinality(Entered') = Cardinality(Entered) + 1 /\ Cardinality(Entered) \in Nat
    BY <1>1, <1>4, <2>1, FS_AddElement, FS_CardinalityType
  <2> QED BY <1>1, <2>2, DeviceBounds
<1>7. Table'
  BY <1>3, <1>5, <1>6 DEF Table
<1> QED BY <1>1, <1>2, <1>7 DEF DeviceInv, Queues, OpsInOrder, DevicesTyped, deviceVars, clientVars

LEMMA EvictionKept ==
  ASSUME DeviceInv, NEW r \in regs, AddByEviction(r)
  PROVE  DeviceInv'
<1> DEFINE e == NewEntry(r)
<1>1. /\ r.dev \notin Entered /\ r.dev \in Device
      /\ r.pub \in Pub /\ r.sec \in Secret /\ e \in Entry /\ e.pub = r.pub /\ e.sec = r.sec /\ e # Absent
      /\ entries \in [Device -> Entry \cup {Absent}] /\ entries[r.dev] = Absent
      /\ UNCHANGED <<opQueue, waiting, deviceVars, clientVars>>
  BY RegFacts DEF AddByEviction, DeviceInv, Table, Entered
<1>2. PICK d \in Entered :
        LET refused == Conflict(r, Entered \ {d})
        IN  /\ entries' = [entries EXCEPT ![d] = Absent, ![r.dev] = IF refused THEN Absent ELSE e]
            /\ submit' = <<RemovePeer(entries[d].pub, TRUE)>> \o (IF refused THEN <<>> ELSE <<AddPeer(r.pub, r.sec)>>)
            /\ excused' = IF refused THEN excused ELSE excused \ {r.pub}
  BY DEF AddByEviction
<1> HIDE DEF e
<1>3. /\ d \in Device /\ entries[d].pub \in Pub /\ d # r.dev /\ Table
      /\ IsFiniteSet(Entered) /\ Cardinality(Entered) <= MaxDevices /\ Cardinality(Entered) \in Nat
  BY <1>1, EntryFacts, FS_CardinalityType DEF DeviceInv, Table
<1>4. /\ RemovePeer(entries[d].pub, TRUE) \in Ops /\ RemovePeer(entries[d].pub, TRUE).do = "remove"
      /\ AddPeer(r.pub, r.sec) \in Ops /\ AddPeer(r.pub, r.sec).sec \in Secret
  BY <1>1, <1>3, MadeOps
<1>5. excused' \subseteq Pub
  BY <1>1, <1>2 DEF DeviceInv, DevicesTyped
<1>6. IsFiniteSet(Entered \ {d}) /\ Cardinality(Entered \ {d}) = Cardinality(Entered) - 1
  BY <1>3, FS_RemoveElement
<1>7. submit' \in Seq(Ops) /\ OpsInOrder(submit')
  <2> DEFINE later == IF Conflict(r, Entered \ {d}) THEN <<>> ELSE <<AddPeer(r.pub, r.sec)>>
  <2>1. later \in Seq(Ops) /\ OpsInOrder(later)
    <3>1. <<>> \in Seq(Ops) /\ OpsInOrder(<<>>)
      BY DEF OpsInOrder
    <3>2. <<AddPeer(r.pub, r.sec)>> \in Seq(Ops) /\ OpsInOrder(<<AddPeer(r.pub, r.sec)>>)
      BY <1>4, OneOp
    <3> QED BY <3>1, <3>2
  <2>2. /\ <<RemovePeer(entries[d].pub, TRUE)>> \in Seq(Ops)
        /\ OpsInOrder(<<RemovePeer(entries[d].pub, TRUE)>>)
    BY <1>4, OneOp
  <2>3. submit' = <<RemovePeer(entries[d].pub, TRUE)>> \o later
    BY <1>2
  <2> HIDE DEF later
  <2> QED BY <2>1, <2>2, <2>3, JoinedOps
<1>8. CASE Conflict(r, Entered \ {d})
  <2>1. entries' = [entries EXCEPT ![d] = Absent, ![r.dev] = Absent]
    BY <1>2, <1>8
  <2>2. /\ entries' \in [Device -> Entry \cup {Absent}] /\ entries'[d] = Absent
        /\ \A c \in Device : c # d => entries'[c] = entries[c]
    BY <1>1, <1>3, <2>1
  <2>3. Entered' \subseteq Entered
        /\ \A c \in Entered' : entries'[c].pub = entries[c].pub /\ entries'[c].sec = entries[c].sec
    BY <2>2 DEF Entered
  <2>4. Table'
    BY <1>3, <2>2, <2>3, FewerKept
  <2> QED BY <1>1, <1>5, <1>7, <2>4 DEF DeviceInv, Queues, OpsInOrder, DevicesTyped, deviceVars, clientVars
<1>9. CASE ~Conflict(r, Entered \ {d})
  <2>1. entries' = [entries EXCEPT ![d] = Absent, ![r.dev] = e]
    BY <1>2, <1>9
  <2>2. /\ entries' \in [Device -> Entry \cup {Absent}] /\ entries'[d] = Absent /\ entries'[r.dev] = e
        /\ \A c \in Device : c # d /\ c # r.dev => entries'[c] = entries[c]
    BY <1>1, <1>3, <2>1
  <2>3. Entered' = (Entered \ {d}) \cup {r.dev} /\ r.dev \notin Entered \ {d}
    <3>1. ASSUME NEW c \in Device PROVE c \in Entered' <=> c \in (Entered \ {d}) \cup {r.dev}
      BY <1>1, <1>3, <2>2 DEF Entered
    <3>2. Entered' \subseteq Device /\ (Entered \ {d}) \cup {r.dev} \subseteq Device
      BY <1>1 DEF Entered
    <3>3. r.dev \notin Entered
      BY <1>1
    <3> QED BY <3>1, <3>2, <3>3
  <2>4. \A c \in Entered \ {d} : c # r.dev => entries'[c] = entries[c]
    BY <2>2 DEF Entered
  <2>5. \A a \in AddrsOf(e.sec, e.pub) : \A c \in Entered \ {d} :
          a \in AddrsOf(entries[c].sec, entries[c].pub) =>
            \E b \in Entered \ {d} : a \in AddrsOf(entries[b].sec, entries[b].pub) /\ entries[b].pub = e.pub
    BY <1>1, <1>9, ConflictFree
  <2>6. OwnAddresses'
    <3>1. Table /\ Entered \ {d} \subseteq Entered /\ r.dev \in Device /\ e \in Entry
      BY <1>1 DEF DeviceInv
    <3>2. PICK rest : rest = Entered \ {d}
      OBVIOUS
    <3>3. PICK new \in Entry : new = e
      BY <3>1
    <3>4. \A a \in AddrsOf(new.sec, new.pub) : \A c \in rest :
            a \in AddrsOf(entries[c].sec, entries[c].pub) =>
              \E b \in rest : a \in AddrsOf(entries[b].sec, entries[b].pub) /\ entries[b].pub = new.pub
      BY <2>5, <3>2, <3>3
    <3>5. /\ rest \subseteq Entered /\ Entered' = rest \cup {r.dev} /\ r.dev \notin rest
          /\ \A c \in rest : r.dev # c => entries'[c] = entries[c]
      BY <2>3, <2>4, <3>2
    <3>6. entries' \in [Device -> Entry \cup {Absent}] /\ entries'[r.dev] = new
      BY <2>2, <3>3
    <3> HIDE DEF e
    <3> QED BY <3>1, <3>4, <3>5, <3>6, EnteredKept
  <2>7. IsFiniteSet(Entered') /\ Cardinality(Entered') <= MaxDevices
    <3>1. IsFiniteSet(Entered') /\ Cardinality(Entered') = Cardinality(Entered \ {d}) + 1
      BY <1>6, <2>3, FS_AddElement
    <3> QED BY <1>3, <1>6, <3>1
  <2>8. Table'
    BY <2>2, <2>6, <2>7 DEF Table
  <2> QED BY <1>1, <1>5, <1>7, <2>8 DEF DeviceInv, Queues, OpsInOrder, DevicesTyped, deviceVars, clientVars
<1> QED BY <1>8, <1>9

-----------------------------------------------------------------------------
\* Ages grow, and entries that are too old go.
LEMMA TimeKept ==
  ASSUME DeviceInv, TimePasses
  PROVE  DeviceInv'
<1>1. ASSUME NEW d \in Device
      PROVE  /\ entries'[d] \in Entry \cup {Absent} /\ (entries'[d] # Absent => d \in Entered)
             /\ d \in Entered => entries'[d].pub = entries[d].pub /\ entries'[d].sec = entries[d].sec
  <2>1. CASE d \in Entered /\ entries[d].age < MaxAge
    <3> DEFINE n == entries[d].age + 1
               e == [entries[d] EXCEPT !.age = n]
    <3>1. n \in 0 .. MaxAge /\ entries[d] \in Entry
      BY <2>1, EntryFacts, DeviceBounds DEF DeviceInv
    <3>2. entries'[d] = e
      BY <2>1, <3>1 DEF TimePasses, Entry
    <3> HIDE DEF n
    <3>3. e \in Entry /\ e.pub = entries[d].pub /\ e.sec = entries[d].sec
      BY <3>1 DEF Entry
    <3> HIDE DEF e
    <3> QED BY <2>1, <3>2, <3>3
  <2>2. CASE ~(d \in Entered /\ entries[d].age < MaxAge)
    <3>1. entries'[d] = entries[d] /\ entries[d] \in Entry \cup {Absent}
      BY <2>2 DEF TimePasses, DeviceInv, Table
    <3> QED BY <3>1 DEF Entered
  <2> QED BY <2>1, <2>2
<1>2. entries' \in [Device -> Entry \cup {Absent}]
  BY <1>1 DEF TimePasses
<1>3. Entered' \subseteq Entered
      /\ \A d \in Entered' : entries'[d].pub = entries[d].pub /\ entries'[d].sec = entries[d].sec
  BY <1>1 DEF Entered
<1>4. Table'
  BY <1>2, <1>3, FewerKept DEF DeviceInv
<1> QED BY <1>4 DEF TimePasses, DeviceInv, Queues, DevicesTyped, deviceVars, clientVars

LEMMA SequenceOf ==
  ASSUME NEW S, NEW n \in Nat, NEW f \in [1 .. n -> S]
  PROVE  f \in Seq(S) /\ Len(f) = n
<1>1. f \in Seq(S)
  BY SeqDef
<1>2. Len(f) \in Nat /\ DOMAIN f = 1 .. Len(f) /\ DOMAIN f = 1 .. n
  BY <1>1, LenProperties
<1> QED BY <1>1, <1>2

LEMMA AllOfThem ==
  ASSUME NEW S, IsFiniteSet(S), NEW i \in 1 .. Cardinality(S)
  PROVE  SetToSeq(S)[i] \in S
<1>1. \E f \in [1..Cardinality(S) -> S] : IsInjective(f)
  <2>1. ExistsBijection(1..Cardinality(S), S)
    BY FS_CardinalityType
  <2> QED BY <2>1 DEF ExistsBijection, Bijection, Injection, IsInjective
<1>2. SetToSeq(S) \in [1..Cardinality(S) -> S]
  BY <1>1 DEF SetToSeq
<1> QED BY <1>2

LEMMA GCKept ==
  ASSUME DeviceInv, GC
  PROVE  DeviceInv'
<1> DEFINE victims == {d \in Entered : entries[d].age > TTL}
           n == Cardinality(victims)
<1>1. IsFiniteSet(victims) /\ n \in Nat
  <2>1. IsFiniteSet(Entered) /\ victims \in SUBSET Entered
    BY DEF DeviceInv, Table
  <2>2. IsFiniteSet(victims)
    BY <2>1, FS_Subset
  <2> QED BY <2>2, FS_CardinalityType
<1>2. /\ entries' = [d \in Device |-> IF d \in victims THEN Absent ELSE entries[d]]
      /\ submit' = [i \in 1 .. n |-> RemovePeer(entries[SetToSeq(victims)[i]].pub, TRUE)]
      /\ UNCHANGED <<opQueue, waiting, excused, deviceVars, clientVars>>
  BY DEF GC
<1>3. ASSUME NEW i \in 1 .. n PROVE submit'[i] \in Ops /\ submit'[i].do = "remove"
  <2>1. SetToSeq(victims)[i] \in victims
    BY <1>1, AllOfThem
  <2>2. entries[SetToSeq(victims)[i]].pub \in Pub
    BY <2>1, EntryFacts DEF DeviceInv
  <2> QED BY <1>2, <2>2 DEF RemovePeer, Ops
<1>4. submit' \in Seq(Ops) /\ OpsInOrder(submit')
  <2>1. submit' \in [1 .. n -> Ops]
    BY <1>2, <1>3
  <2>2. submit' \in Seq(Ops) /\ Len(submit') = n
    BY <1>1, <2>1, SequenceOf
  <2> QED BY <1>3, <2>2 DEF OpsInOrder
<1>5. entries' \in [Device -> Entry \cup {Absent}]
  BY <1>2 DEF DeviceInv, Table
<1>6. Entered' \subseteq Entered
      /\ \A d \in Entered' : entries'[d].pub = entries[d].pub /\ entries'[d].sec = entries[d].sec
  BY <1>2 DEF Entered
<1>7. Table'
  BY <1>5, <1>6, FewerKept DEF DeviceInv
<1> QED BY <1>2, <1>4, <1>7 DEF DeviceInv, Queues, OpsInOrder, DevicesTyped, deviceVars, clientVars

-----------------------------------------------------------------------------
\* The queue and the device.
LEMMA SameTable ==
  ASSUME Table, UNCHANGED entries
  PROVE  Table'
BY DEF Table, Entered, OwnAddresses, AddrsOf

LEMMA FirstOut ==
  ASSUME NEW s \in Seq(Ops), OpsInOrder(s), s # <<>>
  PROVE  /\ Head(s) \in Ops /\ (Head(s).do = "add" => Head(s).sec \in Secret)
         /\ Head(s).pub \in Pub /\ Head(s).sync \in BOOLEAN /\ Head(s).do \in {"add", "remove"}
         /\ Tail(s) \in Seq(Ops) /\ Len(Tail(s)) = Len(s) - 1 /\ OpsInOrder(Tail(s))
<1>1. /\ Head(s) = s[1] /\ 1 \in 1 .. Len(s) /\ s[1] \in Ops /\ Tail(s) \in Seq(Ops)
      /\ Len(Tail(s)) = Len(s) - 1 /\ \A i \in 1 .. Len(Tail(s)) : Tail(s)[i] = s[i + 1] /\ i + 1 \in 1 .. Len(s)
  OBVIOUS
<1> QED BY <1>1 DEF OpsInOrder, Ops

LEMMA LastIn ==
  ASSUME NEW s \in Seq(Ops), OpsInOrder(s), NEW op \in Ops, op.do = "add" => op.sec \in Secret
  PROVE  Append(s, op) \in Seq(Ops) /\ Len(Append(s, op)) = Len(s) + 1 /\ OpsInOrder(Append(s, op))
<1>1. /\ Append(s, op) \in Seq(Ops) /\ Len(Append(s, op)) = Len(s) + 1 /\ Len(s) \in Nat
      /\ Append(s, op)[Len(s) + 1] = op /\ \A i \in 1 .. Len(s) : Append(s, op)[i] = s[i]
  OBVIOUS
<1>2. \A i \in 1 .. Len(s) + 1 : i = Len(s) + 1 \/ i \in 1 .. Len(s)
  BY <1>1
<1> QED BY <1>1, <1>2 DEF OpsInOrder

LEMMA QueueKept ==
  ASSUME DeviceInv, QueueSteps
  PROVE  DeviceInv'
<1>0. /\ UNCHANGED <<entries, deviceVars, clientVars>> /\ opQueue \in Seq(Ops) /\ submit \in Seq(Ops)
      /\ OpsInOrder(submit) /\ OpsInOrder(opQueue)
  BY DEF QueueSteps, Enqueue, EnqueueTimesOut, Waited, WaitTimesOut, DeviceInv, Queues
<1>1. Table'
  BY <1>0, SameTable DEF DeviceInv
<1>2. CASE Enqueue
  <2>1. /\ submit # <<>> /\ Len(opQueue) < QueueCap /\ opQueue' = Append(opQueue, Head(submit))
        /\ submit' = Tail(submit) /\ waiting' = Head(submit).sync /\ UNCHANGED excused
    BY <1>2 DEF Enqueue
  <2>2. /\ Head(submit) \in Ops /\ (Head(submit).do = "add" => Head(submit).sec \in Secret)
        /\ submit' \in Seq(Ops) /\ OpsInOrder(submit') /\ waiting' \in BOOLEAN
    BY <1>0, <2>1, FirstOut
  <2>3. opQueue' \in Seq(Ops) /\ Len(opQueue') = Len(opQueue) + 1 /\ OpsInOrder(opQueue')
    BY <1>0, <2>1, <2>2, LastIn
  <2>4. Len(opQueue') <= QueueCap
    BY <1>0, <2>1, <2>3, DeviceBounds
  <2> QED BY <1>0, <1>1, <2>1, <2>2, <2>3, <2>4
          DEF DeviceInv, Queues, DevicesTyped, deviceVars, clientVars
<1>3. CASE EnqueueTimesOut
  <2>1. /\ submit # <<>> /\ submit' = Tail(submit) /\ excused' = excused \cup {Head(submit).pub}
        /\ UNCHANGED <<opQueue, waiting>>
    BY <1>3 DEF EnqueueTimesOut
  <2>2. Head(submit).pub \in Pub /\ submit' \in Seq(Ops) /\ OpsInOrder(submit')
    BY <1>0, <2>1, FirstOut
  <2> QED BY <1>0, <1>1, <2>1, <2>2 DEF DeviceInv, Queues, OpsInOrder, DevicesTyped, deviceVars, clientVars
<1>4. CASE Waited \/ WaitTimesOut
  <2>1. waiting' = FALSE /\ UNCHANGED <<opQueue, submit, excused>>
    BY <1>4 DEF Waited, WaitTimesOut
  <2> QED BY <1>0, <1>1, <2>1 DEF DeviceInv, Queues, OpsInOrder, DevicesTyped, deviceVars, clientVars
<1> QED BY <1>2, <1>3, <1>4 DEF QueueSteps

LEMMA ConsumeKept ==
  ASSUME DeviceInv, Consume
  PROVE  DeviceInv'
<1>1. /\ opQueue # <<>> /\ opQueue' = Tail(opQueue) /\ opQueue \in Seq(Ops) /\ OpsInOrder(opQueue)
      /\ UNCHANGED <<entries, submit, waiting, excused, closing, clientVars>> /\ Len(opQueue) <= QueueCap
  BY DEF Consume, DeviceInv, Queues
<1>2. PICK op \in Ops : /\ op.do = "add" => op.sec \in Secret
                        /\ op.pub \in Pub /\ op.do \in {"add", "remove"}
                        /\ peers' = Configure(DeviceNow, op).peers
                        /\ owner' = Configure(DeviceNow, op).owner
  BY <1>1, FirstOut DEF Consume
<1>3. opQueue' \in Seq(Ops) /\ Len(opQueue') <= QueueCap /\ OpsInOrder(opQueue')
  BY <1>1, FirstOut, DeviceBounds
<1>4. DeviceNow.peers = peers /\ DeviceNow.owner = owner
  BY DEF DeviceNow
<1>5. peers \in [Pub -> Secret \cup {Absent}] /\ owner \in [Addr -> Pub \cup {Absent}]
  BY DEF DeviceInv, DevicesTyped
<1>6. CASE op.do = "add"
  <2>1. /\ peers' = [peers EXCEPT ![op.pub] = op.sec]
        /\ owner' = [a \in Addr |-> IF a \in AddrsOf(op.sec, op.pub) THEN op.pub ELSE owner[a]]
    BY <1>2, <1>4, <1>6 DEF Configure
  <2>2. peers' \in [Pub -> Secret \cup {Absent}] /\ owner' \in [Addr -> Pub \cup {Absent}]
    BY <1>2, <1>5, <1>6, <2>1
  <2> QED BY <1>1, <1>3, <2>2, SameTable DEF DeviceInv, Queues, OpsInOrder, DevicesTyped, clientVars
<1>7. CASE op.do # "add"
  <2>1. /\ peers' = [peers EXCEPT ![op.pub] = Absent]
        /\ owner' = [a \in Addr |-> IF owner[a] = op.pub THEN Absent ELSE owner[a]]
    BY <1>2, <1>4, <1>7 DEF Configure
  <2>2. peers' \in [Pub -> Secret \cup {Absent}] /\ owner' \in [Addr -> Pub \cup {Absent}]
    BY <1>2, <1>5, <2>1
  <2> QED BY <1>1, <1>3, <2>2, SameTable DEF DeviceInv, Queues, OpsInOrder, DevicesTyped, clientVars
<1> QED BY <1>6, <1>7

LEMMA RenewKept ==
  ASSUME DeviceInv, NEW d \in Device, NEW key \in Kept, Renew(d, key)
  PROVE  DeviceInv'
<1>1. /\ UNCHANGED <<tableVars, deviceVars>> /\ holds' = [holds EXCEPT ![d] = key]
      /\ regs' = regs \cup {Reg(d, key)} /\ news < MaxNews /\ news' = news + 1
  BY DEF Renew
<1>2. Reg(d, key) \in [dev : Device, pub : Pub, sec : Secret]
  BY DEF Reg, Kept
<1>3. DevicesTyped'
  BY <1>1, <1>2, DeviceBounds DEF DeviceInv, DevicesTyped, tableVars, deviceVars
<1> QED BY <1>1, <1>3, SameTable DEF DeviceInv, Queues, OpsInOrder, tableVars, deviceVars

LEMMA ClientKept == DeviceInv /\ ClientSteps => DeviceInv'
<1> SUFFICES ASSUME DeviceInv, NEW d \in Device, NewKey(d) \/ NewToken(d) PROVE DeviceInv'
  BY DEF ClientSteps
<1>1. holds[d] \in Kept /\ Keys[d] \subseteq Pub
  BY DeviceKeysAssumption DEF DeviceInv, DevicesTyped
<1>3. ASSUME NewKey(d) PROVE DeviceInv'
  <2>1. PICK p \in Keys[d] : Renew(d, [holds[d] EXCEPT !.pub = p])
    BY <1>3 DEF NewKey
  <2>2. p \in Pub
    BY <1>1
  <2>3. [holds[d] EXCEPT !.pub = p] \in Kept
    BY <1>1, <2>2 DEF Kept
  <2> QED BY <2>1, <2>3, RenewKept
<1>4. ASSUME NewToken(d) PROVE DeviceInv'
  <2>1. PICK s \in Secret : Renew(d, [holds[d] EXCEPT !.sec = s])
    BY <1>4 DEF NewToken
  <2>2. [holds[d] EXCEPT !.sec = s] \in Kept
    BY <1>1 DEF Kept
  <2> QED BY <2>1, <2>2, RenewKept
<1> QED BY <1>3, <1>4

-----------------------------------------------------------------------------
\* The table never has more devices than it may have nor two with one address, and every
\* operation on its way to the device adds a peer with a secret or removes one (Register,
\* evictStaleLocked, gc and opCh in pkg/servercore/peers.go).
THEOREM DevicesKept == DeviceSpec => []DeviceInv
<1>1. DeviceInit => DeviceInv
  <2> SUFFICES ASSUME DeviceInit PROVE DeviceInv
    OBVIOUS
  <2>1. PICK s \in Secret : holds = [d \in Device |-> [pub |-> FirstKey[d], sec |-> s]]
    BY DEF DeviceInit
  <2>2. \A d \in Device : holds[d] \in Kept
    BY <2>1, DeviceKeysAssumption DEF Kept
  <2>3. DevicesTyped
    <3>1. regs \subseteq [dev : Device, pub : Pub, sec : Secret]
      BY <2>2 DEF DeviceInit, Kept
    <3>2. holds \in [Device -> Kept]
      BY <2>1, <2>2
    <3> QED BY <3>1, <3>2, DeviceBounds DEF DeviceInit, DevicesTyped
  <2>4. Entered = {}
    BY DEF DeviceInit, Entered
  <2>5. IsFiniteSet(Entered) /\ Cardinality(Entered) <= MaxDevices
    BY <2>4, FS_EmptySet, DeviceBounds
  <2>6. Table
    BY <2>4, <2>5 DEF DeviceInit, Table, OwnAddresses
  <2>7. Queues
    <3>1. opQueue = <<>> /\ submit = <<>> /\ waiting \in BOOLEAN /\ closing \in {"no", "begun", "done"}
      BY DEF DeviceInit
    <3>2. <<>> \in Seq(Ops) /\ Len(<<>>) = 0
      BY EmptySeq
    <3>3. OpsInOrder(<<>>)
      BY <3>2 DEF OpsInOrder
    <3> QED BY <3>1, <3>2, <3>3, DeviceBounds DEF Queues
  <2> QED BY <2>3, <2>6, <2>7 DEF DeviceInv
<1>2. DeviceInv /\ [DeviceNext]_deviceTableVars => DeviceInv'
  <2> SUFFICES ASSUME DeviceInv, [DeviceNext]_deviceTableVars PROVE DeviceInv'
    OBVIOUS
  <2>1. CASE CloseDevice \/ DeviceClosed
    <3>1. closing' \in {"begun", "done"} /\ UNCHANGED <<tableVars, peers, owner, clientVars>>
      BY <2>1 DEF CloseDevice, DeviceClosed
    <3> QED BY <3>1, SameTable DEF DeviceInv, Queues, OpsInOrder, DevicesTyped, tableVars, clientVars
  <2>2. CASE UNCHANGED deviceTableVars
    BY <2>2, SameTable DEF DeviceInv, Queues, OpsInOrder, DevicesTyped, deviceTableVars, tableVars, deviceVars,
       clientVars
  <2> QED BY <2>1, <2>2, ClientKept, RefreshKept, RotateKept, AddKept, EvictionKept, TimeKept, GCKept,
             QueueKept, ConsumeKept DEF DeviceNext, Register
<1> QED BY <1>1, <1>2, PTL DEF DeviceSpec

LEMMA DeviceTypes == DeviceInv => DeviceTypeOK
BY DEF DeviceInv, Table, Queues, DevicesTyped, DeviceTypeOK, Entry, Kept

\* No address of the tunnel belongs to two devices with different keys.
THEOREM AddressesAreOwn == DeviceSpec => []OwnAddresses
<1>1. DeviceInv => OwnAddresses
  BY DEF DeviceInv, Table
<1> QED BY <1>1, DevicesKept, PTL

-----------------------------------------------------------------------------
-----------------------------------------------------------------------------
\* What is queued for the device makes its peers those of the table.

\* Every device uses keys of its own, in the table too.
OwnKeys ==
  /\ \A d \in Device : holds[d].pub \in KeysOf(d)
  /\ \A r \in regs : r.pub \in KeysOf(r.dev)
  /\ \A d \in Entered : entries[d].pub \in KeysOf(d)

LEMMA OneKeyEach ==
  ASSUME OwnKeys, NEW d \in Entered, NEW e \in Entered, entries[d].pub = entries[e].pub
  PROVE  d = e
<1>1. d \in Device /\ e \in Device /\ entries[d].pub \in KeysOf(d) /\ entries[e].pub \in KeysOf(e)
  BY DEF OwnKeys, Entered
<1> QED BY <1>1, OwnKeysAssumption

LEMMA OwnKeysStart == DeviceInit => OwnKeys
<1> SUFFICES ASSUME DeviceInit PROVE OwnKeys
  OBVIOUS
<1>1. PICK s \in Secret : holds = [d \in Device |-> [pub |-> FirstKey[d], sec |-> s]]
  BY DEF DeviceInit
<1>2. \A d \in Device : holds[d].pub \in KeysOf(d)
  BY <1>1 DEF KeysOf
<1>3. \A r \in regs : r.dev \in Device /\ r.pub = holds[r.dev].pub
  BY DEF DeviceInit
<1>4. Entered = {}
  BY DEF DeviceInit, Entered
<1> QED BY <1>2, <1>3, <1>4 DEF OwnKeys

\* A key that enters the table comes in a registration.
LEMMA OwnKeysStep == DeviceInv /\ OwnKeys /\ [DeviceNext]_deviceTableVars => OwnKeys'
<1> SUFFICES ASSUME DeviceInv, OwnKeys, [DeviceNext]_deviceTableVars PROVE OwnKeys'
  OBVIOUS
<1>0. /\ Table /\ DevicesTyped /\ entries \in [Device -> Entry \cup {Absent}] /\ holds \in [Device -> Kept]
      /\ Entered \subseteq Device
  BY DEF DeviceInv, Table, DevicesTyped, Entered
<1>1. ASSUME UNCHANGED <<holds, regs>>,
             \A d \in Entered' : \/ d \in Entered /\ entries'[d].pub = entries[d].pub
                                 \/ \E r \in regs : r.dev = d /\ entries'[d].pub = r.pub
      PROVE  OwnKeys'
  BY <1>1 DEF OwnKeys
<1>2. ASSUME NEW d \in Device, NEW key \in Kept, Renew(d, key), key.pub \in KeysOf(d) PROVE OwnKeys'
  <2>1. /\ holds' = [holds EXCEPT ![d] = key] /\ regs' = regs \cup {Reg(d, key)} /\ entries' = entries
    BY <1>2 DEF Renew, tableVars
  <2>2. \A c \in Device : holds'[c].pub \in KeysOf(c)
    BY <1>0, <1>2, <2>1 DEF OwnKeys
  <2>3. \A r \in regs' : r.pub \in KeysOf(r.dev)
    BY <1>2, <2>1 DEF OwnKeys, Reg
  <2>4. Entered' = Entered
    BY <2>1 DEF Entered
  <2> QED BY <2>1, <2>2, <2>3, <2>4 DEF OwnKeys
<1>3. CASE ClientSteps
  <2>1. PICK d \in Device : NewKey(d) \/ NewToken(d)
    BY <1>3 DEF ClientSteps
  <2>2. holds[d] \in Kept /\ holds[d].pub \in KeysOf(d) /\ Keys[d] \subseteq KeysOf(d) /\ KeysOf(d) \subseteq Pub
    BY <1>0, DeviceKeysAssumption DEF OwnKeys, KeysOf
  <2>3. CASE NewKey(d)
    <3>1. PICK p \in Keys[d] : Renew(d, [holds[d] EXCEPT !.pub = p])
      BY <2>3 DEF NewKey
    <3>2. p \in KeysOf(d) /\ p \in Pub
      BY <2>2
    <3>3. PICK h \in Kept : h = holds[d]
      BY <2>2
    <3>4. [h EXCEPT !.pub = p] \in Kept /\ [h EXCEPT !.pub = p].pub = p
      BY <3>2, <3>3 DEF Kept
    <3> QED BY <1>2, <3>1, <3>2, <3>3, <3>4
  <2>4. CASE NewToken(d)
    <3>1. PICK s \in Secret : Renew(d, [holds[d] EXCEPT !.sec = s])
      BY <2>4 DEF NewToken
    <3>2. [holds[d] EXCEPT !.sec = s] \in Kept /\ [holds[d] EXCEPT !.sec = s].pub = holds[d].pub
      BY <2>2 DEF Kept
    <3> QED BY <1>2, <2>2, <3>1, <3>2
  <2> QED BY <2>1, <2>3, <2>4
<1>4. ASSUME NEW r \in regs, Refresh(r) PROVE OwnKeys'
  <2>1. /\ r.dev \in Entered /\ entries' = [entries EXCEPT ![r.dev].age = 0] /\ UNCHANGED <<holds, regs>>
    BY <1>4 DEF Refresh, clientVars
  <2>2. entries[r.dev] \in Entry /\ r.dev \in Device
    BY <1>0, <2>1, EntryFacts
  <2>3. entries'[r.dev] = [entries[r.dev] EXCEPT !.age = 0]
    BY <1>0, <2>1, <2>2
  <2>4. entries'[r.dev].pub = entries[r.dev].pub
    BY <2>2, <2>3 DEF Entry
  <2>5. \A d \in Device : d # r.dev => entries'[d] = entries[d]
    BY <1>0, <2>1
  <2>6. \A d \in Entered' : d \in Entered /\ entries'[d].pub = entries[d].pub
    BY <2>1, <2>4, <2>5 DEF Entered
  <2> QED BY <1>1, <2>1, <2>6
<1>5. ASSUME NEW r \in regs, Rotate(r) \/ Add(r) PROVE OwnKeys'
  <2>1. /\ UNCHANGED <<holds, regs>> /\ (entries' = entries \/ entries' = [entries EXCEPT ![r.dev] = NewEntry(r)])
    BY <1>5 DEF Rotate, Add, clientVars
  <2>2. r.dev \in Device /\ NewEntry(r).pub = r.pub
    BY <1>0, RegFacts
  <2>3. \A d \in Entered' : \/ d \in Entered /\ entries'[d].pub = entries[d].pub
                            \/ \E q \in regs : q.dev = d /\ entries'[d].pub = q.pub
    BY <1>0, <2>1, <2>2 DEF Entered
  <2> QED BY <1>1, <2>1, <2>3
<1>6. ASSUME NEW r \in regs, AddByEviction(r) PROVE OwnKeys'
  <2>1. PICK v \in Entered, e \in {Absent, NewEntry(r)} :
          entries' = [entries EXCEPT ![v] = Absent, ![r.dev] = e] /\ UNCHANGED <<holds, regs>>
    BY <1>6 DEF AddByEviction, clientVars
  <2>2. r.dev \in Device /\ NewEntry(r).pub = r.pub
    BY <1>0, RegFacts
  <2>3. ASSUME NEW d \in Entered'
        PROVE  \/ d \in Entered /\ entries'[d].pub = entries[d].pub
               \/ \E q \in regs : q.dev = d /\ entries'[d].pub = q.pub
    <3>1. d \in Device /\ entries'[d] # Absent
      BY DEF Entered
    <3>2. CASE d = r.dev
      BY <1>0, <2>1, <2>2, <3>1, <3>2
    <3>3. CASE d # r.dev
      BY <1>0, <2>1, <3>1, <3>3 DEF Entered
    <3> QED BY <3>2, <3>3
  <2> QED BY <1>1, <2>1, <2>3
<1>7. CASE TimePasses \/ GC
  <2>1. UNCHANGED <<holds, regs>>
    BY <1>7 DEF TimePasses, GC, clientVars
  <2>2. ASSUME NEW d \in Entered' PROVE d \in Entered /\ entries'[d].pub = entries[d].pub
    <3>1. d \in Device /\ entries'[d] # Absent
      BY DEF Entered
    <3>2. CASE entries'[d] = entries[d]
      BY <3>1, <3>2 DEF Entered
    <3>3. CASE d \in Entered /\ entries'[d] = [entries[d] EXCEPT !.age = @ + 1]
      <4>1. entries[d] \in Entry
        BY <1>0, <3>3, EntryFacts
      <4> QED BY <3>3, <4>1 DEF Entry
    <3>4. \/ entries'[d] = entries[d] \/ entries'[d] = Absent
          \/ d \in Entered /\ entries'[d] = [entries[d] EXCEPT !.age = @ + 1]
      BY <1>7, <3>1 DEF TimePasses, GC
    <3> QED BY <3>1, <3>2, <3>3, <3>4
  <2> QED BY <1>1, <2>1, <2>2
<1>8. CASE QueueSteps \/ Consume \/ CloseDevice \/ DeviceClosed \/ UNCHANGED deviceTableVars
  <2>1. UNCHANGED <<holds, regs, entries>>
    BY <1>8 DEF QueueSteps, Enqueue, EnqueueTimesOut, Waited, WaitTimesOut, Consume, CloseDevice, DeviceClosed,
       deviceTableVars, tableVars, clientVars
  <2> QED BY <2>1 DEF OwnKeys, Entered
<1> QED BY <1>3, <1>4, <1>5, <1>6, <1>7, <1>8 DEF DeviceNext, Register

\* Operations behind others.
LEMMA Behind ==
  ASSUME NEW q \in Seq(Ops), NEW t \in Seq(Ops)
  PROVE  /\ Len(q) \in Nat /\ Len(t) \in Nat /\ Len(q \o t) = Len(q) + Len(t)
         /\ \A i \in 1 .. Len(q) : i \in 1 .. Len(q \o t) /\ (q \o t)[i] = q[i]
         /\ \A i \in 1 .. Len(t) : Len(q) + i \in 1 .. Len(q \o t) /\ (q \o t)[Len(q) + i] = t[i]
         /\ \A j \in 1 .. Len(q \o t) : j \in 1 .. Len(q) \/ j - Len(q) \in 1 .. Len(t)
         /\ \A j \in 1 .. Len(q \o t) : j > Len(q) => (q \o t)[j] = t[j - Len(q)]
OBVIOUS

\* Operations on other peers change nothing for this one.
LEMMA OthersBehind ==
  ASSUME NEW q \in Seq(Ops), NEW t \in Seq(Ops), NEW p, NEW v, NEW s,
         EndsAs(q, v, p, s), \A i \in 1 .. Len(t) : t[i].pub # p
  PROVE  EndsAs(q \o t, v, p, s)
<1> DEFINE u == q \o t
<1>1. /\ Len(q) \in Nat /\ Len(t) \in Nat /\ Len(u) = Len(q) + Len(t)
      /\ \A i \in 1 .. Len(q) : i \in 1 .. Len(u) /\ u[i] = q[i]
      /\ \A j \in 1 .. Len(u) : j > Len(q) => u[j].pub # p
  BY Behind
<1> HIDE DEF u
<1>2. CASE v = s /\ \A i \in 1 .. Len(q) : q[i].pub # p
  <2>1. ASSUME NEW j \in 1 .. Len(u) PROVE u[j].pub # p
    <3>1. CASE j > Len(q)
      BY <1>1, <3>1
    <3>2. CASE ~(j > Len(q))
      <4>1. j \in 1 .. Len(q)
        BY <1>1, <3>2
      <4> QED BY <1>1, <1>2, <4>1
    <3> QED BY <3>1, <3>2
  <2> QED BY <1>2, <2>1 DEF EndsAs, u
<1>3. ASSUME NEW i \in 1 .. Len(q), q[i].pub = p, s = (IF q[i].do = "add" THEN q[i].sec ELSE Absent),
             \A j \in i + 1 .. Len(q) : q[j].pub # p
      PROVE  EndsAs(q \o t, v, p, s)
  <2>1. ASSUME NEW j \in i + 1 .. Len(u) PROVE u[j].pub # p
    <3>1. CASE j > Len(q)
      <4>1. j \in 1 .. Len(u)
        BY <1>1
      <4> QED BY <1>1, <3>1, <4>1
    <3>2. CASE ~(j > Len(q))
      <4>1. j \in 1 .. Len(q) /\ j \in i + 1 .. Len(q)
        BY <1>1, <3>2
      <4> QED BY <1>1, <1>3, <4>1
    <3> QED BY <3>1, <3>2
  <2>2. i \in 1 .. Len(u) /\ u[i] = q[i]
    BY <1>1
  <2> QED BY <1>3, <2>1, <2>2 DEF EndsAs, u
<1> QED BY <1>2, <1>3 DEF EndsAs

LEMMA NobodyTakes ==
  ASSUME NEW q \in Seq(Ops), NEW t \in Seq(Ops), NEW p, NEW o, NEW a,
         ComesTo(q, o, a, p), \A i \in 1 .. Len(t) : ~Loses(t[i], a, p)
  PROVE  ComesTo(q \o t, o, a, p)
<1> DEFINE u == q \o t
<1>1. /\ Len(q) \in Nat /\ Len(t) \in Nat /\ Len(u) = Len(q) + Len(t)
      /\ \A i \in 1 .. Len(q) : i \in 1 .. Len(u) /\ u[i] = q[i]
      /\ \A j \in 1 .. Len(u) : j > Len(q) => ~Loses(u[j], a, p)
  BY Behind
<1> HIDE DEF u
<1>2. PICK i \in 0 .. Len(q) : /\ IF i = 0 THEN o = p ELSE q[i].pub = p /\ TakesOver(q[i], a)
                               /\ \A j \in i + 1 .. Len(q) : ~Loses(q[j], a, p)
  BY DEF ComesTo
<1>3. ASSUME NEW j \in i + 1 .. Len(u) PROVE ~Loses(u[j], a, p)
  <2>1. CASE j > Len(q)
    <3>1. j \in 1 .. Len(u)
      BY <1>1
    <3> QED BY <1>1, <2>1, <3>1
  <2>2. CASE ~(j > Len(q))
    <3>1. j \in 1 .. Len(q) /\ j \in i + 1 .. Len(q)
      BY <1>1, <2>2
    <3> QED BY <1>1, <1>2, <3>1
  <2> QED BY <2>1, <2>2
<1>4. i \in 0 .. Len(u) /\ (i # 0 => u[i] = q[i])
  BY <1>1
<1>5. IF i = 0 THEN o = p ELSE u[i].pub = p /\ TakesOver(u[i], a)
  BY <1>2, <1>4
<1> QED BY <1>3, <1>4, <1>5 DEF ComesTo, u

\* The last operation on a peer decides, whatever was before.
LEMMA LastDecides ==
  ASSUME NEW q \in Seq(Ops), NEW t \in Seq(Ops), NEW p, NEW v, NEW s, NEW k \in 1 .. Len(t),
         t[k].pub = p, s = (IF t[k].do = "add" THEN t[k].sec ELSE Absent),
         \A j \in k + 1 .. Len(t) : t[j].pub # p
  PROVE  /\ EndsAs(q \o t, v, p, s)
         /\ k = Len(t) => \A o, a : TakesOver(t[k], a) => ComesTo(q \o t, o, a, p)
<1> DEFINE u == q \o t
           n == Len(q) + k
<1>1. /\ Len(q) \in Nat /\ Len(t) \in Nat /\ Len(u) = Len(q) + Len(t)
      /\ n \in 1 .. Len(u) /\ n \in 0 .. Len(u) /\ n # 0 /\ u[n] = t[k]
      /\ \A j \in 1 .. Len(u) : j > Len(q) => u[j] = t[j - Len(q)]
  BY Behind
<1>2. ASSUME NEW j \in n + 1 .. Len(u) PROVE j - Len(q) \in k + 1 .. Len(t) /\ u[j] = t[j - Len(q)]
  BY <1>1
<1> HIDE DEF u, n
<1>3. \A j \in n + 1 .. Len(u) : u[j].pub # p
  BY <1>2
<1>4. EndsAs(u, v, p, s)
  BY <1>1, <1>3 DEF EndsAs
<1>5. ASSUME k = Len(t), NEW o, NEW a, TakesOver(t[k], a) PROVE ComesTo(u, o, a, p)
  <2>1. n + 1 .. Len(u) = {}
    BY <1>1, <1>5 DEF n
  <2> QED BY <1>1, <1>5, <2>1 DEF ComesTo
<1> QED BY <1>4, <1>5 DEF u

\* A list without one of its operations.
Without(q, r, k) ==
  /\ k \in 1 .. Len(q) /\ Len(r) = Len(q) - 1
  /\ \A i \in 1 .. Len(r) : r[i] = IF i < k THEN q[i] ELSE q[i + 1]

\* Without an operation on another peer all the rest decides as before.
LEMMA EndsWithout ==
  ASSUME NEW q \in Seq(Ops), NEW r \in Seq(Ops), NEW k \in 1 .. Len(q), Without(q, r, k), NEW p, q[k].pub # p,
         NEW v, NEW s, EndsAs(q, v, p, s)
  PROVE  EndsAs(r, v, p, s)
<1>1. /\ Len(q) \in Nat /\ Len(r) = Len(q) - 1
      /\ \A i \in 1 .. Len(r) : r[i] = IF i < k THEN q[i] ELSE q[i + 1]
  BY DEF Without
<1>2. CASE v = s /\ \A i \in 1 .. Len(q) : q[i].pub # p
  <2>1. ASSUME NEW i \in 1 .. Len(r) PROVE r[i].pub # p
    <3>1. i \in 1 .. Len(q) /\ i + 1 \in 1 .. Len(q)
      BY <1>1
    <3> QED BY <1>1, <1>2, <3>1
  <2> QED BY <1>2, <2>1 DEF EndsAs
<1>3. ASSUME NEW i \in 1 .. Len(q), q[i].pub = p, s = (IF q[i].do = "add" THEN q[i].sec ELSE Absent),
             \A j \in i + 1 .. Len(q) : q[j].pub # p
      PROVE  EndsAs(r, v, p, s)
  <2> DEFINE m == IF i < k THEN i ELSE i - 1
  <2>0. i # k
    BY <1>3
  <2>1. m \in 1 .. Len(r) /\ r[m] = q[i]
    BY <1>1, <2>0
  <2>2. ASSUME NEW j \in m + 1 .. Len(r) PROVE r[j].pub # p
    <3>1. CASE j < k
      <4>1. j \in i + 1 .. Len(q) /\ r[j] = q[j]
        BY <1>1, <2>0, <2>1, <3>1
      <4> QED BY <1>3, <4>1
    <3>2. CASE ~(j < k)
      <4>1. j + 1 \in i + 1 .. Len(q) /\ r[j] = q[j + 1]
        BY <1>1, <2>0, <2>1, <3>2
      <4> QED BY <1>3, <4>1
    <3> QED BY <3>1, <3>2
  <2> HIDE DEF m
  <2> QED BY <1>3, <2>1, <2>2 DEF EndsAs
<1> QED BY <1>2, <1>3 DEF EndsAs

LEMMA ComesWithout ==
  ASSUME NEW q \in Seq(Ops), NEW r \in Seq(Ops), NEW k \in 1 .. Len(q), Without(q, r, k), NEW p, q[k].pub # p,
         NEW o, NEW a, ComesTo(q, o, a, p)
  PROVE  ComesTo(r, o, a, p)
<1>1. /\ Len(q) \in Nat /\ Len(r) = Len(q) - 1
      /\ \A i \in 1 .. Len(r) : r[i] = IF i < k THEN q[i] ELSE q[i + 1]
  BY DEF Without
<1>2. PICK i \in 0 .. Len(q) : /\ IF i = 0 THEN o = p ELSE q[i].pub = p /\ TakesOver(q[i], a)
                               /\ \A j \in i + 1 .. Len(q) : ~Loses(q[j], a, p)
  BY DEF ComesTo
<1> DEFINE m == IF i < k THEN i ELSE i - 1
<1>3. i # k /\ i \in Nat /\ k \in Nat
  BY <1>1, <1>2
<1>4. m \in 0 .. Len(r) /\ (m = 0 <=> i = 0) /\ (m # 0 => r[m] = q[i])
  BY <1>1, <1>3
<1>5. ASSUME NEW j \in m + 1 .. Len(r) PROVE ~Loses(r[j], a, p)
  <2>1. CASE j < k
    <3>1. j \in i + 1 .. Len(q) /\ r[j] = q[j]
      BY <1>1, <1>3, <1>4, <2>1
    <3> QED BY <1>2, <3>1
  <2>2. CASE ~(j < k)
    <3>1. j + 1 \in i + 1 .. Len(q) /\ r[j] = q[j + 1]
      BY <1>1, <1>3, <1>4, <2>2
    <3> QED BY <1>2, <3>1
  <2> QED BY <2>1, <2>2
<1> HIDE DEF m
<1>6. IF m = 0 THEN o = p ELSE r[m].pub = p /\ TakesOver(r[m], a)
  BY <1>2, <1>4
<1> QED BY <1>4, <1>5, <1>6 DEF ComesTo

\* The operation at the head is executed: what it leaves takes its place.
LEMMA HeadExecuted ==
  ASSUME NEW q \in Seq(Ops), q # <<>>, NEW p \in Pub
  PROVE  /\ \A v, s : q[1].pub = p /\ EndsAs(q, v, p, s) =>
                EndsAs(Tail(q), IF q[1].do = "add" THEN q[1].sec ELSE Absent, p, s)
         /\ \A o, a : ComesTo(q, o, a, p) =>
                ComesTo(Tail(q), IF q[1].do = "add"
                                 THEN IF TakesOver(q[1], a) THEN q[1].pub ELSE o
                                 ELSE IF o = q[1].pub THEN Absent ELSE o, a, p)
<1> DEFINE r == Tail(q)
<1>1. /\ Len(q) \in Nat /\ 1 \in 1 .. Len(q) /\ Len(r) = Len(q) - 1 /\ r \in Seq(Ops)
      /\ \A i \in 1 .. Len(r) : r[i] = q[i + 1] /\ i + 1 \in 1 .. Len(q)
  OBVIOUS
<1> HIDE DEF r
<1>2. ASSUME NEW v, NEW s, q[1].pub = p, EndsAs(q, v, p, s)
      PROVE  EndsAs(r, IF q[1].do = "add" THEN q[1].sec ELSE Absent, p, s)
  <2>1. PICK i \in 1 .. Len(q) : /\ q[i].pub = p /\ s = (IF q[i].do = "add" THEN q[i].sec ELSE Absent)
                                 /\ \A j \in i + 1 .. Len(q) : q[j].pub # p
    BY <1>1, <1>2 DEF EndsAs
  <2>2. CASE i = 1
    <3>1. ASSUME NEW j \in 1 .. Len(r) PROVE r[j].pub # p
      <4>1. j + 1 \in i + 1 .. Len(q) /\ r[j] = q[j + 1]
        BY <1>1, <2>2
      <4> QED BY <2>1, <4>1
    <3> QED BY <2>1, <2>2, <3>1 DEF EndsAs
  <2>3. CASE i # 1
    <3>1. i - 1 \in 1 .. Len(r) /\ r[i - 1] = q[i]
      BY <1>1, <2>3
    <3>2. ASSUME NEW j \in (i - 1) + 1 .. Len(r) PROVE r[j].pub # p
      <4>1. j + 1 \in i + 1 .. Len(q) /\ j \in 1 .. Len(r)
        BY <1>1
      <4> QED BY <1>1, <2>1, <4>1
    <3> QED BY <2>1, <3>1, <3>2 DEF EndsAs
  <2> QED BY <2>2, <2>3
<1>3. ASSUME NEW o, NEW a, ComesTo(q, o, a, p),
             NEW w, w = (IF q[1].do = "add" THEN IF TakesOver(q[1], a) THEN q[1].pub ELSE o
                         ELSE IF o = q[1].pub THEN Absent ELSE o)
      PROVE  ComesTo(r, w, a, p)
  <2>1. PICK i \in 0 .. Len(q) : /\ IF i = 0 THEN o = p ELSE q[i].pub = p /\ TakesOver(q[i], a)
                                 /\ \A j \in i + 1 .. Len(q) : ~Loses(q[j], a, p)
    BY <1>3 DEF ComesTo
  <2>2. CASE i = 0 \/ i = 1
    <3>1. w = p
      <4>1. CASE i = 0
        <5>1. o = p /\ ~Loses(q[1], a, p)
          BY <1>1, <2>1, <4>1
        <5>2. q[1] \in Ops
          BY <1>1
        <5> QED BY <1>3, <5>1, <5>2 DEF Loses, Ops
      <4>2. CASE i = 1
        BY <1>3, <2>1, <4>2 DEF TakesOver
      <4> QED BY <2>2, <4>1, <4>2
    <3>2. ASSUME NEW j \in 0 + 1 .. Len(r) PROVE ~Loses(r[j], a, p)
      <4>1. j + 1 \in i + 1 .. Len(q) /\ r[j] = q[j + 1]
        BY <1>1, <2>2
      <4> QED BY <2>1, <4>1
    <3>3. 0 \in 0 .. Len(r)
      BY <1>1
    <3> QED BY <3>1, <3>2, <3>3 DEF ComesTo
  <2>3. CASE i # 0 /\ i # 1
    <3>1. i - 1 \in 0 .. Len(r) /\ i - 1 # 0 /\ r[i - 1] = q[i]
      BY <1>1, <2>3
    <3>2. ASSUME NEW j \in (i - 1) + 1 .. Len(r) PROVE ~Loses(r[j], a, p)
      <4>1. j + 1 \in i + 1 .. Len(q) /\ j \in 1 .. Len(r)
        BY <1>1, <2>3
      <4> QED BY <1>1, <2>1, <4>1
    <3> QED BY <2>1, <2>3, <3>1, <3>2 DEF ComesTo
  <2> QED BY <2>2, <2>3
<1> QED BY <1>2, <1>3 DEF r


-----------------------------------------------------------------------------
\* With what is queued executed the device has the peer of an entry, and no peer nobody has.
Comes(q, d) ==
  /\ EndsAs(q, peers[entries[d].pub], entries[d].pub, entries[d].sec)
  /\ \A a \in AddrsOf(entries[d].sec, entries[d].pub) : ComesTo(q, owner[a], a, entries[d].pub)
Gone(q, p) == EndsAs(q, peers[p], p, Absent)
Unheld(p) == \A d \in Entered : entries[d].pub # p
Followed ==
  closing # "done" =>
    /\ \A d \in Entered : entries[d].pub \notin excused => Comes(Due, d)
    /\ \A p \in Pub \ excused : Unheld(p) => Gone(Due, p)

\* What operations may do: add a peer, leave it as it is, remove it, do nothing about it.
Brings(t, p, s) == t # <<>> /\ t[Len(t)] = AddPeer(p, s)
Spares(t, p, s) == \A i \in 1 .. Len(t) : t[i].pub # p /\ \A a \in AddrsOf(s, p) : ~TakesOver(t[i], a)
Drops(t, p) ==
  \E k \in 1 .. Len(t) : t[k].do = "remove" /\ t[k].pub = p /\ \A j \in k + 1 .. Len(t) : t[j].pub # p
Passes(t, p) == \A i \in 1 .. Len(t) : t[i].pub # p

\* The table changes, and operations are queued for what changed.
LEMMA StepFollows ==
  ASSUME DeviceInv, Followed, submit = <<>>, submit' \in Seq(Ops),
         UNCHANGED <<opQueue, peers, owner, closing>>, Table',
         \A d \in Entered' : entries'[d].pub \notin excused' =>
           \/ Brings(submit', entries'[d].pub, entries'[d].sec)
           \/ /\ d \in Entered /\ entries[d].pub = entries'[d].pub /\ entries[d].sec = entries'[d].sec
              /\ entries[d].pub \notin excused /\ Spares(submit', entries[d].pub, entries[d].sec),
         \A p \in Pub \ excused' : Unheld(p)' =>
           Drops(submit', p) \/ (p \notin excused /\ Unheld(p) /\ Passes(submit', p))
  PROVE  Followed'
<1> SUFFICES ASSUME closing # "done"
             PROVE  /\ \A d \in Entered' : entries'[d].pub \notin excused' => Comes(Due, d)'
                    /\ \A p \in Pub \ excused' : Unheld(p)' => Gone(Due, p)'
  BY DEF Followed
<1>1. PICK q \in Seq(Ops) : q = opQueue
  BY DEF DeviceInv, Queues
<1>2. PICK t \in Seq(Ops) : t = submit'
  OBVIOUS
<1>3. Due = q /\ Due' = q \o t
  BY <1>1, <1>2 DEF Due
<1>4. ASSUME NEW d \in Entered', entries'[d].pub \notin excused' PROVE Comes(Due, d)'
  <2>1. PICK p \in Pub, s \in Secret : p = entries'[d].pub /\ s = entries'[d].sec
    BY DEF Table, Entered, Entry
  <2>2. SUFFICES /\ EndsAs(q \o t, peers[p], p, s)
                 /\ \A a \in AddrsOf(s, p) : ComesTo(q \o t, owner[a], a, p)
    <3>1. Comes(Due, d)' <=> /\ EndsAs(Due', peers'[entries'[d].pub], entries'[d].pub, entries'[d].sec)
                             /\ \A a \in AddrsOf(entries'[d].sec, entries'[d].pub) :
                                  ComesTo(Due', owner'[a], a, entries'[d].pub)
      BY DEF Comes, EndsAs, ComesTo, AddrsOf, TakesOver, Loses
    <3> QED BY <1>3, <2>1, <3>1
  <2>3. CASE Brings(t, p, s)
    <3>1. Len(t) \in 1 .. Len(t) /\ t[Len(t)] = AddPeer(p, s)
      BY <2>3 DEF Brings
    <3>2. PICK k \in 1 .. Len(t) : k = Len(t)
      BY <3>1
    <3>3. t[k].pub = p /\ t[k].do = "add" /\ t[k].sec = s
      BY <3>1, <3>2 DEF AddPeer
    <3>4. \A j \in k + 1 .. Len(t) : t[j].pub # p
      BY <3>2
    <3>5. \A a \in AddrsOf(s, p) : TakesOver(t[k], a)
      BY <3>3 DEF TakesOver
    <3>6. s = (IF t[k].do = "add" THEN t[k].sec ELSE Absent)
      BY <3>3
    <3>7. /\ EndsAs(q \o t, peers[p], p, s)
          /\ k = Len(t) => \A o, a : TakesOver(t[k], a) => ComesTo(q \o t, o, a, p)
      BY <3>3, <3>4, <3>6, LastDecides
    <3> QED BY <3>2, <3>5, <3>7
  <2>4. CASE ~Brings(t, p, s)
    <3>1. /\ d \in Entered /\ entries[d].pub = p /\ entries[d].sec = s /\ p \notin excused /\ Spares(t, p, s)
      BY <1>2, <1>4, <2>1, <2>4
    <3>2. EndsAs(q, peers[p], p, s) /\ \A a \in AddrsOf(s, p) : ComesTo(q, owner[a], a, p)
      BY <1>3, <3>1 DEF Followed, Comes
    <3>3. \A i \in 1 .. Len(t) : t[i].pub # p
      BY <3>1 DEF Spares
    <3>4. EndsAs(q \o t, peers[p], p, s)
      BY <3>2, <3>3, OthersBehind
    <3>5. ASSUME NEW a \in AddrsOf(s, p) PROVE ComesTo(q \o t, owner[a], a, p)
      <4>1. \A i \in 1 .. Len(t) : ~Loses(t[i], a, p)
        BY <3>1, <3>3 DEF Spares, Loses
      <4> QED BY <3>2, <4>1, NobodyTakes
    <3> QED BY <3>4, <3>5
  <2> QED BY <2>3, <2>4
<1>5. ASSUME NEW p \in Pub \ excused', Unheld(p)' PROVE Gone(Due, p)'
  <2>1. SUFFICES EndsAs(q \o t, peers[p], p, Absent)
    <3>1. Gone(Due, p)' <=> EndsAs(Due', peers'[p], p, Absent)
      BY DEF Gone, EndsAs
    <3> QED BY <1>3, <3>1
  <2>2. CASE Drops(t, p)
    <3>1. PICK k \in 1 .. Len(t) : t[k].do = "remove" /\ t[k].pub = p /\ \A j \in k + 1 .. Len(t) : t[j].pub # p
      BY <2>2 DEF Drops
    <3>2. Absent = (IF t[k].do = "add" THEN t[k].sec ELSE Absent)
      BY <3>1
    <3> QED BY <3>1, <3>2, LastDecides
  <2>3. CASE ~Drops(t, p)
    <3>1. p \notin excused /\ Unheld(p) /\ Passes(t, p)
      BY <1>2, <1>5, <2>3
    <3>2. EndsAs(q, peers[p], p, Absent)
      BY <1>3, <3>1 DEF Followed, Gone
    <3> QED BY <3>1, <3>2, OthersBehind DEF Passes
  <2> QED BY <2>2, <2>3
<1> QED BY <1>4, <1>5

LEMMA NextKeyEach ==
  ASSUME OwnKeys', NEW d \in Entered', NEW e \in Entered', entries'[d].pub = entries'[e].pub
  PROVE  d = e
<1>1. d \in Device /\ e \in Device /\ entries'[d].pub \in KeysOf(d) /\ entries'[e].pub \in KeysOf(e)
  BY DEF OwnKeys, Entered, KeysOf
<1> QED BY <1>1, OwnKeysAssumption

\* The peer of an entry is spared by what is done for another.
LEMMA SparedByOthers ==
  ASSUME Table', NEW c \in Entered', NEW d \in Entered', entries'[c].pub # entries'[d].pub
  PROVE  \A a \in AddrsOf(entries'[d].sec, entries'[d].pub) :
           ~TakesOver(AddPeer(entries'[c].pub, entries'[c].sec), a)
<1>1. AddrsOf(entries'[c].sec, entries'[c].pub) \cap AddrsOf(entries'[d].sec, entries'[d].pub) = {}
  BY DEF Table, OwnAddresses, AddrsOf
<1> QED BY <1>1 DEF TakesOver, AddPeer

LEMMA RemovalTakesNothing ==
  ASSUME NEW p, NEW y
  PROVE  /\ RemovePeer(p, y).pub = p /\ RemovePeer(p, y).do = "remove"
         /\ \A a : ~TakesOver(RemovePeer(p, y), a)
BY DEF RemovePeer, TakesOver

LEMMA AddFollows ==
  ASSUME DeviceInv, DeviceInv', OwnKeys', Followed, NEW r \in regs, Add(r)
  PROVE  Followed'
<1> DEFINE op == AddPeer(r.pub, r.sec)
<1>1. /\ r.dev \notin Entered /\ r.dev \in Device /\ r.pub \in Pub /\ r.sec \in Secret
      /\ entries \in [Device -> Entry \cup {Absent}]
      /\ entries' = [entries EXCEPT ![r.dev] = NewEntry(r)] /\ NewEntry(r) # Absent
      /\ NewEntry(r).pub = r.pub /\ NewEntry(r).sec = r.sec
      /\ submit = <<>> /\ submit' = <<op>> /\ excused' = excused \ {r.pub}
      /\ UNCHANGED <<opQueue, peers, owner, closing>> /\ Table' /\ submit' \in Seq(Ops)
  BY RegFacts DEF Add, Arrives, Unlocked, DeviceInv, Table, Queues, deviceVars
<1>2. /\ r.dev \in Entered' /\ entries'[r.dev].pub = r.pub /\ entries'[r.dev].sec = r.sec
      /\ \A d \in Device : d # r.dev => entries'[d] = entries[d]
  BY <1>1 DEF Entered
<1>3. Len(submit') = 1 /\ submit'[1] = op /\ op.pub = r.pub
  BY <1>1 DEF AddPeer
<1>4. ASSUME NEW d \in Entered', entries'[d].pub \notin excused'
      PROVE  \/ Brings(submit', entries'[d].pub, entries'[d].sec)
             \/ /\ d \in Entered /\ entries[d].pub = entries'[d].pub /\ entries[d].sec = entries'[d].sec
                /\ entries[d].pub \notin excused /\ Spares(submit', entries[d].pub, entries[d].sec)
  <2>1. CASE d = r.dev
    BY <1>1, <1>2, <1>3, <2>1 DEF Brings
  <2>2. CASE d # r.dev
    <3>1. d \in Entered /\ entries[d] = entries'[d]
      BY <1>2, <2>2 DEF Entered
    <3>2. entries'[d].pub # r.pub
      BY <1>2, <2>2, NextKeyEach
    <3>3. \A a \in AddrsOf(entries'[d].sec, entries'[d].pub) : ~TakesOver(op, a)
      BY <1>1, <1>2, <3>2, SparedByOthers
    <3>4. Spares(submit', entries[d].pub, entries[d].sec)
      BY <1>3, <3>1, <3>2, <3>3 DEF Spares
    <3> QED BY <1>1, <1>4, <3>1, <3>2, <3>4
  <2> QED BY <2>1, <2>2
<1>5. ASSUME NEW p \in Pub \ excused', Unheld(p)'
      PROVE  Drops(submit', p) \/ (p \notin excused /\ Unheld(p) /\ Passes(submit', p))
  <2>1. p # r.pub /\ \A d \in Entered' : entries'[d].pub # p
    BY <1>2, <1>5 DEF Unheld
  <2>2. Unheld(p)
    BY <1>1, <1>2, <2>1 DEF Unheld, Entered
  <2> QED BY <1>1, <1>3, <2>1, <2>2 DEF Passes
<1> QED BY <1>1, <1>4, <1>5, StepFollows

LEMMA OnlyRemoves ==
  ASSUME NEW t, Len(t) = 1, \A a : ~TakesOver(t[1], a), NEW p, t[1].pub # p
  PROVE  Passes(t, p) /\ \A s : Spares(t, p, s)
<1>1. \A i \in 1 .. Len(t) : i = 1
  OBVIOUS
<1> QED BY <1>1 DEF Passes, Spares

LEMMA RotateFollows ==
  ASSUME DeviceInv, DeviceInv', OwnKeys, OwnKeys', Followed, NEW r \in regs, Rotate(r)
  PROVE  Followed'
<1> DEFINE old == entries[r.dev].pub
           off == RemovePeer(old, FALSE)
           op == AddPeer(r.pub, r.sec)
<1>1. /\ r.dev \in Entered /\ r.dev \in Device /\ r.pub \in Pub /\ r.sec \in Secret /\ old \in Pub /\ old # r.pub
      /\ entries \in [Device -> Entry \cup {Absent}] /\ NewEntry(r) # Absent
      /\ NewEntry(r).pub = r.pub /\ NewEntry(r).sec = r.sec
      /\ submit = <<>> /\ UNCHANGED <<opQueue, peers, owner, closing>> /\ Table' /\ submit' \in Seq(Ops)
  BY RegFacts, EntryFacts DEF Rotate, Arrives, Unlocked, DeviceInv, Table, Queues, deviceVars
<1>2. off.pub = old /\ off.do = "remove" /\ (\A a : ~TakesOver(off, a)) /\ op.pub = r.pub
  BY RemovalTakesNothing DEF AddPeer
<1> HIDE DEF off, op
<1>3. CASE Conflict(r, Entered)
  <2>1. submit' = <<off>> /\ excused' = excused \cup {old} /\ entries' = entries /\ Entered' = Entered
    BY <1>3 DEF Rotate, Entered, off
  <2>2. Len(submit') = 1 /\ submit'[1] = off
    BY <2>1
  <2>3. ASSUME NEW d \in Entered', entries'[d].pub \notin excused'
        PROVE  /\ d \in Entered /\ entries[d].pub = entries'[d].pub /\ entries[d].sec = entries'[d].sec
               /\ entries[d].pub \notin excused /\ Spares(submit', entries[d].pub, entries[d].sec)
    <3>1. d \in Entered /\ entries'[d] = entries[d] /\ entries[d].pub # old /\ entries[d].pub \notin excused
      BY <2>1, <2>3
    <3>2. Spares(submit', entries[d].pub, entries[d].sec)
      BY <1>2, <2>2, <3>1, OnlyRemoves
    <3> QED BY <3>1, <3>2
  <2>4. ASSUME NEW p \in Pub \ excused', Unheld(p)' PROVE p \notin excused /\ Unheld(p) /\ Passes(submit', p)
    <3>1. p \notin excused /\ p # old /\ \A d \in Entered : entries[d].pub # p
      BY <2>1, <2>4 DEF Unheld
    <3> QED BY <1>2, <2>2, <3>1, OnlyRemoves DEF Unheld
  <2> QED BY <1>1, <2>3, <2>4, StepFollows
<1>4. CASE ~Conflict(r, Entered)
  <2>1. /\ submit' = <<off, op>> /\ excused' = excused \ {r.pub} /\ entries' = [entries EXCEPT ![r.dev] = NewEntry(r)]
    BY <1>4 DEF Rotate, off, op
  <2>2. /\ r.dev \in Entered' /\ entries'[r.dev].pub = r.pub /\ entries'[r.dev].sec = r.sec
        /\ \A d \in Device : d # r.dev => entries'[d] = entries[d]
    BY <1>1, <2>1 DEF Entered
  <2>3. /\ Len(submit') = 2 /\ submit'[1] = off /\ submit'[2] = op /\ submit' # <<>>
        /\ \A i \in 1 .. Len(submit') : i = 1 \/ i = 2
    BY <2>1
  <2>4. ASSUME NEW d \in Entered', entries'[d].pub \notin excused'
        PROVE  \/ Brings(submit', entries'[d].pub, entries'[d].sec)
               \/ /\ d \in Entered /\ entries[d].pub = entries'[d].pub /\ entries[d].sec = entries'[d].sec
                  /\ entries[d].pub \notin excused /\ Spares(submit', entries[d].pub, entries[d].sec)
    <3>1. CASE d = r.dev
      BY <2>2, <2>3, <3>1 DEF Brings, op
    <3>2. CASE d # r.dev
      <4>1. d \in Entered /\ entries[d] = entries'[d]
        BY <2>2, <3>2 DEF Entered
      <4>2. entries'[d].pub # r.pub
        BY <2>2, <3>2, NextKeyEach
      <4>3. entries[d].pub # old
        BY <1>1, <3>2, <4>1, OneKeyEach
      <4>4. \A a \in AddrsOf(entries'[d].sec, entries'[d].pub) : ~TakesOver(op, a)
        BY <1>1, <2>2, <4>2, SparedByOthers DEF op
      <4>5. ASSUME NEW i \in 1 .. Len(submit')
            PROVE  /\ submit'[i].pub # entries[d].pub
                   /\ \A a \in AddrsOf(entries[d].sec, entries[d].pub) : ~TakesOver(submit'[i], a)
        <5>1. CASE i = 1
          BY <1>2, <2>3, <4>3, <5>1
        <5>2. CASE i = 2
          BY <1>2, <2>3, <4>1, <4>2, <4>4, <5>2
        <5> QED BY <2>3, <5>1, <5>2
      <4>6. Spares(submit', entries[d].pub, entries[d].sec)
        BY <4>5 DEF Spares
      <4> QED BY <2>1, <2>4, <4>1, <4>2, <4>6
    <3> QED BY <3>1, <3>2
  <2>5. ASSUME NEW p \in Pub \ excused', Unheld(p)'
        PROVE  Drops(submit', p) \/ (p \notin excused /\ Unheld(p) /\ Passes(submit', p))
    <3>1. p # r.pub /\ \A d \in Entered' : entries'[d].pub # p
      BY <2>2, <2>5 DEF Unheld
    <3>2. CASE p = old
      <4>1. 1 \in 1 .. Len(submit') /\ submit'[1].do = "remove" /\ submit'[1].pub = p
        BY <1>2, <2>3, <3>2
      <4>2. \A j \in 1 + 1 .. Len(submit') : submit'[j].pub # p
        <5>1. ASSUME NEW j \in 1 + 1 .. Len(submit') PROVE j = 2
          BY <2>3
        <5> QED BY <1>2, <2>3, <3>1, <5>1
      <4> QED BY <4>1, <4>2 DEF Drops
    <3>3. CASE p # old
      <4>1. Unheld(p)
        <5>1. ASSUME NEW d \in Entered PROVE entries[d].pub # p
          <6>1. CASE d = r.dev
            BY <3>3, <6>1
          <6>2. CASE d # r.dev
            <7>1. d \in Entered' /\ entries'[d] = entries[d]
              BY <2>2, <6>2 DEF Entered
            <7> QED BY <3>1, <7>1
          <6> QED BY <6>1, <6>2
        <5> QED BY <5>1 DEF Unheld
      <4>2. Passes(submit', p)
        <5>1. ASSUME NEW i \in 1 .. Len(submit') PROVE submit'[i].pub # p
          <6>1. i = 1 \/ i = 2
            BY <2>3
          <6> QED BY <1>2, <2>3, <3>1, <3>3, <6>1
        <5> QED BY <5>1 DEF Passes
      <4> QED BY <2>1, <2>5, <3>1, <4>1, <4>2
    <3> QED BY <3>2, <3>3
  <2> QED BY <1>1, <2>4, <2>5, StepFollows
<1> QED BY <1>3, <1>4

LEMMA EvictionFollows ==
  ASSUME DeviceInv, DeviceInv', OwnKeys, OwnKeys', Followed, NEW r \in regs, AddByEviction(r)
  PROVE  Followed'
<1> DEFINE op == AddPeer(r.pub, r.sec)
<1>1. /\ r.dev \notin Entered /\ r.dev \in Device /\ r.pub \in Pub /\ r.sec \in Secret
      /\ entries \in [Device -> Entry \cup {Absent}] /\ NewEntry(r) # Absent
      /\ NewEntry(r).pub = r.pub /\ NewEntry(r).sec = r.sec
      /\ submit = <<>> /\ UNCHANGED <<opQueue, peers, owner, closing>> /\ Table' /\ submit' \in Seq(Ops)
  BY RegFacts DEF AddByEviction, Arrives, Unlocked, DeviceInv, Table, Queues, deviceVars
<1>2. PICK v \in Entered :
        LET refused == Conflict(r, Entered \ {v})
        IN  /\ entries' = [entries EXCEPT ![v] = Absent, ![r.dev] = IF refused THEN Absent ELSE NewEntry(r)]
            /\ submit' = <<RemovePeer(entries[v].pub, TRUE)>> \o (IF refused THEN <<>> ELSE <<op>>)
            /\ excused' = IF refused THEN excused ELSE excused \ {r.pub}
  BY DEF AddByEviction
<1> DEFINE old == entries[v].pub
           off == RemovePeer(old, TRUE)
<1>3. off.pub = old /\ off.do = "remove" /\ (\A a : ~TakesOver(off, a)) /\ op.pub = r.pub
  BY RemovalTakesNothing DEF AddPeer
<1>4. v \in Device /\ v # r.dev /\ (\A d \in Entered : d # v => entries[d].pub # old) /\ r.dev \notin Entered
  BY <1>1, OneKeyEach DEF Entered
<1> DEFINE refuses == Conflict(r, Entered \ {v})
<1> HIDE DEF off, op, refuses
<1>5. CASE refuses
  <2>1. submit' = <<off>> \o <<>> /\ excused' = excused /\ entries' = [entries EXCEPT ![v] = Absent, ![r.dev] = Absent]
    BY <1>2, <1>5 DEF off, op, refuses
  <2>2. Len(submit') = 1 /\ submit'[1] = off
    BY <2>1
  <2>3. \A d \in Device : IF d = v \/ d = r.dev THEN entries'[d] = Absent ELSE entries'[d] = entries[d]
    BY <1>1, <1>4, <2>1
  <2>4. Entered' = Entered \ {v} /\ \A d \in Entered' : entries'[d] = entries[d]
    BY <1>4, <2>3 DEF Entered
  <2>5. ASSUME NEW d \in Entered', entries'[d].pub \notin excused'
        PROVE  /\ d \in Entered /\ entries[d].pub = entries'[d].pub /\ entries[d].sec = entries'[d].sec
               /\ entries[d].pub \notin excused /\ Spares(submit', entries[d].pub, entries[d].sec)
    <3>0. d \in Entered /\ d # v /\ entries'[d] = entries[d]
      BY <2>4
    <3>1. entries[d].pub # old /\ entries[d].pub \notin excused
      BY <1>4, <2>1, <2>5, <3>0
    <3>2. Spares(submit', entries[d].pub, entries[d].sec)
      BY <1>3, <2>2, <3>1, OnlyRemoves
    <3> QED BY <3>0, <3>1, <3>2
  <2>6. ASSUME NEW p \in Pub \ excused', Unheld(p)'
        PROVE  Drops(submit', p) \/ (p \notin excused /\ Unheld(p) /\ Passes(submit', p))
    <3>1. CASE p = old
      <4>1. 1 \in 1 .. Len(submit') /\ 1 + 1 .. Len(submit') = {}
        BY <2>2
      <4> QED BY <1>3, <2>2, <3>1, <4>1 DEF Drops
    <3>2. CASE p # old
      <4>1. \A d \in Entered : d # v => d \in Entered' /\ entries'[d] = entries[d]
        BY <2>4
      <4>2. \A d \in Entered' : entries'[d].pub # p
        BY <2>6 DEF Unheld
      <4>3. Unheld(p)
        BY <3>2, <4>1, <4>2 DEF Unheld
      <4>4. Passes(submit', p)
        BY <1>3, <2>2, <3>2, OnlyRemoves
      <4> QED BY <2>1, <2>6, <4>3, <4>4
    <3> QED BY <3>1, <3>2
  <2> QED BY <1>1, <2>5, <2>6, StepFollows
<1>6. CASE ~refuses
  <2>1. /\ submit' = <<off>> \o <<op>> /\ excused' = excused \ {r.pub}
        /\ entries' = [entries EXCEPT ![v] = Absent, ![r.dev] = NewEntry(r)]
    BY <1>2, <1>6 DEF off, op, refuses
  <2>2. /\ Len(submit') = 2 /\ submit'[1] = off /\ submit'[2] = op /\ submit' # <<>>
        /\ \A i \in 1 .. Len(submit') : i = 1 \/ i = 2
    BY <2>1
  <2>3. /\ entries'[v] = Absent /\ entries'[r.dev] = NewEntry(r) /\ r.dev \in Entered' /\ v \notin Entered'
        /\ \A d \in Device : d # v /\ d # r.dev => entries'[d] = entries[d]
    BY <1>1, <1>4, <2>1 DEF Entered
  <2>4. entries'[r.dev].pub = r.pub /\ entries'[r.dev].sec = r.sec
    BY <1>1, <2>3
  <2>5. old # r.pub
    <3>1. old \in KeysOf(v) /\ r.pub \in KeysOf(r.dev)
      BY <1>2, <1>4 DEF OwnKeys
    <3> QED BY <1>1, <1>4, <3>1, OwnKeysAssumption
  <2>6. ASSUME NEW d \in Entered', entries'[d].pub \notin excused'
        PROVE  \/ Brings(submit', entries'[d].pub, entries'[d].sec)
               \/ /\ d \in Entered /\ entries[d].pub = entries'[d].pub /\ entries[d].sec = entries'[d].sec
                  /\ entries[d].pub \notin excused /\ Spares(submit', entries[d].pub, entries[d].sec)
    <3>1. CASE d = r.dev
      BY <2>2, <2>4, <3>1 DEF Brings, op
    <3>2. CASE d # r.dev
      <4>1. d \in Entered /\ d # v /\ entries[d] = entries'[d]
        BY <2>3, <3>2 DEF Entered
      <4>2. entries'[d].pub # r.pub
        BY <2>3, <2>4, <3>2, NextKeyEach
      <4>3. entries[d].pub # old
        BY <1>4, <4>1
      <4>4. \A a \in AddrsOf(entries'[d].sec, entries'[d].pub) : ~TakesOver(op, a)
        BY <1>1, <2>3, <2>4, <4>2, SparedByOthers DEF op
      <4>5. ASSUME NEW i \in 1 .. Len(submit')
            PROVE  /\ submit'[i].pub # entries[d].pub
                   /\ \A a \in AddrsOf(entries[d].sec, entries[d].pub) : ~TakesOver(submit'[i], a)
        <5>1. CASE i = 1
          BY <1>3, <2>2, <4>3, <5>1
        <5>2. CASE i = 2
          BY <1>3, <2>2, <4>1, <4>2, <4>4, <5>2
        <5> QED BY <2>2, <5>1, <5>2
      <4>6. Spares(submit', entries[d].pub, entries[d].sec)
        BY <4>5 DEF Spares
      <4> QED BY <2>1, <2>6, <4>1, <4>2, <4>6
    <3> QED BY <3>1, <3>2
  <2>7. ASSUME NEW p \in Pub \ excused', Unheld(p)'
        PROVE  Drops(submit', p) \/ (p \notin excused /\ Unheld(p) /\ Passes(submit', p))
    <3>1. p # r.pub /\ \A d \in Entered' : entries'[d].pub # p
      BY <2>3, <2>4, <2>7 DEF Unheld
    <3>2. CASE p = old
      <4>1. 1 \in 1 .. Len(submit') /\ submit'[1].do = "remove" /\ submit'[1].pub = p
        BY <1>3, <2>2, <3>2
      <4>2. \A j \in 1 + 1 .. Len(submit') : submit'[j].pub # p
        <5>1. ASSUME NEW j \in 1 + 1 .. Len(submit') PROVE j = 2
          BY <2>2
        <5> QED BY <1>3, <2>2, <3>1, <5>1
      <4> QED BY <4>1, <4>2 DEF Drops
    <3>3. CASE p # old
      <4>1. Unheld(p)
        <5>1. ASSUME NEW d \in Entered PROVE entries[d].pub # p
          <6>1. CASE d = v
            BY <3>3, <6>1
          <6>2. CASE d # v
            <7>1. d # r.dev
              BY <1>4
            <7>2. d \in Entered' /\ entries'[d] = entries[d]
              BY <2>3, <6>2, <7>1 DEF Entered
            <7> QED BY <3>1, <7>2
          <6> QED BY <6>1, <6>2
        <5> QED BY <5>1 DEF Unheld
      <4>2. Passes(submit', p)
        <5>1. ASSUME NEW i \in 1 .. Len(submit') PROVE submit'[i].pub # p
          <6>1. i = 1 \/ i = 2
            BY <2>2
          <6> QED BY <1>3, <2>2, <3>1, <3>3, <6>1
        <5> QED BY <5>1 DEF Passes
      <4> QED BY <2>1, <2>7, <3>1, <4>1, <4>2
    <3> QED BY <3>2, <3>3
  <2> QED BY <1>1, <2>6, <2>7, StepFollows
<1> QED BY <1>5, <1>6

\* Every element is in the sequence of a set, and once.
LEMMA AllOnce ==
  ASSUME NEW S, IsFiniteSet(S)
  PROVE  /\ \A i, j \in 1 .. Cardinality(S) : SetToSeq(S)[i] = SetToSeq(S)[j] => i = j
         /\ \A x \in S : \E i \in 1 .. Cardinality(S) : SetToSeq(S)[i] = x
<1> DEFINE D == 1 .. Cardinality(S)
           f == SetToSeq(S)
<1>1. \E g \in [1..Cardinality(S) -> S] : IsInjective(g)
  <2>1. ExistsBijection(1..Cardinality(S), S)
    BY FS_CardinalityType
  <2> QED BY <2>1 DEF ExistsBijection, Bijection, Injection, IsInjective
<1>2. f \in [D -> S] /\ IsInjective(f)
  BY <1>1 DEF SetToSeq
<1>3. f \in Injection(D, S)
  BY <1>2 DEF Injection, IsInjective
<1>4. IsFiniteSet(D) /\ Cardinality(D) = Cardinality(S)
  <2>1. Cardinality(S) \in Nat
    BY FS_CardinalityType
  <2>2. 1 \in Int /\ Cardinality(S) \in Int
    BY <2>1
  <2> QED BY <2>1, <2>2, FS_Interval
<1>5. f \in Surjection(D, S)
  BY <1>3, <1>4, FS_Injection
<1> HIDE DEF f
<1>6. \A i, j \in D : f[i] = f[j] => i = j
  BY <1>2 DEF IsInjective
<1>7. \A x \in S : \E i \in D : f[i] = x
  BY <1>5 DEF Surjection
<1> QED BY <1>6, <1>7 DEF f

LEMMA GCFollows ==
  ASSUME DeviceInv, DeviceInv', OwnKeys, Followed, GC
  PROVE  Followed'
<1> DEFINE victims == {d \in Entered : entries[d].age > TTL}
           n == Cardinality(victims)
<1>1. IsFiniteSet(victims) /\ n \in Nat
  <2>1. IsFiniteSet(Entered) /\ victims \in SUBSET Entered
    BY DEF DeviceInv, Table
  <2>2. IsFiniteSet(victims)
    BY <2>1, FS_Subset
  <2> QED BY <2>2, FS_CardinalityType
<1>2. PICK f : f = SetToSeq(victims)
  OBVIOUS
<1>3. /\ \A i \in 1 .. n : f[i] \in victims
      /\ \A i, j \in 1 .. n : f[i] = f[j] => i = j
      /\ \A d \in victims : \E i \in 1 .. n : f[i] = d
  BY <1>1, <1>2, AllOfThem, AllOnce
<1>4. /\ entries' = [d \in Device |-> IF d \in victims THEN Absent ELSE entries[d]]
      /\ submit' = [i \in 1 .. n |-> RemovePeer(entries[f[i]].pub, TRUE)]
      /\ submit = <<>> /\ UNCHANGED <<opQueue, excused, peers, owner, closing>>
      /\ Table' /\ submit' \in Seq(Ops)
  BY <1>2 DEF GC, Unlocked, deviceVars, DeviceInv, Queues
<1>5. Len(submit') = n
  <2>1. Len(submit') \in Nat /\ DOMAIN submit' = 1 .. Len(submit')
    BY <1>4, LenProperties
  <2>2. DOMAIN submit' = 1 .. n
    BY <1>4
  <2> QED BY <1>1, <2>1, <2>2
<1> DEFINE gone(d) == d \in victims
<1>6. /\ \A d \in Entered' : d \in Entered /\ ~gone(d) /\ entries'[d] = entries[d]
      /\ \A d \in Entered : gone(d) \/ (d \in Entered' /\ entries'[d] = entries[d])
      /\ \A d : gone(d) => d \in Entered
  BY <1>4 DEF Entered
<1>7. \A i \in 1 .. n : gone(f[i]) /\ submit'[i] = RemovePeer(entries[f[i]].pub, TRUE)
  BY <1>3, <1>4
<1>8. /\ \A d : gone(d) => \E i \in 1 .. n : f[i] = d
      /\ \A i, j \in 1 .. n : f[i] = f[j] => i = j
  BY <1>3
<1> HIDE DEF victims, n, gone
<1>9. \A i \in 1 .. n : /\ submit'[i].pub = entries[f[i]].pub /\ submit'[i].do = "remove"
                        /\ \A a : ~TakesOver(submit'[i], a)
  <2>1. ASSUME NEW i \in 1 .. n
        PROVE  /\ submit'[i].pub = entries[f[i]].pub /\ submit'[i].do = "remove"
               /\ \A a : ~TakesOver(submit'[i], a)
    <3>1. PICK v : v = entries[f[i]].pub
      OBVIOUS
    <3>2. submit'[i] = RemovePeer(v, TRUE)
      BY <1>7, <3>1
    <3>3. submit'[i].pub = v /\ submit'[i].do = "remove"
      BY <3>2 DEF RemovePeer
    <3> QED BY <3>1, <3>3 DEF TakesOver
  <2> QED BY <2>1
<1>10. ASSUME NEW d \in Entered', entries'[d].pub \notin excused'
       PROVE  /\ d \in Entered /\ entries[d].pub = entries'[d].pub /\ entries[d].sec = entries'[d].sec
              /\ entries[d].pub \notin excused /\ Spares(submit', entries[d].pub, entries[d].sec)
  <2>1. d \in Entered /\ ~gone(d) /\ entries'[d] = entries[d]
    BY <1>6
  <2>2. ASSUME NEW i \in 1 .. n PROVE submit'[i].pub # entries[d].pub
    <3>1. gone(f[i]) /\ f[i] \in Entered /\ f[i] # d
      BY <1>6, <1>7, <2>1
    <3>2. entries[f[i]].pub # entries[d].pub
      BY <2>1, <3>1, OneKeyEach
    <3> QED BY <1>9, <3>2
  <2>3. Spares(submit', entries[d].pub, entries[d].sec)
    BY <1>5, <1>9, <2>2 DEF Spares
  <2> QED BY <1>4, <1>10, <2>1, <2>3
<1>11. ASSUME NEW p \in Pub \ excused', Unheld(p)'
       PROVE  Drops(submit', p) \/ (p \notin excused /\ Unheld(p) /\ Passes(submit', p))
  <2>1. \A d \in Entered' : entries'[d].pub # p
    BY <1>11 DEF Unheld
  <2>2. CASE \E i \in 1 .. n : entries[f[i]].pub = p
    <3>1. PICK k \in 1 .. n : entries[f[k]].pub = p
      BY <2>2
    <3>2. ASSUME NEW j \in k + 1 .. n PROVE submit'[j].pub # p
      <4>1. j \in 1 .. n /\ k \in 1 .. n /\ j # k
        BY <1>1 DEF n
      <4>2. f[j] # f[k] /\ f[j] \in Entered /\ f[k] \in Entered
        BY <1>6, <1>7, <1>8, <4>1
      <4>3. entries[f[j]].pub # p
        BY <3>1, <4>2, OneKeyEach
      <4> QED BY <1>9, <4>1, <4>3
    <3>3. submit'[k].pub = p /\ submit'[k].do = "remove"
      BY <1>9, <3>1
    <3> QED BY <1>5, <3>2, <3>3 DEF Drops
  <2>3. CASE ~\E i \in 1 .. n : entries[f[i]].pub = p
    <3>1. Passes(submit', p)
      BY <1>5, <1>9, <2>3 DEF Passes
    <3>2. Unheld(p)
      <4>1. ASSUME NEW d \in Entered PROVE entries[d].pub # p
        <5>1. CASE gone(d)
          BY <1>8, <2>3, <5>1
        <5>2. CASE ~gone(d)
          <6>1. d \in Entered' /\ entries'[d] = entries[d]
            BY <1>6, <5>2
          <6> QED BY <2>1, <6>1
        <5> QED BY <5>1, <5>2
      <4> QED BY <4>1 DEF Unheld
    <3> QED BY <1>4, <1>11, <3>1, <3>2
  <2> QED BY <2>2, <2>3
<1> QED BY <1>4, <1>10, <1>11, StepFollows

-----------------------------------------------------------------------------
\* The table stays, and what is due for a peer leads to the same.
LEMMA SameFollows ==
  ASSUME DeviceInv, Followed, closing' # "done" => closing # "done", excused \subseteq excused', Entered' = Entered,
         \A d \in Entered : entries'[d].pub = entries[d].pub /\ entries'[d].sec = entries[d].sec,
         \A p \in Pub \ excused' : \A s : EndsAs(Due, peers[p], p, s) => EndsAs(Due', peers'[p], p, s),
         \A p \in Pub \ excused' : \A a \in Addr : ComesTo(Due, owner[a], a, p) => ComesTo(Due', owner'[a], a, p)
  PROVE  Followed'
<1> SUFFICES ASSUME closing # "done"
             PROVE  /\ \A d \in Entered' : entries'[d].pub \notin excused' => Comes(Due, d)'
                    /\ \A p \in Pub \ excused' : Unheld(p)' => Gone(Due, p)'
  BY DEF Followed
<1>1. ASSUME NEW d \in Entered', entries'[d].pub \notin excused' PROVE Comes(Due, d)'
  <2>1. PICK p, s : p = entries[d].pub /\ s = entries[d].sec
    OBVIOUS
  <2>2. /\ d \in Entered /\ p \in Pub /\ s \in Secret /\ p \notin excused /\ p \notin excused'
        /\ entries'[d].pub = p /\ entries'[d].sec = s
    BY <1>1, <2>1, EntryFacts DEF DeviceInv
  <2>3. EndsAs(Due, peers[p], p, s) /\ \A a \in AddrsOf(s, p) : ComesTo(Due, owner[a], a, p)
    BY <2>1, <2>2 DEF Followed, Comes
  <2>4. AddrsOf(s, p) \subseteq Addr
    <3>1. Derived[<<s, p>>] \in [ip : Addr, tunIP : Addr]
      BY <2>2, DeviceKeysAssumption
    <3> QED BY <3>1 DEF AddrsOf
  <2>5. EndsAs(Due', peers'[p], p, s) /\ \A a \in AddrsOf(s, p) : ComesTo(Due', owner'[a], a, p)
    BY <2>2, <2>3, <2>4
  <2>6. Comes(Due, d)' <=> /\ EndsAs(Due', peers'[entries'[d].pub], entries'[d].pub, entries'[d].sec)
                           /\ \A a \in AddrsOf(entries'[d].sec, entries'[d].pub) :
                                ComesTo(Due', owner'[a], a, entries'[d].pub)
    BY DEF Comes, EndsAs, ComesTo, AddrsOf, TakesOver, Loses
  <2> QED BY <2>2, <2>5, <2>6
<1>2. ASSUME NEW p \in Pub \ excused', Unheld(p)' PROVE Gone(Due, p)'
  <2>1. Unheld(p) /\ p \notin excused
    BY <1>2 DEF Unheld
  <2>2. EndsAs(Due, peers[p], p, Absent)
    BY <2>1 DEF Followed, Gone
  <2>3. EndsAs(Due', peers'[p], p, Absent)
    BY <2>2
  <2>4. Gone(Due, p)' <=> EndsAs(Due', peers'[p], p, Absent)
    BY DEF Gone, EndsAs
  <2> QED BY <2>3, <2>4
<1> QED BY <1>1, <1>2

LEMMA StillFollows ==
  ASSUME DeviceInv, Followed, closing' # "done" => closing # "done", Entered' = Entered, Due' = Due,
         UNCHANGED <<peers, owner, excused>>,
         \A d \in Entered : entries'[d].pub = entries[d].pub /\ entries'[d].sec = entries[d].sec
  PROVE  Followed'
BY SameFollows

LEMMA RefreshFollows ==
  ASSUME DeviceInv, Followed, (\E r \in regs : Refresh(r)) \/ TimePasses
  PROVE  Followed'
<1>1. UNCHANGED <<opQueue, submit, excused, peers, owner, closing>>
  BY DEF Refresh, TimePasses, deviceVars
<1>2. Due' = Due
  BY <1>1 DEF Due
<1>3. ASSUME NEW d \in Device
      PROVE  /\ d \in Entered <=> d \in Entered'
             /\ d \in Entered => entries'[d].pub = entries[d].pub /\ entries'[d].sec = entries[d].sec
  <2>1. entries \in [Device -> Entry \cup {Absent}] /\ Absent \notin Entry
    BY DeviceBounds DEF DeviceInv, Table
  <2>2. CASE entries'[d] = entries[d]
    BY <2>2 DEF Entered
  <2>3. ASSUME d \in Entered, NEW n \in 0 .. MaxAge, entries'[d] = [entries[d] EXCEPT !.age = n]
        PROVE  d \in Entered' /\ entries'[d].pub = entries[d].pub /\ entries'[d].sec = entries[d].sec
    <3>1. PICK e \in Entry : e = entries[d]
      BY <2>3, EntryFacts DEF DeviceInv
    <3>2. PICK f : f = [e EXCEPT !.age = n]
      OBVIOUS
    <3>3. f \in Entry /\ f.pub = e.pub /\ f.sec = e.sec
      BY <3>2 DEF Entry
    <3> QED BY <2>1, <2>3, <3>1, <3>2, <3>3 DEF Entered
  <2>4. entries'[d] = entries[d] \/ (d \in Entered /\ \E n \in 0 .. MaxAge : entries'[d] = [entries[d] EXCEPT !.age = n])
    <3>1. CASE TimePasses
      <4>1. CASE d \in Entered /\ entries[d].age < MaxAge
        <5>1. entries[d].age + 1 \in 0 .. MaxAge /\ entries[d] \in Entry
          BY <4>1, EntryFacts, DeviceBounds DEF DeviceInv
        <5>2. entries'[d] = [entries[d] EXCEPT !.age = entries[d].age + 1]
          BY <3>1, <4>1, <5>1 DEF TimePasses, Entry
        <5> QED BY <4>1, <5>1, <5>2
      <4>2. CASE ~(d \in Entered /\ entries[d].age < MaxAge)
        BY <3>1, <4>2 DEF TimePasses
      <4> QED BY <4>1, <4>2
    <3>2. ASSUME NEW r \in regs, Refresh(r)
          PROVE  entries'[d] = entries[d] \/ (d \in Entered /\ entries'[d] = [entries[d] EXCEPT !.age = 0])
      <4>1. r.dev \in Entered /\ entries' = [entries EXCEPT ![r.dev].age = 0]
        BY <3>2 DEF Refresh
      <4> QED BY <2>1, <4>1
    <3>3. 0 \in 0 .. MaxAge
      BY DeviceBounds
    <3> QED BY <3>1, <3>2, <3>3
  <2> QED BY <2>2, <2>3, <2>4
<1>4. Entered \subseteq Device /\ Entered' \subseteq Device
  BY DEF Entered
<1> QED BY <1>1, <1>2, <1>3, <1>4, StillFollows

LEMMA OthersFollow ==
  ASSUME DeviceInv, Followed,
         ClientSteps \/ Waited \/ WaitTimesOut \/ CloseDevice \/ DeviceClosed \/ UNCHANGED deviceTableVars
  PROVE  Followed'
<1>1. /\ UNCHANGED <<entries, opQueue, submit, excused, peers, owner>>
      /\ closing' # "done" => closing # "done"
  BY DEF ClientSteps, NewKey, NewToken, Renew, Waited, WaitTimesOut, CloseDevice, DeviceClosed, deviceTableVars,
     tableVars, deviceVars
<1>2. Due' = Due /\ Entered' = Entered
  BY <1>1 DEF Due, Entered
<1> QED BY <1>1, <1>2, StillFollows

\* An operation goes from the holder of the mutex into the queue, or is given up.
LEMMA Handed ==
  ASSUME NEW q \in Seq(Ops), NEW s \in Seq(Ops), s # <<>>
  PROVE  /\ Append(q, Head(s)) \o Tail(s) = q \o s
         /\ Len(q) + 1 \in 1 .. Len(q \o s) /\ (q \o s)[Len(q) + 1] = Head(s)
         /\ Without(q \o s, q \o Tail(s), Len(q) + 1) /\ q \o s \in Seq(Ops) /\ q \o Tail(s) \in Seq(Ops)
<1> DEFINE h == Head(s)
           t == Tail(s)
<1>1. /\ Len(q) \in Nat /\ Len(s) \in Nat /\ Len(s) >= 1 /\ Len(t) = Len(s) - 1 /\ h = s[1] /\ t \in Seq(Ops) /\ h \in Ops
      /\ \A i \in 1 .. Len(t) : t[i] = s[i + 1]
  OBVIOUS
<1>2. Append(q, h) \o t = q \o s
  BY <1>1
<1>3. Len(q) + 1 \in 1 .. Len(q \o s) /\ (q \o s)[Len(q) + 1] = h
  BY <1>1
<1>4. Without(q \o s, q \o t, Len(q) + 1)
  BY <1>1 DEF Without
<1> QED BY <1>1, <1>2, <1>3, <1>4

LEMMA EnqueueFollows ==
  ASSUME DeviceInv, Followed, Enqueue
  PROVE  Followed'
<1>1. /\ opQueue \in Seq(Ops) /\ submit \in Seq(Ops) /\ submit # <<>>
      /\ opQueue' = Append(opQueue, Head(submit)) /\ submit' = Tail(submit)
      /\ UNCHANGED <<entries, excused, peers, owner, closing>>
  BY DEF Enqueue, DeviceInv, Queues, deviceVars
<1>2. Due' = Due /\ Entered' = Entered
  BY <1>1, Handed DEF Due, Entered
<1> QED BY <1>1, <1>2, StillFollows

LEMMA GivenUpFollows ==
  ASSUME DeviceInv, Followed, EnqueueTimesOut
  PROVE  Followed'
<1>1. /\ opQueue \in Seq(Ops) /\ submit \in Seq(Ops) /\ submit # <<>>
      /\ opQueue' = opQueue /\ submit' = Tail(submit) /\ excused' = excused \cup {Head(submit).pub}
      /\ UNCHANGED <<entries, peers, owner, closing>>
  BY DEF EnqueueTimesOut, DeviceInv, Queues, deviceVars
<1>2. PICK q \in Seq(Ops), r \in Seq(Ops), k \in 1 .. Len(Due) :
        q = Due /\ r = Due' /\ q[k] = Head(submit) /\ Without(q, r, k)
  BY <1>1, Handed DEF Due
<1>3. ASSUME NEW p \in Pub \ excused'
      PROVE  /\ \A s : EndsAs(Due, peers[p], p, s) => EndsAs(Due', peers'[p], p, s)
             /\ \A a \in Addr : ComesTo(Due, owner[a], a, p) => ComesTo(Due', owner'[a], a, p)
  <2>1. q[k].pub # p
    BY <1>1, <1>2
  <2>2. ASSUME NEW s, EndsAs(q, peers[p], p, s) PROVE EndsAs(r, peers[p], p, s)
    BY <1>2, <2>1, <2>2, EndsWithout
  <2>3. ASSUME NEW a \in Addr, ComesTo(q, owner[a], a, p) PROVE ComesTo(r, owner[a], a, p)
    BY <1>2, <2>1, <2>3, ComesWithout
  <2> QED BY <1>1, <1>2, <2>2, <2>3
<1>4. Entered' = Entered
  BY <1>1 DEF Entered
<1> QED BY <1>1, <1>3, <1>4, SameFollows

LEMMA HeadFirst ==
  ASSUME NEW q \in Seq(Ops), NEW s \in Seq(Ops), q # <<>>
  PROVE  /\ q \o s \in Seq(Ops) /\ q \o s # <<>> /\ 1 \in 1 .. Len(q \o s) /\ (q \o s)[1] = Head(q)
         /\ Tail(q \o s) = Tail(q) \o s /\ Tail(q \o s) \in Seq(Ops) /\ Without(q \o s, Tail(q \o s), 1)
<1>1. /\ Len(q) \in Nat /\ Len(q) >= 1 /\ Len(s) \in Nat /\ q \o s \in Seq(Ops) /\ Len(q \o s) = Len(q) + Len(s)
      /\ (q \o s)[1] = q[1] /\ Head(q) = q[1]
  OBVIOUS
<1>2. Tail(q \o s) = Tail(q) \o s
  BY <1>1
<1>3. q \o s # <<>> /\ 1 \in 1 .. Len(q \o s)
  BY <1>1
<1>4. PICK u \in Seq(Ops) : u = q \o s
  BY <1>1
<1>5. u # <<>> /\ Tail(u) \in Seq(Ops) /\ Len(Tail(u)) = Len(u) - 1 /\ \A i \in 1 .. Len(Tail(u)) : Tail(u)[i] = u[i + 1]
  BY <1>3, <1>4
<1>6. Without(u, Tail(u), 1)
  BY <1>3, <1>4, <1>5 DEF Without
<1> QED BY <1>1, <1>2, <1>3, <1>4, <1>5, <1>6

LEMMA ConsumeFollows ==
  ASSUME DeviceInv, Followed, Consume
  PROVE  Followed'
<1>1. /\ opQueue \in Seq(Ops) /\ submit \in Seq(Ops) /\ opQueue # <<>> /\ opQueue' = Tail(opQueue)
      /\ UNCHANGED <<entries, submit, excused, closing>>
  BY DEF Consume, DeviceInv, Queues
<1>2. PICK q \in Seq(Ops), r \in Seq(Ops) :
        /\ q = Due /\ r = Due' /\ q # <<>> /\ 1 \in 1 .. Len(q) /\ q[1] = Head(opQueue) /\ r = Tail(q) /\ Without(q, r, 1)
  BY <1>1, HeadFirst DEF Due
<1>3. PICK op \in Ops : op = q[1]
  BY <1>2
<1>4. /\ peers \in [Pub -> Secret \cup {Absent}] /\ owner \in [Addr -> Pub \cup {Absent}]
      /\ peers' = Configure(DeviceNow, op).peers /\ owner' = Configure(DeviceNow, op).owner
      /\ DeviceNow.peers = peers /\ DeviceNow.owner = owner /\ op.pub \in Pub /\ op.do \in {"add", "remove"}
  BY <1>2, <1>3 DEF Consume, DeviceInv, DevicesTyped, DeviceNow, Ops
<1>5. ASSUME NEW p \in Pub
      PROVE  peers'[p] = IF p = op.pub THEN IF op.do = "add" THEN op.sec ELSE Absent ELSE peers[p]
  <2>1. CASE op.do = "add"
    <3>1. peers' = [peers EXCEPT ![op.pub] = op.sec]
      BY <1>4, <2>1 DEF Configure
    <3> QED BY <1>4, <2>1, <3>1
  <2>2. CASE op.do # "add"
    <3>1. peers' = [peers EXCEPT ![op.pub] = Absent]
      BY <1>4, <2>2 DEF Configure
    <3> QED BY <1>4, <2>2, <3>1
  <2> QED BY <2>1, <2>2
<1>6. ASSUME NEW a \in Addr
      PROVE  owner'[a] = IF op.do = "add" THEN IF TakesOver(op, a) THEN op.pub ELSE owner[a]
                         ELSE IF owner[a] = op.pub THEN Absent ELSE owner[a]
  <2>1. CASE op.do = "add"
    <3>1. owner' = [b \in Addr |-> IF b \in AddrsOf(op.sec, op.pub) THEN op.pub ELSE owner[b]]
      BY <1>4, <2>1 DEF Configure
    <3> QED BY <2>1, <3>1 DEF TakesOver
  <2>2. CASE op.do # "add"
    <3>1. owner' = [b \in Addr |-> IF owner[b] = op.pub THEN Absent ELSE owner[b]]
      BY <1>4, <2>2 DEF Configure
    <3> QED BY <2>2, <3>1
  <2> QED BY <2>1, <2>2
<1>7. ASSUME NEW p \in Pub \ excused', NEW s, EndsAs(q, peers[p], p, s) PROVE EndsAs(r, peers'[p], p, s)
  <2>1. CASE p = op.pub
    <3>1. peers'[p] = IF op.do = "add" THEN op.sec ELSE Absent
      BY <1>5, <2>1
    <3>2. \A v, z : q[1].pub = p /\ EndsAs(q, v, p, z) =>
            EndsAs(Tail(q), IF q[1].do = "add" THEN q[1].sec ELSE Absent, p, z)
      BY <1>2, HeadExecuted
    <3>3. EndsAs(Tail(q), IF q[1].do = "add" THEN q[1].sec ELSE Absent, p, s)
      BY <1>3, <1>7, <2>1, <3>2
    <3> QED BY <1>2, <1>3, <3>1, <3>3
  <2>2. CASE p # op.pub
    <3>1. peers'[p] = peers[p] /\ q[1].pub # p
      BY <1>3, <1>5, <2>2
    <3> QED BY <1>2, <1>7, <3>1, EndsWithout
  <2> QED BY <2>1, <2>2
<1>8. ASSUME NEW p \in Pub \ excused', NEW a \in Addr, ComesTo(q, owner[a], a, p) PROVE ComesTo(r, owner'[a], a, p)
  <2>1. \A o, b : ComesTo(q, o, b, p) =>
            ComesTo(Tail(q), IF q[1].do = "add" THEN IF TakesOver(q[1], b) THEN q[1].pub ELSE o
                             ELSE IF o = q[1].pub THEN Absent ELSE o, b, p)
    BY <1>2, HeadExecuted
  <2>2. ComesTo(Tail(q), IF q[1].do = "add" THEN IF TakesOver(q[1], a) THEN q[1].pub ELSE owner[a]
                         ELSE IF owner[a] = q[1].pub THEN Absent ELSE owner[a], a, p)
    BY <1>8, <2>1
  <2> QED BY <1>2, <1>3, <1>6, <2>2
<1>9. Entered' = Entered
  BY <1>1 DEF Entered
<1>10. /\ \A p \in Pub \ excused' : \A s : EndsAs(Due, peers[p], p, s) => EndsAs(Due', peers'[p], p, s)
       /\ \A p \in Pub \ excused' : \A a \in Addr : ComesTo(Due, owner[a], a, p) => ComesTo(Due', owner'[a], a, p)
  BY <1>2, <1>7, <1>8
<1> QED BY <1>1, <1>9, <1>10, SameFollows

LEMMA FollowedIsKept ==
  ASSUME DeviceInv, DeviceInv', OwnKeys, OwnKeys', Followed, [DeviceNext]_deviceTableVars
  PROVE  Followed'
BY AddFollows, RotateFollows, EvictionFollows, GCFollows, RefreshFollows, OthersFollow, EnqueueFollows, GivenUpFollows,
   ConsumeFollows DEF DeviceNext, Register, QueueSteps

LEMMA FollowedFirst == DeviceInit => Followed
<1> SUFFICES ASSUME DeviceInit PROVE Followed
  OBVIOUS
<1>1. Entered = {} /\ Due = <<>> \o <<>> /\ peers = [p \in Pub |-> Absent]
  BY DEF DeviceInit, Entered, Due
<1>2. <<>> \in Seq(Ops) /\ Len(<<>>) = 0 /\ <<>> \o <<>> = <<>>
  BY EmptySeq
<1> DEFINE q == <<>>
<1>3. \A p \in Pub : EndsAs(q, Absent, p, Absent)
  BY <1>2 DEF EndsAs
<1> HIDE DEF q
<1>4. Due = q
  BY <1>1, <1>2 DEF q
<1> QED BY <1>1, <1>3, <1>4 DEF Followed, Gone

LEMMA FollowingAgrees == DeviceInv /\ Followed => DevicesAgree
<1> SUFFICES ASSUME DeviceInv, Followed PROVE DevicesAgree
  OBVIOUS
<1>1. ASSUME closing # "done", NEW p \in Pub \ excused, NEW with, with = {d \in Entered : entries[d].pub = p}
      PROVE  IF with = {} THEN EndsAs(Due, peers[p], p, Absent)
             ELSE \A d \in with :
                    /\ EndsAs(Due, peers[p], p, entries[d].sec)
                    /\ \A a \in AddrsOf(entries[d].sec, p) : ComesTo(Due, owner[a], a, p)
  <2>1. CASE with = {}
    BY <1>1, <2>1 DEF Followed, Unheld, Gone
  <2>2. CASE with # {}
    BY <1>1, <2>2 DEF Followed, Comes
  <2> QED BY <2>1, <2>2
<1>2. PeersFollowTable
  BY <1>1 DEF PeersFollowTable
<1> QED BY <1>2 DEF DevicesAgree, DeviceInv, Table

\* Every device has addresses of its own, and what is queued for the WireGuard device makes its peers, with their
\* keys and addresses, those of the table: whatever registers, ages, is evicted or rotates its key, however full
\* the queue is, and whichever operations the code gives up (Register, evictStaleLocked, the timer and
\* applyDeviceOp in pkg/servercore/peers.go).
THEOREM DevicesAlwaysAgree == DeviceSpec => []DevicesAgree
<1> DEFINE Agreed == DeviceInv /\ OwnKeys /\ Followed
<1>1. DeviceInit /\ DeviceInv => Agreed
  BY OwnKeysStart, FollowedFirst
<1>2. Agreed /\ DeviceInv' /\ [DeviceNext]_deviceTableVars => Agreed'
  BY OwnKeysStep, FollowedIsKept
<1>3. Agreed => DevicesAgree
  BY FollowingAgrees
<1> HIDE DEF Agreed
<1> QED BY <1>1, <1>2, <1>3, DevicesKept, PTL DEF DeviceSpec

\* A device seen within the grace period leaves the table, or changes its key, only by a
\* registration of its own.
THEOREM ActiveKept == DeviceSpec => ActiveStays
<1> DEFINE Stays ==
      \A d \in Entered :
        /\ entries[d].age <= Grace
        /\ entries'[d] = Absent \/ entries'[d].pub # entries[d].pub
        => \E r \in regs : r.dev = d /\ entries'[d] = NewEntry(r)
<1>1. DeviceInv /\ [DeviceNext]_deviceTableVars => [Stays]_deviceTableVars
  <2> SUFFICES ASSUME DeviceInv, DeviceNext, NEW d \in Entered, entries[d].age <= Grace,
                      entries'[d] = Absent \/ entries'[d].pub # entries[d].pub
               PROVE  \E r \in regs : r.dev = d /\ entries'[d] = NewEntry(r)
    OBVIOUS
  <2>0. /\ d \in Device /\ entries[d] \in Entry /\ entries[d] # Absent /\ entries[d].age \in 0 .. MaxAge
        /\ entries \in [Device -> Entry \cup {Absent}]
    BY EntryFacts, DeviceBounds DEF DeviceInv, Table
  <2>a. entries'[d] # entries[d]
    BY <2>0
  <2>1. ASSUME NEW r \in regs, Refresh(r) PROVE FALSE
    <3>1. r.dev = d
      BY <2>0, <2>a, <2>1 DEF Refresh
    <3>2. entries'[d] = [entries[d] EXCEPT !.age = 0]
      BY <2>0, <2>1, <3>1 DEF Refresh
    <3>3. entries'[d] \in Entry /\ entries'[d].pub = entries[d].pub
      BY <2>0, <3>2, DeviceBounds DEF Entry
    <3> QED BY <3>3, DeviceBounds
  <2>2. ASSUME NEW r \in regs, Rotate(r) \/ Add(r) PROVE r.dev = d /\ entries'[d] = NewEntry(r)
    <3>1. entries' = [entries EXCEPT ![r.dev] = NewEntry(r)]
      BY <2>a, <2>2 DEF Rotate, Add
    <3> QED BY <2>0, <2>a, <3>1
  <2>3. ASSUME NEW r \in regs, AddByEviction(r) PROVE FALSE
    <3>1. r.dev # d
      BY <2>3 DEF AddByEviction
    <3>2. PICK e \in Entered : /\ Evictable(e)
                               /\ \E x : entries' = [entries EXCEPT ![e] = Absent, ![r.dev] = x]
      BY <2>3 DEF AddByEviction
    <3>3. e = d
      BY <2>0, <2>a, <3>1, <3>2
    <3> QED BY <2>0, <3>2, <3>3, DeviceBounds DEF Evictable
  <2>4. CASE TimePasses
    <3>1. entries'[d] = [entries[d] EXCEPT !.age = @ + 1]
      BY <2>0, <2>a, <2>4 DEF TimePasses
    <3>2. entries[d].age < MaxAge
      BY <2>0, <2>a, <2>4 DEF TimePasses
    <3> DEFINE n == entries[d].age + 1
    <3>3. n \in 0 .. MaxAge /\ entries'[d] = [entries[d] EXCEPT !.age = n]
      BY <2>0, <3>1, <3>2, DeviceBounds DEF Entry
    <3> HIDE DEF n
    <3>4. entries'[d] \in Entry /\ entries'[d].pub = entries[d].pub
      BY <2>0, <3>3 DEF Entry
    <3> QED BY <3>4, DeviceBounds
  <2>5. CASE GC
    <3>1. entries[d].age > TTL
      BY <2>0, <2>a, <2>5 DEF GC
    <3> QED BY <2>0, <3>1, DeviceBounds
  <2>6. CASE ClientSteps \/ QueueSteps \/ Consume \/ CloseDevice \/ DeviceClosed
    BY <2>a, <2>6 DEF ClientSteps, NewKey, NewToken, Renew, QueueSteps, Enqueue, EnqueueTimesOut, Waited,
       WaitTimesOut, Consume, CloseDevice, DeviceClosed, tableVars
  <2> QED BY <2>1, <2>2, <2>3, <2>4, <2>5, <2>6 DEF DeviceNext, Register
<1> QED BY <1>1, DevicesKept, PTL DEF DeviceSpec, ActiveStays

-----------------------------------------------------------------------------
(* The properties of the runs that are of more than one part.                  *)

\* An import is whole, undone or to be got back by hand however it ends, and processes that
\* start together run with one identity (Import in artifact.go, loadOrCreateMaster in identity_store.go).
THEOREM FilesAreWhole == NodeSpec /\ IdentitySpec => []FilesStayWhole
<1>1. NodeInv /\ IdentityInv => FilesStayWhole
  BY NothingIsHalf, OldIsThere, IdentityIsOne DEF FilesStayWhole
<1> QED BY <1>1, ImportKept, IdentityKept, PTL

\* An active device keeps its place, an adopted path is the last thing a recovery takes, and
\* the tag outlives a reset (evictStaleLocked in peers.go, rungs of recover.go, loadOrCreateDevTag).
THEOREM KeptToTheLast == DeviceSpec /\ LadderSpec /\ IdentitySpec => KeptTillLast
<1> QED BY ActiveKept, PathIsLast, TagStays DEF KeptTillLast

\* Every variable of the five parts keeps its type.
THEOREM SessionsTyped ==
  HostSessionSpec /\ DeviceSpec /\ NodeSpec /\ LadderSpec /\ IdentitySpec => []SessionsTypeOK
<1>1. HostInv /\ DeviceInv /\ NodeInv /\ LadderInv /\ IdentityInv => SessionsTypeOK
  BY HostTypes, DeviceTypes, NodeTypes, LadderTypes, IdentityTypes DEF SessionsTypeOK
<1> QED BY <1>1, HostInvHolds, DevicesKept, ImportKept, LadderKept, IdentityKept, PTL

-----------------------------------------------------------------------------
(* The backend's bind (ServerBind). *)

(* Types *)

\* The definitions every leaf about the shape of the state needs.
LEMMA OffTypes ==
  ASSUME TypeOK, NEW S
  PROVE  /\ OffID(S) \in [Sid -> LegId \cup {None}]
         /\ OffR(S) \in [Remote -> LegId \cup {None}]
         /\ Shut(S) \in [LegId -> Leg]
<1>1. ASSUME NEW l \in LegId PROVE [leg[l] EXCEPT !.open = FALSE, !.idle = FALSE] \in Leg
  <2>1. leg[l] \in Leg
    BY DEF TypeOK
  <2> QED
    BY <2>1 DEF Leg
<1>2. Shut(S) \in [LegId -> Leg]
  BY <1>1 DEF TypeOK, Shut
<1>3. OffID(S) \in [Sid -> LegId \cup {None}] /\ OffR(S) \in [Remote -> LegId \cup {None}]
  BY DEF TypeOK, OffID, OffR
<1> QED
  BY <1>2, <1>3

LEMMA LegsAreLegs ==
  ASSUME TypeOK
  PROVE  Legs \subseteq LegId /\ Routed \subseteq LegId
BY NoneAssumption DEF TypeOK, Legs, Routed

LEMMA RememberedType ==
  ASSUME NEW r \in Remote, ports \subseteq Remote, IsFiniteSet(ports),
         Cardinality(ports) <= PortsMax
  PROVE  /\ Remembered(r) \subseteq Remote
         /\ IsFiniteSet(Remembered(r))
         /\ Cardinality(Remembered(r)) <= PortsMax
<1>1. PortsMax \in Nat \ {0}
  BY LimitsAssumption
<1>2. Cardinality(ports) \in Nat
  BY FS_CardinalityType
<1>3. CASE Cardinality(ports) >= PortsMax
  <2>1. Remembered(r) = {r}
    BY <1>3 DEF Remembered
  <2>2. QED
    BY <2>1, <1>1, FS_Singleton
<1>4. CASE ~(Cardinality(ports) >= PortsMax)
  <2>1. Remembered(r) = ports \cup {r}
    BY <1>4 DEF Remembered
  <2>2. QED
    BY <2>1, <1>1, <1>2, <1>4, FS_AddElement
<1>5. QED
  BY <1>3, <1>4

\* The control client knows what it is registering.
ControlOK ==
  /\ ctl.pc \in {"insert", "spawn"} => ctl.id \in Sid /\ ctl.remote \in Remote
  /\ ctl.pc = "spawn" <=> ctl.lg # None

\* A leg with a read loop, or about to get one, has its session and its port.
Attended(l) == leg[l].pc # "none" \/ (ctl.pc = "spawn" /\ ctl.lg = l)
AttendedKnown ==
  \A l \in LegId :
    /\ Attended(l) => leg[l].id \in Sid /\ leg[l].remote \in Remote
    /\ ctl.pc = "spawn" /\ ctl.lg = l => leg[l].pc = "none"

BindTyped == TypeOK /\ IsFiniteSet(ports) /\ ControlOK

\* The inductive invariant: a table entry can be trusted because the leg it
\* names is attended, and an attended leg keeps its session and port.
IInv == BindTyped /\ AttendedKnown /\ TablesAgree /\ RoutedLegHasReader

LEMMA TypedInit == Init => BindTyped
<1> SUFFICES ASSUME Init PROVE BindTyped
  OBVIOUS
<1> USE DEF Init
<1>1. PortsMax \in Nat /\ MaxGen \in Nat /\ MaxGen >= 1 /\ ChMax \in Nat
  BY LimitsAssumption
<1>2. IsFiniteSet(ports) /\ Cardinality(ports) <= PortsMax
  BY <1>1, FS_EmptySet
<1>3. leg \in [LegId -> Leg]
  BY <1>1 DEF Leg, NoLeg
<1>4. ctl \in Control /\ ControlOK
  BY DEF Control, IdleControl, ControlOK
<1>5. /\ byID \in [Sid -> LegId \cup {None}]
      /\ byR \in [Remote -> LegId \cup {None}]
  OBVIOUS
<1>6. queued \in 0 .. ChMax /\ gen \in 1 .. MaxGen
  BY <1>1
<1>7. dead \in BOOLEAN /\ reaper \in BOOLEAN /\ rx \in BOOLEAN
  OBVIOUS
<1>8. recent \subseteq Remote /\ dialled \subseteq Remote /\ ports \subseteq Remote
  OBVIOUS
<1>9. dev \in {"up", "waiting", "closed"}
  OBVIOUS
<1> QED
  BY <1>2, <1>3, <1>4, <1>5, <1>6, <1>7, <1>8, <1>9 DEF BindTyped, TypeOK

LEMMA IInvInit == Init => IInv
<1> SUFFICES ASSUME Init PROVE IInv
  OBVIOUS
<1>1. BindTyped
  BY TypedInit
<1>2. AttendedKnown
  BY NoneAssumption DEF Init, AttendedKnown, Attended, NoLeg, IdleControl
<1>3. TablesAgree
  BY DEF Init, TablesAgree
<1>4. RoutedLegHasReader
  BY DEF Init, RoutedLegHasReader, Routed, Legs
<1> QED
  BY <1>1, <1>2, <1>3, <1>4 DEF IInv

\* Removing any legs of the tables puts ports, never None, into legRecent.
LEMMA RemotesType ==
  ASSUME IInv, NEW S, S \subseteq Routed
  PROVE  RemotesOf(S) \subseteq Remote
<1>1. S \subseteq LegId
  BY LegsAreLegs DEF IInv, BindTyped
<1>2. ASSUME NEW l \in S PROVE leg[l].remote \in Remote
  BY <1>1, <1>2 DEF IInv, RoutedLegHasReader, AttendedKnown, Attended
<1> QED
  BY <1>2 DEF RemotesOf

-----------------------------------------------------------------------------
(* Every step keeps the types *)

\* The parts of the state that an action leaves alone keep their type.
LEMMA TypedStep == IInv /\ [Next]_vars => BindTyped'
<1> SUFFICES ASSUME IInv, [Next]_vars PROVE BindTyped'
  OBVIOUS
<1> USE DEF IInv, BindTyped, TypeOK, tables, life
<1>0. PortsMax \in Nat /\ MaxGen \in Nat /\ ChMax \in Nat
  BY LimitsAssumption
<1>1. ASSUME NEW s \in Sid, NEW r \in Remote, RegisterLeg(s, r) PROVE BindTyped'
  <2>1. ctl' \in Control /\ ControlOK'
    BY <1>1 DEF RegisterLeg, Control, IdleControl, ControlOK
  <2> QED
    BY <1>1, <2>1 DEF RegisterLeg
<1>2. CASE RegisterFails
  <2>1. ctl' \in Control /\ ControlOK'
    BY <1>2 DEF RegisterFails, Control, IdleControl, ControlOK
  <2> QED
    BY <1>2, <2>1 DEF RegisterFails
<1>3. CASE InsertLeg
  <2> DEFINE s == ctl.id
             r == ctl.remote
             old == Replaced(s, r)
  <2>1. s \in Sid /\ r \in Remote
    BY <1>3 DEF InsertLeg, ControlOK
  <2>2. PICK l \in FreeLegs :
          /\ byID' = [OffID(old) EXCEPT ![s] = l]
          /\ byR' = [OffR(old) EXCEPT ![r] = l]
          /\ leg' = [Shut(old) EXCEPT ![l] = NewLeg(s, r)]
          /\ ctl' = [ctl EXCEPT !.pc = "spawn", !.lg = l]
    BY <1>3 DEF InsertLeg
  <2>3. l \in LegId /\ l # None
    BY <2>2, NoneAssumption DEF FreeLegs
  <2>4. old \subseteq Routed
    BY <2>1 DEF Replaced, Routed, Legs
  <2>5. recent' \subseteq Remote
    BY <1>3, <2>1, <2>4, RemotesType DEF InsertLeg
  <2>6. ports' \subseteq Remote /\ IsFiniteSet(ports') /\ Cardinality(ports') <= PortsMax
    BY <1>3, <2>1, RememberedType DEF InsertLeg
  <2>7. byID' \in [Sid -> LegId \cup {None}] /\ byR' \in [Remote -> LegId \cup {None}]
    BY <2>1, <2>2, <2>3, OffTypes
  <2>8. NewLeg(s, r) \in Leg
    BY <1>0, <2>1 DEF NewLeg, Leg
  <2>9. leg' \in [LegId -> Leg]
    BY <2>2, <2>3, <2>8, OffTypes
  <2>10. ctl' \in Control /\ ControlOK'
    BY <1>3, <2>1, <2>2, <2>3 DEF InsertLeg, Control, ControlOK
  <2>11. dialled' \subseteq Remote
    BY <1>3, <2>1 DEF InsertLeg
  <2> QED
    BY <1>3, <2>5, <2>6, <2>7, <2>9, <2>10, <2>11 DEF InsertLeg
<1>4. CASE SpawnReader
  <2>1. ctl' \in Control /\ ControlOK'
    BY <1>4 DEF SpawnReader, Control, IdleControl, ControlOK
  <2>2. ctl.lg \in LegId
    BY <1>4 DEF SpawnReader, ControlOK, Control
  <2>3. [leg[ctl.lg] EXCEPT !.pc = "read", !.gen = gen] \in Leg
    <3>1. leg[ctl.lg] \in Leg /\ gen \in 0 .. MaxGen
      BY <1>0, <2>2
    <3> QED
      BY <3>1 DEF Leg
  <2>4. leg' \in [LegId -> Leg]
    BY <1>4, <2>2, <2>3 DEF SpawnReader
  <2> QED
    BY <1>4, <2>1, <2>4 DEF SpawnReader
<1>5. ASSUME NEW S, S \subseteq Routed, RemoveLegs(S),
             UNCHANGED <<ports, dialled, queued, ctl, life>>
      PROVE  BindTyped'
  BY <1>5, OffTypes, RemotesType DEF RemoveLegs, ControlOK
<1>6. CASE ClearLegs
  BY <1>5, <1>6 DEF ClearLegs, Routed
<1>7. ASSUME NEW s \in Sid, RemoveLeg(s) PROVE BindTyped'
  BY <1>5, <1>7 DEF RemoveLeg, Routed, Legs
<1>8. ASSUME NEW l \in LegId, ReadPacket(l) PROVE BindTyped'
  <2>1. [leg[l] EXCEPT !.pc = "hold", !.idle = FALSE] \in Leg
    <3>1. leg[l] \in Leg
      BY <1>8
    <3> QED
      BY <3>1 DEF Leg
  <2>2. leg' \in [LegId -> Leg]
    BY <1>8, <2>1 DEF ReadPacket
  <2> QED
    BY <1>8, <2>2 DEF ReadPacket, ControlOK
<1>9. ASSUME NEW l \in LegId, ReadFails(l) PROVE BindTyped'
  BY <1>9 DEF ReadFails, Leg, ControlOK
<1>10. ASSUME NEW l \in LegId, Deliver(l) PROVE BindTyped'
  <2>1. leg' \in [LegId -> Leg]
    BY SMTT(30), <1>10 DEF Deliver, Leg
  <2>2. queued' \in 0 .. ChMax
    BY <1>0, <1>10 DEF Deliver
  <2> QED
    BY <1>10, <2>1, <2>2 DEF Deliver, ControlOK
<1>11. ASSUME NEW l \in LegId, DeliverDead(l) PROVE BindTyped'
  BY <1>11 DEF DeliverDead, Leg, ControlOK
<1>12. ASSUME NEW l \in LegId, ReaderExits(l) PROVE BindTyped'
  <2>1. leg[l].id \in Sid /\ leg[l].remote \in Remote
    BY <1>12 DEF ReaderExits, AttendedKnown, Attended
  <2>2. NoLeg \in Leg
    BY <1>0 DEF NoLeg, Leg
  <2>3. leg' \in [LegId -> Leg]
    BY <1>12, <2>2 DEF ReaderExits
  <2>5. byID \in [Sid -> LegId \cup {None}] /\ byR \in [Remote -> LegId \cup {None}]
    OBVIOUS
  <2>4. byID' \in [Sid -> LegId \cup {None}] /\ byR' \in [Remote -> LegId \cup {None}]
    BY <1>12, <2>1, <2>5 DEF ReaderExits
  <2> QED
    BY <1>12, <2>1, <2>3, <2>4 DEF ReaderExits, ControlOK
<1>13. ASSUME NEW l \in LegId, AgeLeg(l) PROVE BindTyped'
  <2>1. [leg[l] EXCEPT !.idle = TRUE] \in Leg
    <3>1. leg[l] \in Leg
      OBVIOUS
    <3> QED
      BY <3>1 DEF Leg
  <2>2. leg' \in [LegId -> Leg]
    BY <1>13, <2>1 DEF AgeLeg
  <2> QED
    BY <1>13, <2>2 DEF AgeLeg, ControlOK
<1>14. ASSUME NEW r \in Remote, Send(r) PROVE BindTyped'
  <2>1. byR[r] \in LegId
    BY <1>14 DEF Send, RouteOf
  <2>2. [leg[byR[r]] EXCEPT !.idle = FALSE] \in Leg
    <3>1. leg[byR[r]] \in Leg
      BY <2>1
    <3> QED
      BY <3>1 DEF Leg
  <2>3. leg' \in [LegId -> Leg]
    BY <1>14, <2>1, <2>2 DEF Send
  <2> QED
    BY <1>14, <2>3 DEF Send, ControlOK
<1>15. CASE Receive
  <2>1. queued' \in 0 .. ChMax
    BY <1>0, <1>15 DEF Receive
  <2> QED
    BY <1>15, <2>1 DEF Receive, ControlOK
<1>16. CASE ReceiverExits
  BY <1>16 DEF ReceiverExits, ControlOK
<1>17. CASE Sweep
  <2> DEFINE idle == {l \in Legs : leg[l].idle}
  <2>1. idle \subseteq Routed
    BY DEF Routed
  <2>2. recent' \subseteq Remote
    BY <1>17, <2>1, RemotesType DEF Sweep
  <2> QED
    BY <1>17, <2>2, OffTypes DEF Sweep, ControlOK
<1>18. CASE ReaperExits
  BY <1>18 DEF ReaperExits, ControlOK
<1>19. CASE CloseBegins
  BY <1>19 DEF CloseBegins, ControlOK
<1>20. CASE CloseEnds
  BY <1>20, OffTypes DEF CloseEnds, ControlOK
<1>21. CASE Open
  <2>1. gen' \in 1 .. MaxGen
    BY <1>0, <1>21 DEF Open
  <2> QED
    BY <1>21, <2>1 DEF Open, ControlOK
<1>22. CASE UNCHANGED vars
  BY <1>22 DEF vars, ControlOK
<1> QED
  BY <1>1, <1>2, <1>3, <1>4, <1>6, <1>7, <1>8, <1>9, <1>10, <1>11, <1>12, <1>13,
     <1>14, <1>15, <1>16, <1>17, <1>18, <1>19, <1>20, <1>21, <1>22
  DEF Next, ControlSteps, ReaderSteps, DeviceSteps

-----------------------------------------------------------------------------
(* Every step keeps the tables one relation *)

\* A step that moves no entry and renames no leg keeps the relation.
LEMMA KeptAgree ==
  ASSUME IInv, byID' = byID, byR' = byR,
         \A l \in LegId : leg'[l].id = leg[l].id /\ leg'[l].remote = leg[l].remote
  PROVE  TablesAgree'
BY DEF IInv, BindTyped, TypeOK, TablesAgree

\* removeLegLocked takes both entries of a leg, or neither.
LEMMA RemovedAgree ==
  ASSUME IInv, NEW S, byID' = OffID(S), byR' = OffR(S), leg' = Shut(S)
  PROVE  TablesAgree'
<1> USE DEF IInv, BindTyped, TypeOK
<1>1. \A l \in LegId : leg'[l].id = leg[l].id /\ leg'[l].remote = leg[l].remote
  BY DEF Shut, Leg
<1>2. \A s \in Sid : byID'[s] = IF byID[s] \in S /\ byID[s] # None THEN None ELSE byID[s]
  BY DEF OffID, TablesAgree
<1>3. \A r \in Remote : byR'[r] = IF byR[r] \in S /\ byR[r] # None THEN None ELSE byR[r]
  BY DEF OffR, TablesAgree
<1>4. ASSUME NEW s \in Sid, byID'[s] # None
      PROVE  leg'[byID'[s]].id = s /\ byR'[leg'[byID'[s]].remote] = byID'[s]
  <2>1. byID'[s] = byID[s] /\ byID[s] \in LegId /\ byID[s] \notin S
    BY <1>2, <1>4
  <2>2. leg[byID[s]].id = s /\ byR[leg[byID[s]].remote] = byID[s]
    BY <2>1, <1>4 DEF TablesAgree
  <2>3. leg[byID[s]].remote \in Remote
    BY <2>1, <1>4 DEF RoutedLegHasReader, Routed, Legs, AttendedKnown, Attended
  <2> QED
    BY <2>1, <2>2, <2>3, <1>1, <1>3
<1>5. ASSUME NEW r \in Remote, byR'[r] # None
      PROVE  leg'[byR'[r]].remote = r /\ byID'[leg'[byR'[r]].id] = byR'[r]
  <2>1. byR'[r] = byR[r] /\ byR[r] \in LegId /\ byR[r] \notin S
    BY <1>3, <1>5
  <2>2. leg[byR[r]].remote = r /\ byID[leg[byR[r]].id] = byR[r]
    BY <2>1, <1>5 DEF TablesAgree
  <2>3. leg[byR[r]].id \in Sid
    BY <2>1, <1>5 DEF RoutedLegHasReader, Routed, Legs, AttendedKnown, Attended
  <2> QED
    BY <2>1, <2>2, <2>3, <1>1, <1>2
<1> QED
  BY <1>4, <1>5 DEF TablesAgree

\* RegisterLeg takes out the leg of the same session and the leg of the same
\* port before it enters the new one under both keys.
LEMMA InsertedAgree ==
  ASSUME IInv, InsertLeg
  PROVE  TablesAgree' /\ AttendedKnown' /\ RoutedLegHasReader'
<1> USE DEF IInv, BindTyped, TypeOK
<1> DEFINE s == ctl.id
           r == ctl.remote
           old == Replaced(s, r)
<1>1. s \in Sid /\ r \in Remote
  BY DEF InsertLeg, ControlOK
<1>2. PICK l \in FreeLegs :
        /\ byID' = [OffID(old) EXCEPT ![s] = l]
        /\ byR' = [OffR(old) EXCEPT ![r] = l]
        /\ leg' = [Shut(old) EXCEPT ![l] = NewLeg(s, r)]
        /\ ctl' = [ctl EXCEPT !.pc = "spawn", !.lg = l]
  BY DEF InsertLeg
<1>3. l \in LegId /\ l # None /\ l \notin Routed /\ leg[l].pc = "none"
  BY <1>2, NoneAssumption DEF FreeLegs
<1>4. ctl'.pc = "spawn" /\ ctl'.lg = l
  BY <1>2 DEF Control
<1>5. /\ leg'[l].id = s /\ leg'[l].remote = r /\ leg'[l].pc = "none"
      /\ \A k \in LegId : k # l => /\ leg'[k].id = leg[k].id /\ leg'[k].remote = leg[k].remote
                                   /\ leg'[k].pc = leg[k].pc
  <2>1. leg'[l] = NewLeg(s, r) /\ \A k \in LegId : k # l => leg'[k] = Shut(old)[k]
    BY <1>2, <1>3, OffTypes
  <2>2. \A k \in LegId : /\ Shut(old)[k].id = leg[k].id
                         /\ Shut(old)[k].remote = leg[k].remote
                         /\ Shut(old)[k].pc = leg[k].pc
    BY DEF Shut, Leg
  <2> QED
    BY <2>1, <2>2 DEF NewLeg
<1>6. byID'[s] = l /\ \A x \in Sid : x # s => byID'[x] = OffID(old)[x]
  BY <1>1, <1>2, OffTypes
<1>7. byR'[r] = l /\ \A x \in Remote : x # r => byR'[x] = OffR(old)[x]
  BY <1>1, <1>2, OffTypes
<1>8. \A x \in Sid : x # s /\ byID'[x] # None =>
        /\ byID'[x] = byID[x] /\ byID[x] \notin old /\ byID[x] \in Routed
        /\ byID[x] \in LegId
  BY <1>6 DEF OffID, TablesAgree, Routed, Legs
<1>9. \A x \in Remote : x # r /\ byR'[x] # None =>
        /\ byR'[x] = byR[x] /\ byR[x] \notin old /\ byR[x] \in Routed
        /\ byR[x] \in LegId
  BY <1>7 DEF OffR, TablesAgree, Routed
<1>10. \A k \in Routed : leg[k].id \in Sid /\ leg[k].remote \in Remote
  BY LegsAreLegs DEF RoutedLegHasReader, AttendedKnown, Attended
<1>11. TablesAgree'
  <2>1. ASSUME NEW x \in Sid, byID'[x] # None
        PROVE  leg'[byID'[x]].id = x /\ byR'[leg'[byID'[x]].remote] = byID'[x]
    <3>1. CASE x = s
      BY <3>1, <1>5, <1>6, <1>7
    <3>2. CASE x # s
      <4> DEFINE k == byID[x]
                 q == leg[k].remote
      <4>1. byID'[x] = k /\ k \notin old /\ k # l /\ k \in LegId /\ q \in Remote
        BY <3>2, <2>1, <1>8, <1>3, <1>10
      <4>2. leg[k].id = x /\ byR[q] = k /\ k # None
        BY <2>1, <4>1 DEF TablesAgree
      <4>3. q # r
        BY <4>1, <4>2 DEF Replaced
      <4>4. byR'[q] = k
        BY <4>1, <4>2, <4>3, <1>7 DEF OffR
      <4> QED
        BY <4>1, <4>2, <4>4, <1>5
    <3> QED
      BY <3>1, <3>2
  <2>2. ASSUME NEW x \in Remote, byR'[x] # None
        PROVE  leg'[byR'[x]].remote = x /\ byID'[leg'[byR'[x]].id] = byR'[x]
    <3>1. CASE x = r
      BY <3>1, <1>5, <1>6, <1>7
    <3>2. CASE x # r
      <4> DEFINE k == byR[x]
                 q == leg[k].id
      <4>1. byR'[x] = k /\ k \notin old /\ k # l /\ k \in LegId /\ q \in Sid
        BY <3>2, <2>2, <1>9, <1>3, <1>10
      <4>2. leg[k].remote = x /\ byID[q] = k /\ k # None
        BY <2>2, <4>1 DEF TablesAgree
      <4>3. q # s
        BY <4>1, <4>2 DEF Replaced
      <4>4. byID'[q] = k
        BY <4>1, <4>2, <4>3, <1>6 DEF OffID
      <4> QED
        BY <4>1, <4>2, <4>4, <1>5
    <3> QED
      BY <3>1, <3>2
  <2> QED
    BY <2>1, <2>2 DEF TablesAgree
<1>12. AttendedKnown'
  <2>1. ctl.pc = "insert"
    BY DEF InsertLeg
  <2> QED
    BY <2>1, <1>1, <1>4, <1>5 DEF AttendedKnown, Attended
<1>13. RoutedLegHasReader'
  <2>1. ASSUME NEW k \in Routed', k # l
        PROVE  leg'[k].pc # "none"
    <3>1. k \in Routed /\ k \in LegId
      BY <2>1, <1>6, <1>7, <1>8, <1>9 DEF Routed, Legs
    <3>2. ctl.pc # "spawn"
      BY DEF InsertLeg
    <3> QED
      BY <2>1, <3>1, <3>2, <1>5 DEF RoutedLegHasReader
  <2> QED
    BY <2>1, <1>4 DEF RoutedLegHasReader
<1> QED
  BY <1>11, <1>12, <1>13

\* The clean-up of a read loop finds both entries of its leg, or neither.
LEMMA ExitedAgree ==
  ASSUME IInv, NEW l \in LegId, ReaderExits(l)
  PROVE  TablesAgree' /\ AttendedKnown' /\ RoutedLegHasReader'
<1> USE DEF IInv, BindTyped, TypeOK
<1> DEFINE s == leg[l].id
           r == leg[l].remote
<1>1. s \in Sid /\ r \in Remote /\ l # None /\ ctl' = ctl
  BY NoneAssumption DEF ReaderExits, AttendedKnown, Attended
<1>2. leg'[l] = NoLeg /\ \A k \in LegId : k # l => leg'[k] = leg[k]
  BY DEF ReaderExits
<1>3. \A x \in Sid : byID'[x] = IF byID[x] = l THEN None ELSE byID[x]
  BY <1>1 DEF ReaderExits, TablesAgree
<1>4. \A x \in Remote : byR'[x] = IF byR[x] = l THEN None ELSE byR[x]
  BY <1>1 DEF ReaderExits, TablesAgree
<1>5. Routed' \subseteq Routed \ {l}
  BY <1>3, <1>4 DEF Routed, Legs
<1>6. TablesAgree'
  BY <1>2, <1>3, <1>4, LegsAreLegs
  DEF TablesAgree, RoutedLegHasReader, Routed, Legs, AttendedKnown, Attended
<1>7. AttendedKnown'
  <2>1. ~ (ctl.pc = "spawn" /\ ctl.lg = l)
    BY DEF AttendedKnown, ReaderExits
  <2>2. ASSUME NEW k \in LegId, k # l
        PROVE  /\ Attended(k)' => leg'[k].id \in Sid /\ leg'[k].remote \in Remote
               /\ (ctl.pc = "spawn" /\ ctl.lg = k => leg[k].pc = "none")'
    BY <1>1, <1>2, <2>2 DEF AttendedKnown, Attended
  <2> QED
    BY <1>1, <1>2, <2>1, <2>2 DEF AttendedKnown, Attended, NoLeg
<1>8. RoutedLegHasReader'
  BY <1>1, <1>2, <1>5, LegsAreLegs DEF RoutedLegHasReader
<1> QED
  BY <1>6, <1>7, <1>8

-----------------------------------------------------------------------------
(* The invariant is inductive *)

\* A step that moves no table entry, renames no leg, and starts or ends no
\* read loop of a leg in the tables.
LEMMA BindKept ==
  ASSUME IInv, byID' = byID, byR' = byR, ctl' = ctl,
         \A l \in LegId :
           /\ leg'[l].id = leg[l].id /\ leg'[l].remote = leg[l].remote
           /\ leg'[l].pc # "none" <=> leg[l].pc # "none"
  PROVE  TablesAgree' /\ AttendedKnown' /\ RoutedLegHasReader'
<1>1. TablesAgree'
  BY KeptAgree
<1>2. AttendedKnown'
  BY DEF IInv, AttendedKnown, Attended
<1>3. RoutedLegHasReader'
  BY LegsAreLegs DEF IInv, BindTyped, RoutedLegHasReader, Routed, Legs
<1> QED
  BY <1>1, <1>2, <1>3

LEMMA RemovedKept ==
  ASSUME IInv, NEW S, byID' = OffID(S), byR' = OffR(S), leg' = Shut(S), ctl' = ctl
  PROVE  TablesAgree' /\ AttendedKnown' /\ RoutedLegHasReader'
<1>1. TablesAgree'
  BY RemovedAgree
<1>2. \A l \in LegId : /\ leg'[l].id = leg[l].id /\ leg'[l].remote = leg[l].remote
                        /\ leg'[l].pc = leg[l].pc
  BY DEF IInv, BindTyped, TypeOK, Shut, Leg
<1>3. Routed' \subseteq Routed
  BY DEF Routed, Legs, OffID, OffR
<1>4. AttendedKnown'
  BY <1>2 DEF IInv, AttendedKnown, Attended
<1>5. RoutedLegHasReader'
  BY <1>2, <1>3, LegsAreLegs DEF IInv, BindTyped, RoutedLegHasReader
<1> QED
  BY <1>1, <1>4, <1>5

LEMMA IInvStep == IInv /\ [Next]_vars => IInv'
<1> SUFFICES ASSUME IInv, [Next]_vars PROVE IInv'
  OBVIOUS
<1>0. BindTyped' /\ BindTyped
  BY TypedStep DEF IInv
<1> DEFINE Goal == TablesAgree' /\ AttendedKnown' /\ RoutedLegHasReader'
<1> SUFFICES Goal
  BY <1>0 DEF IInv
<1> USE DEF tables, life
<1>1. ASSUME UNCHANGED <<byID, byR, leg>>,
             ctl'.pc # "spawn" /\ ctl.pc # "spawn"
      PROVE  Goal
  BY <1>1 DEF IInv, TablesAgree, AttendedKnown, Attended, RoutedLegHasReader, Routed, Legs
<1>2. ASSUME UNCHANGED <<byID, byR, leg, ctl>> PROVE Goal
  BY <1>2, BindKept
<1>3. ASSUME NEW s \in Sid, NEW r \in Remote, RegisterLeg(s, r) PROVE Goal
  BY <1>1, <1>3 DEF RegisterLeg, IdleControl
<1>4. CASE RegisterFails
  BY <1>1, <1>4 DEF RegisterFails, IdleControl
<1>5. CASE InsertLeg
  BY <1>5, InsertedAgree
<1>6. CASE SpawnReader
  <2>1. leg \in [LegId -> Leg] /\ ctl.lg \in LegId /\ ctl'.pc = "idle"
    BY <1>0, <1>6 DEF SpawnReader, BindTyped, TypeOK, ControlOK, Control, IdleControl
  <2>2. /\ leg'[ctl.lg].pc = "read"
        /\ \A l \in LegId : /\ leg'[l].id = leg[l].id /\ leg'[l].remote = leg[l].remote
                            /\ l # ctl.lg => leg'[l].pc = leg[l].pc
    BY <1>6, <2>1 DEF SpawnReader, Leg
  <2>3. TablesAgree'
    BY <1>6, <2>2, KeptAgree DEF SpawnReader
  <2>4. AttendedKnown'
    BY <1>6, <2>1, <2>2 DEF SpawnReader, IInv, AttendedKnown, Attended
  <2>5. RoutedLegHasReader'
    <3>1. Routed' = Routed /\ Routed \subseteq LegId
      BY <1>0, <1>6, LegsAreLegs DEF SpawnReader, BindTyped, Routed, Legs
    <3>2. \A l \in Routed : leg'[l].pc # "none"
      BY <2>2, <3>1 DEF IInv, RoutedLegHasReader
    <3> QED
      BY <3>1, <3>2 DEF RoutedLegHasReader
  <2> QED
    BY <2>3, <2>4, <2>5
<1>7. CASE ClearLegs
  BY <1>7, RemovedKept DEF ClearLegs, RemoveLegs
<1>8. ASSUME NEW s \in Sid, RemoveLeg(s) PROVE Goal
  BY <1>8, RemovedKept DEF RemoveLeg, RemoveLegs
<1>9. ASSUME NEW l \in LegId, ReaderSteps(l), ~ReaderExits(l) PROVE Goal
  <2>1. leg \in [LegId -> Leg] /\ l \in LegId
    BY <1>0, <1>9 DEF BindTyped, TypeOK
  <2>3. \A k \in LegId : k # l => leg'[k] = leg[k]
    BY <1>9, <2>1 DEF ReaderSteps, ReadPacket, ReadFails, Deliver, DeliverDead
  <2>4. /\ leg'[l].id = leg[l].id /\ leg'[l].remote = leg[l].remote
        /\ leg'[l].pc # "none" /\ leg[l].pc # "none"
    BY <1>9, <2>1 DEF ReaderSteps, ReadPacket, ReadFails, Deliver, DeliverDead, Leg
  <2>2. UNCHANGED <<byID, byR, ctl>>
    BY <1>9 DEF ReaderSteps, ReadPacket, ReadFails, Deliver, DeliverDead
  <2> QED
    BY <2>2, <2>3, <2>4, BindKept
<1>10. ASSUME NEW l \in LegId, ReaderExits(l) PROVE Goal
  BY <1>10, ExitedAgree
<1>11. ASSUME NEW l \in LegId, AgeLeg(l) PROVE Goal
  BY <1>0, <1>11, BindKept DEF AgeLeg, BindTyped, TypeOK, Leg
<1>12. ASSUME NEW r \in Remote, Send(r) PROVE Goal
  BY <1>0, <1>12, BindKept DEF Send, BindTyped, TypeOK, Leg
<1>13. CASE Receive \/ ReceiverExits \/ ReaperExits
  BY <1>2, <1>13 DEF Receive, ReceiverExits, ReaperExits
<1>14. CASE Sweep
  BY <1>14, RemovedKept DEF Sweep
<1>15. CASE CloseBegins \/ Open
  BY <1>2, <1>15 DEF CloseBegins, Open
<1>16. CASE CloseEnds
  <2>1. Routed' = {}
    BY <1>16 DEF CloseEnds, Routed, Legs
  <2>2. \A l \in LegId : /\ leg'[l].id = leg[l].id /\ leg'[l].remote = leg[l].remote
                          /\ leg'[l].pc = leg[l].pc
    <3>1. ASSUME NEW l \in LegId
          PROVE  LET x == [leg[l] EXCEPT !.open = FALSE, !.idle = FALSE] IN
                 x.id = leg[l].id /\ x.remote = leg[l].remote /\ x.pc = leg[l].pc
      <4>1. leg[l] \in Leg
        BY <1>0 DEF BindTyped, TypeOK
      <4> QED
        BY <4>1 DEF Leg
    <3>2. leg' = Shut(Legs)
      BY <1>16 DEF CloseEnds
    <3> QED
      BY <3>1, <3>2 DEF Shut
  <2>3. TablesAgree'
    BY <1>16 DEF CloseEnds, TablesAgree
  <2>4. AttendedKnown'
    BY <1>16, <2>2 DEF CloseEnds, IInv, AttendedKnown, Attended
  <2> QED
    BY <2>1, <2>3, <2>4 DEF RoutedLegHasReader
<1>17. CASE UNCHANGED vars
  BY <1>2, <1>17 DEF vars
<1> QED
  BY <1>3, <1>4, <1>5, <1>6, <1>7, <1>8, <1>9, <1>10, <1>11, <1>12, <1>13, <1>14,
     <1>15, <1>16, <1>17
  DEF Next, ControlSteps, DeviceSteps, ReaderSteps

\* The inductive invariant holds in every behaviour.
THEOREM Invariance == Spec => []IInv
BY IInvInit, IInvStep, PTL DEF Spec

\* Every variable keeps its type, and legPorts never outgrows legPortsMax.
THEOREM TypesHold == Spec => []TypeOK
<1>1. IInv => TypeOK
  BY DEF IInv, BindTyped
<1> QED
  BY <1>1, Invariance, PTL

\* Whatever the control client, the reaper, Close and the read loops do, Send
\* by remote and RELEASE by session find the same leg.
THEOREM Agreement == Spec => []TablesAgree
<1>1. IInv => TablesAgree
  BY DEF IInv
<1> QED
  BY <1>1, Invariance, PTL

\* No leg that Send can choose is without a read loop to take it out.
THEOREM NoLegWithoutReader == Spec => []RoutedLegHasReader
<1>1. IInv => RoutedLegHasReader
  BY DEF IInv
<1> QED
  BY <1>1, Invariance, PTL

-----------------------------------------------------------------------------
(* The memory of data ports *)

\* legPorts loses nothing until it has met legPortsMax ports.
Memory ==
  /\ IsFiniteSet(dialled) /\ IsFiniteSet(ports) /\ ports \subseteq dialled
  /\ Cardinality(dialled) < PortsMax => ports = dialled

LEMMA MemoryStep == Memory /\ IInv /\ [Next]_vars => Memory'
<1> SUFFICES ASSUME Memory, IInv, [Next]_vars PROVE Memory'
  OBVIOUS
<1> USE DEF Memory
<1>1. CASE InsertLeg
  <2> DEFINE r == ctl.remote
  <2>1. dialled' = dialled \cup {r} /\ ports' = Remembered(r)
    BY <1>1 DEF InsertLeg
  <2>2. IsFiniteSet(dialled') /\ Cardinality(dialled) <= Cardinality(dialled')
    BY <2>1, FS_AddElement, FS_Subset
  <2>3. Cardinality(dialled) \in Nat /\ Cardinality(dialled') \in Nat /\ PortsMax \in Nat
    BY <2>2, FS_CardinalityType, LimitsAssumption
  <2>4. IsFiniteSet(ports') /\ ports' \subseteq dialled'
    <3>1. IsFiniteSet({r}) /\ IsFiniteSet(ports \cup {r})
      BY FS_Singleton, FS_AddElement
    <3> QED
      BY <2>1, <3>1 DEF Remembered
  <2>5. Cardinality(dialled') < PortsMax => ports' = dialled'
    BY <2>1, <2>2, <2>3 DEF Remembered
  <2> QED
    BY <2>2, <2>4, <2>5
<1>2. CASE ~InsertLeg
  <2>1. UNCHANGED <<ports, dialled>>
    BY <1>2
    DEF Next, ControlSteps, DeviceSteps, ReaderSteps, RegisterLeg, RegisterFails,
        SpawnReader, ClearLegs, RemoveLeg, ReadPacket, ReadFails, Deliver, DeliverDead,
        ReaderExits, AgeLeg, Send, Receive, ReceiverExits, Sweep, ReaperExits,
        CloseBegins, CloseEnds, Open, vars, tables, life
  <2> QED
    BY <2>1
<1> QED
  BY <1>1, <1>2

\* Send never takes a packet for a data port to the main socket, whether its
\* leg is there, just gone or long gone.
THEOREM DataPortsStayOffMain == Spec => []NeverMainToDataPort
<1>1. Init => Memory
  BY FS_EmptySet DEF Init, Memory
<1>2. Memory => NeverMainToDataPort
  BY DEF Memory, NeverMainToDataPort, RouteOf
<1> QED
  BY <1>1, <1>2, MemoryStep, Invariance, PTL DEF Spec

-----------------------------------------------------------------------------
(* The limit on legs *)

Bounded == IsFiniteSet(Legs) /\ Cardinality(Legs) <= LegMax

\* A leg that replaces another needs no free place, and a new session enters
\* only when there is one.
LEMMA InsertBounded ==
  ASSUME IInv, Bounded, InsertLeg
  PROVE  Bounded'
<1> DEFINE s == ctl.id
           r == ctl.remote
           old == Replaced(s, r)
<1>1. s \in Sid /\ r \in Remote /\ TypeOK /\ TablesAgree
  BY DEF InsertLeg, IInv, BindTyped, ControlOK
<1>2. PICK l \in FreeLegs : byID' = [OffID(old) EXCEPT ![s] = l]
  BY DEF InsertLeg
<1>3. \A x \in Sid : x # s => byID'[x] = byID[x] \/ byID'[x] = None
  BY <1>2 DEF OffID
<1>4. \A x \in Sid : x # s /\ byID[x] = byID[s] => byID[x] = None
  BY <1>1 DEF TablesAgree
<1>5. Legs' \subseteq (Legs \ {byID[s]}) \cup {l}
  BY <1>1, <1>2, <1>3, <1>4, OffTypes DEF Legs
<1>6. LegMax \in Nat /\ Cardinality(Legs) \in Nat /\ IsFiniteSet(Legs)
  BY LimitsAssumption, FS_CardinalityType DEF Bounded
<1>7. Cardinality(Legs \ {byID[s]}) + 1 <= LegMax /\ IsFiniteSet(Legs \ {byID[s]})
  <2>1. /\ IsFiniteSet(Legs \ {byID[s]})
        /\ Cardinality(Legs \ {byID[s]}) =
             IF byID[s] \in Legs THEN Cardinality(Legs) - 1 ELSE Cardinality(Legs)
    BY <1>6, FS_RemoveElement
  <2>2. byID[s] = None => Cardinality(Legs) < LegMax
    <3>1. ~TableFull(s)
      BY DEF InsertLeg
    <3> QED
      BY <3>1, <1>6 DEF TableFull
  <2>3. byID[s] # None => byID[s] \in Legs
    BY <1>1 DEF Legs
  <2>4. Cardinality(Legs) <= LegMax
    BY DEF Bounded
  <2> QED
    BY <2>1, <2>2, <2>3, <2>4, <1>6
<1>8. /\ IsFiniteSet((Legs \ {byID[s]}) \cup {l})
      /\ Cardinality((Legs \ {byID[s]}) \cup {l}) <= LegMax
  <2>1. Cardinality(Legs \ {byID[s]}) \in Nat
    BY <1>7, FS_CardinalityType
  <2>2. /\ IsFiniteSet((Legs \ {byID[s]}) \cup {l})
        /\ Cardinality((Legs \ {byID[s]}) \cup {l}) \in
             {Cardinality(Legs \ {byID[s]}), Cardinality(Legs \ {byID[s]}) + 1}
    BY <1>7, FS_AddElement
  <2> QED
    BY <2>1, <2>2, <1>6, <1>7
<1>9. /\ IsFiniteSet(Legs')
      /\ Cardinality(Legs') <= Cardinality((Legs \ {byID[s]}) \cup {l})
  BY <1>5, <1>8, FS_Subset
<1>10. /\ Cardinality(Legs') \in Nat
       /\ Cardinality((Legs \ {byID[s]}) \cup {l}) \in Nat
  BY <1>8, <1>9, FS_CardinalityType
<1> QED
  BY <1>6, <1>8, <1>9, <1>10 DEF Bounded

LEMMA FewerBounded ==
  ASSUME Bounded, Legs' \subseteq Legs
  PROVE  Bounded'
BY FS_Subset, FS_CardinalityType, LimitsAssumption DEF Bounded

LEMMA BoundedStep == Bounded /\ IInv /\ [Next]_vars => Bounded'
<1> SUFFICES ASSUME Bounded, IInv, [Next]_vars PROVE Bounded'
  OBVIOUS
<1>1. CASE InsertLeg
  BY <1>1, InsertBounded
<1>2. CASE ~InsertLeg
  <2>1. ASSUME NEW S, byID' = OffID(S) PROVE Legs' \subseteq Legs
    BY <2>1 DEF Legs, OffID
  <2>2. ASSUME NEW l \in LegId, ReaderExits(l) PROVE Legs' \subseteq Legs
    BY <2>2 DEF ReaderExits, Legs, IInv, BindTyped, TypeOK
  <2>3. ASSUME CloseEnds PROVE Legs' \subseteq Legs
    BY <2>3 DEF CloseEnds, Legs
  <2>4. ASSUME byID' = byID PROVE Legs' \subseteq Legs
    BY <2>4 DEF Legs
  <2>5. Legs' \subseteq Legs
    BY <1>2, <2>1, <2>2, <2>3, <2>4
    DEF Next, ControlSteps, DeviceSteps, ReaderSteps, RegisterLeg, RegisterFails,
        SpawnReader, ClearLegs, RemoveLeg, RemoveLegs, ReadPacket, ReadFails, Deliver,
        DeliverDead, AgeLeg, Send, Receive, ReceiverExits, Sweep, ReaperExits,
        CloseBegins, Open, vars, tables, life
  <2> QED
    BY <2>5, FewerBounded
<1> QED
  BY <1>1, <1>2

\* relayLegMax holds although a replayed session is accepted at the limit.
THEOREM LimitHolds == Spec => []LegsWithinLimit
<1>1. Init => Bounded
  <2>1. ASSUME Init PROVE Legs = {}
    BY <2>1 DEF Init, Legs
  <2> QED
    BY <2>1, FS_EmptySet, LimitsAssumption DEF Bounded
<1>2. Bounded => LegsWithinLimit
  BY DEF Bounded, LegsWithinLimit
<1> QED
  BY <1>1, <1>2, BoundedStep, Invariance, PTL DEF Spec

-----------------------------------------------------------------------------
(* The leg table implements the registry *)

\* Taking any legs out of the tables is losing the ports of their sessions.
LEMMA RemovedIsLost ==
  ASSUME IInv, NEW S, byID' = OffID(S), leg' = Shut(S)
  PROVE  Registry!Next
<1> DEFINE gone == {x \in Sid : byID[x] \in S}
<1>1. \A l \in LegId : leg'[l].remote = leg[l].remote
  BY DEF IInv, BindTyped, TypeOK, Shut, Leg
<1>2. \A x \in Sid : byID'[x] = IF x \in gone THEN None ELSE byID[x]
  BY DEF IInv, TablesAgree, OffID
<1>3. Port' = [x \in Sid |-> IF x \in gone THEN None ELSE Port[x]]
  BY <1>1, <1>2 DEF Port, IInv, BindTyped, TypeOK
<1>4. Registry!Lose(gone)
  BY <1>3 DEF Registry!Lose
<1> QED
  BY <1>4 DEF Registry!Next

LEMMA InsertIsDial ==
  ASSUME IInv, InsertLeg
  PROVE  Registry!Next
<1> DEFINE s == ctl.id
           r == ctl.remote
           old == Replaced(s, r)
<1>1. s \in Sid /\ r \in Remote /\ TypeOK /\ TablesAgree
  BY DEF InsertLeg, IInv, BindTyped, ControlOK
<1>2. PICK l \in FreeLegs :
        /\ byID' = [OffID(old) EXCEPT ![s] = l]
        /\ leg' = [Shut(old) EXCEPT ![l] = NewLeg(s, r)]
  BY DEF InsertLeg
<1>3. l \in LegId /\ l # None /\ l \notin Legs
  BY <1>2, NoneAssumption DEF FreeLegs, Routed
<1>4. leg'[l].remote = r /\ \A k \in LegId : k # l => leg'[k].remote = leg[k].remote
  <2>1. \A k \in LegId : Shut(old)[k].remote = leg[k].remote
    BY <1>1 DEF TypeOK, Shut, Leg
  <2> QED
    BY <1>1, <1>2, <1>3, <2>1, OffTypes DEF NewLeg
<1>5. byID'[s] = l /\ Port'[s] = r
  BY <1>1, <1>2, <1>3, <1>4, OffTypes DEF Port
<1>6. ASSUME NEW x \in Sid, x # s
      PROVE  Port'[x] = IF Port[x] = r THEN None ELSE Port[x]
  <2>1. byID'[x] = IF byID[x] \in old THEN None ELSE byID[x]
    BY <1>1, <1>2, <1>6, OffTypes DEF OffID, TablesAgree
  <2>2. byID[x] = None \/ (byID[x] \in LegId /\ byID[x] # l)
    BY <1>1, <1>3 DEF TypeOK, Legs
  <2>3. byID[x] # None => (byID[x] \in old <=> leg[byID[x]].remote = r)
    BY <1>1, <1>6 DEF TablesAgree, Replaced
  <2>4. r # None
    BY <1>1, NoneAssumption
  <2> QED
    BY <2>1, <2>2, <2>3, <2>4, <1>4 DEF Port
<1>7. Port' = [x \in Sid |-> IF x = s THEN r ELSE IF Port[x] = r THEN None ELSE Port[x]]
  BY <1>5, <1>6 DEF Port
<1>8. Registry!Dial(s, r)
  BY <1>7 DEF Registry!Dial
<1> QED
  BY <1>1, <1>8 DEF Registry!Next

LEMMA RegistryStep == IInv /\ [Next]_vars => [Registry!Next]_Port
<1> SUFFICES ASSUME IInv, [Next]_vars PROVE Registry!Next \/ Port' = Port
  OBVIOUS
<1>1. CASE InsertLeg
  BY <1>1, InsertIsDial
<1>2. ASSUME NEW S, byID' = OffID(S), leg' = Shut(S) PROVE Registry!Next
  BY <1>2, RemovedIsLost
<1>3. ASSUME NEW l \in LegId, ReaderExits(l) PROVE Registry!Next
  <2> DEFINE gone == {x \in Sid : byID[x] = l}
  <2>1. leg[l].id \in Sid /\ l # None
    BY <1>3, NoneAssumption DEF ReaderExits, IInv, AttendedKnown, Attended
  <2>2. \A k \in LegId : k # l => leg'[k] = leg[k]
    BY <1>3 DEF ReaderExits, IInv, BindTyped, TypeOK
  <2>3. \A x \in Sid : byID'[x] = IF x \in gone THEN None ELSE byID[x]
    BY <1>3, <2>1 DEF ReaderExits, IInv, BindTyped, TypeOK, TablesAgree
  <2>4. Port' = [x \in Sid |-> IF x \in gone THEN None ELSE Port[x]]
    BY <2>2, <2>3 DEF Port, IInv, BindTyped, TypeOK
  <2>5. Registry!Lose(gone)
    BY <2>4 DEF Registry!Lose
  <2> QED
    BY <2>5 DEF Registry!Next
<1>4. ASSUME CloseEnds PROVE Registry!Next
  <2>1. Registry!Lose(Sid)
    BY <1>4 DEF CloseEnds, Port, Registry!Lose
  <2> QED
    BY <2>1 DEF Registry!Next
<1>5. ASSUME byID' = byID,
             \A l \in LegId : leg'[l].remote = leg[l].remote
      PROVE  Port' = Port
  BY <1>5 DEF Port, IInv, BindTyped, TypeOK
<1>6. ASSUME NEW l \in LegId, ReaderSteps(l) \/ AgeLeg(l), ~ReaderExits(l)
      PROVE  Port' = Port
  BY SMTT(30), <1>5, <1>6
  DEF ReaderSteps, ReadPacket, ReadFails, Deliver, DeliverDead, AgeLeg,
      IInv, BindTyped, TypeOK, Leg
<1>7. ASSUME NEW r \in Remote, Send(r) PROVE Port' = Port
  BY <1>5, <1>7 DEF Send, IInv, BindTyped, TypeOK, Leg
<1>8. ASSUME SpawnReader PROVE Port' = Port
  BY <1>5, <1>8 DEF SpawnReader, IInv, BindTyped, TypeOK, Leg
<1>9. ASSUME UNCHANGED <<byID, leg>> PROVE Port' = Port
  BY <1>9 DEF Port
<1> QED
  BY <1>1, <1>2, <1>3, <1>4, <1>6, <1>7, <1>8, <1>9
  DEF Next, ControlSteps, DeviceSteps, ReaderSteps, RegisterLeg, RegisterFails,
      ClearLegs, RemoveLeg, RemoveLegs, Receive, ReceiverExits, Sweep, ReaperExits,
      CloseBegins, Open, vars, tables, life

\* The bind keeps its promise to the relay: every step of the code is a dial,
\* a loss of ports, or nothing the relay could tell.
THEOREM ImplementsRegistry == Spec => RegistrySpec
<1>1. Init => Registry!Init
  BY DEF Init, Registry!Init, Port
<1> QED
  BY <1>1, RegistryStep, Invariance, PTL DEF Spec, RegistrySpec, Registry!Spec
==============================================================================
