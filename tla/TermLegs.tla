------------------------------ MODULE TermLegs ------------------------------
(***************************************************************************)
(* The legs of one terminal session (pkg/term/term_leg.go, service.go): the *)
(* list of attached clients, who is active, the size that follows the      *)
(* active one, who answers the program's queries, and how the ring of      *)
(* output outlives the session until the last writer has drained it.       *)
(*                                                                         *)
(* A leg is a connection with a read loop and a writer.  Whoever takes it   *)
(* off the list only tells its writer how to end; the connection stays open *)
(* until the writer closes it, and the read loop goes on till then.         *)
(* What the writer sends is in TermLeg.                                    *)
(***************************************************************************)
EXTENDS Naturals, Sequences, SequencesExt, FiniteSets, Ascending

CONSTANTS
    Leg,          \* connections that ask for the session
    RawTerm,      \* those that are real terminals (capsRawTerminal)
    Client,       \* client instances (clientID)
    Anonymous,    \* the instance of a leg that names none
    Size,         \* window sizes
    MaxClients    \* legs the session takes

Nobody == "nobody"

ASSUME TermLegsAssumption ==
    /\ RawTerm \subseteq Leg /\ IsFiniteSet(Leg) /\ Nobody \notin Leg
    /\ MaxClients \in Nat \ {0} /\ Anonymous \notin Client

VARIABLES
    acted,    \* the session's list, the leg that acted last first
    line,     \* each connection: client, conn, size, told (how its writer is to end), writer, stalled
    session   \* active, size, rawTerms, answers (the session answers queries itself),
                \* writers, ring (still kept), ending: "no" | "waiting" | "over"

termLegsVars == <<acted, line, session>>

legs == Range(acted)
Done == session.ending # "no"

TermLegsInit ==
    /\ acted = <<>>
    /\ \E who \in [Leg -> Client \cup {Anonymous}] :
         line = [l \in Leg |-> [client |-> who[l], conn |-> "new", size |-> 0, told |-> "no",
                               writer |-> "none", stalled |-> FALSE]]
    /\ session = [active |-> Nobody, size |-> 0, rawTerms |-> 0, answers |-> TRUE,
                   writers |-> 0, ring |-> TRUE, ending |-> "no"]

----------------------------------------------------------------------------
(* Activity and the list, under the session's mutex.                       *)

Only(L) ==
    LET kept == {i \in DOMAIN acted : acted[i] \in L}
    IN  [k \in 1 .. Cardinality(kept) |-> acted[Ascending(kept)[k]]]
Touched(l) == IF l \in legs THEN <<l>> \o Only(legs \ {l}) ELSE acted

\* noteActivityLocked: whoever acts is active, and the size is its size.
Activates(s, l, z) ==
    [s EXCEPT !.active = l, !.size = IF Done THEN @ ELSE z]

\* What a leg is told is not taken back; quit counts more than ENDED (take).
Told(l, how) == [line[l] EXCEPT !.told = IF @ = "quit" THEN @ ELSE how, !.stalled = FALSE]

\* Mutant: the new active leg does not get its size.
ElectsSilently(s, rest) ==
    CASE rest = {} -> [s EXCEPT !.active = Nobody]
      [] s.active \in rest -> s
      [] OTHER -> [s EXCEPT !.active = Head(Only(rest))]

\* afterLegsChangedLocked: who is active when only the legs in rest remain.
Elects(s, rest) ==
    CASE rest = {} -> [s EXCEPT !.active = Nobody]
      [] s.active \in rest -> s
      [] OTHER -> LET l == Head(Only(rest)) IN Activates(s, l, line[l].size)

CountsTerms(s, gone, come) ==
    LET n == s.rawTerms + Cardinality(come \cap RawTerm) - Cardinality(gone \cap RawTerm) IN
    [s EXCEPT !.rawTerms = n, !.answers = n = 0]

\* Mutant: a leg that has left already is counted out again.
EndLegTwice(l, changed) ==
    /\ acted' = Only(legs \ {l})
    /\ session' = Elects(CountsTerms(session, {l}, {}), legs \ {l})
    /\ line' = [changed EXCEPT ![l].told = "quit", ![l].stalled = FALSE]

\* endLegLocked: only a leg that is on the list is taken off.
EndLeg(l, changed) ==
    IF l \in legs
    THEN /\ acted' = Only(legs \ {l})
         /\ session' = Elects(CountsTerms(session, {l}, {}), legs \ {l})
         /\ line' = [changed EXCEPT ![l].told = "quit", ![l].stalled = FALSE]
    ELSE UNCHANGED <<acted, session>> /\ line' = changed

\* Mutant: room is made one leg too late.
VictimsLate(L) ==
    IF Cardinality(L) <= MaxClients THEN {{}} ELSE {{Last(Only(L))}}

\* evictForSlotLocked: a stalled leg, or else the one that was idle longest.
Victims(L) ==
    IF Cardinality(L) < MaxClients THEN {{}}
    ELSE LET stalled == {l \in L : line[l].stalled} IN
         IF stalled # {} THEN {{l} : l \in stalled} ELSE {{Last(Only(L))}}

SameClient(c) == {l \in legs : line[c].client # Anonymous /\ line[l].client = line[c].client}

\* registerLegLocked: the same client's old leg goes, with takeover every leg.
Attach(c, z, takeover) ==
    LET replaced == IF takeover THEN legs ELSE SameClient(c) IN
    /\ line[c].conn = "new" /\ ~Done
    /\ \E evicted \in Victims(legs \ replaced) :
          /\ acted' = <<c>> \o Only(legs \ (replaced \cup evicted))
          /\ line' = [l \in Leg |->
                       CASE l = c -> [line[c] EXCEPT !.conn = "open", !.size = z, !.writer = "due"]
                         [] l \in replaced -> Told(l, "ended")
                         [] l \in evicted -> Told(l, "quit")
                         [] OTHER -> line[l]]
          /\ session' = Activates(CountsTerms(session, replaced \cup evicted, {c}), c, z)

AttachRefused(c) ==
    /\ line[c].conn = "new" /\ Done
    /\ line' = [line EXCEPT ![c].conn = "gone"]
    /\ UNCHANGED <<acted, session>>

----------------------------------------------------------------------------
(* The read loop of a connection (stream).                                 *)

Input(l) ==
    /\ line[l].conn = "open"
    /\ acted' = Touched(l)
    /\ session' = Activates(session, l, line[l].size)
    /\ UNCHANGED line

Resize(l, z) ==
    /\ line[l].conn = "open"
    /\ line' = [line EXCEPT ![l].size = z]
    /\ acted' = Touched(l)
    /\ session' = Activates(session, l, z)

ClientLeaves(l) ==
    /\ line[l].conn = "open"
    /\ line' = [line EXCEPT ![l].conn = "lost"]
    /\ UNCHANGED <<acted, session>>

ReadLoopEnds(l) ==
    /\ line[l].conn = "lost"
    /\ EndLeg(l, [line EXCEPT ![l].conn = "gone", ![l].size = 0])

----------------------------------------------------------------------------
(* The writer of a connection.                                             *)

WriterStarts(l) ==
    /\ line[l].writer = "due"
    /\ line' = [line EXCEPT ![l].writer = "running"]
    /\ session' = [session EXCEPT !.writers = @ + 1]
    /\ UNCHANGED acted

Stalls(l) ==
    /\ line[l].writer = "running" /\ line[l].told = "no"
    /\ line' = [line EXCEPT ![l].stalled = ~@]
    /\ UNCHANGED <<acted, session>>

\* legWriteFailed and breakLeg: the connection is closed first, ...
WriterBreaks(l) ==
    /\ line[l].writer = "running" /\ line[l].told # "quit"
    /\ line' = [line EXCEPT ![l].told = "quit", ![l].stalled = FALSE,
                            ![l].conn = IF @ = "open" THEN "lost" ELSE @]
    /\ UNCHANGED <<acted, session>>

\* ... then the leg is taken off the list.
WriterDrops(l) ==
    /\ line[l].writer = "running" /\ line[l].told = "quit" /\ l \in legs
    /\ EndLeg(l, line)

\* Mutant: only finish frees the ring.
FreesRingNever(s) == s

FreesRing(s) == [s EXCEPT !.ring = IF Done /\ s.writers = 0 THEN FALSE ELSE @]

\* The writer has sent what it was told to: it closes and counts itself out.
LegWriterEnds(l) ==
    /\ line[l].writer = "running" /\ line[l].told # "no" /\ l \notin legs
    /\ line' = [line EXCEPT ![l].writer = "gone",
                            ![l].conn = IF @ = "open" THEN "lost" ELSE @]
    /\ session' = FreesRing([session EXCEPT !.writers = @ - 1])
    /\ UNCHANGED acted

----------------------------------------------------------------------------
(* The end of the session (finish).                                        *)

SessionEnds ==
    /\ ~Done
    /\ acted' = <<>>
    /\ line' = [l \in Leg |-> IF l \in legs THEN Told(l, "ended") ELSE line[l]]
    /\ session' = CountsTerms([session EXCEPT !.ending = "waiting", !.active = Nobody], legs, {})

\* The child is gone: the ring goes now unless a writer still runs.
ChildGone ==
    /\ session.ending = "waiting"
    /\ session' = [session EXCEPT !.ending = "over", !.ring = @ /\ session.writers # 0]
    /\ UNCHANGED <<acted, line>>

ReadLoop(l) == Input(l) \/ (\E z \in Size : Resize(l, z)) \/ ReadLoopEnds(l)
WriterSteps(l) == WriterStarts(l) \/ WriterBreaks(l) \/ WriterDrops(l) \/ LegWriterEnds(l)

TermLegsNext ==
    \/ \E l \in Leg : AttachRefused(l) \/ ReadLoop(l) \/ ClientLeaves(l) \/ WriterSteps(l) \/ Stalls(l)
    \/ \E l \in Leg, z \in Size, takeover \in BOOLEAN : Attach(l, z, takeover)
    \/ SessionEnds \/ ChildGone

TermLegsSpec == TermLegsInit /\ [][TermLegsNext]_termLegsVars

----------------------------------------------------------------------------

\* Types; the session never has more legs than it takes.
TermLegsTypeOK ==
    /\ legs \subseteq Leg /\ Len(acted) = Cardinality(legs) /\ Cardinality(legs) <= MaxClients
    /\ line \in [Leg -> [client : Client \cup {Anonymous},
                         conn : {"new", "open", "lost", "gone"}, size : Size \cup {0},
                         told : {"no", "ended", "quit"}, stalled : BOOLEAN,
                         writer : {"none", "due", "running", "gone"}]]
    /\ session \in [active : Leg \cup {Nobody}, size : Size \cup {0}, rawTerms : Nat, answers : BOOLEAN,
                    writers : 0 .. Cardinality(Leg), ring : BOOLEAN,
                    ending : {"no", "waiting", "over"}]

\* However legs end (replaced, evicted, left, broken, at the end of the
\* session, and twice at once), the session answers the program's queries
\* itself exactly when no real terminal is attached.
OneAnswers ==
    /\ session.rawTerms = Cardinality(legs \cap RawTerm)
    /\ session.answers = (legs \cap RawTerm = {})

\* A client instance has one leg, and the window is as large as the active
\* leg's; among the attached the active one is the one that acted last.
SizeFollowsActive ==
    /\ \A l, m \in legs : line[l].client = line[m].client /\ line[l].client # Anonymous => l = m
    /\ ~Done /\ session.active \in legs => session.size = line[session.active].size
    /\ legs # {} => session.active # Nobody
    /\ session.active \in legs => session.active = Head(acted)

\* When the session is over and its last writer gone, so is the ring.
RingIsFreed ==
    session.ending = "over" /\ (\A l \in Leg : line[l].writer \in {"none", "gone"}) => ~session.ring

\* What a session keeps about its legs follows from who is attached to it.
LegsAgree == OneAnswers /\ SizeFollowsActive /\ RingIsFreed

\* What the code does not keep: only an attached leg is active.
ActiveIsAttached == session.active \in legs \cup {Nobody}

\* What the code does not keep: a writer that has the session's last output
\* to send finds it in the ring.
WritersHaveRing == \A l \in Leg : line[l].writer \in {"due", "running"} => session.ring
=============================================================================
