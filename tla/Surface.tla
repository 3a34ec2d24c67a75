------------------------------- MODULE Surface -------------------------------
(***************************************************************************)
(* How surface legs follow the screen of a terminal session                *)
(* (pkg/term/term_surface_session.go, term_surface_leg.go).  The server     *)
(* keeps the screen; one loop per session is woken by changes and sends     *)
(* each leg the difference to what it sent last, or a snapshot.  What is    *)
(* dirty is known once for all legs and forgotten as soon as frames for     *)
(* it have been made, before they are queued; a leg whose frame cannot be   *)
(* queued needs a snapshot.                                                *)
(*                                                                         *)
(* A screen is a version number, with the alternate screen on or off.  A    *)
(* difference says from which version on its dirty rows are; applied to an  *)
(* older view it leaves a mixture.  A cut of the scrollback forces a       *)
(* snapshot as a switch of the screen does, and is left out.               *)
(***************************************************************************)
EXTENDS Naturals, Sequences, FiniteSets

CONSTANTS
    SurfaceLeg,    \* legs that follow the screen
    QueueLimit,    \* frames a leg's queue takes (perLegQueueBytes)
    MaxVersion,    \* bound: changes of the screen
    MaxMishaps     \* bound: frames that are too large or cannot be encoded, and
                   \* snapshots the clients ask for

ASSUME SurfaceAssumption ==
    QueueLimit \in Nat \ {0} /\ {MaxVersion, MaxMishaps} \subseteq Nat

VARIABLES
    screen,    \* version, alt, clean: the version up to which nothing is dirty,
               \* wake: the token of surfaceWake
    loop,      \* the surface loop: the frames it has made and not yet queued, by leg
    follower,  \* each leg: need, base, rev, pressure, queue, sending
    shown,    \* each client: the version, alt and revision it shows, whether it is right
    mishaps    \* so far

surfaceVars == <<screen, loop, follower, shown, mishaps>>

NoBase == [version |-> 0, alt |-> FALSE, is |-> FALSE]
Base == [version |-> screen.version, alt |-> screen.alt, is |-> TRUE]

SurfaceInit ==
    /\ screen = [version |-> 0, clean |-> 0, alt |-> FALSE, wake |-> TRUE]
    /\ loop = <<>>
    /\ follower = [l \in SurfaceLeg |-> [need |-> TRUE, base |-> NoBase, rev |-> 0,
                                         pressure |-> FALSE, queue |-> <<>>, sending |-> <<>>]]
    /\ shown = [l \in SurfaceLeg |-> [version |-> 0, alt |-> FALSE, rev |-> 0, right |-> TRUE]]
    /\ mishaps = 0

----------------------------------------------------------------------------
(* The screen changes (pump, applySizeLocked), always with a wake after it. *)

\* Output: rows become dirty, the alternate screen may be switched.
Output(alt) ==
    /\ screen.version < MaxVersion
    /\ screen' = [screen EXCEPT !.version = @ + 1, !.alt = alt, !.wake = TRUE]
    /\ UNCHANGED <<loop, follower, shown, mishaps>>

\* A new size marks every leg.
Resized ==
    /\ screen.version < MaxVersion
    /\ screen' = [screen EXCEPT !.version = @ + 1, !.wake = TRUE]
    /\ follower' = [l \in SurfaceLeg |-> [follower[l] EXCEPT !.need = TRUE]]
    /\ UNCHANGED <<loop, shown, mishaps>>

\* handleFetchSnapshot
Fetch(l) ==
    /\ mishaps < MaxMishaps /\ mishaps' = mishaps + 1
    /\ follower' = [follower EXCEPT ![l].need = TRUE]
    /\ screen' = [screen EXCEPT !.wake = TRUE]
    /\ UNCHANGED <<loop, shown>>

----------------------------------------------------------------------------
(* One beat of the surface loop (flushSurface).                            *)

\* A leg gets a snapshot if it needs one, is under pressure, has had none,
\* or shows the other screen.
NeedsSnapshot(f) ==
    f.need \/ f.pressure \/ ~f.base.is \/ f.base.alt # screen.alt

NothingDirty == screen.clean = screen.version

MakeFrame(kind, rev) ==
    [kind |-> kind, rev |-> rev, from |-> screen.clean, at |-> Base]

\* Under the lock: frames for every leg that is not up to date. Dirt is
\* forgotten if there is a frame at all.
Collects ==
    LET forced == {l \in SurfaceLeg : NeedsSnapshot(follower[l])}
        served == forced \cup (IF NothingDirty THEN {} ELSE SurfaceLeg) IN
    /\ screen.wake /\ loop = <<>>
    /\ follower' = [l \in SurfaceLeg |->
          IF l \in forced THEN [follower[l] EXCEPT !.need = FALSE, !.rev = @ + 1] ELSE follower[l]]
    /\ loop' = IF served = {} THEN <<>>
               ELSE [l \in served |-> MakeFrame(IF l \in forced THEN "snapshot" ELSE "diff", follower'[l].rev)]
    /\ screen' = [screen EXCEPT !.wake = FALSE, !.clean = IF served = {} THEN @ ELSE screen.version]
    /\ UNCHANGED <<shown, mishaps>>

Queued(l) == loop' = [k \in DOMAIN loop \ {l} |-> loop[k]]

\* Mutant: the limit is tested after the frame is in.
QueuesAnyway(l) ==
    /\ l \in DOMAIN loop /\ Len(follower[l].queue) <= QueueLimit
    /\ follower' = [follower EXCEPT ![l].queue = Append(@, loop[l]), ![l].base = loop[l].at]
    /\ Queued(l)
    /\ UNCHANGED <<screen, shown, mishaps>>

\* Outside the lock: the frame goes into the leg's queue, and is the new base, ...
Queues(l) ==
    /\ l \in DOMAIN loop /\ Len(follower[l].queue) < QueueLimit
    /\ follower' = [follower EXCEPT ![l].queue = Append(@, loop[l]), ![l].base = loop[l].at]
    /\ Queued(l)
    /\ UNCHANGED <<screen, shown, mishaps>>

\* Mutant: a frame without room is dropped, and the leg goes on.
OverflowsSilently(l) ==
    /\ l \in DOMAIN loop /\ Len(follower[l].queue) >= QueueLimit
    /\ Queued(l)
    /\ UNCHANGED <<screen, follower, shown, mishaps>>

\* ... or there is no room, or it is too large: then the leg needs a snapshot.
Overflows(l) ==
    /\ l \in DOMAIN loop /\ Len(follower[l].queue) >= QueueLimit
    /\ follower' = [follower EXCEPT ![l].need = TRUE]
    /\ Queued(l)
    /\ UNCHANGED <<screen, shown, mishaps>>

\* Mutant: the same for a frame that is too large.
FrameRefusedSilently(l) ==
    /\ l \in DOMAIN loop /\ mishaps < MaxMishaps
    /\ mishaps' = mishaps + 1
    /\ Queued(l)
    /\ UNCHANGED <<screen, follower, shown>>

FrameRefused(l) ==
    /\ l \in DOMAIN loop /\ mishaps < MaxMishaps
    /\ mishaps' = mishaps + 1
    /\ follower' = [follower EXCEPT ![l].need = TRUE]
    /\ Queued(l)
    /\ UNCHANGED <<screen, shown>>

----------------------------------------------------------------------------
(* The leg's writer (runSurfaceWriter) and the client.                    *)

WriterTakes(l) ==
    /\ follower[l].sending = <<>> /\ follower[l].queue # <<>>
    /\ follower' = [follower EXCEPT ![l].sending = follower[l].queue, ![l].queue = <<>>]
    /\ UNCHANGED <<screen, loop, shown, mishaps>>

\* What the client shows after a frame: a difference fits if it was made for
\* the snapshot the client has, and its dirty rows reach back to the view.
Shows(c, f) ==
    [version |-> f.at.version, alt |-> f.at.alt, rev |-> f.rev,
     right |-> \/ f.kind = "snapshot"
               \/ c.right /\ f.rev = c.rev /\ f.from <= c.version /\ f.at.alt = c.alt]

\* One write; a slow one puts the leg under pressure (noteWriteCost).
Writes(l, slow) ==
    /\ follower[l].sending # <<>>
    /\ shown' = [shown EXCEPT ![l] = Shows(@, Head(follower[l].sending))]
    /\ follower' = [follower EXCEPT ![l].sending = Tail(@), ![l].pressure = slow]
    /\ UNCHANGED <<screen, loop, mishaps>>

QueueSteps(l) == Queues(l) \/ Overflows(l) \/ FrameRefused(l)

SurfaceNext ==
    \/ \E alt \in BOOLEAN : Output(alt)
    \/ Resized
    \/ Collects
    \/ \E l \in SurfaceLeg :
          Fetch(l) \/ QueueSteps(l) \/ WriterTakes(l) \/ (\E slow \in BOOLEAN : Writes(l, slow))

SurfaceSpec == SurfaceInit /\ [][SurfaceNext]_surfaceVars

\* The loop and the writers run; a write that does not end breaks its leg.
SurfaceFairness ==
    /\ WF_surfaceVars(Collects)
    /\ \A l \in SurfaceLeg :
          /\ WF_surfaceVars(QueueSteps(l))
          /\ WF_surfaceVars(WriterTakes(l) \/ \E slow \in BOOLEAN : Writes(l, slow))

----------------------------------------------------------------------------

FramesOf(l) == {follower[l].queue[i] : i \in DOMAIN follower[l].queue}
    \cup {follower[l].sending[i] : i \in DOMAIN follower[l].sending}

\* Types and the limit of the queue; no frame is ahead of the screen.
SurfaceTypeOK ==
    /\ screen.clean <= screen.version /\ DOMAIN loop \subseteq SurfaceLeg
    /\ \A l \in SurfaceLeg :
          /\ Len(follower[l].queue) <= QueueLimit
          /\ \A f \in FramesOf(l) : f.from <= f.at.version /\ f.at.version <= screen.version
                                  /\ f.rev <= follower[l].rev

\* A client never shows a mixture of two screens: whatever was dropped, every
\* difference it gets fits the view it has.
NoMixture == \A l \in SurfaceLeg : shown[l].right

\* A client shows the screen in the end, unless its leg is marked as in need
\* of a snapshot: what it missed is not forgotten.
ViewsCatchUp ==
    \A l \in SurfaceLeg :
        []<>(follower[l].need \/ (shown[l].version = screen.version /\ shown[l].right))

\* What the code does not keep: a client shows the screen in the end, although
\* the program writes no more.
NoneStaysBehind ==
    \A l \in SurfaceLeg : []<>(shown[l].version = screen.version /\ shown[l].right)
=============================================================================
