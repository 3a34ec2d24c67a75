----------------------------- MODULE MCServices -----------------------------
(* Model-checking instance of the terminal service, the control plane and the phone:  *)
(* one leg's writer, the screen a leg follows, one stream, the Go client, the phone's   *)
(* run. They share no state here, and part says which one moves: the others stay in their initial   *)
(* state, in which nothing has been asked of them.                            *)
EXTENDS TermLeg, Surface, ControlStream, ControlClient, TunMode

VARIABLE part
allVars == <<termLegVars, surfaceVars, streamVars, clientVars, tunVars, part>>

MCInit ==
  /\ TermLegInit /\ SurfaceInit /\ StreamInit /\ ClientInit /\ TunInit
  /\ part \in {"leg", "surface", "stream", "client", "tun"}
  /\ part # "leg" => output.written = 0

MCNext ==
  /\ UNCHANGED part
  /\ \/ /\ part = "leg" /\ TermLegNext
        /\ UNCHANGED <<tunVars, surfaceVars, streamVars, clientVars>>
     \/ /\ part = "surface" /\ SurfaceNext
        /\ UNCHANGED <<tunVars, termLegVars, streamVars, clientVars>>
     \/ /\ part = "stream" /\ StreamNext
        /\ UNCHANGED <<tunVars, termLegVars, surfaceVars, clientVars>>
     \/ /\ part = "client" /\ ClientNext
        /\ UNCHANGED <<tunVars, termLegVars, surfaceVars, streamVars>>
     \/ /\ part = "tun" /\ TunNext
        /\ UNCHANGED <<termLegVars, surfaceVars, streamVars, clientVars>>

\* TermLegFairness, SurfaceFairness, StreamFairness,
\* ClientFairness and TunFairness, each for the part that moves.
MCFairness ==
  /\ WF_termLegVars(part = "leg" /\ WriterStep)
  /\ WF_surfaceVars(part = "surface" /\ Collects)
  /\ \A l \in SurfaceLeg :
       /\ WF_surfaceVars(part = "surface" /\ QueueSteps(l))
       /\ WF_surfaceVars(part = "surface" /\ (WriterTakes(l) \/ \E slow \in BOOLEAN : Writes(l, slow)))
  /\ WF_streamVars(part = "stream" /\ ReaderReturns)
  /\ WF_streamVars(part = "stream" /\ DispatcherRuns)
  /\ WF_streamVars(part = "stream" /\ WriterRuns)
  /\ WF_streamVars(part = "stream" /\ ClientReads)
  /\ WF_streamVars(part = "stream" /\ Closing)
  /\ \A s \in Stream :
       WF_streamVars(/\ part = "stream"
                     /\ \/ Executor(s) \/ FinishPutsEnd(s) \/ PumpPuts(s) \/ UpWorker(s) \/ Up(s)
                        \/ PumpEnds(s) /\ Stopped(s))
  /\ WF_clientVars(part = "client" /\ Reader)
  /\ WF_clientVars(part = "client" /\ Command)
  /\ WF_clientVars(part = "client" /\ ReadsOn)
  /\ \A g \in Run : WF_tunVars(part = "tun" /\ RunSteps(g))
  /\ WF_tunVars(part = "tun" /\ BeginSteps)
  /\ WF_tunVars(part = "tun" /\ SetSteps)
  /\ WF_tunVars(part = "tun" /\ (StopInterrupts \/ StopReturns \/ StopForces))

MCSpec == MCInit /\ [][MCNext]_allVars /\ MCFairness

\* What a stream carries arrives in order, without a gap, and before its end: at the
\* socket, at the backend and at the command that reads.
StreamsInOrder == DataThenEnd /\ UpstreamWithoutGaps /\ ReadsAllBeforeEnd

\* Nothing waits for ever: legs that end are closed, screens catch up, requests are
\* answered, streams, reads and closes end, and so do generations of the tunnel.
ServicesFinish ==
  /\ EndedLegCloses /\ ViewsCatchUp
  /\ RequestsAreAnswered /\ EndedStreamsGo
  /\ CloseGetsOut /\ ReadComesToEnd
  /\ ReadyIsNotForever /\ StoppedRunEnds
=============================================================================
