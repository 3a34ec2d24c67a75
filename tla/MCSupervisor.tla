---------------------------- MODULE MCSupervisor ----------------------------
(* Model-checking instance of what watches and ends other things: the supervisor  *)
(* of a role, the terminal service with its shells; the patrol of a tunnel, the    *)
(* device's bind and what it learns of the exit's addresses. They share no state,   *)
(* and part says which one moves: the others stay in an initial state in which       *)
(* nothing has been asked of them.                                             *)
EXTENDS Supervisor, TermLife, Patrol, Learning, ClientBind

VARIABLE part
allVars == <<vars, termLifeVars, patrolVars, learningVars, clientBindVars, part>>

MCInit ==
  /\ Init /\ TermLifeInit 
  /\ PatrolInit /\ LearningInit /\ ClientBindInit
  /\ part \in {"role", "shells", "patrol", "learning", "device"}
  /\ part # "role" => ~enabled

MCNext ==
  /\ UNCHANGED part
  /\ \/ /\ part = "role" /\ Next
        /\ UNCHANGED <<termLifeVars, patrolVars, learningVars, clientBindVars>>
     \/ /\ part = "shells" /\ TermLifeNext
        /\ UNCHANGED <<vars, patrolVars, learningVars, clientBindVars>>
     \/ /\ part = "patrol" /\ PatrolNext
        /\ UNCHANGED <<vars, termLifeVars, learningVars, clientBindVars>>
     \/ /\ part = "learning" /\ LearningNext
        /\ UNCHANGED <<vars, termLifeVars, patrolVars, clientBindVars>>
     \/ /\ part = "device" /\ ClientBindNext
        /\ UNCHANGED <<vars, termLifeVars, patrolVars, learningVars>>

\* The fairness of FairSpec, of TermLifeFairness, PatrolFairness, LearningFairness and
\* ClientBindFairness, each for the part that moves.
MCFairness ==
  /\ \A m \in Round : WF_vars(part = "role" /\ LoopSteps(m))
  /\ \A c \in Caller : WF_vars(part = "role" /\ CallSteps(c))
  /\ \A i \in Session : /\ WF_termLifeVars(part = "shells" /\ PumpSteps(i))
                        /\ WF_termLifeVars(part = "shells" /\ CloserSteps(i))
                        /\ WF_termLifeVars(part = "shells" /\ GraceEnds(i))
  /\ WF_termLifeVars(part = "shells" /\ CloseEnds)
  /\ WF_patrolVars(part = "patrol" /\ PatrolTick)
  /\ WF_patrolVars(part = "patrol" /\ LadderReturns)
  /\ \A i \in Instance :
       /\ WF_learningVars(part = "learning" /\ ScheduleSave(i))
       /\ WF_learningVars(part = "learning" /\ (TakesSignal(i) \/ WritesCache(i)))
       /\ WF_learningVars(part = "learning" /\ WindowEnds(i))
  /\ WF_clientBindVars(part = "device" /\ (SocketReadFails \/ LooksAgain \/ WakesUp))
  /\ WF_clientBindVars(part = "device" /\ (RebindSwaps \/ RebindEnds))
  /\ WF_clientBindVars(part = "device" /\ WindowPasses)
  /\ \A n \in 1..MaxRaces : WF_clientBindVars(part = "device" /\ SleeperWakes(n))

MCSpec == MCInit /\ [][MCNext]_allVars /\ MCFairness

\* Every variable of the five parts keeps its type.
WatchTypeOK ==
  TypeOK /\ TermLifeTypeOK /\ PatrolTypeOK /\ LearningTypeOK /\ ClientBindTypeOK

\* What the device knows of its paths is deserved and not lost: the patrol's verdict,
\* and the addresses learnt of the exit.
PathsAreKnown == UnhealthyIsDeserved /\ NoneForgotten

\* Whatever is told to end ends: the round of a role, the call that asked for it, a
\* killed terminal session, the goroutine of a closed bind.
EndsAreReached == StopEndsRound /\ CallsReturn /\ KillEnds /\ ReceiverEnds

\* A device does not stay on a dead or a worse path, nor keep what it learns to itself:
\* the patrol acts, a silent race goes on, the cache is written.
PathsRecover ==
  /\ DeadPathIsWorkedOn /\ DeadPathIsReported /\ RelayIsNotForever
  /\ SilentRaceUnlocks
  /\ LearntIsWritten
=============================================================================
