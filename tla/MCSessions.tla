----------------------------- MODULE MCSessions -----------------------------
(* Model-checking instance of what goroutines and timers start, replace and stop: *)
(* a host's session in the client and a round of its recovery ladder; the device  *)
(* table of the backend; the state directory and the identity files. They share   *)
(* no state here, and part says which one moves: the others stay in an initial    *)
(* state in which nothing has been asked of them yet.                             *)
EXTENDS HostSession, DeviceTable, NodeState, Ladder, Identity, TLC

CONSTANTS d1, d2, d3, p1, p2, p3, p4, a1, a2, a3, a4, a5, a6

VARIABLE part
allVars ==
  <<hostSessionVars, deviceTableVars, nodeVars, ladderVars, identityVars, part>>

\* d1 may change its key. The address p4 derives is the tunnel address of p3, and
\* its tunnel address the address of p2: both kinds of conflict.
MCFirst == d1 :> p1 @@ d2 :> p2 @@ d3 :> p3
MCKeys == d1 :> {p1, p4} @@ d2 :> {p2} @@ d3 :> {p3}
MCDerived == [x \in Secret \X Pub |->
  CASE x[2] = p1 -> [ip |-> a1, tunIP |-> a2]
    [] x[2] = p2 -> [ip |-> a3, tunIP |-> a4]
    [] x[2] = p3 -> [ip |-> a6, tunIP |-> a5]
    [] x[2] = p4 -> [ip |-> a5, tunIP |-> a3]]

MCInit ==
  /\ HostSessionInit /\ DeviceInit /\ NodeInit /\ LadderInit /\ IdentityInit
  /\ part \in {"session", "devices", "node", "ladder", "identity"}
  /\ part # "node" => place = Nothing

MCNext ==
  /\ UNCHANGED part
  /\ \/ /\ part = "session" /\ HostSessionNext
        /\ UNCHANGED <<deviceTableVars, nodeVars, ladderVars, identityVars>>
     \/ /\ part = "devices" /\ DeviceNext
        /\ UNCHANGED <<hostSessionVars, nodeVars, ladderVars, identityVars>>
     \/ /\ part = "node" /\ NodeNext
        /\ UNCHANGED <<hostSessionVars, deviceTableVars, ladderVars, identityVars>>
     \/ /\ part = "ladder" /\ LadderNext
        /\ UNCHANGED <<hostSessionVars, deviceTableVars, nodeVars, identityVars>>
     \/ /\ part = "identity" /\ IdentityNext
        /\ UNCHANGED <<hostSessionVars, deviceTableVars, nodeVars, ladderVars>>

\* HostSessionFairness and DeviceFairness, each for the part that moves.
MCFairness ==
  /\ WF_hostSessionVars(part = "session" /\ \E i \in Inst : Run(i))
  /\ SF_hostSessionVars(part = "session" /\ \E i \in Inst : PatrolStopped(i))
  /\ \A g \in Goroutine : WF_hostSessionVars(part = "session" /\ (Recovery(g) \/ Finish(g)))
  /\ WF_deviceTableVars(part = "devices" /\ QueueSteps)
  /\ WF_deviceTableVars(part = "devices" /\ Consume)
  /\ WF_deviceTableVars(part = "devices" /\ DeviceClosed)

MCSpec == MCInit /\ [][MCNext]_allVars /\ MCFairness

\* Every variable of the five parts keeps its type.
SessionsTypeOK ==
  /\ HostSessionTypeOK /\ DeviceTypeOK
  /\ NodeTypeOK /\ LadderTypeOK /\ IdentityTypeOK

\* What is on disk survives a kill at any step: an import is whole, undone or to be got
\* back by hand, and processes that start together run with one identity.
FilesStayWhole == AllOrNothing /\ OldKeptUntilReplaced /\ OneIdentity

\* Nothing is given up too early: an active device keeps its place, an adopted path is
\* the last thing a recovery takes, the tag outlives a reset.
KeptTillLast == ActiveStays /\ PathIsKeptTillLast /\ TagOutlivesReset

\* A stop returns: of a host's session in any round, of the device in any wait.
StopsReturn == StoppedInstanceEnds /\ CloseReturns
=============================================================================
