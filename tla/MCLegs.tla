------------------------------ MODULE MCLegs ------------------------------
(* Model-checking instance of how a leg is kept: the relay's tables and control   *)
(* connections, the backend's registration. They share no state here, and part     *)
(* says which one moves: the other stays in its initial state.                    *)
EXTENDS MCRelay, Registration

VARIABLE part

MCInit == Init /\ RegInit /\ part \in {"relay", "registration"}

MCNext ==
  /\ UNCHANGED part
  /\ \/ part = "relay" /\ Next /\ UNCHANGED regVars
     \/ part = "registration" /\ RegNext /\ UNCHANGED vars

\* Fairness and RegFairness, each for the part that moves.
MCFairness ==
  /\ \A c \in Conn : WF_vars(part = "relay" /\ Serve(c))
  /\ \A c \in Conn : WF_vars(part = "relay" /\ BackendReads(c))
  /\ WF_vars(part = "relay" /\ ReaderSteps)
  /\ WF_vars(part = "relay" /\ ReaperSteps)
  /\ \A a \in AssocId : /\ WF_vars(part = "relay" /\ FlushPending(a))
                        /\ WF_vars(part = "relay" /\ AgeDialWait(a))
                        /\ WF_vars(part = "relay" /\ AgeSilent(a))
  /\ WF_regVars(part = "registration" /\ Tick)
  /\ WF_regVars(part = "registration" /\ \E m \in net : m.addr # me /\ Lose(m))
  /\ \A turn \in Turns :
       SF_regVars(part = "registration" /\ \E m \in net : m.kind \in turn /\ m.addr = me /\ Handle(m, FALSE))

MCSpec == MCInit /\ [][MCNext]_<<vars, regVars, part>> /\ MCFairness

MCView == <<View, regVars, part>>

\* Where the registration moves, it settles (SettlesAlone): once the faults stop and no
\* control connection is left, the relay holds the backend's present address for good.
BackendSettles == <>[](part = "registration" /\ ~held.ctl) => <>[]Registered
=============================================================================
