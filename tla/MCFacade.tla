------------------------------ MODULE MCFacade ------------------------------
(* Model-checking instance of clientcore/facade: the event bus and its followers, *)
(* and the listeners of the hosts; and of the screen that the legs of a terminal   *)
(* session follow. They share no state here, and part says which one moves: the   *)
(* others stay in an initial state in which nothing has been asked of them yet.    *)
EXTENDS EventBus, Carriers, Surface, TLC

VARIABLE part
allVars == <<vars, carriersVars, surfaceVars, part>>

\* Only one part moves: the domains and the hosts can be the same model values.
Symmetry == Permutations(Domain)

MCInit ==
  /\ Init /\ CarriersInit /\ SurfaceInit
  /\ part \in {"bus", "listeners", "surface"}
  /\ part # "listeners" => member = {}

MCNext ==
  /\ UNCHANGED part
  /\ \/ part = "bus" /\ Next /\ UNCHANGED <<carriersVars, surfaceVars>>
     \/ part = "listeners" /\ CarriersNext /\ UNCHANGED <<vars, surfaceVars>>
     \/ part = "surface" /\ SurfaceNext /\ UNCHANGED <<vars, carriersVars>>

MCSpec == MCInit /\ [][MCNext]_allVars

\* Every variable of the three parts keeps its type.
FacadeTypeOK == TypeOK /\ CarriersTypeOK /\ SurfaceTypeOK
=============================================================================
