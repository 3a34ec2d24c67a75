------------------------------ MODULE MCTables ------------------------------
(* Model-checking instance of tables and queues that concurrent requests change:  *)
(* the host table of the client, the legs of a terminal session, the writer of one  *)
(* leg, the streams of the control plane. They share no state here, and part says    *)
(* which one moves: the others stay in an initial state in which nothing has been  *)
(* asked of them yet.                                                       *)
EXTENDS HostTable, TermLegs, TermLeg, ControlStream, TLC

CONSTANTS l1, l2, l3, x

VARIABLE part
allVars == <<hostTableVars, termLegsVars, termLegVars, streamVars, part>>

Symmetry == Permutations(Host) \cup Permutations(Requester)

\* l2 does not name its client instance; l3 comes from the one of l1 or from none, so
\* that a leg is replaced by its own client, or has to make room for another.
MCLegsInit ==
  /\ TermLegsInit
  /\ line[l1].client = x /\ line[l2].client = Anonymous

MCInit ==
  /\ HostTableInit /\ MCLegsInit /\ TermLegInit /\ StreamInit
  /\ part \in {"hosts", "legs", "leg", "stream"}
  /\ part # "hosts" => disk = NoEntries
  /\ part # "legs" => line[l3].client = Anonymous
  /\ part # "leg" => output.written = 0

MCNext ==
  /\ UNCHANGED part
  /\ \/ /\ part = "hosts" /\ HostTableNext
        /\ UNCHANGED <<termLegsVars, termLegVars, streamVars>>
     \/ /\ part = "legs" /\ TermLegsNext
        /\ UNCHANGED <<hostTableVars, termLegVars, streamVars>>
     \/ /\ part = "leg" /\ TermLegNext
        /\ UNCHANGED <<hostTableVars, termLegsVars, streamVars>>
     \/ /\ part = "stream" /\ StreamNext
        /\ UNCHANGED <<hostTableVars, termLegsVars, termLegVars>>

MCSpec == MCInit /\ [][MCNext]_allVars

\* A leg without what nothing reads any more: its size when it cannot act, its client when it
\* has left, and what its writer was told once that is gone.
ViewedLine(l) ==
  [client |-> IF l \in legs \/ line[l].conn = "new" THEN line[l].client ELSE Anonymous,
   conn |-> line[l].conn,
   size |-> IF ~Done /\ (l \in legs \/ line[l].conn = "open") THEN line[l].size ELSE 0,
   told |-> IF line[l].writer = "gone" THEN "no" ELSE line[l].told,
   stalled |-> line[l].writer # "gone" /\ line[l].stalled,
   writer |-> line[l].writer]

\* Only the part that moves tells states apart; the size of a session that is over, or
\* whose active leg has left, is not read either.
View ==
  CASE part = "hosts" -> <<part, hostTableVars>>
    [] part = "legs" ->
         <<part, acted, [l \in Leg |-> ViewedLine(l)],
           [session EXCEPT !.size = IF ~Done /\ session.active \in legs THEN @ ELSE 0]>>
    [] part = "leg" -> <<part, termLegVars>>
    [] part = "stream" -> <<part, streamVars>>

\* Every variable of the four parts keeps its type.
TablesTypeOK == HostTableTypeOK /\ TermLegsTypeOK /\ TermLegTypeOK /\ StreamTypeOK
=============================================================================
