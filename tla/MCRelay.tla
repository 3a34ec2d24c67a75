------------------------------ MODULE MCRelay ------------------------------
(* Model-checking instances of Relay: object pools are interchangeable.    *)
EXTENDS Relay, TLC

Symmetry == Permutations(Conn) \cup Permutations(LegId) \cup Permutations(AssocId)
              \cup Permutations(Client) \cup Permutations(Src)
              \cup Permutations(Label) \cup Permutations(Addr)

\* What a leg object held is not seen again once nothing refers to it: FindLeg
\* and Hello overwrite it.
View ==
  <<legs, [l \in LegId |-> IF l \in LegRefs THEN leg[l] ELSE NewLeg(None)],
    assocs, assoc, nextSid, slots, conn, reader, reaper, network>>
=============================================================================
