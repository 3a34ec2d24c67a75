---------------------------- MODULE LegRegistry ----------------------------
(***************************************************************************)
(* What the backend's leg table promises the relay: at any time every      *)
(* session is dialled at no more than one data port and every data port    *)
(* carries no more than one session.  A session gets a port only by being  *)
(* dialled, which takes the port away from whoever had it, and any number  *)
(* of sessions may lose theirs (RELEASE, reconnect, idle, a dead socket).  *)
(***************************************************************************)
EXTENDS FiniteSets

CONSTANTS Sid, Remote, None

VARIABLE port       \* session -> the data port it is dialled at, or None

Init == port = [s \in Sid |-> None]

\* RegisterLeg: the same session or the same port again means "replace".
Dial(s, r) ==
  port' = [x \in Sid |-> IF x = s THEN r ELSE IF port[x] = r THEN None ELSE port[x]]

Lose(S) == port' = [x \in Sid |-> IF x \in S THEN None ELSE port[x]]

Next ==
  \/ \E s \in Sid, r \in Remote : Dial(s, r)
  \/ \E S \in SUBSET Sid : Lose(S)

Spec == Init /\ [][Next]_port

\* No data port carries two sessions.
Injective == \A x, y \in Sid : port[x] = port[y] /\ port[x] # None => x = y
=============================================================================
