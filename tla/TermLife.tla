------------------------------ MODULE TermLife ------------------------------
(***************************************************************************)
(* The terminal sessions of an exit node (pkg/term/service.go): they are    *)
(* created by name, end when their shell ends, when they are killed, or     *)
(* when the service closes.                                                *)
(*                                                                         *)
(* A session has a goroutine that reads its terminal (pump). Whoever ends   *)
(* the session (finish), the pump or the service's Close, marks it done,    *)
(* closes the terminal, waits for the shell, and only then takes the        *)
(* session off the table. The shell is waited for once (waitOnce): who      *)
(* comes second waits for who came first.                                  *)
(*                                                                         *)
(* A shell may ignore SIGHUP and the loss of its terminal, and it may close *)
(* the terminal and live on; SIGKILL ends it. Legs and output are in        *)
(* TermLegs and TermLeg.                                                   *)
(***************************************************************************)
EXTENDS Naturals, FiniteSets

CONSTANTS
    Name,          \* names of sessions
    MaxSessions,   \* sessions at a time
    MaxShells      \* bound: shells ever started

ASSUME TermLifeAssumption == MaxSessions \in Nat \ {0} /\ MaxShells \in Nat

Session == 1 .. MaxShells

VARIABLES
    table,     \* the session of each name, 0: none
    shell,     \* each session's shell: "none", "runs", "deaf" (has closed its terminal), "dead"
    ss,        \* each session: name, done, killed, grace (a kill waits to use SIGKILL),
               \* once (who waits for the shell), pump, closer (the goroutine of Close)
    service    \* "open", "closing", "closed"

termLifeVars == <<table, shell, ss, service>>

Lives(i) == shell[i] \in {"runs", "deaf"}
Listed == {n \in Name : table[n] # 0}

TermLifeInit ==
    /\ table = [n \in Name |-> 0]
    /\ shell = [i \in Session |-> "none"]
    /\ ss = [i \in Session |-> [name |-> "none", done |-> FALSE, killed |-> FALSE, grace |-> FALSE,
                                once |-> "free", pump |-> "none", closer |-> "none"]]
    /\ service = "open"

Unborn(i) == shell[i] = "none" /\ \A j \in Session : j < i => shell[j] # "none"

----------------------------------------------------------------------------
(* Requests, and the shell.                                                *)

\* Mutant: the limit is tested one session late.
CreateOneMore(n, i) ==
    /\ table[n] = 0 /\ Cardinality(Listed) <= MaxSessions /\ Unborn(i)
    /\ table' = [table EXCEPT ![n] = i]
    /\ shell' = [shell EXCEPT ![i] = "runs"]
    /\ ss' = [ss EXCEPT ![i].name = n, ![i].pump = "reads"]
    /\ UNCHANGED service

\* attachOrCreate and createOnly for a name that has no session; a name that
\* has one is attached to, which changes nothing here.
Create(n, i) ==
    /\ table[n] = 0 /\ Cardinality(Listed) < MaxSessions /\ Unborn(i)
    /\ table' = [table EXCEPT ![n] = i]
    /\ shell' = [shell EXCEPT ![i] = "runs"]
    /\ ss' = [ss EXCEPT ![i].name = n, ![i].pump = "reads"]
    /\ UNCHANGED service

\* kill: SIGHUP, which the shell obeys or not, and SIGKILL after a grace.
Kill(n, obeys) ==
    LET i == table[n] IN
    /\ i # 0 /\ ~ss[i].killed
    /\ IF ss[i].done
       THEN ss' = [ss EXCEPT ![i].killed = TRUE] /\ UNCHANGED shell
       ELSE /\ ss' = [ss EXCEPT ![i].killed = TRUE, ![i].grace = TRUE]
            /\ shell' = [shell EXCEPT ![i] = IF obeys THEN "dead" ELSE @]
    /\ UNCHANGED <<table, service>>

\* Mutant: SIGKILL is thought needless once the terminal is silent.
GraceEndsEarly(i) ==
    /\ ss[i].grace
    /\ ss' = [ss EXCEPT ![i].grace = FALSE]
    /\ shell' = [shell EXCEPT ![i] = IF ss[i].pump # "reads" THEN @ ELSE "dead"]
    /\ UNCHANGED <<table, service>>

GraceEnds(i) ==
    /\ ss[i].grace
    /\ ss' = [ss EXCEPT ![i].grace = FALSE]
    /\ shell' = [shell EXCEPT ![i] = IF ss[i].done THEN @ ELSE "dead"]
    /\ UNCHANGED <<table, service>>

ShellEnds(i) ==
    /\ Lives(i)
    /\ shell' = [shell EXCEPT ![i] = "dead"]
    /\ UNCHANGED <<table, ss, service>>

ShellTurnsDeaf(i) ==
    /\ shell[i] = "runs"
    /\ shell' = [shell EXCEPT ![i] = "deaf"]
    /\ UNCHANGED <<table, ss, service>>

----------------------------------------------------------------------------
(* waitOnce and finish, for the pump and for Close alike.                  *)

Stands(i, who, at) == ss[i][who] = at

\* finish: marks the session done and closes the terminal, once.
FinishBegins(i, who) ==
    /\ Stands(i, who, "finish")
    /\ ss' = [ss EXCEPT ![i].done = TRUE, ![i][who] = IF ss[i].done THEN "over" ELSE "once"]
    /\ \E obeys \in BOOLEAN :
          shell' = [shell EXCEPT ![i] = IF Lives(i) /\ ~ss[i].done /\ obeys THEN "dead" ELSE @]
    /\ UNCHANGED <<table, service>>

\* What follows the wait: the pump still has to end the session.
Waited(who) == IF who = "pump" THEN "past" ELSE "leaves"

\* Mutant: the session leaves the table before its shell is waited for.
OnceTakenUnlisted(i, who) ==
    /\ Stands(i, who, "once") /\ ss[i].once = "free"
    /\ ss' = [ss EXCEPT ![i].once = who, ![i][who] = "waits"]
    /\ table' = [table EXCEPT ![ss[i].name] = IF ss[i].done THEN 0 ELSE @]
    /\ UNCHANGED <<shell, service>>

\* waitOnce.Do: the first waits itself, the second for the first.
OnceTaken(i, who) ==
    /\ Stands(i, who, "once") /\ ss[i].once = "free"
    /\ ss' = [ss EXCEPT ![i].once = who, ![i][who] = "waits"]
    /\ UNCHANGED <<table, shell, service>>

ShellWaited(i, who) ==
    /\ Stands(i, who, "waits") /\ shell[i] = "dead"
    /\ ss' = [ss EXCEPT ![i].once = "past", ![i][who] = Waited(who)]
    /\ UNCHANGED <<table, shell, service>>

OncePassed(i, who) ==
    /\ Stands(i, who, "once") /\ ss[i].once = "past"
    /\ ss' = [ss EXCEPT ![i][who] = Waited(who)]
    /\ UNCHANGED <<table, shell, service>>

\* The wait of Close's finish is bounded: after two seconds it uses SIGKILL.
CloserKills(i) ==
    /\ Stands(i, "closer", "waits") /\ Lives(i)
    /\ shell' = [shell EXCEPT ![i] = "dead"]
    /\ UNCHANGED <<table, ss, service>>

FinishEnds(i, who) ==
    /\ Stands(i, who, "leaves")
    /\ table' = [table EXCEPT ![ss[i].name] = IF @ = i THEN 0 ELSE @]
    /\ ss' = [ss EXCEPT ![i][who] = "over"]
    /\ UNCHANGED <<shell, service>>

----------------------------------------------------------------------------
(* The pump: it reads until there is nothing to read, waits for the shell,  *)
(* and ends the session unless that has been done.                         *)

PumpStops(i) ==
    /\ Stands(i, "pump", "reads") /\ (shell[i] # "runs" \/ ss[i].done)
    /\ ss' = [ss EXCEPT ![i].pump = "once"]
    /\ UNCHANGED <<table, shell, service>>

\* The shell has been waited for: finish, which has nothing more to wait for,
\* or nothing to do when Close has begun it.
PumpFinishes(i) ==
    /\ Stands(i, "pump", "past")
    /\ ss' = [ss EXCEPT ![i].done = TRUE, ![i].pump = IF ss[i].done THEN "over" ELSE "leaves"]
    /\ UNCHANGED <<table, shell, service>>

----------------------------------------------------------------------------
(* Close: finish for every session of the table, each on its own goroutine. *)

CloseBegins ==
    /\ service = "open"
    /\ service' = "closing"
    /\ ss' = [i \in Session |-> IF \E n \in Name : table[n] = i
                                THEN [ss[i] EXCEPT !.closer = "finish"] ELSE ss[i]]
    /\ UNCHANGED <<table, shell>>

CloseEnds ==
    /\ service = "closing" /\ \A i \in Session : ss[i].closer \in {"none", "over"}
    /\ service' = "closed"
    /\ UNCHANGED <<table, shell, ss>>

CloserSteps(i) ==
    \/ FinishBegins(i, "closer") \/ OnceTaken(i, "closer") \/ ShellWaited(i, "closer")
    \/ OncePassed(i, "closer") \/ CloserKills(i) \/ FinishEnds(i, "closer")

PumpSteps(i) ==
    \/ PumpStops(i) \/ OnceTaken(i, "pump") \/ ShellWaited(i, "pump")
    \/ OncePassed(i, "pump") \/ PumpFinishes(i) \/ FinishEnds(i, "pump")

TermLifeNext ==
    \/ \E n \in Name, i \in Session : Create(n, i)
    \/ \E n \in Name, obeys \in BOOLEAN : Kill(n, obeys)
    \/ \E i \in Session :
          ShellEnds(i) \/ ShellTurnsDeaf(i) \/ GraceEnds(i) \/ PumpSteps(i) \/ CloserSteps(i)
    \/ CloseBegins \/ CloseEnds

TermLifeSpec == TermLifeInit /\ [][TermLifeNext]_termLifeVars

\* Goroutines run and timers fire; a shell ends only when it likes to.
TermLifeFairness ==
    /\ \A i \in Session : /\ WF_termLifeVars(PumpSteps(i)) /\ WF_termLifeVars(CloserSteps(i))
                          /\ WF_termLifeVars(GraceEnds(i))
    /\ WF_termLifeVars(CloseEnds)

----------------------------------------------------------------------------

\* Types; never more sessions than the service allows.
TermLifeTypeOK ==
    /\ table \in [Name -> {0} \cup Session] /\ Cardinality(Listed) <= MaxSessions
    /\ shell \in [Session -> {"none", "runs", "deaf", "dead"}]
    /\ service \in {"open", "closing", "closed"}
    /\ \A i \in Session :
          /\ ss[i].once \in {"free", "pump", "closer", "past"}
          /\ ss[i].pump \in {"none", "reads", "once", "waits", "past", "leaves", "over"}
          /\ ss[i].closer \in {"none", "finish", "once", "waits", "leaves", "over"}

\* A shell that lives is the session of its name: none is forgotten on a path
\* to the end, and no name gets a second shell while the first one lives.
ShellsAreListed == \A i \in Session : Lives(i) => table[ss[i].name] = i

\* A killed session leaves the table and its shell is dead, unless the service
\* is closed meanwhile.
KillEnds ==
    \A i \in Session :
        []<>(ss[i].killed /\ service = "open" =>
               shell[i] = "dead" /\ \A n \in Name : table[n] # i)

\* What the code does not keep: Close returns.
CloseComesBack == []<>(service # "closing")

\* What the code does not keep: a closed service has no shells.
ClosedHasNoShells == service = "closed" => \A i \in Session : ~Lives(i)
=============================================================================
