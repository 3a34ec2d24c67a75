----------------------------- MODULE Supervisor -----------------------------
(***************************************************************************)
(* The supervisor of a role of the daemon (internal/daemon/role.go), as     *)
(* serve.start, serve.stop and serve.restart of the control plane drive it  *)
(* (roleops.go); relay.* are the same operations of another role.           *)
(*                                                                         *)
(* A started role is a managedRole with a context and a goroutine           *)
(* (runRoleLoop) that runs the role, and runs it again after a back-off      *)
(* when it fails. A caller is a control connection: it executes one          *)
(* operation at a time. The back-off table, the counter of restarts and      *)
(* the error texts are left out.                                            *)
(***************************************************************************)
EXTENDS Integers, FiniteSets

CONSTANTS
  Caller,
  MaxOps,     \* bound: operations
  MaxRounds,  \* bound: managedRoles, enough for MaxOps starts
  MaxFails    \* bound: failures of the role

ASSUME BoundsAssumption == {MaxOps, MaxFails} \subseteq Nat /\ MaxRounds \in Nat
ASSUME CallerAssumption == Caller # {}

Round == 1 .. MaxRounds

VARIABLES
  enabled,  \* the desired state in config.toml
  state,    \* stats[name].State
  cur,      \* roles[name]: the number of the present managedRole, 0: none
  loop,     \* the goroutine of each managedRole
  caller,   \* where each caller is, and the managedRole it works on
  exiting,  \* the process's context is cancelled
  ops, fails

vars == <<enabled, state, cur, loop, caller, exiting, ops, fails>>

\* "closing": Run has returned for good, done is not closed yet.
LoopPc == {"none", "make", "run", "backoff", "rebuild", "closing", "done"}
CallerPc == {"idle", "start", "startwait", "stop", "cancel", "restartcancel", "restartwait"}
Holding == {"startwait", "cancel", "restartcancel", "restartwait"}

NewLoop == [pc |-> "make", cancelled |-> FALSE]
Idle == [pc |-> "idle", on |-> 0]
Cancelled(m) == loop[m].cancelled \/ exiting

\* The assembly has opened the control plane and is about to start the role if
\* the configuration it has read asks for it; it is one of the callers.
Init ==
  /\ enabled \in BOOLEAN
  /\ state = "absent" /\ cur = 0
  /\ loop = [m \in Round |-> [pc |-> "none", cancelled |-> FALSE]]
  /\ \E main \in Caller :
       caller = [c \in Caller |->
                   IF enabled /\ c = main THEN [pc |-> "start", on |-> 0] ELSE Idle]
  /\ exiting = FALSE /\ ops = 0 /\ fails = 0

-----------------------------------------------------------------------------
(* runRoleLoop                                                             *)

LoopGoes(m, from, to) ==
  /\ loop[m].pc = from
  /\ loop' = [loop EXCEPT ![m].pc = to]
  /\ UNCHANGED <<enabled, cur, caller, exiting, ops>>

\* makeRole, for the first time and after a back-off, then setStat.
RoleMade(m) ==
  /\ LoopGoes(m, "make", "run") \/ LoopGoes(m, "rebuild", "run")
  /\ state' = "running"
  /\ UNCHANGED fails

RunStops(m) ==
  /\ Cancelled(m)
  /\ LoopGoes(m, "run", "closing")
  /\ state' = "stopped"
  /\ UNCHANGED fails

\* An error or a panic. Run may fail although it is being stopped, as Start does
\* of a server whose context ends under it.
RunFails(m) ==
  /\ fails < MaxFails
  /\ LoopGoes(m, "run", "backoff")
  /\ state' = "failed"
  /\ fails' = fails + 1

BackoffEnds(m) ==
  /\ LoopGoes(m, "backoff", "rebuild")
  /\ UNCHANGED <<state, fails>>

BackoffCancelled(m) ==
  /\ Cancelled(m)
  /\ LoopGoes(m, "backoff", "closing")
  /\ state' = "stopped"
  /\ UNCHANGED fails

CloseDone(m) ==
  /\ LoopGoes(m, "closing", "done")
  /\ UNCHANGED <<state, fails>>

-----------------------------------------------------------------------------
(* The operations                                                          *)

Present == cur # 0
Ended == Present /\ loop[cur].pc = "done"

At(c, pc) == caller[c].pc = pc
Goes(c, pc, m) == caller' = [caller EXCEPT ![c] = [pc |-> pc, on |-> m]]

\* lifecycleStart and lifecycleStop write the configuration first.
AskStart(c) ==
  /\ At(c, "idle") /\ ops < MaxOps
  /\ enabled' = TRUE /\ ops' = ops + 1
  /\ Goes(c, "start", 0)
  /\ UNCHANGED <<state, cur, loop, exiting, fails>>

AskStop(c) ==
  /\ At(c, "idle") /\ ops < MaxOps
  /\ enabled' = FALSE /\ ops' = ops + 1
  /\ Goes(c, "stop", 0)
  /\ UNCHANGED <<state, cur, loop, exiting, fails>>

\* startRole: nothing to do, or the back-off of a failed round will start it.
StartAlready(c) ==
  /\ At(c, "start") /\ Present
  /\ state = "running" \/ (state = "failed" /\ ~Ended)
  /\ Goes(c, "idle", 0)
  /\ UNCHANGED <<enabled, state, cur, loop, exiting, ops, fails>>

\* Mutant: the old round is waited for in no state.
StartOverlapping(c) ==
  /\ At(c, "start") /\ cur < MaxRounds
  /\ ~Present \/ state # "running"
  /\ cur' = cur + 1
  /\ loop' = [loop EXCEPT ![cur + 1] = NewLoop]
  /\ state' = "running"
  /\ Goes(c, "idle", 0)
  /\ UNCHANGED <<enabled, exiting, ops, fails>>

StartNew(c) ==
  /\ At(c, "start") /\ cur < MaxRounds
  /\ ~Present \/ (Ended /\ state # "running")
  /\ cur' = cur + 1
  /\ loop' = [loop EXCEPT ![cur + 1] = NewLoop]
  /\ state' = "running"
  /\ Goes(c, "idle", 0)
  /\ UNCHANGED <<enabled, exiting, ops, fails>>

\* Mutant: a failed round is waited for, too.
StartWaitsForFailed(c) ==
  /\ At(c, "start") /\ Present
  /\ state # "running" /\ ~Ended
  /\ Goes(c, "startwait", cur)
  /\ UNCHANGED <<enabled, state, cur, loop, exiting, ops, fails>>

\* The old round is on its way out: wait for it without the lock.
StartWaits(c) ==
  /\ At(c, "start") /\ Present
  /\ state \notin {"running", "failed"} /\ ~Ended
  /\ Goes(c, "startwait", cur)
  /\ UNCHANGED <<enabled, state, cur, loop, exiting, ops, fails>>

StartWaited(c) ==
  /\ At(c, "startwait") /\ loop[caller[c].on].pc = "done"
  /\ Goes(c, "start", 0)
  /\ UNCHANGED <<enabled, state, cur, loop, exiting, ops, fails>>

\* startRole and RestartRole give up when the process ends.
WaitGivenUp(c) ==
  /\ exiting /\ caller[c].pc \in {"startwait", "restartwait"}
  /\ Goes(c, "idle", 0)
  /\ UNCHANGED <<enabled, state, cur, loop, exiting, ops, fails>>

\* Mutant: roles[name] is not looked at before it is used.
StopRoleUnchecked(c) ==
  /\ At(c, "stop")
  /\ Goes(c, "cancel", cur)
  /\ state' = IF Present /\ state \in {"running", "failed"} THEN "stopping" ELSE state
  /\ UNCHANGED <<enabled, cur, loop, exiting, ops, fails>>

\* Mutant: a failed role is taken for one that does not run.
StopRoleNotFailed(c) ==
  /\ At(c, "stop")
  /\ IF Present /\ state # "failed" THEN Goes(c, "cancel", cur) ELSE Goes(c, "idle", 0)
  /\ state' = IF Present /\ state = "running" THEN "stopping" ELSE state
  /\ UNCHANGED <<enabled, cur, loop, exiting, ops, fails>>

\* Mutant: the state is overwritten without a look at it.
StopRoleBlindly(c) ==
  /\ At(c, "stop")
  /\ IF Present THEN Goes(c, "cancel", cur) ELSE Goes(c, "idle", 0)
  /\ state' = IF Present THEN "stopping" ELSE state
  /\ UNCHANGED <<enabled, cur, loop, exiting, ops, fails>>

\* StopRole: the state under the lock, the cancellation after it.
StopRole(c) ==
  /\ At(c, "stop")
  /\ IF Present THEN Goes(c, "cancel", cur) ELSE Goes(c, "idle", 0)
  /\ state' = IF Present /\ state \in {"running", "failed"} THEN "stopping" ELSE state
  /\ UNCHANGED <<enabled, cur, loop, exiting, ops, fails>>

Cancel(c) ==
  /\ At(c, "cancel") \/ At(c, "restartcancel")
  /\ loop' = [loop EXCEPT ![caller[c].on].cancelled = TRUE]
  /\ IF At(c, "cancel") THEN Goes(c, "idle", 0) ELSE Goes(c, "restartwait", caller[c].on)
  /\ UNCHANGED <<enabled, state, cur, exiting, ops, fails>>

RestartRole(c) ==
  /\ At(c, "idle") /\ ops < MaxOps
  /\ Present /\ state \in {"running", "failed"}
  /\ state' = "stopping" /\ ops' = ops + 1
  /\ Goes(c, "restartcancel", cur)
  /\ UNCHANGED <<enabled, cur, loop, exiting, fails>>

RestartWaited(c) ==
  /\ At(c, "restartwait") /\ loop[caller[c].on].pc = "done"
  /\ Goes(c, "start", 0)
  /\ UNCHANGED <<enabled, state, cur, loop, exiting, ops, fails>>

Exit ==
  /\ ~exiting /\ exiting' = TRUE
  /\ UNCHANGED <<enabled, state, cur, loop, caller, ops, fails>>

-----------------------------------------------------------------------------
LoopSteps(m) ==
  RoleMade(m) \/ RunStops(m) \/ BackoffEnds(m) \/ BackoffCancelled(m) \/ CloseDone(m)
CallSteps(c) ==
  \/ StartAlready(c) \/ StartNew(c) \/ StartWaits(c) \/ StartWaited(c) \/ WaitGivenUp(c)
  \/ StopRole(c) \/ Cancel(c) \/ RestartWaited(c)
Asks(c) == AskStart(c) \/ AskStop(c) \/ RestartRole(c)

Next ==
  \/ \E m \in Round : LoopSteps(m) \/ RunFails(m)
  \/ \E c \in Caller : CallSteps(c) \/ Asks(c)
  \/ Exit

Spec == Init /\ [][Next]_vars

\* Goroutines run, timers fire, and a role whose context is cancelled returns
\* (serve within StopGrace). Failures, commands and the exit are never forced.
FairSpec ==
  /\ Spec
  /\ \A m \in Round : WF_vars(LoopSteps(m))
  /\ \A c \in Caller : WF_vars(CallSteps(c))

-----------------------------------------------------------------------------
(* Properties                                                              *)

\* Types, and whoever waits for or cancels a round holds one that was made.
TypeOK ==
  /\ enabled \in BOOLEAN /\ exiting \in BOOLEAN
  /\ state \in {"absent", "running", "failed", "stopping", "stopped"}
  /\ cur \in 0 .. MaxRounds
  /\ loop \in [Round -> [pc : LoopPc, cancelled : BOOLEAN]]
  /\ caller \in [Caller -> [pc : CallerPc, on : 0 .. MaxRounds]]
  /\ \A c \in Caller : caller[c].pc \in Holding <=> caller[c].on # 0
  /\ \A c \in Caller : caller[c].on <= cur
  /\ ops \in Nat /\ fails \in Nat

Alive(m) == loop[m].pc \notin {"none", "done"}

\* Two rounds of a role never overlap: the new one would find its ports and
\* sockets taken and fall back to others in silence (role.go: the start waits).
OneRound == \A m, n \in Round : Alive(m) /\ Alive(n) => m = n

\* A round that is over is shown as stopped: shown as running it could not be
\* started again, shown as stopping it would look busy for ever.
GoneIsStopped == Present /\ loop[cur].pc \in {"closing", "done"} => state = "stopped"

\* The rounds of a role come one after the other, and its state tells of them.
RolesAreHonest == OneRound /\ GoneIsStopped

\* A stop ends the round it finds, whatever the round is doing.
StopEndsRound ==
  \A m \in Round :
    (cur = m /\ \E c \in Caller : At(c, "stop")) ~> loop[m].pc = "done"

\* No operation hangs: what a start or a restart waits for ends.
CallsReturn == \A c \in Caller : []<>At(c, "idle")

\* What the code does not keep: when all calls have returned and the loop has settled, the role runs if and
\* only if that was the last command (startRole: 期望态已满足).
Quiet ==
  /\ ~exiting /\ \A c \in Caller : At(c, "idle")
  /\ Present => Ended \/ (loop[cur].pc \in {"run", "backoff"} /\ ~loop[cur].cancelled)
LastCommandWins == Quiet => (enabled <=> Present /\ ~Ended)
=============================================================================
