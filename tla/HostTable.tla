------------------------------ MODULE HostTable ------------------------------
(***************************************************************************)
(* The client's table of hosts (clientcore/facade/table.go): hosts.json, the  *)
(* table in memory and a session per host, through host.add (of a new host or  *)
(* with a new token), host.remove, and the attaching and detaching of the      *)
(* table as the client role comes and goes.                                   *)
(*                                                                         *)
(* A table is an object: each Attach opens a new one from the disk, and a      *)
(* request works on the one it got from tableRef, attached or not. opMu of a    *)
(* table admits one change at a time. Tokens of a host are numbered in the      *)
(* order in which they were issued.                                          *)
(*                                                                         *)
(* Sessions are external here (HostSession): running, dying after a stop that  *)
(* did not wait long enough, or ended. saveRecordsLocked replaces the file in   *)
(* one step. Names, broken files and records with a broken id are left out.    *)
(***************************************************************************)
EXTENDS Integers, FiniteSets

CONSTANTS
  Host, Requester,
  MaxToken,   \* bound: tokens of a host, 1 is the first
  MaxTable,   \* bound: tables opened
  MaxWishes     \* bound: requests

ASSUME HostTableAssumption == MaxToken \in Nat \ {0} /\ MaxTable \in Nat /\ MaxWishes \in Nat

Table == 1 .. MaxTable
Token == 1 .. MaxToken

VARIABLES
  disk,       \* hosts.json: the token of each host, 0: no record
  attached,   \* Daemon.table, 0: not attached
  opened,     \* tables opened so far
  memory,     \* r.hosts of each table: the token of each host, 0: no entry
  served,       \* the session of each table's entry: its token and its state
  refused,    \* entries whose last change was refused because the stop timed out
  opMu,       \* who changes each table
  attach,     \* the attaching goroutine, which holds attachMu
  wish,      \* each request: its step, kind, table, host, token
  asks,
  view,       \* the hosts a subscriber has put together from the events
  strayed     \* history: a request has changed a table that was not attached any more

hostTableVars == <<disk, attached, opened, memory, served, refused, opMu, attach, wish, asks, view,
                   strayed>>

NoEntries == [h \in Host |-> 0]
NoSession == [token |-> 0, is |-> "none"]
NoSessions == [h \in Host |-> NoSession]
Running(v) == [token |-> v, is |-> "running"]
Quiet == [at |-> "none", do |-> "none", table |-> 0, host |-> "none", token |-> 0]
NotAttaching == [at |-> "none", old |-> 0, added |-> {}]
Hosts(m) == {h \in Host : m[h] # 0}

HostTableInit ==
  /\ disk \in [Host -> {0, 1}]
  /\ attached = 0 /\ opened = 0
  /\ memory = [t \in Table |-> NoEntries] /\ served = [t \in Table |-> NoSessions]
  /\ refused = {} /\ opMu = [t \in Table |-> "free"]
  /\ attach = NotAttaching
  /\ wish = [q \in Requester |-> Quiet] /\ asks = 0
  /\ view = {} /\ strayed = FALSE

-----------------------------------------------------------------------------
(* host.add and host.remove. The table is looked up first; Probe, up to       *)
(* 3.5 seconds, comes before the change.                                     *)

\* Mutant: a request that finds no table goes on all the same.
AskTableUnattached(q, do) ==
  /\ wish[q] = Quiet /\ asks < MaxWishes
  /\ asks' = asks + 1
  /\ \E h \in Host, v \in IF do = "add" THEN Token ELSE {0} :
       wish' = [wish EXCEPT ![q] =
                   [at |-> "change", do |-> do, table |-> attached, host |-> h, token |-> v]]
  /\ UNCHANGED <<disk, attached, opened, memory, served, refused, opMu, attach, view, strayed>>

AskTable(q, do) ==
  /\ wish[q] = Quiet /\ attached # 0 /\ asks < MaxWishes
  /\ asks' = asks + 1
  /\ \E h \in Host, v \in IF do = "add" THEN Token ELSE {0} :
       wish' = [wish EXCEPT ![q] =
                   [at |-> "change", do |-> do, table |-> attached, host |-> h, token |-> v]]
  /\ UNCHANGED <<disk, attached, opened, memory, served, refused, opMu, attach, view, strayed>>

At(q, at, do) == wish[q].at = at /\ wish[q].do = do
Mem(q) == memory[wish[q].table]
Entry(q) == Mem(q)[wish[q].host]
Replies(q) == wish' = [wish EXCEPT ![q] = Quiet]
Idle(q) == opMu[wish[q].table] = "free"

\* The tokens of the table in memory, with one record replaced: recordsLocked
\* reads nothing back from the disk.
Records(q) == [Mem(q) EXCEPT ![wish[q].host] = wish[q].token]

Strays(q) == strayed \/ wish[q].table # attached

\* ErrHostExists, ErrNoHost, and a save that fails: nothing has changed.
Refused(q) ==
  /\ wish[q].at = "change" /\ Idle(q)
  /\ Replies(q)
  /\ UNCHANGED <<disk, attached, opened, memory, served, refused, opMu, attach, asks, view, strayed>>

\* Mutant: the host enters the table before the save, which may fail.
AddUnsaved(q) ==
  /\ At(q, "change", "add") /\ Idle(q) /\ Entry(q) = 0
  /\ disk' \in {disk, Records(q)}
  /\ memory' = [memory EXCEPT ![wish[q].table] = Records(q)]
  /\ served' = [served EXCEPT ![wish[q].table][wish[q].host] = Running(wish[q].token)]
  /\ view' = view \cup {wish[q].host}
  /\ Replies(q)
  /\ strayed' = Strays(q)
  /\ UNCHANGED <<attached, opened, refused, opMu, attach, asks>>

AddNew(q) ==
  /\ At(q, "change", "add") /\ Idle(q) /\ Entry(q) = 0
  /\ disk' = Records(q)
  /\ memory' = [memory EXCEPT ![wish[q].table] = Records(q)]
  /\ served' = [served EXCEPT ![wish[q].table][wish[q].host] = Running(wish[q].token)]
  /\ view' = view \cup {wish[q].host}
  /\ Replies(q)
  /\ strayed' = Strays(q)
  /\ UNCHANGED <<attached, opened, refused, opMu, attach, asks>>

\* Mutant: the session is stopped before the disk is known to take the change.
StopFirst(q) ==
  /\ wish[q].at = "change" /\ Idle(q)
  /\ Entry(q) # 0 /\ Entry(q) # wish[q].token
  /\ served' = [served EXCEPT ![wish[q].table][wish[q].host].is = "ended"]
  /\ \/ /\ disk' = Records(q)
        /\ opMu' = [opMu EXCEPT ![wish[q].table] = "busy"]
        /\ wish' = [wish EXCEPT ![q].at = "stop"]
     \/ Replies(q) /\ UNCHANGED <<disk, opMu>>
  /\ strayed' = Strays(q)
  /\ UNCHANGED <<attached, opened, memory, refused, attach, asks, view>>

\* A new token, or the removal: the disk first, the session next, memory last.
Save(q) ==
  /\ wish[q].at = "change" /\ Idle(q)
  /\ Entry(q) # 0 /\ Entry(q) # wish[q].token
  /\ disk' = Records(q)
  /\ opMu' = [opMu EXCEPT ![wish[q].table] = "busy"]
  /\ wish' = [wish EXCEPT ![q].at = "stop"]
  /\ strayed' = Strays(q)
  /\ UNCHANGED <<attached, opened, memory, served, refused, attach, asks, view>>

HasEnded(t, h) == served[t][h].is \in {"none", "ended"}

StopDone(q) ==
  LET t == wish[q].table h == wish[q].host IN
  /\ wish[q].at = "stop"
  /\ served' = [served EXCEPT ![t][h].is = IF @ = "none" THEN @ ELSE "ended"]
  /\ wish' = [wish EXCEPT ![q].at = "install"]
  /\ UNCHANGED <<disk, attached, opened, memory, refused, opMu, attach, asks, view, strayed>>

\* errStopTimeout: the entry stays as it is, with a session that is ending.
StopTimesOut(q) ==
  LET t == wish[q].table h == wish[q].host IN
  /\ wish[q].at = "stop" /\ ~HasEnded(t, h)
  /\ served' = [served EXCEPT ![t][h].is = "dying"]
  /\ refused' = refused \cup {<<t, h>>}
  /\ opMu' = [opMu EXCEPT ![t] = "free"]
  /\ Replies(q)
  /\ UNCHANGED <<disk, attached, opened, memory, attach, asks, view, strayed>>

Install(q) ==
  LET t == wish[q].table h == wish[q].host IN
  /\ wish[q].at = "install"
  /\ memory' = [memory EXCEPT ![t][h] = wish[q].token]
  /\ served' = [served EXCEPT ![t][h] = IF wish[q].do = "add" THEN Running(wish[q].token)
                                    ELSE NoSession]
  /\ view' = IF wish[q].do = "add" THEN view ELSE view \ {h}
  /\ refused' = refused \ {<<t, h>>}
  /\ opMu' = [opMu EXCEPT ![t] = "free"]
  /\ Replies(q)
  /\ UNCHANGED <<disk, attached, opened, attach, asks, strayed>>

Change(q) ==
  Refused(q) \/ AddNew(q) \/ Save(q) \/ StopDone(q) \/ StopTimesOut(q) \/ Install(q)

-----------------------------------------------------------------------------
(* Attach and Detach                                                       *)

BeginAttach ==
  /\ attach = NotAttaching /\ opened < MaxTable
  /\ attach' = [attach EXCEPT !.at = IF attached = 0 THEN "open" ELSE "close", !.old = attached]
  /\ attached' = 0
  /\ UNCHANGED <<disk, opened, memory, served, refused, opMu, wish, asks, view, strayed>>

BeginDetach ==
  /\ attach = NotAttaching /\ attached # 0
  /\ attach' = [attach EXCEPT !.at = "detach", !.old = attached]
  /\ attached' = 0
  /\ UNCHANGED <<disk, opened, memory, served, refused, opMu, wish, asks, view, strayed>>

\* Close: the table is emptied, each session stopped or given up.
CloseTable ==
  LET t == attach.old IN
  /\ attach.at \in {"close", "detach"} /\ opMu[t] = "free"
  /\ memory' = [memory EXCEPT ![t] = NoEntries]
  /\ \E slow \in SUBSET {h \in Host : ~HasEnded(t, h)} :
       served' = [served EXCEPT ![t] =
                  [h \in Host |-> IF h \in slow THEN [served[t][h] EXCEPT !.is = "dying"]
                                  ELSE NoSession]]
  /\ view' = view \ Hosts(memory[t])
  /\ attach' = IF attach.at = "detach" THEN NotAttaching ELSE [attach EXCEPT !.at = "open"]
  /\ UNCHANGED <<disk, attached, opened, refused, opMu, wish, asks, strayed>>

OpenTable ==
  LET t == opened + 1 IN
  /\ attach.at = "open" /\ opened' = t
  /\ memory' = [memory EXCEPT ![t] = disk]
  /\ served' = [served EXCEPT ![t] = [h \in Host |-> IF disk[h] = 0 THEN NoSession ELSE Running(disk[h])]]
  /\ attached' = t
  /\ attach' = [attach EXCEPT !.at = "list"]
  /\ UNCHANGED <<disk, refused, opMu, wish, asks, view, strayed>>

\* The hosts are listed, and told about afterwards.
ListHosts ==
  /\ attach.at = "list"
  /\ attach' = [attach EXCEPT !.at = "tell", !.added = Hosts(memory[attached])]
  /\ UNCHANGED <<disk, attached, opened, memory, served, refused, opMu, wish, asks, view, strayed>>

\* Mutant: the hosts of a table that was attached again are not told about.
TellNobody ==
  /\ attach.at = "tell"
  /\ attach' = NotAttaching
  /\ UNCHANGED <<disk, attached, opened, memory, served, refused, opMu, wish, asks, view, strayed>>

TellHosts ==
  /\ attach.at = "tell"
  /\ view' = view \cup attach.added
  /\ attach' = NotAttaching
  /\ UNCHANGED <<disk, attached, opened, memory, served, refused, opMu, wish, asks, strayed>>

SessionDies(t, h) ==
  /\ served[t][h].is = "dying"
  /\ served' = [served EXCEPT ![t][h].is = "ended"]
  /\ UNCHANGED <<disk, attached, opened, memory, refused, opMu, attach, wish, asks, view, strayed>>

\* The process dies at any point; the disk is what it is.
ProcessDies ==
  /\ opened < MaxTable /\ opened > 0
  /\ attached' = 0 /\ memory' = [t \in Table |-> NoEntries]
  /\ served' = [t \in Table |-> NoSessions] /\ refused' = {}
  /\ opMu' = [t \in Table |-> "free"] /\ attach' = NotAttaching
  /\ wish' = [q \in Requester |-> Quiet] /\ view' = {}
  /\ UNCHANGED <<disk, opened, asks, strayed>>

-----------------------------------------------------------------------------
HostTableNext ==
  \/ \E q \in Requester : AskTable(q, "add") \/ AskTable(q, "remove") \/ Change(q)
  \/ BeginAttach \/ BeginDetach \/ CloseTable \/ OpenTable \/ ListHosts \/ TellHosts
  \/ \E t \in Table, h \in Host : SessionDies(t, h)
  \/ ProcessDies

HostTableSpec == HostTableInit /\ [][HostTableNext]_hostTableVars

-----------------------------------------------------------------------------
(* Properties                                                              *)

HostTableTypeOK ==
  /\ disk \in [Host -> 0 .. MaxToken] /\ memory \in [Table -> [Host -> 0 .. MaxToken]]
  /\ attached \in 0 .. MaxTable /\ opened \in 0 .. MaxTable /\ attached <= opened
  /\ served \in [Table -> [Host -> [token : 0 .. MaxToken,
                                  is : {"none", "running", "dying", "ended"}]]]
  /\ refused \subseteq Table \X Host /\ opMu \in [Table -> {"free", "busy"}]
  /\ attach.at \in {"none", "close", "detach", "open", "list", "tell"}
  /\ attach.old \in 0 .. MaxTable /\ attach.added \subseteq Host
  /\ \A q \in Requester : wish[q] # Quiet =>
       wish[q].at \in {"change", "stop", "install"} /\ wish[q].table \in Table
  /\ asks \in 0 .. MaxWishes /\ view \subseteq Host /\ strayed \in BOOLEAN

\* Every entry of the attached table has a session that runs with the token of
\* the entry, except while a request changes it and after one that was refused
\* because the stop timed out: a save that failed leaves the old session running
\* (Add: 落盘失败…旧会话照跑).
EntriesAreServed ==
  attached # 0 =>
    \A h \in Hosts(memory[attached]) :
      \/ served[attached][h] = Running(memory[attached][h])
      \/ <<attached, h>> \in refused
      \/ \E q \in Requester : wish[q].table = attached /\ wish[q].host = h
                            /\ wish[q].at \in {"stop", "install"}

\* What a change has put into memory is on disk (B5: 先落盘再 Start), as long as no
\* request has strayed: only a change in progress and one that was refused leave
\* the two different.
RecordsAreSaved ==
  attached # 0 /\ ~strayed =>
    \A h \in Host :
      \/ disk[h] = memory[attached][h]
      \/ <<attached, h>> \in refused
      \/ \E q \in Requester : wish[q].host = h /\ wish[q].at \in {"stop", "install"}

\* What Attach and the requests tell misses no host of the attached table: a
\* front end that stays connected while the role restarts has them all (契约③),
\* as long as no request has strayed.
NoHostMissing ==
  attached # 0 /\ attach = NotAttaching /\ ~strayed => Hosts(memory[attached]) \subseteq view

\* The running sessions, the file and what the front ends were told follow the table.
HostsAgree == EntriesAreServed /\ RecordsAreSaved /\ NoHostMissing

=============================================================================
