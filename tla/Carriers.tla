------------------------------ MODULE Carriers ------------------------------
(***************************************************************************)
(* The listeners of the client (clientcore/facade: carriers.go, forward.go,   *)
(* socksmgr.go; pkg/socks): a host's port forwardings and its SOCKS listener,  *)
(* which share one space of ports, forwards.json and socks.json, the removal   *)
(* of a host that takes its listeners along, and the SOCKS connections.        *)
(*                                                                         *)
(* A set of managers is an object: each Attach opens a new one from the disk,  *)
(* and a request works on the one it found, closed or not. addMu serialises     *)
(* the requests that take a port: [set] of each manager tells which one is past *)
(* its member check. A save replaces the file in one step or fails.            *)
(*                                                                         *)
(* The host table is external here (HostTable): the hosts in it come and go.   *)
(* Broken files, targets, limits of a manager and the port 0 of tests are left  *)
(* out, and so are forwarded connections, which nothing closes.               *)
(***************************************************************************)
EXTENDS Integers, FiniteSets, Functions

CONSTANTS
  Peer,         \* hosts
  Port,
  MaxRules,     \* forwardings of a host
  SocksConns,   \* connections of a SOCKS server
  MaxManagers,  \* bound: managers opened
  MaxServers,   \* bound: SOCKS servers started
  MaxLanded,    \* bound: requests that take a port, and hosts that come back
  MaxTrouble    \* bound: saves that fail, listeners that stop accepting

ASSUME CarriersAssumption ==
  /\ MaxRules \in Nat \ {0} /\ MaxManagers \in Nat /\ MaxServers \in Nat
  /\ MaxLanded \in Nat /\ MaxTrouble \in Nat /\ SocksConns \in Nat

Manager == 1 .. MaxManagers
Server == 1 .. MaxServers
Conn == 1 .. SocksConns

VARIABLES
  member,     \* hosts of the table
  current,    \* Daemon.carriers, 0: not attached
  rules,      \* each manager's forwardings: host, port, and whether it accepts
  proxies,    \* each manager's SOCKS entries: host, port, on, server (0: no listener)
  rulesDisk,  \* forwards.json
  proxiesDisk,\* socks.json
  set,        \* each manager's request that holds addMu
  server,     \* each SOCKS server and its listener
  link,       \* SOCKS connections
  cascades,   \* hosts that left the table, and the removal of their listeners is due
  used,       \* managers opened, servers started, requests and troubles so far
  skewed     \* history: a removal was skipped or not saved, or a request came late

carriersVars == <<member, current, rules, proxies, rulesDisk, proxiesDisk, set, server, link,
                  cascades, used, skewed>>

Rule(h, p, up) == [host |-> h, port |-> p, up |-> up]
Proxy(h, p, on, s) == [host |-> h, port |-> p, on |-> on, server |-> s]
NoRequest == [do |-> "none", host |-> "none", port |-> 0]
NoServer == [port |-> 0, is |-> "none", entry |-> "none"]
Stilled == [port |-> 0, is |-> "closed", entry |-> "none"]
NoLink == [server |-> 0, at |-> "none", shut |-> FALSE]

CarriersInit ==
  /\ member \in SUBSET Peer /\ current = 0
  /\ rules = [m \in Manager |-> {}] /\ proxies = [m \in Manager |-> {}]
  /\ rulesDisk = {} /\ proxiesDisk = {}
  /\ set = [m \in Manager |-> NoRequest]
  /\ server = [s \in Server |-> NoServer]
  /\ link = [c \in Conn |-> NoLink]
  /\ cascades = {}
  /\ used = [managers |-> 0, servers |-> 0, landed |-> 0, trouble |-> 0]
  /\ skewed = FALSE

-----------------------------------------------------------------------------
(* Ports, files                                                            *)

RulePorts(m) == {r.port : r \in rules[m]}
Listening == {r.port : r \in {q \in UNION {rules[m] : m \in Manager} : q.up}}
               \cup {server[s].port : s \in {t \in Server : server[t].is = "serves"}}

\* What saveLocked writes.
RuleRecords(rs) == {[host |-> r.host, port |-> r.port] : r \in rs}
ProxyRecords(ps) == {[host |-> e.host, port |-> e.port, on |-> e.on] : e \in ps}

Trouble == used.trouble < MaxTrouble
Troubled == used' = [used EXCEPT !.trouble = @ + 1]

\* stopListener: the listener, the server and all connections it knows are closed.
Stopped(srv, s) == [srv EXCEPT ![s] = Stilled]
Cut(s) == [c \in Conn |-> IF link[c].server = s /\ link[c].at \in {"asks", "dialled", "pipes"}
                          THEN [link[c] EXCEPT !.shut = TRUE] ELSE link[c]]
CutAll(ss) == [c \in Conn |-> IF link[c].server \in ss /\ link[c].at \in {"asks", "dialled", "pipes"}
                              THEN [link[c] EXCEPT !.shut = TRUE] ELSE link[c]]

-----------------------------------------------------------------------------
(* forward.add and socks.on                                                *)

\* The member check, with addMu held.
AskPort(m, do, h, p) ==
  /\ m # 0 /\ set[m] = NoRequest /\ h \in member /\ used.landed < MaxLanded
  /\ set' = [set EXCEPT ![m] = [do |-> do, host |-> h, port |-> p]]
  /\ used' = [used EXCEPT !.landed = @ + 1]
  /\ UNCHANGED <<member, current, rules, proxies, rulesDisk, proxiesDisk, server, link, cascades,
                 skewed>>

Lands(m) == set' = [set EXCEPT ![m] = NoRequest]

\* Mutant: forward.add does not look at the SOCKS ports.
PortFreeOfRules(m, do, h, p) ==
  IF do = "forward" THEN p \notin RulePorts(m)
  ELSE p \notin RulePorts(m) /\ \A e \in proxies[m] : e.port = p => e.host = h

\* portOwner of both managers: the port of an entry that is off is still its own.
PortFree(m, do, h, p) ==
  /\ p \notin RulePorts(m)
  /\ \A e \in proxies[m] : e.port = p => do = "socks" /\ e.host = h

\* The port is somebody's, the limit is reached, the port cannot be bound.
PortRefused(m) ==
  /\ set[m] # NoRequest
  /\ Lands(m)
  /\ UNCHANGED <<member, current, rules, proxies, rulesDisk, proxiesDisk, server, link, cascades,
                 used, skewed>>

\* ForwardManager.Add: listens, enters the rule, saves, and takes it all back
\* when the save fails.
AddRule(m) ==
  LET h == set[m].host p == set[m].port new == rules[m] \cup {Rule(h, p, TRUE)} IN
  /\ set[m].do = "forward" /\ PortFree(m, "forward", h, p)
  /\ Cardinality({r \in rules[m] : r.host = h}) < MaxRules
  /\ p \notin Listening
  /\ rules' = [rules EXCEPT ![m] = new]
  /\ rulesDisk' = RuleRecords(new)
  /\ Lands(m)
  /\ skewed' = (skewed \/ m # current)
  /\ UNCHANGED <<member, current, proxies, proxiesDisk, server, link, cascades, used>>

Starts(s, p) ==
  /\ s = used.servers + 1 /\ s \in Server
  /\ p \notin Listening
  /\ used' = [used EXCEPT !.servers = s]

\* Mutant: every request makes an entry of its own.
FirstOnAlways(m) ==
  LET h == set[m].host p == set[m].port s == used.servers + 1 IN
  /\ set[m].do = "socks" /\ PortFree(m, "socks", h, p)
  /\ Starts(s, p)
  /\ server' = [server EXCEPT ![s] = [port |-> p, is |-> "serves", entry |-> "own"]]
  /\ proxies' = [proxies EXCEPT ![m] = @ \cup {Proxy(h, p, TRUE, s)}]
  /\ proxiesDisk' = ProxyRecords(proxies[m] \cup {Proxy(h, p, TRUE, s)})
  /\ Lands(m)
  /\ skewed' = (skewed \/ m # current)
  /\ UNCHANGED <<member, current, rules, rulesDisk, link, cascades>>

\* SocksManager.On of a host that has no entry. When the save fails the listener
\* is stopped and the file saved once more before the entry is dropped.
FirstOn(m) ==
  LET h == set[m].host p == set[m].port s == used.servers + 1 IN
  /\ set[m].do = "socks" /\ PortFree(m, "socks", h, p)
  /\ \A e \in proxies[m] : e.host # h
  /\ Starts(s, p)
  /\ server' = [server EXCEPT ![s] = [port |-> p, is |-> "serves", entry |-> "own"]]
  /\ proxies' = [proxies EXCEPT ![m] = @ \cup {Proxy(h, p, TRUE, s)}]
  /\ proxiesDisk' = ProxyRecords(proxies[m] \cup {Proxy(h, p, TRUE, s)})
  /\ Lands(m)
  /\ skewed' = (skewed \/ m # current)
  /\ UNCHANGED <<member, current, rules, rulesDisk, link, cascades>>

FirstOnUnsaved(m) ==
  LET h == set[m].host p == set[m].port IN
  /\ set[m].do = "socks" /\ PortFree(m, "socks", h, p)
  /\ \A e \in proxies[m] : e.host # h
  /\ p \notin Listening
  /\ Trouble /\ Troubled
  /\ proxiesDisk' \in {proxiesDisk, ProxyRecords(proxies[m] \cup {Proxy(h, p, FALSE, 0)})}
  /\ Lands(m)
  /\ skewed' = TRUE
  /\ UNCHANGED <<member, current, rules, proxies, rulesDisk, server, link, cascades>>

\* The same port and a listener: nothing to do.
StillOn(m) ==
  /\ set[m].do = "socks" /\ PortFree(m, "socks", set[m].host, set[m].port)
  /\ \E e \in proxies[m] : e.host = set[m].host /\ e.server # 0 /\ e.port = set[m].port
  /\ Lands(m)
  /\ UNCHANGED <<member, current, rules, proxies, rulesDisk, proxiesDisk, server, link, cascades,
                 used, skewed>>

\* Mutant: the old listener is left alone.
OnAgainLeaks(m) ==
  LET h == set[m].host p == set[m].port s == used.servers + 1 IN
  \E e \in proxies[m] :
    LET new == (proxies[m] \ {e}) \cup {Proxy(h, p, TRUE, s)} IN
    /\ set[m].do = "socks" /\ PortFree(m, "socks", h, p)
    /\ e.host = h /\ ~(e.server # 0 /\ e.port = p)
    /\ Starts(s, p)
    /\ server' = [server EXCEPT ![s] = [port |-> p, is |-> "serves", entry |-> "next"]]
    /\ link' = link
    /\ proxies' = [proxies EXCEPT ![m] = new]
    /\ proxiesDisk' = ProxyRecords(new)
    /\ Lands(m)
    /\ skewed' = (skewed \/ m # current)
    /\ UNCHANGED <<member, current, rules, rulesDisk, cascades>>

\* On of a host that has an entry: a listener for an entry of its own (next),
\* whose fields the entry takes over; then the save, and the old listener stops.
\* The goroutine of the new listener keeps next, not the entry.
OnAgain(m) ==
  LET h == set[m].host p == set[m].port s == used.servers + 1 IN
  \E e \in proxies[m] :
    LET new == (proxies[m] \ {e}) \cup {Proxy(h, p, TRUE, s)} IN
    /\ set[m].do = "socks" /\ PortFree(m, "socks", h, p)
    /\ e.host = h /\ ~(e.server # 0 /\ e.port = p)
    /\ Starts(s, p)
    /\ server' = [t \in Server |->
         IF t = s THEN [port |-> p, is |-> "serves", entry |-> "next"]
         ELSE IF t = e.server THEN Stilled ELSE server[t]]
    /\ link' = Cut(e.server)
    /\ proxies' = [proxies EXCEPT ![m] = new]
    /\ proxiesDisk' = ProxyRecords(new)
    /\ Lands(m)
    /\ skewed' = (skewed \/ m # current)
    /\ UNCHANGED <<member, current, rules, rulesDisk, cascades>>

-----------------------------------------------------------------------------
(* forward.delete, socks.off: without addMu                                 *)

\* Memory goes first; a save that fails is an error, and leaves the record.
RemoveRule(m, r) ==
  /\ m # 0 /\ r \in rules[m]
  /\ rules' = [rules EXCEPT ![m] = @ \ {r}]
  /\ \/ rulesDisk' = RuleRecords(rules[m] \ {r}) /\ UNCHANGED <<used, skewed>>
     \/ Trouble /\ Troubled /\ skewed' = TRUE /\ UNCHANGED rulesDisk
  /\ UNCHANGED <<member, current, proxies, proxiesDisk, set, server, link, cascades>>

\* An entry without a listener keeps its on: stopListener is what clears it.
Off(m, e) ==
  LET off == IF e.server # 0 THEN Proxy(e.host, e.port, FALSE, 0) ELSE e
      new == (proxies[m] \ {e}) \cup {off} IN
  /\ m # 0 /\ e \in proxies[m]
  /\ proxies' = [proxies EXCEPT ![m] = new]
  /\ server' = IF e.server # 0 THEN Stopped(server, e.server) ELSE server
  /\ link' = Cut(e.server)
  /\ \/ proxiesDisk' = ProxyRecords(new) /\ UNCHANGED <<used, skewed>>
     \/ Trouble /\ Troubled /\ skewed' = TRUE /\ UNCHANGED proxiesDisk
  /\ UNCHANGED <<member, current, rules, rulesDisk, set, cascades>>

-----------------------------------------------------------------------------
(* Listeners that stop accepting after all their retries                     *)

RuleFails(m, r) ==
  /\ r \in rules[m] /\ r.up /\ Trouble /\ Troubled
  /\ rules' = [rules EXCEPT ![m] = (@ \ {r}) \cup {[r EXCEPT !.up = FALSE]}]
  /\ UNCHANGED <<member, current, proxies, rulesDisk, proxiesDisk, set, server, link, cascades,
                 skewed>>

\* The goroutine stops the listener of the entry it was started for.
ServerFails(s) ==
  /\ server[s].is = "serves" /\ Trouble /\ Troubled
  /\ server' = Stopped(server, s)
  /\ link' = Cut(s)
  /\ proxies' = IF server[s].entry = "next" THEN proxies
                ELSE [m \in Manager |->
                       {IF e.server = s THEN Proxy(e.host, e.port, FALSE, 0) ELSE e : e \in proxies[m]}]
  /\ UNCHANGED <<member, current, rules, rulesDisk, proxiesDisk, set, cascades, skewed>>

-----------------------------------------------------------------------------
(* Hosts come and go                                                       *)

HostComes(h) ==
  /\ current # 0 /\ h \notin member /\ used.landed < MaxLanded
  /\ member' = member \cup {h}
  /\ used' = [used EXCEPT !.landed = @ + 1]
  /\ UNCHANGED <<current, rules, proxies, rulesDisk, proxiesDisk, set, server, link, cascades, skewed>>

\* Daemon.RemoveHost: first the table, then the managers that are there by then.
HostGoes(h) ==
  /\ current # 0 /\ h \in member
  /\ member' = member \ {h}
  /\ cascades' = cascades \cup {h}
  /\ UNCHANGED <<current, rules, proxies, rulesDisk, proxiesDisk, set, server, link, used, skewed>>

\* Mutant: the removal does not wait for addMu.
CascadeAnytime(h) ==
  LET m == current gone == {e \in proxies[m] : e.host = h} IN
  /\ h \in cascades /\ m # 0
  /\ cascades' = cascades \ {h}
  /\ rules' = [rules EXCEPT ![m] = {r \in @ : r.host # h}]
  /\ proxies' = [proxies EXCEPT ![m] = @ \ gone]
  /\ server' = [s \in Server |-> IF \E e \in gone : e.server = s
                                 THEN Stilled ELSE server[s]]
  /\ link' = CutAll({e.server : e \in gone})
  /\ rulesDisk' = RuleRecords(rules'[m]) /\ proxiesDisk' = ProxyRecords(proxies'[m])
  /\ UNCHANGED <<member, current, set, used, skewed>>

Cascade(h) ==
  LET m == current gone == {e \in proxies[m] : e.host = h} IN
  /\ h \in cascades /\ m # 0 /\ set[m] = NoRequest
  /\ cascades' = cascades \ {h}
  /\ rules' = [rules EXCEPT ![m] = {r \in @ : r.host # h}]
  /\ proxies' = [proxies EXCEPT ![m] = @ \ gone]
  /\ server' = [s \in Server |-> IF \E e \in gone : e.server = s
                                 THEN Stilled ELSE server[s]]
  /\ link' = CutAll({e.server : e \in gone})
  /\ \/ /\ rulesDisk' = RuleRecords(rules'[m]) /\ proxiesDisk' = ProxyRecords(proxies'[m])
        /\ UNCHANGED <<used, skewed>>
     \/ /\ Trouble /\ Troubled /\ skewed' = TRUE
        /\ \/ UNCHANGED rulesDisk /\ proxiesDisk' \in {proxiesDisk, ProxyRecords(proxies'[m])}
           \/ rulesDisk' = RuleRecords(rules'[m]) /\ UNCHANGED proxiesDisk
  /\ UNCHANGED <<member, current, set>>

\* No managers are attached: nothing is removed.
CascadeSkipped(h) ==
  /\ h \in cascades /\ current = 0
  /\ cascades' = cascades \ {h}
  /\ skewed' = TRUE
  /\ UNCHANGED <<member, current, rules, proxies, rulesDisk, proxiesDisk, set, server, link, used>>

-----------------------------------------------------------------------------
(* Attach and Detach                                                       *)

\* Open: a rule whose port is taken, by another program for one, stays in the
\* table as failed, a SOCKS entry without its listener, but still on.
OpenManagers ==
  LET m == used.managers + 1 IN
  /\ current = 0 /\ m \in Manager
  /\ \E taken \in SUBSET Port :
       LET on == {e \in proxiesDisk : e.on /\ e.port \notin Listening \cup taken
                                     /\ \A r \in rulesDisk : r.port # e.port}
           started == used.servers + 1 .. used.servers + Cardinality(on) IN
       /\ started \subseteq Server
       /\ \E number \in Bijection(on, started) :
            /\ proxies' = [proxies EXCEPT ![m] =
                 {Proxy(e.host, e.port, e.on, IF e \in on THEN number[e] ELSE 0) : e \in proxiesDisk}]
            /\ server' = [s \in Server |->
                 IF s \in started
                 THEN [port |-> (CHOOSE e \in on : number[e] = s).port, is |-> "serves", entry |-> "own"]
                 ELSE server[s]]
       /\ rules' = [rules EXCEPT ![m] =
            {Rule(r.host, r.port, r.port \notin Listening \cup taken) : r \in rulesDisk}]
       /\ used' = [used EXCEPT !.managers = m, !.servers = @ + Cardinality(on)]
  /\ current' = m
  /\ UNCHANGED <<member, rulesDisk, proxiesDisk, set, link, cascades, skewed>>

\* Close: what listens is stopped; a request that is past its check goes on, with
\* the managers it has. Without one they are forgotten.
CloseManagers ==
  LET m == current IN
  /\ m # 0
  /\ current' = 0
  /\ rules' = [rules EXCEPT ![m] =
       IF set[m] = NoRequest THEN {} ELSE {[r EXCEPT !.up = FALSE] : r \in @}]
  /\ proxies' = [proxies EXCEPT ![m] =
       IF set[m] = NoRequest THEN {}
       ELSE {IF e.server # 0 THEN Proxy(e.host, e.port, FALSE, 0) ELSE e : e \in @}]
  /\ server' = [s \in Server |-> IF \E e \in proxies[m] : e.server = s
                                 THEN Stilled ELSE server[s]]
  /\ link' = CutAll({e.server : e \in proxies[m]})
  /\ UNCHANGED <<member, rulesDisk, proxiesDisk, set, cascades, used, skewed>>

\* The process dies: requests and removals in progress are lost.
CarriersDie ==
  /\ current # 0 /\ used.managers < MaxManagers
  /\ current' = 0
  /\ rules' = [m \in Manager |-> {}] /\ proxies' = [m \in Manager |-> {}]
  /\ set' = [m \in Manager |-> NoRequest]
  /\ server' = [s \in Server |-> IF server[s].is = "serves" THEN Stilled
                                 ELSE server[s]]
  /\ link' = [c \in Conn |-> NoLink]
  /\ cascades' = {}
  /\ skewed' = (skewed \/ cascades # {})
  /\ UNCHANGED <<member, rulesDisk, proxiesDisk, used>>

-----------------------------------------------------------------------------
(* SOCKS connections (pkg/socks)                                            *)

Links(c, at) == link' = [link EXCEPT ![c].at = at]
LinkOnly == UNCHANGED <<member, current, rules, proxies, rulesDisk, proxiesDisk, set, server, cascades,
                        used, skewed>>

\* Accept returned a connection that the server does not know yet.
Accepts(c, s) ==
  /\ link[c] = NoLink /\ server[s].is = "serves"
  /\ link' = [link EXCEPT ![c] = [server |-> s, at |-> "accepted", shut |-> FALSE]]
  /\ LinkOnly

Registers(c) == link[c].at = "accepted" /\ Links(c, "asks") /\ LinkOnly

\* Mutant: looking up and dialling do not end with the server.
DialsOn(c) == link[c].at = "asks" /\ ~link[c].shut /\ Links(c, "dialled") /\ LinkOnly

\* A request was read; looking up and dialling end when the server is closed.
Dials(c) ==
  /\ link[c].at = "asks" /\ ~link[c].shut /\ server[link[c].server].is = "serves"
  /\ Links(c, "dialled") /\ LinkOnly

\* The reply, then data in both directions.
Pipes(c) == link[c].at = "dialled" /\ ~link[c].shut /\ Links(c, "pipes") /\ LinkOnly

Hangs(c) == link[c].at \in {"asks", "dialled", "pipes"}
            /\ link' = [link EXCEPT ![c] = NoLink] /\ LinkOnly

-----------------------------------------------------------------------------
Lander(m) == AddRule(m) \/ FirstOn(m) \/ FirstOnUnsaved(m) \/ StillOn(m) \/ OnAgain(m)

CarriersNext ==
  \/ \E h \in Peer, p \in Port, do \in {"forward", "socks"} : AskPort(current, do, h, p)
  \/ \E m \in Manager : PortRefused(m) \/ Lander(m) \/ \E r \in rules[m] : RuleFails(m, r)
  \/ current # 0 /\ \E r \in rules[current] : RemoveRule(current, r)
  \/ current # 0 /\ \E e \in proxies[current] : Off(current, e)
  \/ \E s \in Server : ServerFails(s)
  \/ \E h \in Peer : HostComes(h) \/ HostGoes(h) \/ Cascade(h) \/ CascadeSkipped(h)
  \/ OpenManagers \/ CloseManagers \/ CarriersDie
  \/ \E c \in Conn : Registers(c) \/ Dials(c) \/ Pipes(c) \/ Hangs(c)
                     \/ \E s \in Server : Accepts(c, s)

CarriersSpec == CarriersInit /\ [][CarriersNext]_carriersVars

-----------------------------------------------------------------------------
(* Properties                                                              *)

Owners(m) == {<<"forward", r.host, r.port>> : r \in rules[m]}
               \cup {<<"socks", e.host, e.port>> : e \in proxies[m]}

\* Types; a host has one SOCKS entry.
CarriersTypeOK ==
  /\ member \subseteq Peer /\ current \in 0 .. MaxManagers
  /\ \A m \in Manager :
       /\ \A r \in rules[m] : r.host \in Peer /\ r.port \in Port /\ r.up \in BOOLEAN
       /\ \A e \in proxies[m] :
            /\ e.host \in Peer /\ e.port \in Port /\ e.server \in 0 .. MaxServers
            /\ \A f \in proxies[m] : f.host = e.host => f = e
  /\ \A s \in Server : server[s].is \in {"none", "serves", "closed"}
  /\ \A c \in Conn : link[c].at \in {"none", "accepted", "asks", "dialled", "pipes"}

\* One port belongs to one forwarding or SOCKS entry, of all hosts, and an entry
\* that is off keeps its own (addMu: check and landing are one), as long as no
\* removal failed to be saved.
PortsHaveOneOwner ==
  current # 0 /\ ~skewed =>
    \A a, b \in Owners(current) : a[3] = b[3] => a = b

\* A host that is gone leaves no listener behind, however its removal and a request
\* for a listener meet (FIX-05), as long as the removal finds the managers and is
\* saved.
NoListenerOfGoneHost ==
  current # 0 /\ ~skewed =>
    \A o \in Owners(current) : o[2] \in member \cup cascades

\* After off, after a change of the port and after the host is gone, nothing is
\* passed on: a connection that is open and has its other end belongs to a server
\* that is open (pkg/socks: Close, L7).
NoTrafficAfterOff ==
  \A c \in Conn : link[c].at = "pipes" /\ ~link[c].shut => server[link[c].server].is = "serves"

\* A server that accepts is the one of an entry: no request can close another.
ServersHaveEntries ==
  \A s \in Server : server[s].is = "serves" =>
    \E m \in Manager : \E e \in proxies[m] : e.server = s

\* The listeners are those of the entries, the entries those of hosts that are there,
\* one to a port, and what passes through them ends with them.
CarriersAgree ==
  PortsHaveOneOwner /\ NoListenerOfGoneHost /\ NoTrafficAfterOff /\ ServersHaveEntries

\* What the code does not keep: an entry that is shown as on has a listener that
\* accepts (socksmgr.go:386-389, L6).
OnMeansAccepting ==
  current # 0 => \A e \in proxies[current] : e.server # 0 => server[e.server].is = "serves"

\* What the code does not keep: off is remembered.
OffIsRemembered ==
  [][current # 0 =>
       \A e \in proxies[current] : Off(current, e) /\ ~skewed' =>
         \A r \in proxiesDisk' : r.host = e.host => ~r.on]_carriersVars

\* What the code does not keep: nothing listens for managers that were closed.
ClosedManagersListenNot ==
  \A m \in Manager \ {current} :
    /\ \A r \in rules[m] : ~r.up
    /\ \A e \in proxies[m] : e.server # 0 => server[e.server].is # "serves"
=============================================================================
