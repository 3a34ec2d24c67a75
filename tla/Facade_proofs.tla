---------------------------- MODULE Facade_proofs ----------------------------
(* Theorems about the parts that MCFacade composes: the listeners of the hosts,      *)
(* which keep to their entries and ports, the event bus with one connection and its   *)
(* front end, and the legs that follow the screen of a terminal session.              *)
EXTENDS MCFacade, Ascending_proofs

RuleType == [host : Peer, port : Port, up : BOOLEAN]
ProxyType == [host : Peer, port : Port, on : BOOLEAN, server : 0 .. MaxServers]
RuleRecord == [host : Peer, port : Port]
ProxyRecord == [host : Peer, port : Port, on : BOOLEAN]
Request == [do : {"forward", "socks"}, host : Peer, port : Port] \cup {NoRequest}
ServerType == [port : Port \cup {0}, is : {"none", "serves", "closed"},
               entry : {"none", "own", "next"}]
LinkType == [server : 0 .. MaxServers, at : {"none", "accepted", "asks", "dialled", "pipes"},
             shut : BOOLEAN]

\* The counters of used; only the managers are looked at again.
Used(u) ==
  /\ u = [managers |-> u.managers, servers |-> u.servers, landed |-> u.landed, trouble |-> u.trouble]
  /\ u.managers \in 0 .. MaxManagers

Typed ==
  /\ member \subseteq Peer /\ cascades \subseteq Peer
  /\ Used(used) /\ current \in 0 .. used.managers
  /\ rules \in [Manager -> SUBSET RuleType] /\ proxies \in [Manager -> SUBSET ProxyType]
  /\ rulesDisk \subseteq RuleRecord /\ proxiesDisk \subseteq ProxyRecord
  /\ set \in [Manager -> Request] /\ skewed \in BOOLEAN
  /\ server \in [Server -> ServerType] /\ link \in [Conn -> LinkType]
  /\ \A c \in Conn : link[c].at # "none" => link[c].server \in Server

\* A host has one SOCKS entry in each table and one record in the file.
OneEach(ps) == \A e, f \in ps : e.host = f.host => e = f
Single == OneEach(proxiesDisk) /\ \A m \in Manager : OneEach(proxies[m])

\* Managers that are still to be opened have neither requests nor entries.
Fresh == \A m \in Manager : m > used.managers => set[m] = NoRequest /\ proxies[m] = {}

\* The request that is past its check works for a host that is there or whose removal
\* waits for it.
Asked == current # 0 /\ set[current] # NoRequest => set[current].host \in member \cup cascades

\* Who owns which port, by the tables or the files.
Forwards(rs) == {<<"forward", r.host, r.port>> : r \in rs}
Socks(ps) == {<<"socks", e.host, e.port>> : e \in ps}
OnDisk == Forwards(rulesDisk) \cup Socks(proxiesDisk)

\* Unless something went wrong, the files hold the ports of the attached managers, each
\* once, for hosts that are there or about to be removed.
Sole(C) == \A a, b \in C : a[3] = b[3] => a = b
Housed(C) == \A o \in C : o[2] \in member \cup cascades
DiskIsTable ==
  ~skewed => /\ Sole(OnDisk) /\ Housed(OnDisk)
             /\ current # 0 => /\ Forwards(rules[current]) = Forwards(rulesDisk)
                               /\ Socks(proxies[current]) = Socks(proxiesDisk)

\* A connection that has its other end, and is not cut, has a server that serves.
LinksFollow ==
  \A c \in Conn : link[c].at \in {"dialled", "pipes"} /\ ~link[c].shut =>
    server[link[c].server].is = "serves"

CarriersInv ==
  Typed /\ Single /\ Fresh /\ Asked /\ DiskIsTable /\ LinksFollow /\ ServersHaveEntries

-----------------------------------------------------------------------------
(* Rules, entries and records *)

LEMMA MadeTypes ==
  ASSUME NEW h \in Peer, NEW p \in Port, NEW b \in BOOLEAN, NEW s \in 0 .. MaxServers
  PROVE  Rule(h, p, b) \in RuleType /\ Proxy(h, p, b, s) \in ProxyType
BY DEF Rule, Proxy, RuleType, ProxyType

LEMMA WrittenTypes ==
  /\ \A rs \in SUBSET RuleType : RuleRecords(rs) \subseteq RuleRecord
  /\ \A ps \in SUBSET ProxyType : ProxyRecords(ps) \subseteq ProxyRecord
BY DEF RuleRecords, ProxyRecords, RuleType, ProxyType, RuleRecord, ProxyRecord

\* A file that was saved holds the ports of the table, and a host once if the table does.
LEMMA WrittenClaims ==
  ASSUME NEW rs, NEW ps
  PROVE  /\ Forwards(RuleRecords(rs)) = Forwards(rs)
         /\ Socks(ProxyRecords(ps)) = Socks(ps)
         /\ OneEach(ps) => OneEach(ProxyRecords(ps))
<1>1. Forwards(RuleRecords(rs)) = Forwards(rs)
  <2>1. \A r \in rs : [host |-> r.host, port |-> r.port] \in RuleRecords(rs)
    BY DEF RuleRecords
  <2>2. ASSUME NEW x \in Forwards(rs) PROVE x \in Forwards(RuleRecords(rs))
    <3>1. PICK r \in rs : x = <<"forward", r.host, r.port>>
      BY <2>2 DEF Forwards
    <3> DEFINE d == [host |-> r.host, port |-> r.port]
    <3>2. d \in RuleRecords(rs) /\ x = <<"forward", d.host, d.port>>
      BY <2>1, <3>1
    <3> QED BY <3>2 DEF Forwards
  <2>3. ASSUME NEW x \in Forwards(RuleRecords(rs)) PROVE x \in Forwards(rs)
    <3>1. PICK d \in RuleRecords(rs) : x = <<"forward", d.host, d.port>>
      BY <2>3 DEF Forwards
    <3>2. PICK r \in rs : d = [host |-> r.host, port |-> r.port]
      BY DEF RuleRecords
    <3>3. x = <<"forward", r.host, r.port>>
      BY <3>1, <3>2
    <3> QED BY <3>3 DEF Forwards
  <2> QED BY <2>2, <2>3
<1>2. Socks(ProxyRecords(ps)) = Socks(ps)
  <2>1. \A e \in ps : [host |-> e.host, port |-> e.port, on |-> e.on] \in ProxyRecords(ps)
    BY DEF ProxyRecords
  <2>2. ASSUME NEW x \in Socks(ps) PROVE x \in Socks(ProxyRecords(ps))
    <3>1. PICK e \in ps : x = <<"socks", e.host, e.port>>
      BY <2>2 DEF Socks
    <3> DEFINE d == [host |-> e.host, port |-> e.port, on |-> e.on]
    <3>2. d \in ProxyRecords(ps) /\ x = <<"socks", d.host, d.port>>
      BY <2>1, <3>1
    <3> QED BY <3>2 DEF Socks
  <2>3. ASSUME NEW x \in Socks(ProxyRecords(ps)) PROVE x \in Socks(ps)
    <3>1. PICK d \in ProxyRecords(ps) : x = <<"socks", d.host, d.port>>
      BY <2>3 DEF Socks
    <3>2. PICK e \in ps : d = [host |-> e.host, port |-> e.port, on |-> e.on]
      BY DEF ProxyRecords
    <3>3. x = <<"socks", e.host, e.port>>
      BY <3>1, <3>2
    <3> QED BY <3>3 DEF Socks
  <2> QED BY <2>2, <2>3
<1>3. OneEach(ps) => OneEach(ProxyRecords(ps))
  BY DEF OneEach, ProxyRecords
<1> QED BY <1>1, <1>2, <1>3

LEMMA ManagersAreFew ==
  ASSUME Typed, current # 0
  PROVE  current \in Manager /\ used.managers \in Nat
BY CarriersAssumption DEF Typed, Used, Manager

LEMMA UsedKept ==
  ASSUME NEW u, Used(u), NEW n
  PROVE  /\ Used([u EXCEPT !.servers = n]) /\ [u EXCEPT !.servers = n].managers = u.managers
         /\ Used([u EXCEPT !.landed = n]) /\ [u EXCEPT !.landed = n].managers = u.managers
         /\ Used([u EXCEPT !.trouble = n]) /\ [u EXCEPT !.trouble = n].managers = u.managers
<1>1. PICK a, b, c, d :
        /\ a \in 0 .. MaxManagers
        /\ u = [managers |-> a, servers |-> b, landed |-> c, trouble |-> d]
  BY DEF Used
<1>2. Used([u EXCEPT !.servers = n]) /\ [u EXCEPT !.servers = n].managers = u.managers
  BY <1>1 DEF Used
<1>3. Used([u EXCEPT !.landed = n]) /\ [u EXCEPT !.landed = n].managers = u.managers
  BY <1>1 DEF Used
<1>4. Used([u EXCEPT !.trouble = n]) /\ [u EXCEPT !.trouble = n].managers = u.managers
  BY <1>1 DEF Used
<1> QED BY <1>2, <1>3, <1>4

\* One more set of managers was opened, and servers up to n were started.
OneMore(u, m, n) == [u EXCEPT !.managers = m, !.servers = n]

LEMMA OneMoreHolds ==
  ASSUME NEW u, Used(u), NEW n, NEW m \in 0 .. MaxManagers
  PROVE  Used(OneMore(u, m, n)) /\ OneMore(u, m, n).managers = m
<1>1. PICK a, b, c, d :
        /\ a \in 0 .. MaxManagers
        /\ u = [managers |-> a, servers |-> b, landed |-> c, trouble |-> d]
  BY DEF Used
<1> DEFINE v == OneMore(u, m, n)
           w == [u EXCEPT !.managers = m]
<1>2. v = [w EXCEPT !.servers = n]
  BY DEF OneMore
<1>3. w = [managers |-> m, servers |-> b, landed |-> c, trouble |-> d]
  BY <1>1
<1> HIDE DEF v, w
<1>4. v = [managers |-> m, servers |-> n, landed |-> c, trouble |-> d]
  BY <1>2, <1>3
<1>5. Used(v) /\ v.managers = m
  BY <1>4 DEF Used
<1> QED BY <1>5 DEF v

-----------------------------------------------------------------------------
(* Types *)

LEMMA ServersAreNumbers == \A s \in Server : s \in 0 .. MaxServers
BY CarriersAssumption DEF Server

LEMMA UsedSteps ==
  ASSUME Typed, UNCHANGED <<used, skewed>> \/ (Troubled /\ skewed' = TRUE)
  PROVE  Used(used') /\ used'.managers = used.managers /\ skewed' \in BOOLEAN
<1>1. Used(used) /\ used.managers \in 0 .. MaxManagers /\ skewed \in BOOLEAN
  BY DEF Typed, Used
<1>2. CASE UNCHANGED <<used, skewed>>
  BY <1>1, <1>2
<1>3. CASE Troubled /\ skewed' = TRUE
  BY <1>1, <1>3, UsedKept DEF Troubled
<1> QED BY <1>2, <1>3

\* Cut connections are marked, and nothing else.
LEMMA CutsKept ==
  ASSUME Typed, NEW S
  PROVE  /\ CutAll(S) \in [Conn -> LinkType]
         /\ \A c \in Conn : CutAll(S)[c].at = link[c].at /\ CutAll(S)[c].server = link[c].server
         /\ \A c \in Conn : ~CutAll(S)[c].shut => ~link[c].shut
         /\ \A c \in Conn : link[c].server \in S /\ link[c].at \in {"asks", "dialled", "pipes"}
                            => CutAll(S)[c].shut
<1>1. \A c \in Conn : link[c] \in LinkType
  BY DEF Typed
<1>2. \A c \in Conn : /\ [link[c] EXCEPT !.shut = TRUE] \in LinkType
                      /\ [link[c] EXCEPT !.shut = TRUE].at = link[c].at
                      /\ [link[c] EXCEPT !.shut = TRUE].server = link[c].server
                      /\ [link[c] EXCEPT !.shut = TRUE].shut
  BY <1>1 DEF LinkType
<1>3. CutAll(S) = [c \in Conn |-> CutAll(S)[c]]
  BY DEF CutAll
<1>4. ASSUME NEW c \in Conn
      PROVE  /\ CutAll(S)[c] \in LinkType
             /\ CutAll(S)[c].at = link[c].at /\ CutAll(S)[c].server = link[c].server
             /\ ~CutAll(S)[c].shut => ~link[c].shut
             /\ link[c].server \in S /\ link[c].at \in {"asks", "dialled", "pipes"}
                => CutAll(S)[c].shut
  <2>1. CASE link[c].server \in S /\ link[c].at \in {"asks", "dialled", "pipes"}
    <3>1. CutAll(S)[c] = [link[c] EXCEPT !.shut = TRUE]
      BY <2>1 DEF CutAll
    <3> QED BY <3>1, <1>2
  <2>2. CASE ~(link[c].server \in S /\ link[c].at \in {"asks", "dialled", "pipes"})
    <3>1. CutAll(S)[c] = link[c]
      BY <2>2 DEF CutAll
    <3> QED BY <3>1, <1>1, <2>2
  <2> QED BY <2>1, <2>2
<1>5. CutAll(S) \in [Conn -> LinkType]
  BY <1>3, <1>4
<1> QED BY <1>4, <1>5

LEMMA CutIsCutAll == \A s : Cut(s) = CutAll({s})
BY DEF Cut, CutAll

LEMMA CutsTyped ==
  ASSUME Typed, \/ \E S : link' = CutAll(S)
                \/ \E s : link' = Cut(s)
  PROVE  /\ link' \in [Conn -> LinkType]
         /\ \A c \in Conn : link'[c].at # "none" => link'[c].server \in Server
<1>1. PICK S : link' = CutAll(S)
  BY CutIsCutAll
<1>2. \A c \in Conn : link[c].at # "none" => link[c].server \in Server
  BY DEF Typed
<1> QED BY <1>1, <1>2, CutsKept

LEMMA RequestsTyped ==
  ASSUME Typed, NEW m \in Manager
  PROVE  /\ [set EXCEPT ![m] = NoRequest] \in [Manager -> Request]
         /\ set[m].do \in {"forward", "socks"} => set[m].host \in Peer /\ set[m].port \in Port
BY DEF Typed, Request, NoRequest

LEMMA ServersTyped ==
  ASSUME Typed, NEW s \in Server, NEW p \in Port, NEW e \in {"own", "next"}
  PROVE  /\ [port |-> p, is |-> "serves", entry |-> e] \in ServerType
         /\ Stilled \in ServerType
         /\ Stopped(server, s) \in [Server -> ServerType]
BY DEF Typed, ServerType, Stilled, Stopped

LEMMA StilledType == Stilled \in ServerType
BY DEF ServerType, Stilled

LEMMA AskPortTyped ==
  ASSUME Typed, NEW h \in Peer, NEW p \in Port, NEW do \in {"forward", "socks"},
         AskPort(current, do, h, p)
  PROVE  Typed'
<1>1. current \in Manager
  BY ManagersAreFew DEF AskPort
<1>2. Used(used') /\ used'.managers = used.managers
  BY UsedKept DEF AskPort, Typed, Used
<1>3. set' \in [Manager -> Request]
  BY <1>1 DEF AskPort, Typed, Request
<1> QED BY <1>2, <1>3 DEF AskPort, Typed

LEMMA AddRuleTyped ==
  ASSUME Typed, NEW m \in Manager, AddRule(m)
  PROVE  Typed'
<1> DEFINE new == rules[m] \cup {Rule(set[m].host, set[m].port, TRUE)}
<1>0. set[m].host \in Peer /\ set[m].port \in Port
  BY RequestsTyped DEF AddRule
<1>1. new \in SUBSET RuleType
  <2>1. Rule(set[m].host, set[m].port, TRUE) \in RuleType
    BY <1>0 DEF Rule, RuleType
  <2> QED BY <2>1 DEF Typed
<1>2. rules' = [rules EXCEPT ![m] = new] /\ rulesDisk' = RuleRecords(new)
  BY DEF AddRule
<1> HIDE DEF new
<1>3. rules' \in [Manager -> SUBSET RuleType] /\ rulesDisk' \subseteq RuleRecord
  BY <1>1, <1>2, WrittenTypes DEF Typed
<1>4. set' \in [Manager -> Request] /\ skewed' \in BOOLEAN
  BY RequestsTyped DEF AddRule, Lands, Typed
<1> QED BY <1>3, <1>4 DEF AddRule, Typed

LEMMA FirstOnTyped ==
  ASSUME Typed, NEW m \in Manager, FirstOn(m)
  PROVE  Typed'
<1> DEFINE s == used.servers + 1
           e == Proxy(set[m].host, set[m].port, TRUE, s)
<1>1. s \in Server /\ s \in 0 .. MaxServers /\ used' = [used EXCEPT !.servers = s]
  BY ServersAreNumbers DEF FirstOn, Starts
<1>2. set[m].host \in Peer /\ set[m].port \in Port
  BY RequestsTyped DEF FirstOn
<1>3. /\ proxies' = [proxies EXCEPT ![m] = @ \cup {e}]
      /\ proxiesDisk' = ProxyRecords(proxies[m] \cup {e})
      /\ server' = [server EXCEPT ![s] = [port |-> set[m].port, is |-> "serves", entry |-> "own"]]
  BY DEF FirstOn
<1>4. e \in ProxyType
  BY <1>1, <1>2, MadeTypes
<1> HIDE DEF s, e
<1>5. Used(used') /\ used'.managers = used.managers
  BY <1>1, UsedKept DEF Typed, Used
<1>6. proxies[m] \cup {e} \in SUBSET ProxyType
  BY <1>4 DEF Typed
<1>7. proxies' \in [Manager -> SUBSET ProxyType] /\ proxiesDisk' \subseteq ProxyRecord
  BY <1>3, <1>6, WrittenTypes DEF Typed
<1>8. server' \in [Server -> ServerType]
  BY <1>1, <1>2, <1>3, ServersTyped DEF Typed
<1>9. set' \in [Manager -> Request] /\ skewed' \in BOOLEAN
  BY RequestsTyped DEF FirstOn, Lands, Typed
<1> QED BY <1>5, <1>7, <1>8, <1>9 DEF FirstOn, Typed

LEMMA FirstOnUnsavedTyped ==
  ASSUME Typed, NEW m \in Manager, FirstOnUnsaved(m)
  PROVE  Typed'
<1> DEFINE e == Proxy(set[m].host, set[m].port, FALSE, 0)
<1>1. set[m].host \in Peer /\ set[m].port \in Port
  BY RequestsTyped DEF FirstOnUnsaved
<1>2. 0 \in 0 .. MaxServers
  BY CarriersAssumption
<1>3. e \in ProxyType
  BY <1>1, <1>2, MadeTypes
<1>4. proxiesDisk' \in {proxiesDisk, ProxyRecords(proxies[m] \cup {e})}
  BY DEF FirstOnUnsaved
<1> HIDE DEF e
<1>5. proxies[m] \cup {e} \in SUBSET ProxyType
  BY <1>3 DEF Typed
<1>6. proxiesDisk' \subseteq ProxyRecord
  BY <1>4, <1>5, WrittenTypes DEF Typed
<1>7. Used(used') /\ used'.managers = used.managers
  BY UsedKept DEF FirstOnUnsaved, Troubled, Typed, Used
<1>8. set' \in [Manager -> Request] /\ skewed' \in BOOLEAN
  BY RequestsTyped DEF FirstOnUnsaved, Lands, Typed
<1> QED BY <1>6, <1>7, <1>8 DEF FirstOnUnsaved, Typed

LEMMA OnAgainTyped ==
  ASSUME Typed, NEW m \in Manager, OnAgain(m)
  PROVE  Typed'
<1> DEFINE s == used.servers + 1
           h == set[m].host
           p == set[m].port
           New(e) == (proxies[m] \ {e}) \cup {Proxy(h, p, TRUE, s)}
<1>1. s \in Server /\ s \in 0 .. MaxServers /\ used' = [used EXCEPT !.servers = s]
  BY ServersAreNumbers DEF OnAgain, Starts
<1>2. h \in Peer /\ p \in Port
  BY RequestsTyped DEF OnAgain
<1>3. PICK e \in proxies[m] :
        /\ proxies' = [proxies EXCEPT ![m] = New(e)]
        /\ proxiesDisk' = ProxyRecords(New(e))
        /\ server' = [t \in Server |->
             IF t = s THEN [port |-> p, is |-> "serves", entry |-> "next"]
             ELSE IF t = e.server THEN Stilled ELSE server[t]]
        /\ link' = Cut(e.server)
  BY DEF OnAgain
<1>4. Proxy(h, p, TRUE, s) \in ProxyType
  BY <1>1, <1>2, MadeTypes
<1>5. New(e) \in SUBSET ProxyType
  BY <1>4 DEF Typed
<1> HIDE DEF s, h, p, New
<1>6. Used(used') /\ used'.managers = used.managers
  BY <1>1, UsedKept DEF Typed, Used
<1>7. proxies' \in [Manager -> SUBSET ProxyType] /\ proxiesDisk' \subseteq ProxyRecord
  BY <1>3, <1>5, WrittenTypes DEF Typed
<1>8. server' \in [Server -> ServerType]
  <2>1. [port |-> p, is |-> "serves", entry |-> "next"] \in ServerType
    BY <1>2 DEF ServerType
  <2> QED BY <2>1, <1>3, StilledType DEF Typed
<1>9. /\ link' \in [Conn -> LinkType]
      /\ \A c \in Conn : link'[c].at # "none" => link'[c].server \in Server
  BY <1>3, CutsTyped
<1>10. set' \in [Manager -> Request] /\ skewed' \in BOOLEAN
  BY RequestsTyped DEF OnAgain, Lands, Typed
<1> QED BY <1>6, <1>7, <1>8, <1>9, <1>10 DEF OnAgain, Typed

LEMMA RemoveRuleTyped ==
  ASSUME Typed, current # 0, NEW r \in rules[current], RemoveRule(current, r)
  PROVE  Typed'
<1>1. current \in Manager
  BY ManagersAreFew
<1>2. rules[current] \ {r} \in SUBSET RuleType
  BY <1>1 DEF Typed
<1>3. rules' \in [Manager -> SUBSET RuleType]
  BY <1>1, <1>2 DEF RemoveRule, Typed
<1>4. rulesDisk' \subseteq RuleRecord
  BY <1>2, WrittenTypes DEF RemoveRule, Typed
<1>5. Used(used') /\ used'.managers = used.managers /\ skewed' \in BOOLEAN
  BY UsedSteps DEF RemoveRule, Typed
<1> QED BY <1>3, <1>4, <1>5 DEF RemoveRule, Typed

\* An entry after off, and after its listener was stopped.
Dark(e) == Proxy(e.host, e.port, FALSE, 0)

LEMMA DarkType ==
  \A e \in ProxyType : /\ Dark(e) \in ProxyType /\ Dark(e).server = 0
                       /\ Dark(e).host = e.host /\ Dark(e).port = e.port
BY CarriersAssumption DEF Dark, Proxy, ProxyType

LEMMA OffTyped ==
  ASSUME Typed, current # 0, NEW e \in proxies[current], Off(current, e)
  PROVE  Typed'
<1> DEFINE off == IF e.server # 0 THEN Dark(e) ELSE e
           new == (proxies[current] \ {e}) \cup {off}
<1>1. current \in Manager
  BY ManagersAreFew
<1>2. e \in ProxyType /\ off \in ProxyType
  BY <1>1, DarkType DEF Typed
<1>3. new \in SUBSET ProxyType
  BY <1>1, <1>2 DEF Typed
<1>4. /\ proxies' = [proxies EXCEPT ![current] = new]
      /\ proxiesDisk' \in {proxiesDisk, ProxyRecords(new)}
  BY DEF Off, Dark
<1> HIDE DEF new, off
<1>5. proxies' \in [Manager -> SUBSET ProxyType] /\ proxiesDisk' \subseteq ProxyRecord
  BY <1>1, <1>3, <1>4, WrittenTypes DEF Typed
<1>6. server' \in [Server -> ServerType]
  <2>1. e.server # 0 => e.server \in Server
    BY <1>2, CarriersAssumption DEF ProxyType, Server
  <2>2. CASE e.server # 0
    BY <2>1, <2>2, StilledType DEF Off, Stopped, Typed
  <2>3. CASE e.server = 0
    BY <2>3 DEF Off, Typed
  <2> QED BY <2>2, <2>3
<1>7. /\ link' \in [Conn -> LinkType]
      /\ \A c \in Conn : link'[c].at # "none" => link'[c].server \in Server
  BY CutsTyped DEF Off
<1>8. Used(used') /\ used'.managers = used.managers /\ skewed' \in BOOLEAN
  BY UsedSteps DEF Off, Typed
<1> QED BY <1>5, <1>6, <1>7, <1>8 DEF Off, Typed

LEMMA RuleFailsTyped ==
  ASSUME Typed, NEW m \in Manager, NEW r \in rules[m], RuleFails(m, r)
  PROVE  Typed'
<1>1. r \in RuleType
  BY DEF Typed
<1>a. [r EXCEPT !.up = FALSE] \in RuleType
  BY <1>1 DEF RuleType
<1>2. (rules[m] \ {r}) \cup {[r EXCEPT !.up = FALSE]} \in SUBSET RuleType
  BY <1>a DEF Typed
<1>3. rules' \in [Manager -> SUBSET RuleType]
  BY <1>2 DEF RuleFails, Typed
<1>4. Used(used') /\ used'.managers = used.managers
  BY UsedKept DEF RuleFails, Troubled, Typed, Used
<1> QED BY <1>3, <1>4 DEF RuleFails, Typed

\* What a server that fails leaves of the entries, and what the close of managers does.
Darkened(ps, S) == {IF e.server \in S THEN Dark(e) ELSE e : e \in ps}

LEMMA DarkenedTypes ==
  ASSUME NEW ps \in SUBSET ProxyType, NEW S
  PROVE  Darkened(ps, S) \in SUBSET ProxyType
<1>1. \A e \in ps : Dark(e) \in ProxyType /\ e \in ProxyType
  BY DarkType
<1> QED BY <1>1 DEF Darkened

LEMMA ServerFailsTyped ==
  ASSUME Typed, NEW s \in Server, ServerFails(s)
  PROVE  Typed'
<1>1. server' \in [Server -> ServerType]
  BY StilledType DEF ServerFails, Stopped, Typed
<1>2. /\ link' \in [Conn -> LinkType]
      /\ \A c \in Conn : link'[c].at # "none" => link'[c].server \in Server
  BY CutsTyped DEF ServerFails
<1>3. proxies' \in [Manager -> SUBSET ProxyType]
  <2>1. CASE server[s].entry = "next"
    BY <2>1 DEF ServerFails, Typed
  <2>2. CASE server[s].entry # "next"
    <3>1. proxies' = [m \in Manager |-> Darkened(proxies[m], {s})]
      <4>1. \A e : e.server \in {s} <=> e.server = s
        OBVIOUS
      <4> QED BY <2>2, <4>1 DEF ServerFails, Darkened, Dark
    <3> QED BY <3>1, DarkenedTypes DEF Typed
  <2> QED BY <2>1, <2>2
<1>4. Used(used') /\ used'.managers = used.managers
  BY UsedKept DEF ServerFails, Troubled, Typed, Used
<1> QED BY <1>1, <1>2, <1>3, <1>4 DEF ServerFails, Typed

LEMMA CascadeTyped ==
  ASSUME Typed, NEW h \in Peer, Cascade(h)
  PROVE  Typed'
<1> DEFINE rs == {r \in rules[current] : r.host # h}
           ps == proxies[current] \ {e \in proxies[current] : e.host = h}
<1>1. current \in Manager
  BY ManagersAreFew DEF Cascade
<1>2. rs \in SUBSET RuleType /\ ps \in SUBSET ProxyType
  BY <1>1 DEF Typed
<1>3. rules' = [rules EXCEPT ![current] = rs] /\ proxies' = [proxies EXCEPT ![current] = ps]
  BY DEF Cascade
<1>4. rules'[current] = rs /\ proxies'[current] = ps
  BY <1>1, <1>3 DEF Typed
<1>5. /\ rulesDisk' \in {rulesDisk, RuleRecords(rs)}
      /\ proxiesDisk' \in {proxiesDisk, ProxyRecords(ps)}
  BY <1>4 DEF Cascade
<1> HIDE DEF rs, ps
<1>6. /\ rules' \in [Manager -> SUBSET RuleType] /\ proxies' \in [Manager -> SUBSET ProxyType]
      /\ rulesDisk' \subseteq RuleRecord /\ proxiesDisk' \subseteq ProxyRecord
  BY <1>1, <1>2, <1>3, <1>5, WrittenTypes DEF Typed
<1>7. server' \in [Server -> ServerType]
  BY StilledType DEF Cascade, Typed
<1>8. /\ link' \in [Conn -> LinkType]
      /\ \A c \in Conn : link'[c].at # "none" => link'[c].server \in Server
  BY CutsTyped DEF Cascade
<1>9. Used(used') /\ used'.managers = used.managers /\ skewed' \in BOOLEAN
  BY UsedSteps DEF Cascade, Typed
<1> QED BY <1>6, <1>7, <1>8, <1>9 DEF Cascade, Typed

LEMMA CloseManagersTyped ==
  ASSUME Typed, CloseManagers
  PROVE  Typed'
<1>1. current \in Manager /\ used.managers \in Nat
  BY ManagersAreFew DEF CloseManagers
<1>2. rules' \in [Manager -> SUBSET RuleType]
  <2>1. \A r \in RuleType : [r EXCEPT !.up = FALSE] \in RuleType
    BY DEF RuleType
  <2>2. {[r EXCEPT !.up = FALSE] : r \in rules[current]} \in SUBSET RuleType
    BY <1>1, <2>1 DEF Typed
  <2> QED BY <2>2 DEF CloseManagers, Typed
<1>3. proxies' \in [Manager -> SUBSET ProxyType]
  <2>1. {IF e.server # 0 THEN Proxy(e.host, e.port, FALSE, 0) ELSE e : e \in proxies[current]}
          \in SUBSET ProxyType
    <3>1. \A e \in proxies[current] : Dark(e) \in ProxyType /\ e \in ProxyType
      BY <1>1, DarkType DEF Typed
    <3> QED BY <3>1 DEF Dark
  <2> QED BY <2>1 DEF CloseManagers, Typed
<1>4. server' \in [Server -> ServerType]
  BY StilledType DEF CloseManagers, Typed
<1>5. /\ link' \in [Conn -> LinkType]
      /\ \A c \in Conn : link'[c].at # "none" => link'[c].server \in Server
  BY CutsTyped DEF CloseManagers
<1>6. current' \in 0 .. used'.managers /\ Used(used')
  BY <1>1 DEF CloseManagers, Typed
<1> QED BY <1>2, <1>3, <1>4, <1>5, <1>6 DEF CloseManagers, Typed

LEMMA CarriersDieTyped ==
  ASSUME Typed, CarriersDie
  PROVE  Typed'
<1>1. NoLink \in LinkType /\ NoLink.at = "none"
  BY CarriersAssumption DEF NoLink, LinkType
<1>2. server' \in [Server -> ServerType]
  BY StilledType DEF CarriersDie, Typed
<1>3. used.managers \in Nat
  BY DEF Typed, Used
<1> QED BY <1>1, <1>2, <1>3 DEF CarriersDie, Typed, Request

\* What OpenManagers does, with the entries it starts (on) and their servers by name.
Opens(m, taken, on, started, number) ==
  /\ proxies' = [proxies EXCEPT ![m] =
       {Proxy(e.host, e.port, e.on, IF e \in on THEN number[e] ELSE 0) : e \in proxiesDisk}]
  /\ server' = [s \in Server |->
       IF s \in started
       THEN [port |-> (CHOOSE e \in on : number[e] = s).port, is |-> "serves", entry |-> "own"]
       ELSE server[s]]
  /\ rules' = [rules EXCEPT ![m] =
       {Rule(r.host, r.port, r.port \notin Listening \cup taken) : r \in rulesDisk}]

LEMMA OpensSome ==
  ASSUME OpenManagers
  PROVE  LET m == used.managers + 1 IN
         \E taken \in SUBSET Port, on \in SUBSET proxiesDisk, started \in SUBSET Server :
           /\ \E number \in Bijection(on, started) : Opens(m, taken, on, started, number)
           /\ \E n : used' = OneMore(used, m, n)
<1> DEFINE m == used.managers + 1
           On(taken) == {e \in proxiesDisk : e.on /\ e.port \notin Listening \cup taken
                                             /\ \A r \in rulesDisk : r.port # e.port}
           Started(taken) == used.servers + 1 .. used.servers + Cardinality(On(taken))
<1>1. PICK taken \in SUBSET Port :
        /\ Started(taken) \subseteq Server
        /\ \E number \in Bijection(On(taken), Started(taken)) :
             /\ proxies' = [proxies EXCEPT ![m] =
                  {Proxy(e.host, e.port, e.on, IF e \in On(taken) THEN number[e] ELSE 0) :
                     e \in proxiesDisk}]
             /\ server' = [s \in Server |->
                  IF s \in Started(taken)
                  THEN [port |-> (CHOOSE e \in On(taken) : number[e] = s).port, is |-> "serves",
                        entry |-> "own"]
                  ELSE server[s]]
        /\ rules' = [rules EXCEPT ![m] =
             {Rule(r.host, r.port, r.port \notin Listening \cup taken) : r \in rulesDisk}]
        /\ used' = [used EXCEPT !.managers = m, !.servers = @ + Cardinality(On(taken))]
  BY DEF OpenManagers
<1>2. On(taken) \in SUBSET proxiesDisk /\ Started(taken) \in SUBSET Server
  BY <1>1
<1> HIDE DEF m, On, Started
<1>3. \E number \in Bijection(On(taken), Started(taken)) :
        Opens(m, taken, On(taken), Started(taken), number)
  BY <1>1 DEF Opens
<1>4. \E n : used' = OneMore(used, m, n)
  BY <1>1 DEF OneMore
<1> QED BY <1>2, <1>3, <1>4 DEF m

LEMMA OpenManagersTyped ==
  ASSUME Typed, OpenManagers
  PROVE  Typed'
<1> DEFINE m == used.managers + 1
<1>1. m \in Manager /\ m \in 0 .. MaxManagers /\ m \in Nat
  BY CarriersAssumption DEF OpenManagers, Manager
<1>0. PICK taken \in SUBSET Port, on \in SUBSET proxiesDisk, started \in SUBSET Server :
        /\ \E number \in Bijection(on, started) : Opens(m, taken, on, started, number)
        /\ \E n : used' = OneMore(used, m, n)
  BY OpensSome
<1>2. PICK number \in Bijection(on, started) : Opens(m, taken, on, started, number)
  BY <1>0
<1>b. PICK n : used' = OneMore(used, m, n)
  BY <1>0
<1> HIDE DEF m
<1>3. Used(used') /\ used'.managers = m
  <2>1. Used(used)
    BY DEF Typed
  <2>2. Used(OneMore(used, m, n)) /\ OneMore(used, m, n).managers = m
    BY <1>1, <2>1, OneMoreHolds
  <2> QED BY <1>b, <2>2
<1>4. rules' \in [Manager -> SUBSET RuleType]
  <2>1. \A r \in rulesDisk : r.host \in Peer /\ r.port \in Port
    BY DEF Typed, RuleRecord
  <2>2. \A r \in rulesDisk : Rule(r.host, r.port, r.port \notin Listening \cup taken) \in RuleType
    BY <2>1 DEF Rule, RuleType
  <2>3. {Rule(r.host, r.port, r.port \notin Listening \cup taken) : r \in rulesDisk} \in SUBSET RuleType
    BY <2>2
  <2> QED BY <1>1, <1>2, <2>3 DEF Typed, Opens
<1>5. number \in [on -> started] /\ \A s \in started : \E e \in on : number[e] = s
  BY DEF Bijection, Injection, Surjection
<1>6. proxies' \in [Manager -> SUBSET ProxyType]
  <2>1. \A e \in proxiesDisk : e.host \in Peer /\ e.port \in Port /\ e.on \in BOOLEAN
    BY DEF Typed, ProxyRecord
  <2>2. \A e \in on : number[e] \in 0 .. MaxServers
    BY <1>5, ServersAreNumbers
  <2>3. 0 \in 0 .. MaxServers
    BY CarriersAssumption
  <2>4. \A e \in proxiesDisk :
          Proxy(e.host, e.port, e.on, IF e \in on THEN number[e] ELSE 0) \in ProxyType
    BY <2>1, <2>2, <2>3, MadeTypes
  <2> QED BY <1>1, <1>2, <2>4 DEF Typed, Opens
<1>7. server' \in [Server -> ServerType]
  <2>1. \A e \in proxiesDisk : e.port \in Port
    BY DEF Typed, ProxyRecord
  <2>2. ASSUME NEW s \in started
        PROVE  [port |-> (CHOOSE e \in on : number[e] = s).port, is |-> "serves", entry |-> "own"]
                 \in ServerType
    <3>1. (CHOOSE e \in on : number[e] = s) \in on
      BY <1>5
    <3> QED BY <2>1, <3>1 DEF ServerType
  <2> QED BY <1>2, <2>2 DEF Typed, Opens
<1>8. current' \in 0 .. used'.managers
  BY <1>1, <1>3 DEF OpenManagers, m
<1> QED BY <1>3, <1>4, <1>6, <1>7, <1>8 DEF OpenManagers, Typed

LEMMA LinkStepTyped ==
  ASSUME Typed, NEW c \in Conn,
         Registers(c) \/ Dials(c) \/ Pipes(c) \/ Hangs(c) \/ \E s \in Server : Accepts(c, s)
  PROVE  Typed'
<1>1. LinkOnly
  BY DEF Registers, Dials, Pipes, Hangs, Accepts
<1>2. \E l \in LinkType : /\ link' = [link EXCEPT ![c] = l]
                          /\ l.at # "none" => l.server \in Server
  <2>1. link[c] \in LinkType /\ (link[c].at # "none" => link[c].server \in Server)
    BY DEF Typed
  <2>2. \A a \in {"asks", "dialled", "pipes"} :
          /\ [link[c] EXCEPT !.at = a] \in LinkType
          /\ [link[c] EXCEPT !.at = a].server = link[c].server
    BY <2>1 DEF LinkType
  <2>3. CASE Registers(c)
    BY <2>1, <2>2, <2>3 DEF Registers, Links
  <2>4. CASE Dials(c)
    BY <2>1, <2>2, <2>4 DEF Dials, Links
  <2>5. CASE Pipes(c)
    BY <2>1, <2>2, <2>5 DEF Pipes, Links
  <2>6. CASE Hangs(c)
    <3>1. NoLink \in LinkType /\ NoLink.at = "none"
      BY CarriersAssumption DEF NoLink, LinkType
    <3> QED BY <2>6, <3>1 DEF Hangs
  <2>7. CASE \E s \in Server : Accepts(c, s)
    <3>1. PICK s \in Server : Accepts(c, s)
      BY <2>7
    <3> DEFINE l == [server |-> s, at |-> "accepted", shut |-> FALSE]
    <3>2. l \in LinkType /\ l.server \in Server
      BY ServersAreNumbers DEF LinkType
    <3> QED BY <3>1, <3>2 DEF Accepts
  <2> QED BY <2>3, <2>4, <2>5, <2>6, <2>7
<1> QED BY <1>1, <1>2 DEF LinkOnly, Typed

LEMMA TypedKept ==
  ASSUME Typed, CarriersNext
  PROVE  Typed'
<1>1. CASE \E h \in Peer, p \in Port, do \in {"forward", "socks"} : AskPort(current, do, h, p)
  BY <1>1, AskPortTyped
<1>2. CASE \E m \in Manager : PortRefused(m) \/ StillOn(m)
  BY <1>2, RequestsTyped DEF PortRefused, StillOn, Lands, Typed
<1>3. CASE \E m \in Manager : AddRule(m)
  BY <1>3, AddRuleTyped
<1>4. CASE \E m \in Manager : FirstOn(m)
  BY <1>4, FirstOnTyped
<1>5. CASE \E m \in Manager : FirstOnUnsaved(m)
  BY <1>5, FirstOnUnsavedTyped
<1>6. CASE \E m \in Manager : OnAgain(m)
  BY <1>6, OnAgainTyped
<1>7. CASE \E m \in Manager : \E r \in rules[m] : RuleFails(m, r)
  BY <1>7, RuleFailsTyped
<1>8. CASE current # 0 /\ \E r \in rules[current] : RemoveRule(current, r)
  BY <1>8, RemoveRuleTyped
<1>9. CASE current # 0 /\ \E e \in proxies[current] : Off(current, e)
  BY <1>9, OffTyped
<1>10. CASE \E s \in Server : ServerFails(s)
  BY <1>10, ServerFailsTyped
<1>11. CASE \E h \in Peer : HostComes(h)
  <2>1. Used(used') /\ used'.managers = used.managers
    <3>1. Used(used)
      BY DEF Typed
    <3>2. used' = [used EXCEPT !.landed = used.landed + 1]
      BY <1>11 DEF HostComes
    <3> QED BY <3>1, <3>2, UsedKept
  <2> QED BY <1>11, <2>1 DEF HostComes, Typed
<1>12. CASE \E h \in Peer : HostGoes(h) \/ CascadeSkipped(h)
  BY <1>12 DEF HostGoes, CascadeSkipped, Typed
<1>13. CASE \E h \in Peer : Cascade(h)
  BY <1>13, CascadeTyped
<1>14. CASE OpenManagers
  BY <1>14, OpenManagersTyped
<1>15. CASE CloseManagers
  BY <1>15, CloseManagersTyped
<1>16. CASE CarriersDie
  BY <1>16, CarriersDieTyped
<1>17. CASE \E c \in Conn : Registers(c) \/ Dials(c) \/ Pipes(c) \/ Hangs(c)
                            \/ \E s \in Server : Accepts(c, s)
  BY <1>17, LinkStepTyped
<1> QED BY <1>1, <1>2, <1>3, <1>4, <1>5, <1>6, <1>7, <1>8, <1>9, <1>10, <1>11, <1>12, <1>13,
           <1>14, <1>15, <1>16, <1>17 DEF CarriersNext, Lander

-----------------------------------------------------------------------------
(* One entry to a host *)

LEMMA OneEachMoves ==
  ASSUME NEW ps, OneEach(ps), NEW x
  PROVE  /\ (\A e \in ps : e.host # x.host) => OneEach(ps \cup {x})
         /\ \A e \in ps : x.host = e.host => OneEach((ps \ {e}) \cup {x})
         /\ \A qs \in SUBSET ps : OneEach(qs)
BY DEF OneEach

LEMMA OneEachDarkened ==
  ASSUME NEW ps \in SUBSET ProxyType, OneEach(ps), NEW S
  PROVE  OneEach(Darkened(ps, S))
<1>1. ASSUME NEW a \in Darkened(ps, S), NEW b \in Darkened(ps, S), a.host = b.host
      PROVE  a = b
  <2>1. PICK e \in ps : a = (IF e.server \in S THEN Dark(e) ELSE e)
    BY DEF Darkened
  <2>2. PICK d \in ps : b = (IF d.server \in S THEN Dark(d) ELSE d)
    BY DEF Darkened
  <2>3. a.host = e.host /\ b.host = d.host
    BY <2>1, <2>2, DarkType
  <2>4. e = d
    BY <1>1, <2>3 DEF OneEach
  <2> QED BY <2>1, <2>2, <2>4
<1> QED BY <1>1 DEF OneEach

\* The steps that leave the tables, the files, the servers and the connections alone.
Elsewhere ==
  \/ \E h \in Peer, p \in Port, do \in {"forward", "socks"} : AskPort(current, do, h, p)
  \/ \E m \in Manager : PortRefused(m) \/ StillOn(m)
  \/ \E h \in Peer : HostComes(h) \/ HostGoes(h) \/ CascadeSkipped(h)

LinkSteps ==
  \E c \in Conn : Registers(c) \/ Dials(c) \/ Pipes(c) \/ Hangs(c) \/ \E s \in Server : Accepts(c, s)

LEMMA ElsewhereLeaves ==
  ASSUME Elsewhere
  PROVE  UNCHANGED <<current, rules, proxies, rulesDisk, proxiesDisk, server, link>>
BY DEF Elsewhere, AskPort, PortRefused, StillOn, HostComes, HostGoes, CascadeSkipped

LEMMA LinkStepsLeave ==
  ASSUME LinkSteps
  PROVE  LinkOnly
BY DEF LinkSteps, Registers, Dials, Pipes, Hangs, Accepts

\* What a request, an off, the removal of a host and the ends of managers do to the
\* entries of one set of managers.
LEMMA EntriesAfter ==
  ASSUME Typed
  PROVE  /\ \A m \in Manager : FirstOn(m) =>
              /\ proxies'[m] = proxies[m] \cup {Proxy(set[m].host, set[m].port, TRUE, used.servers + 1)}
              /\ \A n \in Manager : n # m => proxies'[n] = proxies[n]
         /\ \A m \in Manager : OnAgain(m) => \E e \in proxies[m] :
              /\ e.host = set[m].host
              /\ proxies'[m] = (proxies[m] \ {e})
                                 \cup {Proxy(set[m].host, set[m].port, TRUE, used.servers + 1)}
              /\ \A n \in Manager : n # m => proxies'[n] = proxies[n]
<1>1. proxies \in [Manager -> SUBSET ProxyType]
  BY DEF Typed
<1>2. ASSUME NEW m \in Manager, NEW ps, proxies' = [proxies EXCEPT ![m] = ps]
      PROVE  proxies'[m] = ps /\ \A n \in Manager : n # m => proxies'[n] = proxies[n]
  BY <1>1, <1>2
<1>3. ASSUME NEW m \in Manager, FirstOn(m)
      PROVE  /\ proxies'[m] = proxies[m] \cup {Proxy(set[m].host, set[m].port, TRUE, used.servers + 1)}
             /\ \A n \in Manager : n # m => proxies'[n] = proxies[n]
  BY <1>2, <1>3 DEF FirstOn
<1>4. ASSUME NEW m \in Manager, OnAgain(m)
      PROVE  \E e \in proxies[m] :
               /\ e.host = set[m].host
               /\ proxies'[m] = (proxies[m] \ {e})
                                  \cup {Proxy(set[m].host, set[m].port, TRUE, used.servers + 1)}
               /\ \A n \in Manager : n # m => proxies'[n] = proxies[n]
  <2>1. PICK e \in proxies[m] :
          /\ e.host = set[m].host
          /\ proxies' = [proxies EXCEPT ![m] =
               (proxies[m] \ {e}) \cup {Proxy(set[m].host, set[m].port, TRUE, used.servers + 1)}]
    BY <1>4 DEF OnAgain
  <2> QED BY <1>2, <2>1
<1> QED BY <1>3, <1>4

LEMMA OffAfter ==
  ASSUME Typed, current # 0, NEW e \in proxies[current], Off(current, e)
  PROVE  \E x \in ProxyType :
           /\ x.host = e.host /\ x.port = e.port
           /\ x = e \/ (x.server = 0 /\ e.server # 0)
           /\ e.server = 0 => x = e
           /\ proxies'[current] = (proxies[current] \ {e}) \cup {x}
           /\ \A n \in Manager : n # current => proxies'[n] = proxies[n]
           /\ \/ proxiesDisk' = ProxyRecords(proxies'[current]) /\ skewed' = skewed
              \/ proxiesDisk' = proxiesDisk /\ skewed'
<1>1. current \in Manager /\ proxies \in [Manager -> SUBSET ProxyType]
  BY ManagersAreFew DEF Typed
<1> DEFINE x == IF e.server # 0 THEN Dark(e) ELSE e
<1>2. e \in ProxyType
  BY <1>1
<1>3. x \in ProxyType /\ x.host = e.host /\ x.port = e.port /\ (x = e \/ (x.server = 0 /\ e.server # 0))
      /\ (e.server = 0 => x = e)
  BY <1>2, DarkType
<1>4. /\ proxies' = [proxies EXCEPT ![current] = (proxies[current] \ {e}) \cup {x}]
      /\ \/ proxiesDisk' = ProxyRecords((proxies[current] \ {e}) \cup {x}) /\ skewed' = skewed
         \/ proxiesDisk' = proxiesDisk /\ skewed' = TRUE
  BY DEF Off, Dark
<1> HIDE DEF x
<1>5. /\ proxies'[current] = (proxies[current] \ {e}) \cup {x}
      /\ \A n \in Manager : n # current => proxies'[n] = proxies[n]
  BY <1>1, <1>4
<1> QED BY <1>3, <1>4, <1>5

LEMMA ServerFailsAfter ==
  ASSUME Typed, NEW s \in Server, ServerFails(s)
  PROVE  \/ proxies' = proxies
         \/ \A m \in Manager : proxies'[m] = Darkened(proxies[m], {s})
<1>1. \A e : e.server \in {s} <=> e.server = s
  OBVIOUS
<1> QED BY <1>1 DEF ServerFails, Darkened, Dark

LEMMA CascadeAfter ==
  ASSUME Typed, NEW h \in Peer, Cascade(h)
  PROVE  LET gone == {e \in proxies[current] : e.host = h} IN
         /\ current \in Manager
         /\ rules'[current] = {r \in rules[current] : r.host # h}
         /\ proxies'[current] = proxies[current] \ gone
         /\ \A n \in Manager : n # current => proxies'[n] = proxies[n]
         /\ \/ /\ rulesDisk' = RuleRecords(rules'[current])
               /\ proxiesDisk' = ProxyRecords(proxies'[current])
               /\ skewed' = skewed
            \/ skewed' /\ proxiesDisk' \in {proxiesDisk, ProxyRecords(proxies'[current])}
<1>1. current \in Manager
  BY ManagersAreFew DEF Cascade
<1>2. rules \in [Manager -> SUBSET RuleType] /\ proxies \in [Manager -> SUBSET ProxyType]
  BY DEF Typed
<1> QED BY <1>1, <1>2 DEF Cascade

LEMMA CloseAfter ==
  ASSUME Typed, CloseManagers
  PROVE  /\ current \in Manager
         /\ \/ proxies'[current] = {}
            \/ proxies'[current] = Darkened(proxies[current], 1 .. MaxServers)
         /\ \A n \in Manager : n # current => proxies'[n] = proxies[n]
<1>1. current \in Manager
  BY ManagersAreFew DEF CloseManagers
<1>2. proxies \in [Manager -> SUBSET ProxyType]
  BY DEF Typed
<1>3. \A e \in proxies[current] : e.server # 0 <=> e.server \in 1 .. MaxServers
  BY <1>1, <1>2, CarriersAssumption DEF ProxyType
<1>4. {IF e.server # 0 THEN Proxy(e.host, e.port, FALSE, 0) ELSE e : e \in proxies[current]}
        = Darkened(proxies[current], 1 .. MaxServers)
  BY <1>3 DEF Darkened, Dark
<1> QED BY <1>1, <1>2, <1>4 DEF CloseManagers

\* A file read back gives each host the entry of its record, and the ports it says.
LEMMA OpenAfter ==
  ASSUME Typed, OpenManagers
  PROVE  LET m == used.managers + 1 IN
         /\ m \in Manager /\ current' = m /\ current = 0 /\ used'.managers = m
         /\ OneEach(proxiesDisk) => OneEach(proxies'[m])
         /\ Socks(proxies'[m]) = Socks(proxiesDisk) /\ Forwards(rules'[m]) = Forwards(rulesDisk)
         /\ \A s \in Server : server[s].is = "serves" => server'[s].is = "serves"
         /\ \A s \in Server : server'[s].is = "serves" =>
              server[s].is = "serves" \/ \E e \in proxies'[m] : e.server = s
         /\ \A n \in Manager : n # m => proxies'[n] = proxies[n]
<1> DEFINE m == used.managers + 1
<1>1. m \in Manager /\ m \in 0 .. MaxManagers /\ current' = m /\ current = 0
  BY CarriersAssumption DEF OpenManagers, Manager
<1>2. PICK taken \in SUBSET Port, on \in SUBSET proxiesDisk, started \in SUBSET Server :
        /\ \E number \in Bijection(on, started) : Opens(m, taken, on, started, number)
        /\ \E n : used' = OneMore(used, m, n)
  BY OpensSome
<1>3. PICK number \in Bijection(on, started) : Opens(m, taken, on, started, number)
  BY <1>2
<1>4. number \in [on -> started] /\ \A s \in started : \E e \in on : number[e] = s
  BY DEF Bijection, Injection, Surjection
<1> DEFINE Reopened(d) == Proxy(d.host, d.port, d.on, IF d \in on THEN number[d] ELSE 0)
           Ruled(r) == Rule(r.host, r.port, r.port \notin Listening \cup taken)
<1>5. \A d : /\ Reopened(d).host = d.host /\ Reopened(d).port = d.port
             /\ d \in on => Reopened(d).server = number[d]
             /\ Ruled(d).host = d.host /\ Ruled(d).port = d.port
  BY DEF Proxy, Rule
<1>6. /\ proxies' = [proxies EXCEPT ![m] = {Reopened(d) : d \in proxiesDisk}]
      /\ rules' = [rules EXCEPT ![m] = {Ruled(r) : r \in rulesDisk}]
  BY <1>3 DEF Opens
<1> HIDE DEF m, Reopened, Ruled
<1>7. /\ proxies'[m] = {Reopened(d) : d \in proxiesDisk}
      /\ rules'[m] = {Ruled(r) : r \in rulesDisk}
      /\ \A n \in Manager : n # m => proxies'[n] = proxies[n]
  BY <1>1, <1>6 DEF Typed
<1>8. used'.managers = m
  <2>1. Used(used)
    BY DEF Typed
  <2>2. PICK n : used' = OneMore(used, m, n)
    BY <1>2
  <2>3. OneMore(used, m, n).managers = m
    BY <1>1, <2>1, OneMoreHolds
  <2> QED BY <2>2, <2>3
<1>9. OneEach(proxiesDisk) => OneEach(proxies'[m])
  BY <1>5, <1>7 DEF OneEach
<1>10. Socks(proxies'[m]) = Socks(proxiesDisk)
  <2>1. ASSUME NEW x \in Socks(proxiesDisk) PROVE x \in Socks(proxies'[m])
    <3>1. PICK d \in proxiesDisk : x = <<"socks", d.host, d.port>>
      BY <2>1 DEF Socks
    <3>2. Reopened(d) \in proxies'[m] /\ x = <<"socks", Reopened(d).host, Reopened(d).port>>
      BY <1>5, <1>7, <3>1
    <3> QED BY <3>2 DEF Socks
  <2>2. ASSUME NEW x \in Socks(proxies'[m]) PROVE x \in Socks(proxiesDisk)
    <3>1. PICK e \in proxies'[m] : x = <<"socks", e.host, e.port>>
      BY <2>2 DEF Socks
    <3>2. PICK d \in proxiesDisk : e = Reopened(d)
      BY <1>7
    <3>3. x = <<"socks", d.host, d.port>>
      BY <1>5, <3>1, <3>2
    <3> QED BY <3>3 DEF Socks
  <2> QED BY <2>1, <2>2
<1>11. Forwards(rules'[m]) = Forwards(rulesDisk)
  <2>1. ASSUME NEW x \in Forwards(rulesDisk) PROVE x \in Forwards(rules'[m])
    <3>1. PICK d \in rulesDisk : x = <<"forward", d.host, d.port>>
      BY <2>1 DEF Forwards
    <3>2. Ruled(d) \in rules'[m] /\ x = <<"forward", Ruled(d).host, Ruled(d).port>>
      BY <1>5, <1>7, <3>1
    <3> QED BY <3>2 DEF Forwards
  <2>2. ASSUME NEW x \in Forwards(rules'[m]) PROVE x \in Forwards(rulesDisk)
    <3>1. PICK r \in rules'[m] : x = <<"forward", r.host, r.port>>
      BY <2>2 DEF Forwards
    <3>2. PICK d \in rulesDisk : r = Ruled(d)
      BY <1>7
    <3>3. x = <<"forward", d.host, d.port>>
      BY <1>5, <3>1, <3>2
    <3> QED BY <3>3 DEF Forwards
  <2> QED BY <2>1, <2>2
<1>12. \A s \in Server : /\ s \in started => server'[s].is = "serves"
                         /\ s \notin started => server'[s] = server[s]
  BY <1>3 DEF Opens
<1>13. \A s \in started : \E e \in proxies'[m] : e.server = s
  <2> TAKE s \in started
  <2>1. PICK d \in on : number[d] = s
    BY <1>4
  <2> QED BY <1>5, <1>7, <2>1
<1> QED BY <1>1, <1>7, <1>8, <1>9, <1>10, <1>11, <1>12, <1>13 DEF m

LEMMA SingleKept ==
  ASSUME Typed, Single, CarriersNext
  PROVE  Single'
<1> USE DEF Single
<1>t. proxies \in [Manager -> SUBSET ProxyType] /\ \A m \in Manager : proxies[m] \in SUBSET ProxyType
  BY DEF Typed
<1>1. CASE Elsewhere
  BY <1>1, ElsewhereLeaves
<1>2. CASE LinkSteps
  BY <1>2, LinkStepsLeave DEF LinkOnly
<1>3. CASE \E m \in Manager : AddRule(m)
  BY <1>3 DEF AddRule
<1>4. CASE \E m \in Manager : FirstOn(m)
  <2>1. PICK m \in Manager : FirstOn(m)
    BY <1>4
  <2> DEFINE x == Proxy(set[m].host, set[m].port, TRUE, used.servers + 1)
  <2>2. x.host = set[m].host /\ \A e \in proxies[m] : e.host # x.host
    BY <2>1 DEF FirstOn, Proxy
  <2>3. /\ proxies'[m] = proxies[m] \cup {x} /\ proxiesDisk' = ProxyRecords(proxies[m] \cup {x})
        /\ \A n \in Manager : n # m => proxies'[n] = proxies[n]
    BY <2>1, EntriesAfter DEF FirstOn
  <2> HIDE DEF x
  <2>4. OneEach(proxies[m] \cup {x})
    BY <2>2, OneEachMoves
  <2> QED BY <2>3, <2>4, WrittenClaims
<1>5. CASE \E m \in Manager : FirstOnUnsaved(m)
  <2>1. PICK m \in Manager : FirstOnUnsaved(m)
    BY <1>5
  <2> DEFINE x == Proxy(set[m].host, set[m].port, FALSE, 0)
  <2>2. x.host = set[m].host /\ \A e \in proxies[m] : e.host # x.host
    BY <2>1 DEF FirstOnUnsaved, Proxy
  <2>3. proxies' = proxies /\ proxiesDisk' \in {proxiesDisk, ProxyRecords(proxies[m] \cup {x})}
    BY <2>1 DEF FirstOnUnsaved
  <2> HIDE DEF x
  <2>4. OneEach(proxies[m] \cup {x})
    BY <2>2, OneEachMoves
  <2> QED BY <2>3, <2>4, WrittenClaims
<1>6. CASE \E m \in Manager : OnAgain(m)
  <2>1. PICK m \in Manager : OnAgain(m)
    BY <1>6
  <2> DEFINE x == Proxy(set[m].host, set[m].port, TRUE, used.servers + 1)
  <2>2. PICK e \in proxies[m] : /\ e.host = set[m].host
                                /\ proxies'[m] = (proxies[m] \ {e}) \cup {x}
                                /\ \A n \in Manager : n # m => proxies'[n] = proxies[n]
    BY <2>1, EntriesAfter
  <2>3. x.host = e.host
    BY <2>2 DEF Proxy
  <2>4. proxiesDisk' = ProxyRecords(proxies'[m])
    BY <2>1, <1>t DEF OnAgain
  <2> HIDE DEF x
  <2>5. OneEach((proxies[m] \ {e}) \cup {x})
    BY <2>3, OneEachMoves
  <2> QED BY <2>2, <2>4, <2>5, WrittenClaims
<1>7. CASE \E m \in Manager : \E r \in rules[m] : RuleFails(m, r)
  BY <1>7 DEF RuleFails
<1>8. CASE current # 0 /\ \E r \in rules[current] : RemoveRule(current, r)
  BY <1>8 DEF RemoveRule
<1>9. CASE current # 0 /\ \E e \in proxies[current] : Off(current, e)
  <2>1. PICK e \in proxies[current] : Off(current, e)
    BY <1>9
  <2>2. PICK x \in ProxyType :
          /\ x.host = e.host
          /\ proxies'[current] = (proxies[current] \ {e}) \cup {x}
          /\ \A n \in Manager : n # current => proxies'[n] = proxies[n]
          /\ proxiesDisk' \in {proxiesDisk, ProxyRecords(proxies'[current])}
    BY <1>9, <2>1, OffAfter
  <2>3. OneEach(proxies'[current]) /\ current \in Manager
    BY <1>9, <2>2, OneEachMoves, ManagersAreFew
  <2> QED BY <2>2, <2>3, WrittenClaims
<1>10. CASE \E s \in Server : ServerFails(s)
  <2>1. PICK s \in Server : ServerFails(s)
    BY <1>10
  <2>2. proxiesDisk' = proxiesDisk
    BY <2>1 DEF ServerFails
  <2>3. proxies' = proxies \/ \A m \in Manager : proxies'[m] = Darkened(proxies[m], {s})
    BY <2>1, ServerFailsAfter
  <2> QED BY <1>t, <2>2, <2>3, OneEachDarkened
<1>11. CASE \E h \in Peer : Cascade(h)
  <2>1. PICK h \in Peer : Cascade(h)
    BY <1>11
  <2>2. /\ current \in Manager /\ proxies'[current] \in SUBSET proxies[current]
        /\ \A n \in Manager : n # current => proxies'[n] = proxies[n]
        /\ proxiesDisk' \in {proxiesDisk, ProxyRecords(proxies'[current])}
    BY <2>1, CascadeAfter
  <2>3. OneEach(proxies'[current])
    BY <2>2, OneEachMoves
  <2> QED BY <2>2, <2>3, WrittenClaims
<1>12. CASE OpenManagers
  <2>1. proxiesDisk' = proxiesDisk
    BY <1>12 DEF OpenManagers
  <2> QED BY <1>12, <2>1, OpenAfter
<1>13. CASE CloseManagers
  <2>1. proxiesDisk' = proxiesDisk
    BY <1>13 DEF CloseManagers
  <2>2. OneEach({})
    BY DEF OneEach
  <2> QED BY <1>13, <1>t, <2>1, <2>2, CloseAfter, OneEachDarkened
<1>14. CASE CarriersDie
  BY <1>14 DEF CarriersDie, OneEach
<1> QED BY <1>1, <1>2, <1>3, <1>4, <1>5, <1>6, <1>7, <1>8, <1>9, <1>10, <1>11, <1>12, <1>13, <1>14
        DEF CarriersNext, Lander, Elsewhere, LinkSteps

-----------------------------------------------------------------------------
(* Requests *)

\* Only OpenManagers opens managers.
LEMMA ManagersCounted ==
  ASSUME Typed, CarriersNext, ~OpenManagers
  PROVE  used'.managers = used.managers
<1> DEFINE S == /\ Used(used)
                /\ \/ used' = used
                   \/ \E n : \/ used' = [used EXCEPT !.servers = n]
                             \/ used' = [used EXCEPT !.landed = n]
                             \/ used' = [used EXCEPT !.trouble = n]
<1>1. S
  <2>1. Used(used)
    BY DEF Typed
  <2>2. CASE \/ \E m \in Manager : PortRefused(m) \/ AddRule(m) \/ StillOn(m)
             \/ \E h \in Peer : HostGoes(h) \/ CascadeSkipped(h)
             \/ CloseManagers \/ CarriersDie \/ LinkSteps
    <3>1. used' = used
      BY <2>2, LinkStepsLeave DEF PortRefused, AddRule, StillOn, HostGoes, CascadeSkipped, CloseManagers,
                                  CarriersDie, LinkOnly
    <3> QED BY <2>1, <3>1
  <2>3. CASE \E m \in Manager : FirstOn(m) \/ OnAgain(m)
    BY <2>1, <2>3 DEF FirstOn, OnAgain, Starts
  <2>4. CASE \/ \E h \in Peer, p \in Port, do \in {"forward", "socks"} : AskPort(current, do, h, p)
             \/ \E h \in Peer : HostComes(h)
    BY <2>1, <2>4 DEF AskPort, HostComes
  <2>5. CASE \/ \E m \in Manager : FirstOnUnsaved(m) \/ \E r \in rules[m] : RuleFails(m, r)
             \/ \E s \in Server : ServerFails(s)
    BY <2>1, <2>5 DEF FirstOnUnsaved, RuleFails, ServerFails, Troubled
  <2>6. CASE \/ current # 0 /\ \E r \in rules[current] : RemoveRule(current, r)
             \/ current # 0 /\ \E e \in proxies[current] : Off(current, e)
             \/ \E h \in Peer : Cascade(h)
    <3>1. used' = used \/ Troubled
      BY <2>6 DEF RemoveRule, Off, Cascade
    <3> QED BY <2>1, <3>1 DEF Troubled
  <2> QED BY <2>2, <2>3, <2>4, <2>5, <2>6 DEF CarriersNext, Lander, LinkSteps
<1>2. CASE used' = used
  BY <1>2
<1>3. ASSUME NEW n, \/ used' = [used EXCEPT !.servers = n]
                    \/ used' = [used EXCEPT !.landed = n]
                    \/ used' = [used EXCEPT !.trouble = n]
      PROVE  used'.managers = used.managers
  <2>1. Used(used)
    BY <1>1
  <2>2. /\ [used EXCEPT !.servers = n].managers = used.managers
        /\ [used EXCEPT !.landed = n].managers = used.managers
        /\ [used EXCEPT !.trouble = n].managers = used.managers
    BY <2>1, UsedKept
  <2>3. CASE used' = [used EXCEPT !.servers = n]
    BY <2>2, <2>3
  <2>4. CASE used' = [used EXCEPT !.landed = n]
    BY <2>2, <2>4
  <2>5. CASE used' = [used EXCEPT !.trouble = n]
    BY <2>2, <2>5
  <2> QED BY <1>3, <2>3, <2>4, <2>5
<1> QED BY <1>1, <1>2, <1>3

LEMMA RequestsAreOfOld ==
  ASSUME Typed, Fresh
  PROVE  /\ \A m \in Manager : set[m].do # "none" => m <= used.managers
         /\ current # 0 => current <= used.managers /\ current \in Manager
<1>1. used.managers \in Nat /\ current \in 0 .. used.managers
  BY CarriersAssumption DEF Typed, Used
<1>2. ASSUME NEW m \in Manager, set[m].do # "none" PROVE m <= used.managers
  <2>1. ~(m > used.managers)
    BY <1>2 DEF Fresh, NoRequest
  <2> QED BY <1>1, <2>1, CarriersAssumption DEF Manager
<1>3. current # 0 => current <= used.managers
  BY <1>1
<1> QED BY <1>2, <1>3, ManagersAreFew

LEMMA FreshKept ==
  ASSUME Typed, Fresh, CarriersNext
  PROVE  Fresh'
<1>t. /\ set \in [Manager -> Request]
      /\ proxies \in [Manager -> SUBSET ProxyType] /\ \A m \in Manager : proxies[m] \in SUBSET ProxyType
      /\ \A m \in Manager : m \in Int
      /\ used.managers \in Nat
  BY CarriersAssumption DEF Typed, Used, Manager
<1>o. CASE OpenManagers
  <2>1. set' = set
    BY <1>o DEF OpenManagers
  <2> QED BY <1>o, <1>t, <2>1, OpenAfter DEF Fresh
<1>n. CASE ~OpenManagers
  <2>u. used'.managers = used.managers
    BY <1>n, ManagersCounted
  <2> SUFFICES ASSUME NEW m \in Manager, m > used.managers
               PROVE  set'[m] = NoRequest /\ proxies'[m] = {}
    BY <2>u DEF Fresh
  <2>m. set[m] = NoRequest /\ proxies[m] = {} /\ set[m].do = "none"
    BY DEF Fresh, NoRequest
  <2>c. current # 0 => current # m /\ current \in Manager
    BY <1>t, RequestsAreOfOld
  <2>1. CASE \E h \in Peer, p \in Port, do \in {"forward", "socks"} : AskPort(current, do, h, p)
    BY <1>t, <2>1, <2>c, <2>m DEF AskPort
  <2>2. CASE \E n \in Manager : PortRefused(n) \/ StillOn(n)
    BY <1>t, <2>2, <2>m DEF PortRefused, StillOn, Lands
  <2>3. CASE \E n \in Manager : AddRule(n) \/ FirstOnUnsaved(n)
    BY <1>t, <2>3, <2>m DEF AddRule, FirstOnUnsaved, Lands
  <2>4. CASE \E n \in Manager : FirstOn(n) \/ OnAgain(n)
    <3>1. PICK n \in Manager : FirstOn(n) \/ OnAgain(n)
      BY <2>4
    <3>2. n # m /\ Lands(n)
      BY <2>m, <3>1 DEF FirstOn, OnAgain
    <3>3. proxies'[m] = proxies[m]
      BY <3>1, <3>2, EntriesAfter
    <3> QED BY <1>t, <2>m, <3>2, <3>3 DEF Lands
  <2>5. CASE \E n \in Manager : \E r \in rules[n] : RuleFails(n, r)
    BY <2>5, <2>m DEF RuleFails
  <2>6. CASE current # 0 /\ \E r \in rules[current] : RemoveRule(current, r)
    BY <2>6, <2>m DEF RemoveRule
  <2>7. CASE current # 0 /\ \E e \in proxies[current] : Off(current, e)
    <3>1. set' = set
      BY <2>7 DEF Off
    <3>2. proxies'[m] = proxies[m]
      BY <2>7, <2>c, OffAfter
    <3> QED BY <2>m, <3>1, <3>2
  <2>8. CASE \E s \in Server : ServerFails(s)
    <3>1. set' = set
      BY <2>8 DEF ServerFails
    <3>2. \A S : Darkened({}, S) = {}
      BY DEF Darkened
    <3> QED BY <2>8, <2>m, <3>1, <3>2, ServerFailsAfter
  <2>9. CASE \E h \in Peer : HostComes(h) \/ HostGoes(h) \/ CascadeSkipped(h)
    BY <2>9, <2>m DEF HostComes, HostGoes, CascadeSkipped
  <2>10. CASE \E h \in Peer : Cascade(h)
    <3>1. set' = set /\ current # 0
      BY <2>10 DEF Cascade
    <3>2. proxies'[m] = proxies[m]
      BY <2>10, <2>c, <3>1, CascadeAfter
    <3> QED BY <2>m, <3>1, <3>2
  <2>11. CASE CloseManagers
    <3>1. set' = set /\ current # 0
      BY <2>11 DEF CloseManagers
    <3>2. proxies'[m] = proxies[m]
      BY <2>11, <2>c, <3>1, CloseAfter
    <3> QED BY <2>m, <3>1, <3>2
  <2>12. CASE CarriersDie
    BY <2>12 DEF CarriersDie
  <2>13. CASE LinkSteps
    BY <2>13, <2>m, LinkStepsLeave DEF LinkOnly
  <2> QED BY <1>n, <2>1, <2>2, <2>3, <2>4, <2>5, <2>6, <2>7, <2>8, <2>9, <2>10, <2>11, <2>12, <2>13
          DEF CarriersNext, Lander, LinkSteps
<1> QED BY <1>o, <1>n

LEMMA AskedKept ==
  ASSUME Typed, Fresh, Asked, CarriersNext
  PROVE  Asked'
<1>t. set \in [Manager -> Request] /\ (current # 0 => current \in Manager)
  BY ManagersAreFew DEF Typed
<1>1. CASE \E h \in Peer, p \in Port, do \in {"forward", "socks"} : AskPort(current, do, h, p)
  BY <1>t, <1>1 DEF AskPort, Asked
<1>2. CASE \E m \in Manager : PortRefused(m) \/ Lander(m)
  <2>0. PICK m \in Manager : PortRefused(m) \/ Lander(m)
    BY <1>2
  <2>1. Lands(m) /\ UNCHANGED <<member, current, cascades>>
    <3>1. CASE PortRefused(m) \/ AddRule(m) \/ StillOn(m)
      BY <3>1 DEF PortRefused, AddRule, StillOn
    <3>2. CASE FirstOn(m) \/ FirstOnUnsaved(m)
      BY <3>2 DEF FirstOn, FirstOnUnsaved
    <3>3. CASE OnAgain(m)
      BY <3>3 DEF OnAgain
    <3> QED BY <2>0, <3>1, <3>2, <3>3 DEF Lander
  <2> QED BY <1>t, <2>1 DEF Asked, Lands
<1>3. CASE \E m \in Manager : \E r \in rules[m] : RuleFails(m, r)
  BY <1>3 DEF RuleFails, Asked
<1>4. CASE current # 0 /\ \E r \in rules[current] : RemoveRule(current, r)
  BY <1>4 DEF RemoveRule, Asked
<1>5. CASE current # 0 /\ \E e \in proxies[current] : Off(current, e)
  BY <1>5 DEF Off, Asked
<1>6. CASE \E s \in Server : ServerFails(s)
  BY <1>6 DEF ServerFails, Asked
<1>7. CASE \E h \in Peer : HostComes(h) \/ HostGoes(h)
  BY <1>7 DEF HostComes, HostGoes, Asked
<1>8. CASE \E h \in Peer : Cascade(h) \/ CascadeSkipped(h)
  BY <1>8 DEF Cascade, CascadeSkipped, Asked
<1>9. CASE OpenManagers
  <2>1. set' = set
    BY <1>9 DEF OpenManagers
  <2>2. current' = used.managers + 1 /\ current' \in Manager
    BY <1>9, OpenAfter
  <2>3. used.managers \in Nat
    BY CarriersAssumption DEF Typed, Used
  <2>4. current' > used.managers
    BY <2>2, <2>3
  <2> QED BY <2>1, <2>2, <2>4 DEF Asked, Fresh
<1>10. CASE CloseManagers \/ CarriersDie
  BY <1>10 DEF CloseManagers, CarriersDie, Asked
<1>11. CASE LinkSteps
  BY <1>11, LinkStepsLeave DEF LinkOnly, Asked
<1> QED BY <1>1, <1>2, <1>3, <1>4, <1>5, <1>6, <1>7, <1>8, <1>9, <1>10, <1>11
        DEF CarriersNext, LinkSteps
-----------------------------------------------------------------------------
(* Servers and connections *)

\* What each step leaves serving, and whom it cuts.
Spared(S) ==
  /\ link' = CutAll(S)
  /\ \A s \in Server \ S : server[s].is = "serves" => server'[s].is = "serves"

AllSpared ==
  /\ link' = link
  /\ \A s \in Server : server[s].is = "serves" => server'[s].is = "serves"

LEMMA SparedFollow ==
  ASSUME Typed, LinksFollow, AllSpared \/ \E S : Spared(S)
  PROVE  LinksFollow'
<1>1. CASE AllSpared
  BY <1>1 DEF AllSpared, LinksFollow, Typed
<1>2. ASSUME NEW S, Spared(S) PROVE LinksFollow'
  <2> SUFFICES ASSUME NEW c \in Conn, link'[c].at \in {"dialled", "pipes"}, ~link'[c].shut
               PROVE  server'[link'[c].server].is = "serves"
    BY DEF LinksFollow
  <2>1. link' = CutAll(S)
    BY <1>2 DEF Spared
  <2>2. link'[c].at = link[c].at /\ link'[c].server = link[c].server /\ ~link[c].shut
    BY <2>1, CutsKept
  <2>3. link[c].server \notin S
    BY <2>1, <2>2, CutsKept
  <2>4. link[c].server \in Server /\ server[link[c].server].is = "serves"
    BY <2>2 DEF Typed, LinksFollow
  <2> QED BY <1>2, <2>2, <2>3, <2>4 DEF Spared
<1> QED BY <1>1, <1>2

LEMMA LinkStepsFollow ==
  ASSUME Typed, LinksFollow, LinkSteps
  PROVE  LinksFollow'
<1>1. server' = server
  BY LinkStepsLeave DEF LinkOnly
<1>2. PICK c \in Conn :
        Registers(c) \/ Dials(c) \/ Pipes(c) \/ Hangs(c) \/ \E s \in Server : Accepts(c, s)
  BY DEF LinkSteps
<1>3. link \in [Conn -> LinkType] /\ link[c] \in LinkType
  BY DEF Typed
<1>4. \A d \in Conn : d # c => link'[d] = link[d]
  BY <1>2, <1>3 DEF Registers, Dials, Pipes, Hangs, Accepts, Links
<1>5. link'[c].at \in {"dialled", "pipes"} /\ ~link'[c].shut => server[link'[c].server].is = "serves"
  <2>1. CASE Registers(c)
    BY <1>3, <2>1 DEF Registers, Links
  <2>2. CASE Dials(c)
    <3>1. link'[c].server = link[c].server
      BY <1>3, <2>2 DEF Dials, Links, LinkType
    <3> QED BY <2>2, <3>1 DEF Dials
  <2>3. CASE Pipes(c)
    <3>1. link'[c].server = link[c].server /\ link[c].at = "dialled" /\ ~link[c].shut
      BY <1>3, <2>3 DEF Pipes, Links, LinkType
    <3> QED BY <3>1 DEF LinksFollow
  <2>4. CASE Hangs(c)
    BY <1>3, <2>4 DEF Hangs, NoLink
  <2>5. CASE \E s \in Server : Accepts(c, s)
    BY <1>3, <2>5 DEF Accepts
  <2> QED BY <1>2, <2>1, <2>2, <2>3, <2>4, <2>5
<1> QED BY <1>1, <1>4, <1>5 DEF LinksFollow

LEMMA ServersAfterOff ==
  ASSUME Typed, current # 0, NEW e \in proxies[current], Off(current, e)
  PROVE  /\ Spared({e.server})
         /\ e.server # 0 => e.server \in Server /\ server'[e.server].is # "serves"
         /\ \A s \in Server : s # e.server => server'[s] = server[s]
<1>1. current \in Manager
  BY ManagersAreFew
<1>2. e.server \in 0 .. MaxServers
  BY <1>1 DEF Typed, ProxyType
<1>3. e.server # 0 => e.server \in Server
  BY <1>2, CarriersAssumption DEF Server
<1>4. server \in [Server -> ServerType]
  BY DEF Typed
<1>5. \A s \in Server : s # e.server => server'[s] = server[s]
  BY <1>4 DEF Off, Stopped
<1>6. e.server # 0 => server'[e.server].is # "serves"
  BY <1>3, <1>4 DEF Off, Stopped, Stilled
<1>7. link' = CutAll({e.server})
  BY CutIsCutAll DEF Off
<1> QED BY <1>3, <1>5, <1>6, <1>7 DEF Spared

LEMMA LinksKept ==
  ASSUME Typed, LinksFollow, CarriersNext
  PROVE  LinksFollow'
<1>t. server \in [Server -> ServerType]
  BY DEF Typed
<1>1. CASE Elsewhere
  BY <1>1, ElsewhereLeaves, SparedFollow DEF AllSpared
<1>2. CASE LinkSteps
  BY <1>2, LinkStepsFollow
<1>3. CASE \E m \in Manager : AddRule(m) \/ FirstOnUnsaved(m) \/ \E r \in rules[m] : RuleFails(m, r)
  <2>1. UNCHANGED <<server, link>>
    BY <1>3 DEF AddRule, FirstOnUnsaved, RuleFails
  <2> QED BY <2>1, SparedFollow DEF AllSpared
<1>4. CASE \E m \in Manager : FirstOn(m)
  <2>1. AllSpared
    BY <1>t, <1>4 DEF FirstOn, AllSpared
  <2> QED BY <2>1, SparedFollow
<1>5. CASE \E m \in Manager : OnAgain(m)
  <2>1. \E m \in Manager : \E e \in proxies[m] : Spared({e.server})
    BY <1>5, CutIsCutAll DEF OnAgain, Spared
  <2> QED BY <2>1, SparedFollow
<1>6. CASE current # 0 /\ \E r \in rules[current] : RemoveRule(current, r)
  <2>1. UNCHANGED <<server, link>>
    BY <1>6 DEF RemoveRule
  <2> QED BY <2>1, SparedFollow DEF AllSpared
<1>7. CASE current # 0 /\ \E e \in proxies[current] : Off(current, e)
  BY <1>7, ServersAfterOff, SparedFollow
<1>8. CASE \E s \in Server : ServerFails(s)
  <2>1. \E s \in Server : Spared({s})
    BY <1>t, <1>8, CutIsCutAll DEF ServerFails, Stopped, Spared
  <2> QED BY <2>1, SparedFollow
<1>9. CASE \E h \in Peer : Cascade(h)
  <2>1. PICK h \in Peer : Cascade(h)
    BY <1>9
  <2> DEFINE gone == {e \in proxies[current] : e.host = h}
             S == {e.server : e \in gone}
  <2>2. link' = CutAll(S)
    BY <2>1 DEF Cascade
  <2>3. \A s \in Server : s \notin S => server'[s] = server[s]
    BY <2>1 DEF Cascade
  <2> HIDE DEF S
  <2>4. Spared(S)
    BY <2>2, <2>3 DEF Spared
  <2> QED BY <2>4, SparedFollow
<1>10. CASE OpenManagers
  <2>1. link' = link
    BY <1>10 DEF OpenManagers
  <2> QED BY <1>10, <2>1, OpenAfter, SparedFollow DEF AllSpared
<1>11. CASE CloseManagers
  <2> DEFINE S == {e.server : e \in proxies[current]}
  <2>2. link' = CutAll(S)
    BY <1>11 DEF CloseManagers
  <2>3. \A s \in Server : s \notin S => server'[s] = server[s]
    BY <1>11 DEF CloseManagers
  <2> HIDE DEF S
  <2>4. Spared(S)
    BY <2>2, <2>3 DEF Spared
  <2> QED BY <2>4, SparedFollow
<1>12. CASE CarriersDie
  BY <1>12 DEF CarriersDie, LinksFollow, NoLink
<1> QED BY <1>1, <1>2, <1>3, <1>4, <1>5, <1>6, <1>7, <1>8, <1>9, <1>10, <1>11, <1>12
        DEF CarriersNext, Lander, Elsewhere, LinkSteps

\* An entry survives the darkening of servers other than its own.
LEMMA DarkenedKeeps ==
  ASSUME NEW ps, NEW S, NEW e \in ps, e.server \notin S
  PROVE  e \in Darkened(ps, S)
BY DEF Darkened

LEMMA ServersKept ==
  ASSUME Typed, Fresh, ServersHaveEntries, CarriersNext
  PROVE  ServersHaveEntries'
<1>t. /\ server \in [Server -> ServerType]
      /\ proxies \in [Manager -> SUBSET ProxyType]
  BY DEF Typed
<1> USE DEF ServersHaveEntries
<1>1. CASE Elsewhere
  BY <1>1, ElsewhereLeaves
<1>2. CASE LinkSteps
  BY <1>2, LinkStepsLeave DEF LinkOnly
<1>3. CASE \E m \in Manager : AddRule(m) \/ FirstOnUnsaved(m) \/ \E r \in rules[m] : RuleFails(m, r)
  BY <1>3 DEF AddRule, FirstOnUnsaved, RuleFails
<1>4. CASE \E m \in Manager : FirstOn(m)
  <2>1. PICK m \in Manager : FirstOn(m)
    BY <1>4
  <2> DEFINE x == Proxy(set[m].host, set[m].port, TRUE, used.servers + 1)
  <2>2. x.server = used.servers + 1
    BY DEF Proxy
  <2>3. /\ proxies'[m] = proxies[m] \cup {x}
        /\ \A n \in Manager : n # m => proxies'[n] = proxies[n]
    BY <2>1, EntriesAfter
  <2>4. \A s \in Server : s # used.servers + 1 => server'[s] = server[s]
    BY <1>t, <2>1 DEF FirstOn
  <2> HIDE DEF x
  <2> QED BY <2>2, <2>3, <2>4
<1>5. CASE \E m \in Manager : OnAgain(m)
  <2>1. PICK m \in Manager : OnAgain(m)
    BY <1>5
  <2> DEFINE x == Proxy(set[m].host, set[m].port, TRUE, used.servers + 1)
  <2>2. x.server = used.servers + 1
    BY DEF Proxy
  <2>3. PICK e \in proxies[m] :
          /\ proxies' = [proxies EXCEPT ![m] = (proxies[m] \ {e}) \cup {x}]
          /\ server' = [t \in Server |->
               IF t = used.servers + 1 THEN [port |-> set[m].port, is |-> "serves", entry |-> "next"]
               ELSE IF t = e.server THEN Stilled ELSE server[t]]
    BY <2>1 DEF OnAgain
  <2> HIDE DEF x
  <2>4. /\ proxies'[m] = (proxies[m] \ {e}) \cup {x}
        /\ \A n \in Manager : n # m => proxies'[n] = proxies[n]
    BY <1>t, <2>3
  <2>5. ASSUME NEW s \in Server, server'[s].is = "serves", s # used.servers + 1
        PROVE  s # e.server /\ server[s].is = "serves"
    BY <2>3, <2>5 DEF Stilled
  <2> QED BY <2>2, <2>4, <2>5
<1>6. CASE current # 0 /\ \E r \in rules[current] : RemoveRule(current, r)
  BY <1>6 DEF RemoveRule
<1>7. CASE current # 0 /\ \E e \in proxies[current] : Off(current, e)
  <2>1. PICK e \in proxies[current] : Off(current, e)
    BY <1>7
  <2>2. PICK x \in ProxyType :
          /\ e.server = 0 => x = e
          /\ proxies'[current] = (proxies[current] \ {e}) \cup {x}
          /\ \A n \in Manager : n # current => proxies'[n] = proxies[n]
    BY <1>7, <2>1, OffAfter
  <2>3. /\ e.server # 0 => server'[e.server].is # "serves"
        /\ \A s \in Server : s # e.server => server'[s] = server[s]
    BY <1>7, <2>1, ServersAfterOff
  <2>4. ~(0 \in Server)
    BY DEF Server
  <2> QED BY <2>2, <2>3, <2>4
<1>8. CASE \E s \in Server : ServerFails(s)
  <2>1. PICK s \in Server : ServerFails(s)
    BY <1>8
  <2>2. server'[s].is # "serves" /\ \A t \in Server : t # s => server'[t] = server[t]
    BY <1>t, <2>1 DEF ServerFails, Stopped, Stilled
  <2>3. proxies' = proxies \/ \A m \in Manager : proxies'[m] = Darkened(proxies[m], {s})
    BY <2>1, ServerFailsAfter
  <2> QED BY <2>2, <2>3, DarkenedKeeps
<1>9. CASE \E h \in Peer : Cascade(h)
  <2>1. PICK h \in Peer : Cascade(h)
    BY <1>9
  <2> DEFINE gone == {e \in proxies[current] : e.host = h}
  <2>2. /\ proxies'[current] = proxies[current] \ gone
        /\ \A n \in Manager : n # current => proxies'[n] = proxies[n]
    BY <2>1, CascadeAfter
  <2>3. \A s \in Server : server'[s].is = "serves" =>
          server[s].is = "serves" /\ \A e \in gone : e.server # s
    BY <2>1 DEF Cascade, Stilled
  <2> HIDE DEF gone
  <2> QED BY <2>2, <2>3
<1>10. CASE OpenManagers
  <2> DEFINE m == used.managers + 1
  <2>1. m \in Manager /\ proxies[m] = {}
    <3>1. used.managers \in Nat
      BY CarriersAssumption DEF Typed, Used
    <3>2. m \in Manager /\ m > used.managers
      BY <1>10, <3>1, OpenAfter
    <3> QED BY <3>2 DEF Fresh
  <2>2. /\ \A s \in Server : server'[s].is = "serves" =>
             server[s].is = "serves" \/ \E e \in proxies'[m] : e.server = s
        /\ \A n \in Manager : n # m => proxies'[n] = proxies[n]
    BY <1>10, OpenAfter
  <2> HIDE DEF m
  <2> QED BY <2>1, <2>2
<1>11. CASE CloseManagers
  <2>1. current \in Manager /\ \A n \in Manager : n # current => proxies'[n] = proxies[n]
    BY <1>11, CloseAfter
  <2>2. \A s \in Server : server'[s].is = "serves" =>
          server[s].is = "serves" /\ \A e \in proxies[current] : e.server # s
    BY <1>11 DEF CloseManagers, Stilled
  <2> QED BY <2>1, <2>2
<1>12. CASE CarriersDie
  BY <1>12 DEF CarriersDie, Stilled
<1> QED BY <1>1, <1>2, <1>3, <1>4, <1>5, <1>6, <1>7, <1>8, <1>9, <1>10, <1>11, <1>12
        DEF CarriersNext, Lander, Elsewhere, LinkSteps
-----------------------------------------------------------------------------
(* Ports *)

LEMMA ClaimSets ==
  /\ \A rs, r : Forwards(rs \cup {r}) = Forwards(rs) \cup {<<"forward", r.host, r.port>>}
  /\ \A ps, e : Socks(ps \cup {e}) = Socks(ps) \cup {<<"socks", e.host, e.port>>}
  /\ \A rs : \A qs \in SUBSET rs : Forwards(qs) \subseteq Forwards(rs)
  /\ \A ps : \A qs \in SUBSET ps : Socks(qs) \subseteq Socks(ps)
BY DEF Forwards, Socks

LEMMA ClaimsAre ==
  /\ \A rs : \A o \in Forwards(rs) : \E r \in rs : o[2] = r.host /\ o[3] = r.port
  /\ \A ps : \A o \in Socks(ps) : \E e \in ps : o[2] = e.host /\ o[3] = e.port
BY DEF Forwards, Socks

\* A rule or an entry that keeps its host and port keeps its claim.
LEMMA ClaimsStay ==
  ASSUME NEW rs, NEW r \in rs, NEW x, x.host = r.host, x.port = r.port
  PROVE  /\ Forwards((rs \ {r}) \cup {x}) = Forwards(rs)
         /\ Socks((rs \ {r}) \cup {x}) = Socks(rs)
<1> DEFINE rest == rs \ {r}
<1>1. rs = rest \cup {r}
  OBVIOUS
<1> HIDE DEF rest
<1>2. /\ Forwards(rs) = Forwards(rest) \cup {<<"forward", r.host, r.port>>}
      /\ Forwards(rest \cup {x}) = Forwards(rest) \cup {<<"forward", x.host, x.port>>}
      /\ Socks(rs) = Socks(rest) \cup {<<"socks", r.host, r.port>>}
      /\ Socks(rest \cup {x}) = Socks(rest) \cup {<<"socks", x.host, x.port>>}
  BY <1>1, ClaimSets
<1>3. /\ Forwards(rest \cup {x}) = Forwards(rs)
      /\ Socks(rest \cup {x}) = Socks(rs)
  BY <1>2
<1> QED BY <1>3 DEF rest

LEMMA DarkenedClaims ==
  ASSUME NEW ps \in SUBSET ProxyType, NEW S
  PROVE  Socks(Darkened(ps, S)) = Socks(ps)
<1> DEFINE After(e) == IF e.server \in S THEN Dark(e) ELSE e
<1>1. \A e \in ps : After(e).host = e.host /\ After(e).port = e.port
  BY DarkType
<1>2. Darkened(ps, S) = {After(e) : e \in ps}
  BY DEF Darkened
<1> HIDE DEF After
<1>3. ASSUME NEW o \in Socks(ps) PROVE o \in Socks(Darkened(ps, S))
  <2>1. PICK e \in ps : o = <<"socks", e.host, e.port>>
    BY <1>3 DEF Socks
  <2>2. After(e) \in Darkened(ps, S) /\ o = <<"socks", After(e).host, After(e).port>>
    BY <1>1, <1>2, <2>1
  <2> QED BY <2>2 DEF Socks
<1>4. ASSUME NEW o \in Socks(Darkened(ps, S)) PROVE o \in Socks(ps)
  <2>1. PICK x \in Darkened(ps, S) : o = <<"socks", x.host, x.port>>
    BY <1>4 DEF Socks
  <2>2. PICK e \in ps : x = After(e)
    BY <1>2
  <2>3. o = <<"socks", e.host, e.port>>
    BY <1>1, <2>1, <2>2
  <2> QED BY <2>3 DEF Socks
<1> QED BY <1>3, <1>4

\* A request whose port nobody has can land.
LEMMA SoleGrows ==
  ASSUME NEW C, Sole(C), NEW x, \A o \in C : o[3] # x[3]
  PROVE  Sole(C \cup {x})
BY DEF Sole

LEMMA SoleShrinks ==
  ASSUME NEW C, Sole(C), NEW B \in SUBSET C
  PROVE  Sole(B)
BY DEF Sole

\* What a step has to show, with the claims F and K it leaves on the disk.
LEMMA DiskAfter ==
  ASSUME NEW F, NEW K,
         ~skewed' => /\ Forwards(rulesDisk') = F /\ Socks(proxiesDisk') = K
                     /\ Sole(F \cup K)
                     /\ \A o \in F \cup K : o[2] \in member' \cup cascades'
                     /\ current' # 0 => /\ Forwards(rules'[current']) = F
                                        /\ Socks(proxies'[current']) = K
  PROVE  DiskIsTable'
BY DEF DiskIsTable, OnDisk, Housed

LEMMA DiskBefore ==
  ASSUME DiskIsTable, ~skewed
  PROVE  LET F == Forwards(rulesDisk) K == Socks(proxiesDisk) IN
         /\ Sole(F \cup K) /\ \A o \in F \cup K : o[2] \in member \cup cascades
         /\ current # 0 => Forwards(rules[current]) = F /\ Socks(proxies[current]) = K
BY DEF DiskIsTable, OnDisk, Housed

\* A step that moves no claim.
LEMMA DiskStays ==
  ASSUME DiskIsTable, skewed' \/ skewed' = skewed,
         ~skewed' => member \cup cascades \subseteq member' \cup cascades',
         Forwards(rulesDisk') = Forwards(rulesDisk), Socks(proxiesDisk') = Socks(proxiesDisk),
         current' # 0 => /\ current' = current
                         /\ Forwards(rules'[current]) = Forwards(rules[current])
                         /\ Socks(proxies'[current]) = Socks(proxies[current])
  PROVE  DiskIsTable'
<1> DEFINE F == Forwards(rulesDisk)
           K == Socks(proxiesDisk)
<1> HIDE DEF F, K
<1>1. ASSUME ~skewed'
      PROVE  /\ Forwards(rulesDisk') = F /\ Socks(proxiesDisk') = K
             /\ Sole(F \cup K)
             /\ \A o \in F \cup K : o[2] \in member' \cup cascades'
             /\ current' # 0 => Forwards(rules'[current']) = F /\ Socks(proxies'[current']) = K
  <2>1. ~skewed
    BY <1>1
  <2>2. /\ Sole(F \cup K) /\ \A o \in F \cup K : o[2] \in member \cup cascades
        /\ current # 0 => Forwards(rules[current]) = F /\ Socks(proxies[current]) = K
    BY <2>1, DiskBefore DEF F, K
  <2> QED BY <1>1, <2>2 DEF F, K
<1> QED BY <1>1, DiskAfter

LEMMA AddRuleDisk ==
  ASSUME Typed, Asked, DiskIsTable, NEW m \in Manager, AddRule(m)
  PROVE  DiskIsTable'
<1> DEFINE h == set[m].host
           p == set[m].port
           x == <<"forward", h, p>>
           new == rules[m] \cup {Rule(h, p, TRUE)}
           F == Forwards(rulesDisk) \cup {x}
           K == Socks(proxiesDisk)
<1>1. ASSUME ~skewed'
      PROVE  /\ Forwards(rulesDisk') = F /\ Socks(proxiesDisk') = K
             /\ Sole(F \cup K)
             /\ \A o \in F \cup K : o[2] \in member' \cup cascades'
             /\ current' # 0 => Forwards(rules'[current']) = F /\ Socks(proxies'[current']) = K
  <2>1. ~skewed /\ m = current /\ current # 0
    <3>1. skewed' = (skewed \/ m # current)
      BY DEF AddRule
    <3>2. ~skewed /\ m = current
      BY <1>1, <3>1
    <3> QED BY <3>2 DEF Manager
  <2>2. /\ Sole(Forwards(rulesDisk) \cup K)
        /\ \A o \in Forwards(rulesDisk) \cup K : o[2] \in member \cup cascades
        /\ Forwards(rules[m]) = Forwards(rulesDisk) /\ Socks(proxies[m]) = K
    BY <2>1, DiskBefore
  <2>3. Forwards(new) = F
    <3> DEFINE r == Rule(h, p, TRUE)
    <3>1. r.host = h /\ r.port = p
      BY DEF Rule
    <3> HIDE DEF r, h, p
    <3>2. Forwards(rules[m] \cup {r}) = Forwards(rules[m]) \cup {<<"forward", r.host, r.port>>}
      BY ClaimSets
    <3> QED BY <2>2, <3>1, <3>2 DEF r
  <2>4. rules' = [rules EXCEPT ![m] = new] /\ rulesDisk' = RuleRecords(new)
    BY DEF AddRule
  <2>5. UNCHANGED <<member, current, proxies, proxiesDisk, cascades>>
    BY DEF AddRule
  <2>6. h \in member \cup cascades
    <3>1. set[m] # NoRequest
      BY DEF AddRule, NoRequest
    <3> QED BY <2>1, <3>1 DEF Asked
  <2>7. (\A r \in rules[m] : r.port # p) /\ (\A e \in proxies[m] : e.port # p)
    BY DEF AddRule, PortFree, RulePorts
  <2> HIDE DEF h, p, new, K
  <2>8. rules'[m] = new
    BY <2>4 DEF Typed
  <2>9. Forwards(rulesDisk') = F
    BY <2>3, <2>4, WrittenClaims
  <2>10. \A o \in Forwards(rulesDisk) \cup K : o[3] # p
    BY <2>2, <2>7, ClaimsAre
  <2>11. Sole((Forwards(rulesDisk) \cup K) \cup {x})
    <3>1. x[3] = p
      OBVIOUS
    <3> HIDE DEF x
    <3> QED BY <2>2, <2>10, <3>1, SoleGrows
  <2>12. F \cup K = (Forwards(rulesDisk) \cup K) \cup {x}
    OBVIOUS
  <2>13. x[2] = h
    OBVIOUS
  <2> HIDE DEF x, F
  <2>14. Sole(F \cup K)
    BY <2>11, <2>12
  <2>15. \A o \in F \cup K : o[2] \in member' \cup cascades'
    BY <2>2, <2>5, <2>6, <2>12, <2>13
  <2>16. Socks(proxiesDisk') = K /\ Socks(proxies'[m]) = K
    BY <2>2, <2>5 DEF K
  <2> QED BY <2>1, <2>3, <2>5, <2>8, <2>9, <2>14, <2>15, <2>16
<1> HIDE DEF F, K
<1> QED BY <1>1, DiskAfter

\* The entries of a table and the record written for them, after the request of a host
\* that has the port for itself landed among the others (rest).
LEMMA ProxyLands ==
  ASSUME Typed, Asked, DiskIsTable, NEW m \in Manager, ~skewed, m = current, set[m] # NoRequest,
         NEW rest \in SUBSET proxies[m], NEW x,
         x.host = set[m].host, x.port = set[m].port,
         \A r \in rules[m] : r.port # x.port,
         \A e \in rest : e.port # x.port,
         proxies' = [proxies EXCEPT ![m] = rest \cup {x}],
         proxiesDisk' = ProxyRecords(rest \cup {x}),
         UNCHANGED <<member, current, rules, rulesDisk, cascades>>
  PROVE  DiskIsTable'
<1> DEFINE F == Forwards(rulesDisk)
           o0 == <<"socks", x.host, x.port>>
           K == Socks(rest) \cup {o0}
           C == F \cup Socks(rest)
<1>1. current # 0
  BY CarriersAssumption DEF Manager
<1>2. /\ Sole(F \cup Socks(proxiesDisk))
      /\ \A o \in F \cup Socks(proxiesDisk) : o[2] \in member \cup cascades
      /\ Forwards(rules[m]) = F /\ Socks(proxies[m]) = Socks(proxiesDisk)
  BY <1>1, DiskBefore
<1>3. Socks(rest \cup {x}) = K
  BY ClaimSets
<1>4. Socks(rest) \subseteq Socks(proxiesDisk)
  BY <1>2, ClaimSets
<1>5. o0[2] = x.host /\ o0[3] = x.port
  OBVIOUS
<1>6. F \cup K = C \cup {o0}
  OBVIOUS
<1>7. C \in SUBSET (F \cup Socks(proxiesDisk))
  BY <1>4
<1>8. \A o \in C : o[3] # x.port
  BY <1>2, ClaimsAre
<1>9. proxies'[m] = rest \cup {x}
  BY DEF Typed
<1>10. Socks(proxiesDisk') = K /\ Socks(proxies'[m]) = K
  BY <1>3, <1>9, WrittenClaims
<1>11. x.host \in member \cup cascades
  BY <1>1 DEF Asked
<1>12. Forwards(rulesDisk') = F /\ Forwards(rules'[m]) = F
  BY <1>2
<1> HIDE DEF F, K, C, o0
<1>13. Sole(F \cup K)
  <2>1. Sole(C)
    BY <1>2, <1>7, SoleShrinks
  <2>2. Sole(C \cup {o0})
    BY <1>5, <1>8, <2>1, SoleGrows
  <2> QED BY <1>6, <2>2
<1>14. \A o \in F \cup K : o[2] \in member' \cup cascades'
  BY <1>2, <1>5, <1>6, <1>7, <1>11
<1> QED BY <1>10, <1>12, <1>13, <1>14, DiskAfter

LEMMA FirstOnDisk ==
  ASSUME Typed, Asked, DiskIsTable, NEW m \in Manager, FirstOn(m)
  PROVE  DiskIsTable'
<1>1. CASE skewed'
  BY <1>1 DEF DiskIsTable
<1>2. CASE ~skewed'
  <2> DEFINE x == Proxy(set[m].host, set[m].port, TRUE, used.servers + 1)
  <2>1. ~skewed /\ m = current /\ set[m] # NoRequest
    <3>1. skewed' = (skewed \/ m # current) /\ set[m].do = "socks"
      BY DEF FirstOn
    <3>2. ~skewed /\ m = current
      BY <1>2, <3>1
    <3>3. set[m] # NoRequest
      BY <3>1 DEF NoRequest
    <3> QED BY <3>2, <3>3
  <2>2. x.host = set[m].host /\ x.port = set[m].port
    BY DEF Proxy
  <2>3. (\A r \in rules[m] : r.port # x.port) /\ (\A e \in proxies[m] : e.port # x.port)
    <3>1. /\ \A r \in rules[m] : r.port # set[m].port
          /\ \A e \in proxies[m] : e.port # set[m].port
      BY DEF FirstOn, PortFree, RulePorts
    <3> QED BY <2>2, <3>1
  <2>4. /\ proxies' = [proxies EXCEPT ![m] = proxies[m] \cup {x}]
        /\ proxiesDisk' = ProxyRecords(proxies[m] \cup {x})
        /\ UNCHANGED <<member, current, rules, rulesDisk, cascades>>
    BY DEF FirstOn
  <2> HIDE DEF x
  <2>5. proxies[m] \in SUBSET proxies[m]
    OBVIOUS
  <2> QED BY <2>1, <2>2, <2>3, <2>4, <2>5, ProxyLands, ZenonT(30)
<1> QED BY <1>1, <1>2

LEMMA OnAgainDisk ==
  ASSUME Typed, Single, Asked, DiskIsTable, NEW m \in Manager, OnAgain(m)
  PROVE  DiskIsTable'
<1>1. CASE skewed'
  BY <1>1 DEF DiskIsTable
<1>2. CASE ~skewed'
  <2> DEFINE x == Proxy(set[m].host, set[m].port, TRUE, used.servers + 1)
  <2>1. ~skewed /\ m = current /\ set[m] # NoRequest
    <3>1. skewed' = (skewed \/ m # current) /\ set[m].do = "socks"
      BY DEF OnAgain
    <3>2. ~skewed /\ m = current
      BY <1>2, <3>1
    <3>3. set[m] # NoRequest
      BY <3>1 DEF NoRequest
    <3> QED BY <3>2, <3>3
  <2>2. x.host = set[m].host /\ x.port = set[m].port
    BY DEF Proxy
  <2>3. PICK e \in proxies[m] :
          /\ e.host = set[m].host
          /\ proxies' = [proxies EXCEPT ![m] = (proxies[m] \ {e}) \cup {x}]
          /\ proxiesDisk' = ProxyRecords((proxies[m] \ {e}) \cup {x})
          /\ PortFree(m, "socks", set[m].host, set[m].port)
          /\ UNCHANGED <<member, current, rules, rulesDisk, cascades>>
    BY DEF OnAgain
  <2>4. \A r \in rules[m] : r.port # x.port
    BY <2>2, <2>3 DEF PortFree, RulePorts
  <2>5. \A d \in proxies[m] \ {e} : d.port # x.port
    <3>1. OneEach(proxies[m])
      BY DEF Single
    <3> QED BY <2>2, <2>3, <3>1 DEF PortFree, OneEach
  <2> HIDE DEF x
  <2>6. proxies[m] \ {e} \in SUBSET proxies[m]
    OBVIOUS
  <2> QED BY <2>1, <2>2, <2>3, <2>4, <2>5, <2>6, ProxyLands, ZenonT(60)
<1> QED BY <1>1, <1>2

LEMMA RemoveRuleDisk ==
  ASSUME Typed, DiskIsTable, current # 0, NEW r \in rules[current], RemoveRule(current, r)
  PROVE  DiskIsTable'
<1> DEFINE F == Forwards(rules[current] \ {r})
           K == Socks(proxiesDisk)
<1>1. ASSUME ~skewed'
      PROVE  /\ Forwards(rulesDisk') = F /\ Socks(proxiesDisk') = K
             /\ Sole(F \cup K)
             /\ \A o \in F \cup K : o[2] \in member' \cup cascades'
             /\ current' # 0 => Forwards(rules'[current']) = F /\ Socks(proxies'[current']) = K
  <2>1. ~skewed /\ current \in Manager
    BY <1>1, ManagersAreFew DEF RemoveRule
  <2>2. /\ rules'[current] = rules[current] \ {r} /\ rulesDisk' = RuleRecords(rules[current] \ {r})
        /\ UNCHANGED <<member, current, cascades, proxies, proxiesDisk>>
    BY <1>1, <2>1 DEF RemoveRule, Typed
  <2>3. /\ Sole(Forwards(rulesDisk) \cup K)
        /\ \A o \in Forwards(rulesDisk) \cup K : o[2] \in member \cup cascades
        /\ Forwards(rules[current]) = Forwards(rulesDisk) /\ Socks(proxies[current]) = K
    BY <2>1, DiskBefore
  <2>4. F \subseteq Forwards(rulesDisk)
    BY <2>3, ClaimSets
  <2>5. Forwards(rulesDisk') = F
    BY <2>2, WrittenClaims
  <2> HIDE DEF K
  <2>6. Socks(proxiesDisk') = K /\ Socks(proxies'[current]) = K
    BY <2>2, <2>3 DEF K
  <2>7. Forwards(rules'[current]) = F
    BY <2>2
  <2> HIDE DEF F
  <2>8. Sole(F \cup K)
    BY <2>3, <2>4, SoleShrinks
  <2> QED BY <2>2, <2>3, <2>4, <2>5, <2>6, <2>7, <2>8
<1> HIDE DEF F, K
<1> QED BY <1>1, DiskAfter

LEMMA CascadeDisk ==
  ASSUME Typed, DiskIsTable, NEW h \in Peer, Cascade(h)
  PROVE  DiskIsTable'
<1> DEFINE rs == {r \in rules[current] : r.host # h}
           ps == proxies[current] \ {e \in proxies[current] : e.host = h}
           F == Forwards(rs)
           K == Socks(ps)
<1>1. ASSUME ~skewed'
      PROVE  /\ Forwards(rulesDisk') = F /\ Socks(proxiesDisk') = K
             /\ Sole(F \cup K)
             /\ \A o \in F \cup K : o[2] \in member' \cup cascades'
             /\ current' # 0 => Forwards(rules'[current']) = F /\ Socks(proxies'[current']) = K
  <2>1. /\ rules'[current] = rs /\ proxies'[current] = ps
        /\ rulesDisk' = RuleRecords(rs) /\ proxiesDisk' = ProxyRecords(ps)
        /\ ~skewed
    BY <1>1, CascadeAfter
  <2>2. /\ current # 0 /\ current' = current /\ member' = member
        /\ cascades' = cascades \ {h}
    BY DEF Cascade
  <2>3. /\ Sole(Forwards(rulesDisk) \cup Socks(proxiesDisk))
        /\ \A o \in Forwards(rulesDisk) \cup Socks(proxiesDisk) : o[2] \in member \cup cascades
        /\ Forwards(rules[current]) = Forwards(rulesDisk)
        /\ Socks(proxies[current]) = Socks(proxiesDisk)
    BY <2>1, <2>2, DiskBefore
  <2>4. rs \in SUBSET rules[current] /\ ps \in SUBSET proxies[current]
    OBVIOUS
  <2>5. (\A r \in rs : r.host # h) /\ (\A e \in ps : e.host # h)
    OBVIOUS
  <2> HIDE DEF rs, ps
  <2>6. \A o \in F \cup K : o[2] # h
    BY <2>5, ClaimsAre
  <2>7. F \cup K \in SUBSET (Forwards(rulesDisk) \cup Socks(proxiesDisk))
    BY <2>3, <2>4, ClaimSets
  <2>8. Forwards(rulesDisk') = F /\ Socks(proxiesDisk') = K
    BY <2>1, WrittenClaims
  <2>9. Forwards(rules'[current]) = F /\ Socks(proxies'[current]) = K
    BY <2>1
  <2> HIDE DEF F, K
  <2>10. Sole(F \cup K)
    BY <2>3, <2>7, SoleShrinks
  <2>11. \A o \in F \cup K : o[2] \in member' \cup cascades'
    BY <2>2, <2>3, <2>6, <2>7
  <2> QED BY <2>2, <2>8, <2>9, <2>10, <2>11
<1> HIDE DEF F, K
<1> QED BY <1>1, DiskAfter

LEMMA OpenDisk ==
  ASSUME Typed, DiskIsTable, OpenManagers
  PROVE  DiskIsTable'
<1> DEFINE F == Forwards(rulesDisk)
           K == Socks(proxiesDisk)
<1>1. UNCHANGED <<member, cascades, rulesDisk, proxiesDisk, skewed>>
  BY DEF OpenManagers
<1>2. Forwards(rules'[current']) = F /\ Socks(proxies'[current']) = K
  BY OpenAfter
<1>3. Forwards(rulesDisk') = F /\ Socks(proxiesDisk') = K
  BY <1>1
<1>4. ~skewed => Sole(F \cup K) /\ \A o \in F \cup K : o[2] \in member \cup cascades
  BY DiskBefore
<1> HIDE DEF F, K
<1> QED BY <1>1, <1>2, <1>3, <1>4, DiskAfter

LEMMA DiskKept ==
  ASSUME Typed, Single, Asked, DiskIsTable, CarriersNext
  PROVE  DiskIsTable'
<1>t. /\ rules \in [Manager -> SUBSET RuleType] /\ proxies \in [Manager -> SUBSET ProxyType]
      /\ current # 0 => current \in Manager
  BY ManagersAreFew DEF Typed
<1>1. CASE Elsewhere
  <2>1. skewed' \/ skewed' = skewed
    BY <1>1 DEF Elsewhere, AskPort, PortRefused, StillOn, HostComes, HostGoes, CascadeSkipped
  <2>2. ~skewed' => member \cup cascades \subseteq member' \cup cascades'
    BY <1>1 DEF Elsewhere, AskPort, PortRefused, StillOn, HostComes, HostGoes, CascadeSkipped
  <2> QED BY <1>1, <2>1, <2>2, ElsewhereLeaves, DiskStays
<1>2. CASE LinkSteps
  BY <1>2, LinkStepsLeave, DiskStays DEF LinkOnly
<1>3. CASE \E m \in Manager : AddRule(m)
  BY <1>3, AddRuleDisk
<1>4. CASE \E m \in Manager : FirstOn(m)
  BY <1>4, FirstOnDisk
<1>5. CASE \E m \in Manager : FirstOnUnsaved(m)
  BY <1>5 DEF FirstOnUnsaved, DiskIsTable
<1>6. CASE \E m \in Manager : OnAgain(m)
  BY <1>6, OnAgainDisk
<1>7. CASE \E m \in Manager : \E r \in rules[m] : RuleFails(m, r)
  <2>0. PICK m \in Manager : \E r \in rules[m] : RuleFails(m, r)
    BY <1>7
  <2>1. PICK r \in rules[m] : RuleFails(m, r)
    BY <2>0
  <2> DEFINE x == [r EXCEPT !.up = FALSE]
  <2>2. x.host = r.host /\ x.port = r.port
    BY <1>t DEF RuleType
  <2>3. /\ rules' = [rules EXCEPT ![m] = (rules[m] \ {r}) \cup {x}]
        /\ UNCHANGED <<member, current, cascades, rulesDisk, proxies, proxiesDisk, skewed>>
    BY <2>1 DEF RuleFails
  <2> HIDE DEF x
  <2>4. /\ rules'[m] = (rules[m] \ {r}) \cup {x}
        /\ \A n \in Manager : n # m => rules'[n] = rules[n]
    BY <1>t, <2>3
  <2>5. \A n \in Manager : Forwards(rules'[n]) = Forwards(rules[n])
    BY <2>2, <2>4, ClaimsStay
  <2> QED BY <1>t, <2>3, <2>5, DiskStays
<1>8. CASE current # 0 /\ \E r \in rules[current] : RemoveRule(current, r)
  BY <1>8, RemoveRuleDisk
<1>9. CASE current # 0 /\ \E e \in proxies[current] : Off(current, e)
  <2>1. PICK e \in proxies[current] : Off(current, e)
    BY <1>9
  <2>2. PICK x \in ProxyType :
          /\ x.host = e.host /\ x.port = e.port
          /\ proxies'[current] = (proxies[current] \ {e}) \cup {x}
          /\ \/ proxiesDisk' = ProxyRecords(proxies'[current]) /\ skewed' = skewed
             \/ proxiesDisk' = proxiesDisk /\ skewed'
    BY <1>9, <2>1, OffAfter
  <2>3. UNCHANGED <<member, current, cascades, rules, rulesDisk>>
    BY <2>1 DEF Off
  <2>4. Socks(proxies'[current]) = Socks(proxies[current])
    BY <2>2, ClaimsStay, ZenonT(30)
  <2>5. CASE skewed'
    BY <2>5 DEF DiskIsTable
  <2>6. CASE ~skewed'
    <3>1. ~skewed /\ proxiesDisk' = ProxyRecords(proxies'[current])
      BY <2>2, <2>6
    <3>2. Socks(proxiesDisk') = Socks(proxiesDisk)
      BY <1>9, <2>4, <3>1, WrittenClaims, DiskBefore
    <3> QED BY <2>2, <2>3, <2>4, <2>6, <3>2, DiskStays
  <2> QED BY <2>5, <2>6
<1>10. CASE \E s \in Server : ServerFails(s)
  <2>1. PICK s \in Server : ServerFails(s)
    BY <1>10
  <2>2. UNCHANGED <<member, current, cascades, rules, rulesDisk, proxiesDisk, skewed>>
    BY <2>1 DEF ServerFails
  <2>3. \A m \in Manager : Socks(proxies'[m]) = Socks(proxies[m])
    BY <1>t, <2>1, ServerFailsAfter, DarkenedClaims
  <2> QED BY <1>t, <2>2, <2>3, DiskStays
<1>11. CASE \E h \in Peer : Cascade(h)
  BY <1>11, CascadeDisk
<1>12. CASE OpenManagers
  BY <1>12, OpenDisk
<1>13. CASE CloseManagers
  <2>1. current' = 0 /\ UNCHANGED <<member, cascades, rulesDisk, proxiesDisk, skewed>>
    BY <1>13 DEF CloseManagers
  <2> QED BY <2>1, DiskStays
<1>14. CASE CarriersDie
  <2>1. /\ current' = 0 /\ UNCHANGED <<member, rulesDisk, proxiesDisk>>
        /\ cascades' = {} /\ skewed' = (skewed \/ cascades # {})
    BY <1>14 DEF CarriersDie
  <2>2. CASE skewed'
    BY <2>2 DEF DiskIsTable
  <2>3. CASE ~skewed'
    <3>1. skewed' = skewed /\ cascades = {}
      BY <2>1, <2>3 DEF Typed
    <3> QED BY <2>1, <3>1, DiskStays
  <2> QED BY <2>2, <2>3
<1> QED BY <1>1, <1>2, <1>3, <1>4, <1>5, <1>6, <1>7, <1>8, <1>9, <1>10, <1>11, <1>12, <1>13, <1>14
        DEF CarriersNext, Lander, Elsewhere, LinkSteps

-----------------------------------------------------------------------------
(* The invariant *)

LEMMA CarriersInvInit == CarriersInit => CarriersInv
<1> SUFFICES ASSUME CarriersInit PROVE CarriersInv
  OBVIOUS
<1> USE DEF CarriersInit
<1>1. Typed
  <2>1. Used(used) /\ current \in 0 .. used.managers
    BY CarriersAssumption DEF Used
  <2>2. NoServer \in ServerType /\ NoLink \in LinkType /\ NoLink.at = "none"
    BY CarriersAssumption DEF NoServer, ServerType, NoLink, LinkType
  <2> QED BY <2>1, <2>2 DEF Typed, Request
<1>2. Single /\ Fresh /\ Asked
  BY DEF Single, OneEach, Fresh, Asked
<1>3. DiskIsTable
  BY DEF DiskIsTable, OnDisk, Sole, Housed, Forwards, Socks
<1>4. LinksFollow /\ ServersHaveEntries
  BY DEF LinksFollow, ServersHaveEntries, NoLink, NoServer
<1> QED BY <1>1, <1>2, <1>3, <1>4 DEF CarriersInv

LEMMA CarriersInvKept == CarriersInv /\ [CarriersNext]_carriersVars => CarriersInv'
<1> SUFFICES ASSUME CarriersInv, [CarriersNext]_carriersVars PROVE CarriersInv'
  OBVIOUS
<1>1. CASE CarriersNext
  BY <1>1, TypedKept, SingleKept, FreshKept, AskedKept, DiskKept, LinksKept, ServersKept
     DEF CarriersInv
<1>2. CASE UNCHANGED carriersVars
  BY <1>2 DEF carriersVars, CarriersInv, Typed, Single, Fresh, Asked, DiskIsTable, OnDisk, Housed,
              LinksFollow, ServersHaveEntries
<1> QED BY <1>1, <1>2

\* The inductive invariant of the listeners: files, tables, servers and connections fit
\* together through requests, removals, failures, Attach, Detach and the end of the
\* process, for any hosts, ports, limits and bounds (carriers.go, forward.go, socksmgr.go).
THEOREM CarriersInvHolds == CarriersSpec => []CarriersInv
BY CarriersInvInit, CarriersInvKept, PTL DEF CarriersSpec

\* Of the attached managers no port has two owners and no listener outlives its host as
\* long as every removal found them and was saved; every server that accepts is the one
\* of an entry, and no connection passes data after its server was closed.
THEOREM ListenersAgree == CarriersSpec => []CarriersAgree
<1>1. CarriersInv => CarriersAgree
  <2> SUFFICES ASSUME CarriersInv PROVE CarriersAgree
    OBVIOUS
  <2>1. current # 0 /\ ~skewed => Owners(current) = OnDisk /\ Sole(OnDisk) /\ Housed(OnDisk)
    <3>1. \A m : Owners(m) = Forwards(rules[m]) \cup Socks(proxies[m])
      BY DEF Owners, Forwards, Socks
    <3> QED BY <3>1 DEF CarriersInv, DiskIsTable, OnDisk
  <2>2. PortsHaveOneOwner
    BY <2>1 DEF PortsHaveOneOwner, Sole
  <2>3. NoListenerOfGoneHost
    BY <2>1 DEF NoListenerOfGoneHost, Housed
  <2>4. NoTrafficAfterOff
    BY DEF CarriersInv, LinksFollow, NoTrafficAfterOff
  <2> QED BY <2>2, <2>3, <2>4 DEF CarriersInv, CarriersAgree
<1> QED BY <1>1, CarriersInvHolds, PTL

-----------------------------------------------------------------------------
(* The event bus: the frames of a connection, what reaches a front end, and its view. *)


BusItem == [n : Nat, epoch : Nat]
Logged == [dom : Domain, val : Nat]
Stage == {"idle", "publish", "deliver", "full"}
Publication == [pc : Stage, val : Nat, seq : Nat, epoch : Nat]
Subscription == [on : BOOLEAN, domains : SUBSET Domain, pending : Seq(BusItem), ch : Seq(BusItem),
                 overrun : BOOLEAN, epoch : Nat, since : Nat]
SubscribeAsk == [op : {"subscribe"}, corr : Nat, domains : SUBSET Domain, gen : Nat, cursor : Nat, since : Nat]
OtherRequest == [op : {"snapshot"}] \cup [op : {"unsubscribe"}, domains : SUBSET Domain]
BusRequest == SubscribeAsk \cup OtherRequest
Confirm == [kind : {"confirm"}, corr : Nat, verdict : {"ok", "stale", "bad"}]
SnapshotFrame == [kind : {"snapshot"}, seq : Nat, states : [Domain -> Nat]]
Frame == Confirm \cup SnapshotFrame
Reading == [seq : Nat, states : [Domain -> Nat] \cup {None}]
Places == {"drain", "step", "took", "write"}
Connection == [up : BOOLEAN, reqs : Seq(BusRequest), op : Reading \cup {None}, high : Seq(Frame),
               gate : SUBSET Nat, held : Seq(BusItem), pc : Places, buf : Seq(BusItem)]
Follower == [view : [Domain -> Nat], at : [Domain -> Nat], snap : Nat \cup {None}, last : Nat,
             gen : Nat, got : SUBSET Nat, confirmed : Nat, reqs : Nat, conns : Nat]

\* The events of a queue exist, that is, are numbered up to s, and are of subscriptions up to e.
Sound(q, s, e) == \A i \in 1 .. Len(q) : q[i].n \in 1 .. s /\ q[i].epoch <= e
Numbers(q) == {q[i].n : i \in 1 .. Len(q)}

\* What the queue operations do to the events of a queue.
LEMMA NoEvents ==
  ASSUME NEW s, NEW e
  PROVE  /\ <<>> \in Seq(BusItem) /\ Len(<<>>) = 0
         /\ Sound(<<>>, s, e) /\ Numbers(<<>>) = {}
<1>1. <<>> \in Seq(BusItem) /\ Len(<<>>) = 0
  BY EmptySeq
<1> QED
  BY <1>1 DEF Sound, Numbers

LEMMA OneEvent ==
  ASSUME NEW x \in BusItem, NEW s \in Nat, NEW e \in Nat
  PROVE  /\ <<x>> \in Seq(BusItem) /\ Len(<<x>>) = 1 /\ <<x>> # <<>> /\ Numbers(<<x>>) = {x.n}
         /\ x.n \in 1 .. s /\ x.epoch <= e => Sound(<<x>>, s, e)
<1>1. <<x>> \in Seq(BusItem) /\ Len(<<x>>) = 1 /\ <<x>>[1] = x
  OBVIOUS
<1> HIDE DEF BusItem
<1>2. <<x>> # <<>>
  BY <1>1, EmptySeq
<1>3. 1 .. Len(<<x>>) = {1}
  BY <1>1
<1> QED
  BY <1>1, <1>2, <1>3 DEF Sound, Numbers

LEMMA OneEventMore ==
  ASSUME NEW q \in Seq(BusItem), NEW x \in BusItem, NEW s \in Nat, NEW e \in Nat
  PROVE  /\ Append(q, x) \in Seq(BusItem) /\ Len(Append(q, x)) = Len(q) + 1
         /\ Numbers(Append(q, x)) = Numbers(q) \cup {x.n}
         /\ Sound(q, s, e) /\ x.n \in 1 .. s /\ x.epoch <= e => Sound(Append(q, x), s, e)
<1> DEFINE a == Append(q, x)
<1>1. /\ a \in Seq(BusItem) /\ Len(a) = Len(q) + 1 /\ Len(q) \in Nat
      /\ a[Len(q) + 1] = x /\ \A i \in 1 .. Len(q) : a[i] = q[i]
  BY AppendProperties, LenProperties
<1> HIDE DEF a, BusItem
<1>2. Numbers(a) = Numbers(q) \cup {x.n}
  <2>1. 1 .. Len(a) = 1 .. Len(q) \cup {Len(q) + 1}
    BY <1>1
  <2> QED
    BY <1>1, <2>1 DEF Numbers
<1>3. ASSUME Sound(q, s, e), x.n \in 1 .. s, x.epoch <= e PROVE Sound(a, s, e)
  <2> SUFFICES ASSUME NEW i \in 1 .. Len(a) PROVE a[i].n \in 1 .. s /\ a[i].epoch <= e
    BY DEF Sound
  <2>1. CASE i = Len(q) + 1
    BY <1>1, <1>3, <2>1
  <2>2. CASE i # Len(q) + 1
    <3>1. i \in 1 .. Len(q)
      BY <1>1, <2>2
    <3> QED
      BY <1>1, <1>3, <3>1 DEF Sound
  <2> QED
    BY <2>1, <2>2
<1> QED
  BY <1>1, <1>2, <1>3 DEF a

LEMMA OneEventLess ==
  ASSUME NEW q \in Seq(BusItem), q # <<>>, NEW s, NEW e
  PROVE  /\ Tail(q) \in Seq(BusItem) /\ Len(q) \in Nat /\ Len(q) >= 1 /\ Len(Tail(q)) = Len(q) - 1
         /\ Head(q) \in BusItem /\ Head(q) = q[1] /\ (Tail(q) = <<>> <=> Len(q) = 1)
         /\ Numbers(q) = {Head(q).n} \cup Numbers(Tail(q))
         /\ Sound(q, s, e) => Sound(Tail(q), s, e) /\ Head(q).n \in 1 .. s /\ Head(q).epoch <= e
<1> DEFINE t == Tail(q)
<1>1. /\ t \in Seq(BusItem) /\ Len(t) = Len(q) - 1 /\ Head(q) \in BusItem
      /\ \A i \in 1 .. Len(t) : t[i] = q[i + 1]
  BY HeadTailProperties
<1>2. Len(q) \in Nat /\ Len(q) >= 1 /\ Head(q) = q[1]
  <2>1. Len(q) \in Nat \ {0} /\ Head(q) = q[1]
    BY EmptySeq
  <2> QED
    BY <2>1
<1> HIDE DEF t, BusItem
<1>3. t = <<>> <=> Len(q) = 1
  <2>1. Len(t) = 0 => t = <<>>
    BY <1>1, EmptySeq, SMTT(20)
  <2>2. Len(<<>>) = 0
    BY EmptySeq
  <2> QED
    BY <1>1, <1>2, <2>1, <2>2
<1>4. Numbers(q) = {q[1].n} \cup Numbers(t)
  <2>1. ASSUME NEW i \in 1 .. Len(q) PROVE q[i].n \in {q[1].n} \cup Numbers(t)
    <3>1. CASE i = 1
      BY <3>1
    <3>2. CASE i # 1
      <4>1. i - 1 \in 1 .. Len(t) /\ (i - 1) + 1 = i
        BY <1>1, <1>2, <3>2
      <4>2. t[i - 1] = q[i]
        BY <1>1, <4>1
      <4> QED
        BY <4>1, <4>2 DEF Numbers
    <3> QED
      BY <3>1, <3>2
  <2>2. ASSUME NEW i \in 1 .. Len(t) PROVE t[i].n \in Numbers(q)
    <3>1. i + 1 \in 1 .. Len(q) /\ t[i] = q[i + 1]
      BY <1>1, <1>2
    <3> QED
      BY <3>1 DEF Numbers
  <2>3. q[1].n \in Numbers(q)
    BY <1>2 DEF Numbers
  <2> QED
    BY <2>1, <2>2, <2>3 DEF Numbers
<1>5. ASSUME Sound(q, s, e) PROVE Sound(t, s, e) /\ q[1].n \in 1 .. s /\ q[1].epoch <= e
  <2>1. q[1].n \in 1 .. s /\ q[1].epoch <= e
    BY <1>2, <1>5 DEF Sound
  <2>2. ASSUME NEW i \in 1 .. Len(t) PROVE t[i].n \in 1 .. s /\ t[i].epoch <= e
    <3>1. i + 1 \in 1 .. Len(q) /\ t[i] = q[i + 1]
      BY <1>1, <1>2
    <3> QED
      BY <1>5, <3>1 DEF Sound
  <2> QED
    BY <2>1, <2>2 DEF Sound
<1> QED
  BY <1>1, <1>2, <1>3, <1>4, <1>5 DEF t

LEMMA EventsJoined ==
  ASSUME NEW q \in Seq(BusItem), NEW r \in Seq(BusItem), NEW s, NEW e
  PROVE  /\ q \o r \in Seq(BusItem) /\ Len(q \o r) = Len(q) + Len(r)
         /\ Numbers(q \o r) = Numbers(q) \cup Numbers(r)
         /\ q = <<>> => q \o r = r
         /\ Sound(q, s, e) /\ Sound(r, s, e) => Sound(q \o r, s, e)
<1> DEFINE j == q \o r
<1>1. /\ j \in Seq(BusItem) /\ Len(j) = Len(q) + Len(r) /\ Len(q) \in Nat /\ Len(r) \in Nat
      /\ \A i \in 1 .. Len(q) + Len(r) : j[i] = IF i <= Len(q) THEN q[i] ELSE r[i - Len(q)]
  BY ConcatProperties, LenProperties
<1>0. q = <<>> => j = r
  BY ConcatEmptySeq
<1> HIDE DEF j, BusItem
<1>2. \A i \in 1 .. Len(j) :
        \/ i \in 1 .. Len(q) /\ j[i] = q[i]
        \/ i - Len(q) \in 1 .. Len(r) /\ j[i] = r[i - Len(q)]
  BY <1>1
<1>3. \A i \in 1 .. Len(q) : i \in 1 .. Len(j) /\ j[i] = q[i]
  BY <1>1
<1>4. ASSUME NEW i \in 1 .. Len(r) PROVE i + Len(q) \in 1 .. Len(j) /\ j[i + Len(q)] = r[i]
  <2>1. i + Len(q) \in 1 .. Len(j) /\ ~(i + Len(q) <= Len(q)) /\ (i + Len(q)) - Len(q) = i
    BY <1>1
  <2> QED
    BY <1>1, <2>1
<1>5. Numbers(j) = Numbers(q) \cup Numbers(r)
  <2>1. Numbers(j) \subseteq Numbers(q) \cup Numbers(r)
    BY <1>2 DEF Numbers
  <2>2. Numbers(q) \subseteq Numbers(j)
    BY <1>3 DEF Numbers
  <2>3. Numbers(r) \subseteq Numbers(j)
    BY <1>4 DEF Numbers
  <2> QED
    BY <2>1, <2>2, <2>3
<1>6. Sound(q, s, e) /\ Sound(r, s, e) => Sound(j, s, e)
  BY <1>2 DEF Sound
<1> QED
  BY <1>0, <1>1, <1>5, <1>6 DEF j

LEMMA SoundStays ==
  ASSUME NEW q \in Seq(BusItem), NEW s \in Nat, NEW e \in Nat, NEW s2 \in Nat, NEW e2 \in Nat,
         s <= s2, e <= e2, Sound(q, s, e)
  PROVE  Sound(q, s2, e2)
<1> SUFFICES ASSUME NEW i \in 1 .. Len(q) PROVE q[i].n \in 1 .. s2 /\ q[i].epoch <= e2
  BY DEF Sound
<1>1. q[i].n \in 1 .. s /\ q[i].epoch <= e
  BY DEF Sound
<1>2. q[i] \in BusItem
  BY ElementOfSeq
<1>3. q[i].epoch \in Nat
  BY <1>2 DEF BusItem
<1> QED
  BY <1>1, <1>3

LEMMA NumbersOfRange ==
  ASSUME NEW q \in Seq(BusItem)
  PROVE  {i.n : i \in Range(q)} = Numbers(q)
<1>1. Range(q) = {q[i] : i \in 1 .. Len(q)}
  BY RangeEquality
<1> QED
  BY <1>1 DEF Numbers

\* What the queue operations do to the members of a queue.
LEMMA MembersOfNone == Range(<<>>) = {}
<1>1. DOMAIN <<>> = {}
  OBVIOUS
<1> QED
  BY <1>1 DEF Range

LEMMA MembersOfAppend ==
  ASSUME NEW S, NEW q \in Seq(S), NEW x \in S
  PROVE  /\ Append(q, x) \in Seq(S) /\ Len(Append(q, x)) = Len(q) + 1 /\ Len(q) \in Nat
         /\ Append(q, x)[Len(q) + 1] = x /\ \A i \in 1 .. Len(q) : Append(q, x)[i] = q[i]
         /\ Range(Append(q, x)) = Range(q) \cup {x}
<1> DEFINE a == Append(q, x)
<1>1. /\ a \in Seq(S) /\ Len(a) = Len(q) + 1 /\ Len(q) \in Nat
      /\ a[Len(q) + 1] = x /\ \A i \in 1 .. Len(q) : a[i] = q[i]
  BY AppendProperties, LenProperties
<1>2. Range(a) = {a[i] : i \in 1 .. Len(a)} /\ Range(q) = {q[i] : i \in 1 .. Len(q)}
  BY <1>1, RangeEquality
<1> HIDE DEF a
<1>3. 1 .. Len(a) = 1 .. Len(q) \cup {Len(q) + 1}
  BY <1>1
<1>4. Range(a) = Range(q) \cup {x}
  BY <1>1, <1>2, <1>3
<1> QED
  BY <1>1, <1>4 DEF a

LEMMA MembersOfTail ==
  ASSUME NEW S, NEW q \in Seq(S), q # <<>>
  PROVE  /\ Tail(q) \in Seq(S) /\ Len(q) \in Nat /\ Len(q) >= 1 /\ Len(Tail(q)) = Len(q) - 1
         /\ Head(q) \in S /\ Head(q) = q[1]
         /\ \A i \in 1 .. Len(Tail(q)) : i + 1 \in 1 .. Len(q) /\ Tail(q)[i] = q[i + 1]
         /\ Range(q) = {Head(q)} \cup Range(Tail(q))
<1> DEFINE t == Tail(q)
<1>1. /\ t \in Seq(S) /\ Len(t) = Len(q) - 1 /\ Head(q) \in S
      /\ \A i \in 1 .. Len(t) : t[i] = q[i + 1]
  BY HeadTailProperties
<1>2. Len(q) \in Nat /\ Len(q) >= 1 /\ Head(q) = q[1]
  <2>1. Len(q) \in Nat \ {0} /\ Head(q) = q[1]
    BY EmptySeq
  <2> QED
    BY <2>1
<1>3. Range(t) = {t[i] : i \in 1 .. Len(t)} /\ Range(q) = {q[i] : i \in 1 .. Len(q)}
  BY <1>1, RangeEquality
<1> HIDE DEF t
<1>4. \A i \in 1 .. Len(t) : i + 1 \in 1 .. Len(q)
  BY <1>1, <1>2
<1>5. \A i \in 1 .. Len(q) : i = 1 \/ (i - 1 \in 1 .. Len(t) /\ t[i - 1] = q[i])
  <2> TAKE i \in 1 .. Len(q)
  <2>1. i # 1 => i - 1 \in 1 .. Len(t) /\ (i - 1) + 1 = i
    BY <1>1, <1>2
  <2>2. \A k \in 1 .. Len(t) : t[k] = q[k + 1]
    BY <1>1
  <2>3. i - 1 \in 1 .. Len(t) => t[i - 1] = q[(i - 1) + 1]
    BY <2>2, Zenon
  <2>4. (i - 1) + 1 = i => q[(i - 1) + 1] = q[i]
    BY Zenon
  <2>5. CASE i = 1
    BY <2>5
  <2>6. CASE i # 1
    BY <2>1, <2>3, <2>4, <2>6, Zenon
  <2> QED
    BY <2>5, <2>6
<1>6. Range(q) = {q[1]} \cup Range(t)
  <2>1. \A x \in Range(q) : x = q[1] \/ x \in Range(t)
    BY <1>3, <1>5
  <2>2. \A x \in Range(t) : x \in Range(q)
    BY <1>1, <1>3, <1>4
  <2>3. q[1] \in Range(q)
    BY <1>2, <1>3
  <2> QED
    BY <2>1, <2>2, <2>3
<1> QED
  BY <1>1, <1>2, <1>4, <1>6 DEF t

IsConfirm(f) == f.kind = "confirm"
IsAsked(r) == r.op = "subscribe"
ConfirmsOf(high) == {f \in Range(high) : IsConfirm(f)}
SnapshotsOf(high) == {f \in Range(high) : ~IsConfirm(f)}
AskedOf(reqs) == {r \in Range(reqs) : IsAsked(r)}
OnWay(high) == {f.corr : f \in ConfirmsOf(high)}
OkOnWay(high) == {f.corr : f \in {g \in ConfirmsOf(high) : g.verdict = "ok"}}
ToCome(reqs) == {r.corr : r \in AskedOf(reqs)}

\* Confirmations, and the subscriptions asked for, come in the order of their numbers.
Rising(high) ==
  \A i, j \in 1 .. Len(high) : i < j /\ IsConfirm(high[i]) /\ IsConfirm(high[j]) => high[i].corr < high[j].corr
RisingAsked(reqs) ==
  \A i, j \in 1 .. Len(reqs) : i < j /\ IsAsked(reqs[i]) /\ IsAsked(reqs[j]) => reqs[i].corr < reqs[j].corr

LEMMA FramesTyped ==
  ASSUME NEW f \in Frame
  PROVE  /\ IsConfirm(f) => f \in Confirm /\ f.corr \in Nat
         /\ ~IsConfirm(f) => f \in SnapshotFrame
<1>1. f \in Confirm => f.kind = "confirm" /\ f.corr \in Nat
  BY DEF Confirm
<1>2. f \in SnapshotFrame => f.kind = "snapshot"
  BY DEF SnapshotFrame
<1>3. f \in Confirm \/ f \in SnapshotFrame
  BY DEF Frame
<1> QED
  BY <1>1, <1>2, <1>3 DEF IsConfirm

LEMMA BusRequestsTyped ==
  ASSUME NEW r \in BusRequest
  PROVE  /\ IsAsked(r) => r \in SubscribeAsk /\ r.corr \in Nat
         /\ r.op = "snapshot" \/ r.op = "unsubscribe" => ~IsAsked(r)
<1>1. r \in SubscribeAsk => r.corr \in Nat /\ r.op = "subscribe"
  BY DEF SubscribeAsk
<1>2. r \in OtherRequest => r.op \in {"snapshot", "unsubscribe"}
  BY DEF OtherRequest
<1>3. r \in SubscribeAsk \/ r \in OtherRequest
  BY DEF BusRequest
<1> QED
  BY <1>1, <1>2, <1>3 DEF IsAsked

LEMMA FrameQueued ==
  ASSUME NEW high \in Seq(Frame), NEW f \in Frame
  PROVE  /\ Append(high, f) \in Seq(Frame)
         /\ SnapshotsOf(Append(high, f)) = SnapshotsOf(high) \cup (IF IsConfirm(f) THEN {} ELSE {f})
         /\ OnWay(Append(high, f)) = OnWay(high) \cup (IF IsConfirm(f) THEN {f.corr} ELSE {})
         /\ OkOnWay(Append(high, f)) =
              OkOnWay(high) \cup (IF IsConfirm(f) /\ f.verdict = "ok" THEN {f.corr} ELSE {})
         /\ Rising(high) /\ (IsConfirm(f) => \A c \in OnWay(high) : c < f.corr) => Rising(Append(high, f))
<1> DEFINE a == Append(high, f)
<1>1. /\ a \in Seq(Frame) /\ Len(a) = Len(high) + 1 /\ Len(high) \in Nat
      /\ a[Len(high) + 1] = f /\ \A i \in 1 .. Len(high) : a[i] = high[i]
      /\ Range(a) = Range(high) \cup {f}
  BY MembersOfAppend
<1>2. Range(high) = {high[i] : i \in 1 .. Len(high)}
  BY RangeEquality
<1> HIDE DEF a, Frame
<1>3. /\ SnapshotsOf(a) = SnapshotsOf(high) \cup (IF IsConfirm(f) THEN {} ELSE {f})
      /\ ConfirmsOf(a) = ConfirmsOf(high) \cup (IF IsConfirm(f) THEN {f} ELSE {})
  BY <1>1 DEF SnapshotsOf, ConfirmsOf
<1>4. OnWay(a) = OnWay(high) \cup (IF IsConfirm(f) THEN {f.corr} ELSE {})
  <2>1. CASE IsConfirm(f)
    BY <1>3, <2>1 DEF OnWay
  <2>2. CASE ~IsConfirm(f)
    BY <1>3, <2>2 DEF OnWay
  <2> QED
    BY <2>1, <2>2
<1>5. OkOnWay(a) = OkOnWay(high) \cup (IF IsConfirm(f) /\ f.verdict = "ok" THEN {f.corr} ELSE {})
  <2>1. CASE IsConfirm(f)
    BY <1>3, <2>1 DEF OkOnWay
  <2>2. CASE ~IsConfirm(f)
    BY <1>3, <2>2 DEF OkOnWay
  <2> QED
    BY <2>1, <2>2
<1>6. ASSUME Rising(high), IsConfirm(f) => \A c \in OnWay(high) : c < f.corr PROVE Rising(a)
  <2> SUFFICES ASSUME NEW i \in 1 .. Len(a), NEW j \in 1 .. Len(a),
                      i < j, IsConfirm(a[i]), IsConfirm(a[j])
               PROVE  a[i].corr < a[j].corr
    BY DEF Rising
  <2>1. i \in 1 .. Len(high) /\ a[i] = high[i]
    BY <1>1
  <2>2. CASE j \in 1 .. Len(high)
    BY <1>1, <1>6, <2>1, <2>2 DEF Rising
  <2>3. CASE j \notin 1 .. Len(high)
    <3>1. a[j] = f
      BY <1>1, <2>3
    <3>2. high[i].corr \in OnWay(high)
      BY <1>2, <2>1 DEF OnWay, ConfirmsOf
    <3> QED
      BY <1>6, <2>1, <3>1, <3>2
  <2> QED
    BY <2>2, <2>3
<1> QED
  BY <1>1, <1>3, <1>4, <1>5, <1>6 DEF a

LEMMA FrameWritten ==
  ASSUME NEW high \in Seq(Frame), high # <<>>, Rising(high)
  PROVE  LET f == Head(high) IN
         /\ Tail(high) \in Seq(Frame) /\ f \in Frame /\ Rising(Tail(high))
         /\ SnapshotsOf(Tail(high)) \subseteq SnapshotsOf(high)
         /\ ~IsConfirm(f) => f \in SnapshotsOf(high)
         /\ IsConfirm(f) =>
              /\ f.corr \in OnWay(high) /\ f.corr \notin OnWay(Tail(high))
              /\ \A c \in OnWay(Tail(high)) : f.corr < c
              /\ f.verdict = "ok" => OkOnWay(high) = {f.corr} \cup OkOnWay(Tail(high))
              /\ f.verdict # "ok" => OkOnWay(high) = OkOnWay(Tail(high))
         /\ OnWay(high) = OnWay(Tail(high)) \cup (IF IsConfirm(f) THEN {f.corr} ELSE {})
         /\ ~IsConfirm(f) => OkOnWay(high) = OkOnWay(Tail(high))
<1> DEFINE f == Head(high)
           t == Tail(high)
<1>1. /\ t \in Seq(Frame) /\ Len(high) \in Nat /\ Len(high) >= 1 /\ Len(t) = Len(high) - 1
      /\ f \in Frame /\ f = high[1]
      /\ \A i \in 1 .. Len(t) : i + 1 \in 1 .. Len(high) /\ t[i] = high[i + 1]
      /\ Range(high) = {f} \cup Range(t)
  BY MembersOfTail
<1>2. Range(t) = {t[i] : i \in 1 .. Len(t)}
  BY <1>1, RangeEquality
<1>0. IsConfirm(f) => f.corr \in Nat
  BY <1>1, FramesTyped
<1> HIDE DEF f, t, Frame
<1>3. /\ SnapshotsOf(t) \subseteq SnapshotsOf(high)
      /\ ~IsConfirm(f) => f \in SnapshotsOf(high)
      /\ ConfirmsOf(high) = ConfirmsOf(t) \cup (IF IsConfirm(f) THEN {f} ELSE {})
  BY <1>1 DEF SnapshotsOf, ConfirmsOf
<1>4. OnWay(high) = OnWay(t) \cup (IF IsConfirm(f) THEN {f.corr} ELSE {})
  <2>1. CASE IsConfirm(f)
    BY <1>3, <2>1 DEF OnWay
  <2>2. CASE ~IsConfirm(f)
    BY <1>3, <2>2 DEF OnWay
  <2> QED
    BY <2>1, <2>2
<1>5. /\ ~IsConfirm(f) => OkOnWay(high) = OkOnWay(t)
      /\ IsConfirm(f) /\ f.verdict = "ok" => OkOnWay(high) = {f.corr} \cup OkOnWay(t)
      /\ IsConfirm(f) /\ f.verdict # "ok" => OkOnWay(high) = OkOnWay(t)
  <2>1. CASE IsConfirm(f)
    BY <1>3, <2>1 DEF OkOnWay
  <2>2. CASE ~IsConfirm(f)
    BY <1>3, <2>2 DEF OkOnWay
  <2> QED
    BY <2>1, <2>2
<1>6. ASSUME IsConfirm(f), NEW c \in OnWay(t) PROVE f.corr < c
  <2>1. PICK i \in 1 .. Len(t) : IsConfirm(t[i]) /\ t[i].corr = c
    BY <1>2 DEF OnWay, ConfirmsOf
  <2>2. i + 1 \in 1 .. Len(high) /\ t[i] = high[i + 1] /\ 1 \in 1 .. Len(high) /\ 1 < i + 1
    BY <1>1
  <2> QED
    BY <1>1, <1>6, <2>1, <2>2 DEF Rising
<1>7. Rising(t)
  <2> SUFFICES ASSUME NEW i \in 1 .. Len(t), NEW j \in 1 .. Len(t),
                      i < j, IsConfirm(t[i]), IsConfirm(t[j])
               PROVE  t[i].corr < t[j].corr
    BY DEF Rising
  <2>1. i + 1 \in 1 .. Len(high) /\ j + 1 \in 1 .. Len(high) /\ i + 1 < j + 1
    BY <1>1
  <2>2. t[i] = high[i + 1] /\ t[j] = high[j + 1]
    BY <1>1
  <2> QED
    BY <2>1, <2>2 DEF Rising
<1>8. IsConfirm(f) => f.corr \notin OnWay(t)
  BY <1>0, <1>6
<1> QED
  BY <1>1, <1>3, <1>4, <1>5, <1>6, <1>7, <1>8 DEF f, t

LEMMA RequestQueued ==
  ASSUME NEW reqs \in Seq(BusRequest), NEW r \in BusRequest
  PROVE  /\ Append(reqs, r) \in Seq(BusRequest)
         /\ AskedOf(Append(reqs, r)) = AskedOf(reqs) \cup (IF IsAsked(r) THEN {r} ELSE {})
         /\ ToCome(Append(reqs, r)) = ToCome(reqs) \cup (IF IsAsked(r) THEN {r.corr} ELSE {})
         /\ RisingAsked(reqs) /\ (IsAsked(r) => \A c \in ToCome(reqs) : c < r.corr)
              => RisingAsked(Append(reqs, r))
<1> DEFINE a == Append(reqs, r)
<1>1. /\ a \in Seq(BusRequest) /\ Len(a) = Len(reqs) + 1 /\ Len(reqs) \in Nat
      /\ a[Len(reqs) + 1] = r /\ \A i \in 1 .. Len(reqs) : a[i] = reqs[i]
      /\ Range(a) = Range(reqs) \cup {r}
  BY MembersOfAppend
<1>2. Range(reqs) = {reqs[i] : i \in 1 .. Len(reqs)}
  BY RangeEquality
<1> HIDE DEF a, BusRequest
<1>3. AskedOf(a) = AskedOf(reqs) \cup (IF IsAsked(r) THEN {r} ELSE {})
  BY <1>1 DEF AskedOf
<1>4. ToCome(a) = ToCome(reqs) \cup (IF IsAsked(r) THEN {r.corr} ELSE {})
  <2>1. CASE IsAsked(r)
    BY <1>3, <2>1 DEF ToCome
  <2>2. CASE ~IsAsked(r)
    BY <1>3, <2>2 DEF ToCome
  <2> QED
    BY <2>1, <2>2
<1>6. ASSUME RisingAsked(reqs), IsAsked(r) => \A c \in ToCome(reqs) : c < r.corr PROVE RisingAsked(a)
  <2> SUFFICES ASSUME NEW i \in 1 .. Len(a), NEW j \in 1 .. Len(a),
                      i < j, IsAsked(a[i]), IsAsked(a[j])
               PROVE  a[i].corr < a[j].corr
    BY DEF RisingAsked
  <2>1. i \in 1 .. Len(reqs) /\ a[i] = reqs[i]
    BY <1>1
  <2>2. CASE j \in 1 .. Len(reqs)
    BY <1>1, <1>6, <2>1, <2>2 DEF RisingAsked
  <2>3. CASE j \notin 1 .. Len(reqs)
    <3>1. a[j] = r
      BY <1>1, <2>3
    <3>2. reqs[i].corr \in ToCome(reqs)
      BY <1>2, <2>1 DEF ToCome, AskedOf
    <3> QED
      BY <1>6, <2>1, <3>1, <3>2
  <2> QED
    BY <2>2, <2>3
<1> QED
  BY <1>1, <1>3, <1>4, <1>6 DEF a

LEMMA RequestTaken ==
  ASSUME NEW reqs \in Seq(BusRequest), reqs # <<>>, RisingAsked(reqs)
  PROVE  LET r == Head(reqs) IN
         /\ Tail(reqs) \in Seq(BusRequest) /\ r \in BusRequest /\ RisingAsked(Tail(reqs))
         /\ AskedOf(Tail(reqs)) \subseteq AskedOf(reqs) /\ ToCome(Tail(reqs)) \subseteq ToCome(reqs)
         /\ IsAsked(r) => /\ r \in AskedOf(reqs) /\ r.corr \in ToCome(reqs)
                          /\ \A c \in ToCome(Tail(reqs)) : r.corr < c
<1> DEFINE r == Head(reqs)
           t == Tail(reqs)
<1>1. /\ t \in Seq(BusRequest) /\ Len(reqs) \in Nat /\ Len(reqs) >= 1 /\ Len(t) = Len(reqs) - 1
      /\ r \in BusRequest /\ r = reqs[1]
      /\ \A i \in 1 .. Len(t) : i + 1 \in 1 .. Len(reqs) /\ t[i] = reqs[i + 1]
      /\ Range(reqs) = {r} \cup Range(t)
  BY MembersOfTail
<1>2. Range(t) = {t[i] : i \in 1 .. Len(t)}
  BY <1>1, RangeEquality
<1> HIDE DEF r, t, BusRequest
<1>3. AskedOf(t) \subseteq AskedOf(reqs) /\ ToCome(t) \subseteq ToCome(reqs)
  BY <1>1 DEF AskedOf, ToCome
<1>4. IsAsked(r) => r \in AskedOf(reqs) /\ r.corr \in ToCome(reqs)
  BY <1>1 DEF AskedOf, ToCome
<1>6. ASSUME IsAsked(r), NEW c \in ToCome(t) PROVE r.corr < c
  <2>1. PICK i \in 1 .. Len(t) : IsAsked(t[i]) /\ t[i].corr = c
    BY <1>2 DEF ToCome, AskedOf
  <2>2. i + 1 \in 1 .. Len(reqs) /\ t[i] = reqs[i + 1] /\ 1 \in 1 .. Len(reqs) /\ 1 < i + 1
    BY <1>1
  <2> QED
    BY <1>1, <1>6, <2>1, <2>2 DEF RisingAsked
<1>7. RisingAsked(t)
  <2> SUFFICES ASSUME NEW i \in 1 .. Len(t), NEW j \in 1 .. Len(t),
                      i < j, IsAsked(t[i]), IsAsked(t[j])
               PROVE  t[i].corr < t[j].corr
    BY DEF RisingAsked
  <2>1. i + 1 \in 1 .. Len(reqs) /\ j + 1 \in 1 .. Len(reqs) /\ i + 1 < j + 1
    BY <1>1
  <2>2. t[i] = reqs[i + 1] /\ t[j] = reqs[j + 1]
    BY <1>1
  <2> QED
    BY <2>1, <2>2 DEF RisingAsked
<1> QED
  BY <1>1, <1>3, <1>4, <1>6, <1>7 DEF r, t

SessionsTyped == value \in [Domain -> Nat] /\ life \in [Domain -> {"up", "stopping", "over"}]
LogTyped ==
  /\ log \in Seq(Logged) /\ gen \in 1 .. MaxGen
  /\ ringLen \in 0 .. RingCap /\ ringLen <= Seq0 /\ (ringLen = 0 => Seq0 = 0)
RecordsTyped ==
  /\ sub \in Subscription /\ conn \in Connection /\ fe \in Follower
  /\ fe.confirmed <= fe.reqs /\ fe.reqs <= MaxReq /\ (sub.on => conn.up)
PublishersTyped ==
  /\ publisher \in [Publisher -> Publication]
  /\ \A p \in Publisher : /\ publisher[p].seq <= Seq0 /\ publisher[p].epoch <= sub.epoch
                          /\ publisher[p].pc = "deliver" => publisher[p].seq >= 1
                          /\ publisher[p].pc \in {"idle", "publish"} => publisher[p].epoch = 0

\* What is in the queues; where the writer is tells what it may hold.
QueuesAreSound ==
  /\ Sound(sub.ch, Seq0, sub.epoch) /\ Sound(sub.pending, Seq0, sub.epoch)
  /\ Sound(conn.held, Seq0, sub.epoch) /\ Sound(conn.buf, Seq0, sub.epoch)
  /\ Len(sub.ch) <= SubQueue /\ Len(sub.pending) <= RingCap
WriterIsPlaced ==
  /\ conn.pc \in {"drain", "step"} => conn.buf = <<>>
  /\ conn.pc = "took" => Len(conn.buf) = 1
  /\ conn.pc = "write" => conn.buf # <<>> /\ Sound(conn.buf, Seq0, fe.confirmed)
  /\ Len(conn.held) <= 1 /\ (conn.pc # "drain" => conn.held = <<>>)

\* The latch is the set of confirmations on their way. They and the subscriptions asked for
\* after them have ascending numbers, above the one confirmed last; the present subscription is
\* confirmed or about to be.
Announced(gate, high, reqs, low, top, epoch) ==
  /\ gate = OnWay(high) /\ Rising(high) /\ RisingAsked(reqs)
  /\ \A c \in OnWay(high) \cup ToCome(reqs) : low < c /\ c <= top
  /\ \A c \in OnWay(high) : \A r \in ToCome(reqs) : c < r
  /\ epoch <= low \/ epoch \in OkOnWay(high)
Confirming ==
  /\ Announced(conn.gate, conn.high, conn.reqs, fe.confirmed, fe.reqs, sub.epoch)
  /\ conn.gate = {} => sub.pending = <<>> /\ conn.held = <<>>

FrameInv ==
  /\ SessionsTyped /\ LogTyped /\ RecordsTyped /\ PublishersTyped
  /\ QueuesAreSound /\ WriterIsPlaced /\ Confirming

LEMMA OkIsOnWay ==
  ASSUME NEW high
  PROVE  OkOnWay(high) \subseteq OnWay(high)
BY DEF OkOnWay, OnWay

LEMMA NoFrames ==
  /\ SnapshotsOf(<<>>) = {} /\ OnWay(<<>>) = {} /\ OkOnWay(<<>>) = {} /\ Rising(<<>>)
  /\ AskedOf(<<>>) = {} /\ ToCome(<<>>) = {} /\ RisingAsked(<<>>)
<1>1. Range(<<>>) = {} /\ Len(<<>>) = 0
  BY MembersOfNone, EmptySeq
<1> QED
  BY <1>1 DEF SnapshotsOf, OnWay, OkOnWay, ConfirmsOf, Rising, AskedOf, ToCome, RisingAsked

LEMMA LogFacts ==
  ASSUME LogTyped
  PROVE  /\ Seq0 \in Nat /\ Oldest \in Int /\ gen \in Nat /\ MaxReq \in Nat
         /\ \A n \in 1 .. Seq0 : log[n] \in Logged /\ log[n].dom \in Domain /\ log[n].val \in Nat
<1>1. Seq0 \in Nat
  BY LenProperties DEF LogTyped, Seq0
<1>2. \A n \in 1 .. Seq0 : log[n] \in Logged
  BY ElementOfSeq DEF LogTyped, Seq0
<1>3. MaxReq \in Nat /\ gen \in Nat /\ ringLen \in Int
  BY BoundsAssumption DEF LogTyped
<1> QED
  BY <1>1, <1>2, <1>3 DEF Oldest, Seq0, Logged

LEMMA FrameInit == Init => FrameInv
<1> SUFFICES ASSUME Init PROVE FrameInv
  OBVIOUS
<1>1. SessionsTyped
  BY DEF Init, SessionsTyped
<1>0. Seq0 = 0 /\ log \in Seq(Logged)
  BY EmptySeq DEF Init, Seq0
<1>2. LogTyped
  <2>1. gen \in 1 .. MaxGen /\ 0 \in 0 .. RingCap
    BY BoundsAssumption DEF Init
  <2> QED
    BY <1>0, <2>1 DEF Init, LogTyped
<1>3. sub \in Subscription /\ conn \in Connection /\ fe \in Follower
  <2>1. <<>> \in Seq(BusItem) /\ <<>> \in Seq(BusRequest) /\ <<>> \in Seq(Frame)
    BY EmptySeq
  <2> HIDE DEF BusItem, BusRequest, Frame
  <2>2. sub \in Subscription
    BY <2>1 DEF Init, NoSub, Subscription
  <2>3. conn \in Connection
    BY <2>1 DEF Init, NoConn, Connection, Places
  <2>4. fe \in Follower
    BY DEF Init, Follower
  <2> QED
    BY <2>2, <2>3, <2>4
<1>4. RecordsTyped
  BY <1>3, BoundsAssumption DEF RecordsTyped, Init, NoSub
<1>5. PublishersTyped
  BY <1>0 DEF PublishersTyped, Init, IdlePublisher, Publication, Stage, NoSub
<1>6. QueuesAreSound
  <2>1. Len(<<>>) = 0 /\ 0 <= SubQueue /\ 0 <= RingCap
    BY EmptySeq, BoundsAssumption
  <2> QED
    BY <2>1, NoEvents DEF Init, QueuesAreSound, NoSub, NoConn
<1>7. WriterIsPlaced
  BY EmptySeq DEF WriterIsPlaced, Init, NoConn
<1>8. Confirming
  BY NoFrames DEF Confirming, Announced, Init, NoConn, NoSub
<1> QED
  BY <1>1, <1>2, <1>4, <1>5, <1>6, <1>7, <1>8 DEF FrameInv

\* The steps of the sessions.
LEMMA SetStateFrames ==
  ASSUME FrameInv, NEW p \in Publisher, SetState(p)
  PROVE  FrameInv'
<1>1. UNCHANGED <<log, ringLen, gen, sub, conn, fe>>
  BY DEF SetState, busVars
<1>2. p[1] \in Domain
  BY DEF Publisher
<1>3. SessionsTyped'
  <2>1. value' \in [Domain -> Nat]
    BY <1>2 DEF SetState, FrameInv, SessionsTyped
  <2>2. life' \in [Domain -> {"up", "stopping", "over"}]
    BY <1>2 DEF SetState, FrameInv, SessionsTyped
  <2> QED
    BY <2>1, <2>2 DEF SessionsTyped
<1>4. PublishersTyped'
  <2>1. publisher \in [Publisher -> Publication] /\ publisher[p] \in Publication
    BY DEF FrameInv, PublishersTyped
  <2>2. value'[p[1]] \in Nat
    BY <1>2, <1>3 DEF SessionsTyped
  <2> DEFINE x == [publisher[p] EXCEPT !.pc = "publish", !.val = value'[p[1]]]
  <2>3. x \in Publication /\ x.seq = publisher[p].seq /\ x.epoch = publisher[p].epoch /\ x.pc = "publish"
    BY <2>1, <2>2 DEF Publication, Stage
  <2>4. publisher' = [publisher EXCEPT ![p] = x]
    BY <2>1 DEF SetState
  <2>5. publisher[p].epoch = 0
    BY DEF SetState, FrameInv, PublishersTyped
  <2> HIDE DEF x
  <2> QED
    BY <1>1, <2>1, <2>3, <2>4, <2>5 DEF FrameInv, PublishersTyped, Seq0
<1> QED
  BY <1>1, <1>3, <1>4 DEF FrameInv, LogTyped, RecordsTyped, QueuesAreSound, WriterIsPlaced, Confirming, Seq0

LEMMA PublishFrames ==
  ASSUME FrameInv, NEW p \in Publisher, Publish(p)
  PROVE  FrameInv'
<1>1. UNCHANGED <<value, life, gen, sub, conn, fe>>
  BY DEF Publish, sessionVars
<1>2. p[1] \in Domain /\ publisher[p] \in Publication
  BY DEF Publisher, FrameInv, PublishersTyped
<1>3. log' \in Seq(Logged) /\ Seq0' = Seq0 + 1 /\ Seq0 \in Nat
  <2> DEFINE x == [dom |-> p[1], val |-> publisher[p].val]
  <2>1. x \in Logged
    BY <1>2 DEF Logged, Publication
  <2>2. log \in Seq(Logged) /\ log' = Append(log, x)
    BY DEF Publish, FrameInv, LogTyped
  <2> HIDE DEF x
  <2> QED
    BY <2>1, <2>2, AppendProperties, LenProperties DEF Seq0
<1>4. LogTyped'
  <2>1. RingCap \in Nat \ {0}
    BY BoundsAssumption
  <2>2. PICK evicted \in (IF ringLen = RingCap THEN 1 ELSE 0) .. ringLen : ringLen' = ringLen - evicted + 1
    BY DEF Publish
  <2>3. ringLen \in 0 .. RingCap /\ ringLen <= Seq0 /\ gen \in 1 .. MaxGen
    BY DEF FrameInv, LogTyped
  <2>4. ringLen' \in 1 .. RingCap /\ ringLen' <= Seq0 + 1
    BY <1>3, <2>1, <2>2, <2>3
  <2> QED
    BY <1>1, <1>3, <2>3, <2>4 DEF LogTyped
<1>5. sub \in Subscription /\ sub.epoch \in Nat
  BY DEF FrameInv, RecordsTyped, Subscription
<1>6. PublishersTyped'
  <2> DEFINE x == IF sub.on /\ p[1] \in sub.domains
                  THEN [pc |-> "deliver", val |-> 0, seq |-> Len(log'), epoch |-> sub.epoch]
                  ELSE IdlePublisher
  <2>1. /\ x \in Publication /\ x.seq <= Seq0' /\ x.epoch <= sub.epoch /\ (x.pc = "deliver" => x.seq >= 1)
        /\ x.pc \in {"idle", "publish"} => x.epoch = 0
    BY <1>3, <1>5 DEF Publication, Stage, IdlePublisher, Seq0
  <2>2. publisher' = [publisher EXCEPT ![p] = x] /\ publisher \in [Publisher -> Publication]
    BY DEF Publish, FrameInv, PublishersTyped
  <2> HIDE DEF x
  <2>3. publisher' \in [Publisher -> Publication]
    BY <2>1, <2>2
  <2>4. ASSUME NEW r \in Publisher
        PROVE  /\ publisher'[r].seq <= Seq0' /\ publisher'[r].epoch <= sub.epoch
               /\ publisher'[r].pc = "deliver" => publisher'[r].seq >= 1
               /\ publisher'[r].pc \in {"idle", "publish"} => publisher'[r].epoch = 0
    <3>1. CASE r = p
      BY <2>1, <2>2, <3>1
    <3>2. CASE r # p
      <4>1. publisher'[r] = publisher[r] /\ publisher[r] \in Publication
        BY <2>2, <3>2
      <4>2. publisher[r].seq <= Seq0 /\ publisher[r].epoch <= sub.epoch
             /\ (publisher[r].pc = "deliver" => publisher[r].seq >= 1) /\ publisher[r].seq \in Nat
             /\ (publisher[r].pc \in {"idle", "publish"} => publisher[r].epoch = 0)
        BY <4>1 DEF FrameInv, PublishersTyped, Publication
      <4> QED
        BY <1>3, <4>1, <4>2
    <3> QED
      BY <3>1, <3>2
  <2> QED
    BY <1>1, <2>3, <2>4 DEF PublishersTyped
<1>7. \A q \in Seq(BusItem) : \A e \in Nat : Sound(q, Seq0, e) => Sound(q, Seq0', e)
  <2> TAKE q \in Seq(BusItem), e \in Nat
  <2>1. Seq0 <= Seq0' /\ Seq0' \in Nat /\ e <= e
    BY <1>3
  <2> QED
    BY <1>3, <2>1, SoundStays
<1>8. QueuesAreSound' /\ WriterIsPlaced'
  <2>1. /\ sub.ch \in Seq(BusItem) /\ sub.pending \in Seq(BusItem)
        /\ conn.held \in Seq(BusItem) /\ conn.buf \in Seq(BusItem) /\ fe.confirmed \in Nat
    BY DEF FrameInv, RecordsTyped, Subscription, Connection, Follower
  <2> QED
    BY <1>1, <1>5, <1>7, <2>1 DEF FrameInv, QueuesAreSound, WriterIsPlaced
<1> QED
  BY <1>1, <1>4, <1>6, <1>8 DEF FrameInv, SessionsTyped, RecordsTyped, Confirming

LEMMA DeliverFrames ==
  ASSUME FrameInv, NEW p \in Publisher, Deliver(p)
  PROVE  FrameInv'
<1>1. UNCHANGED <<value, life, log, ringLen, gen, conn, fe>>
  BY DEF Deliver, sessionVars, busVars
<1>2. /\ publisher \in [Publisher -> Publication] /\ publisher[p] \in Publication
      /\ publisher[p].pc = "deliver" /\ publisher[p].seq \in 1 .. Seq0 /\ publisher[p].epoch <= sub.epoch
      /\ publisher[p].epoch \in Nat /\ publisher[p].seq \in Nat
  <2>1. publisher \in [Publisher -> Publication] /\ publisher[p] \in Publication
    BY DEF FrameInv, PublishersTyped
  <2>2. Seq0 \in Nat
    BY LogFacts DEF FrameInv
  <2> QED
    BY <2>1, <2>2 DEF Deliver, FrameInv, PublishersTyped, Publication
<1>3. sub \in Subscription /\ sub.ch \in Seq(BusItem) /\ sub.epoch \in Nat
  BY DEF FrameInv, RecordsTyped, Subscription
<1>4. Sound(sub.ch, Seq0, sub.epoch) /\ Len(sub.ch) <= SubQueue /\ Seq0 \in Nat
  BY LogFacts DEF FrameInv, QueuesAreSound
<1> DEFINE it == Item(publisher[p].seq, publisher[p].epoch)
<1>5. it \in BusItem /\ it.n \in 1 .. Seq0 /\ it.epoch <= sub.epoch
  BY <1>2 DEF Item, BusItem
<1> HIDE DEF it
<1>6. CASE Len(sub.ch) < SubQueue
  <2>1. /\ sub' = [sub EXCEPT !.ch = Append(@, it)]
        /\ publisher' = [publisher EXCEPT ![p] = IdlePublisher]
    BY <1>6 DEF Deliver, it
  <2> DEFINE q == Append(sub.ch, it)
  <2>2. q \in Seq(BusItem) /\ Len(q) = Len(sub.ch) + 1 /\ Sound(q, Seq0, sub.epoch)
    BY <1>3, <1>4, <1>5, OneEventMore
  <2> HIDE DEF q, BusItem
  <2>3. /\ sub' \in Subscription /\ sub'.ch = q /\ sub'.epoch = sub.epoch /\ sub'.pending = sub.pending
        /\ sub'.on = sub.on
    BY <1>3, <2>1, <2>2 DEF Subscription, q
  <2>4. PublishersTyped'
    BY <1>1, <1>2, <1>3, <1>4, <2>1, <2>3 DEF FrameInv, PublishersTyped, IdlePublisher, Publication, Stage, Seq0
  <2>5. Len(q) <= SubQueue
    <3>1. Len(sub.ch) \in Nat /\ SubQueue \in Nat
      BY <1>3, LenProperties, BoundsAssumption
    <3> QED
      BY <1>6, <2>2, <3>1
  <2>6. QueuesAreSound' /\ WriterIsPlaced'
    BY <1>1, <2>2, <2>3, <2>5 DEF FrameInv, QueuesAreSound, WriterIsPlaced, Seq0
  <2> QED
    BY <1>1, <2>3, <2>4, <2>6 DEF FrameInv, SessionsTyped, LogTyped, RecordsTyped, Confirming, Seq0
<1>7. CASE ~(Len(sub.ch) < SubQueue)
  <2>1. /\ sub' = [sub EXCEPT !.on = FALSE]
        /\ publisher' = [publisher EXCEPT ![p].pc = "full"]
    BY <1>7 DEF Deliver
  <2> HIDE DEF BusItem
  <2>3. /\ sub' \in Subscription /\ sub'.ch = sub.ch /\ sub'.epoch = sub.epoch /\ sub'.pending = sub.pending
        /\ sub'.on = FALSE
    BY <1>3, <2>1 DEF Subscription
  <2> DEFINE x == [publisher[p] EXCEPT !.pc = "full"]
  <2>4. x \in Publication /\ x.seq = publisher[p].seq /\ x.epoch = publisher[p].epoch /\ x.pc = "full"
    BY <1>2 DEF Publication, Stage
  <2>5. publisher' = [publisher EXCEPT ![p] = x]
    BY <1>2, <2>1
  <2> HIDE DEF x
  <2>6. PublishersTyped'
    BY <1>1, <1>2, <2>3, <2>4, <2>5 DEF FrameInv, PublishersTyped, Seq0
  <2>7. QueuesAreSound' /\ WriterIsPlaced'
    BY <1>1, <2>3 DEF FrameInv, QueuesAreSound, WriterIsPlaced, Seq0
  <2> QED
    BY <1>1, <2>3, <2>6, <2>7 DEF FrameInv, SessionsTyped, LogTyped, RecordsTyped, Confirming, Seq0
<1> QED
  BY <1>6, <1>7

LEMMA TerminateFrames ==
  ASSUME FrameInv, NEW p \in Publisher, TerminateOverrun(p)
  PROVE  FrameInv'
<1>1. UNCHANGED <<value, life, log, ringLen, gen, conn, fe>>
  BY DEF TerminateOverrun, sessionVars, busVars
<1>2. publisher \in [Publisher -> Publication] /\ sub \in Subscription /\ sub.epoch \in Nat /\ Seq0 \in Nat
  BY LogFacts DEF FrameInv, PublishersTyped, RecordsTyped, Subscription
<1> HIDE DEF BusItem
<1>3. /\ sub' \in Subscription /\ sub'.ch = sub.ch /\ sub'.epoch = sub.epoch /\ sub'.pending = sub.pending
      /\ sub'.on = sub.on
  BY <1>2 DEF TerminateOverrun, Subscription
<1>4. PublishersTyped'
  <2>1. publisher' = [publisher EXCEPT ![p] = IdlePublisher]
    BY DEF TerminateOverrun
  <2>2. IdlePublisher \in Publication /\ IdlePublisher.seq = 0 /\ IdlePublisher.epoch = 0 /\ IdlePublisher.pc = "idle"
    BY DEF IdlePublisher, Publication, Stage
  <2> QED
    BY <1>1, <1>2, <1>3, <2>1, <2>2 DEF FrameInv, PublishersTyped, Seq0
<1> QED
  BY <1>1, <1>3, <1>4 DEF FrameInv, SessionsTyped, LogTyped, RecordsTyped, QueuesAreSound, WriterIsPlaced, Confirming, Seq0

\* What a request leaves behind when it is taken, and what a reply adds.
LEMMA RequestDropped ==
  ASSUME NEW gate, NEW high \in Seq(Frame), NEW reqs \in Seq(BusRequest), NEW low, NEW top, NEW epoch,
         Announced(gate, high, reqs, low, top, epoch), reqs # <<>>
  PROVE  Announced(gate, high, Tail(reqs), low, top, epoch)
<1>1. RisingAsked(Tail(reqs)) /\ ToCome(Tail(reqs)) \subseteq ToCome(reqs)
  BY RequestTaken DEF Announced
<1> QED
  BY <1>1 DEF Announced

LEMMA SubscriptionAnnounced ==
  ASSUME NEW gate, NEW high \in Seq(Frame), NEW reqs \in Seq(BusRequest),
         NEW low \in Nat, NEW top \in Nat, NEW epoch \in Nat, NEW verdict \in {"ok", "stale", "bad"},
         Announced(gate, high, reqs, low, top, epoch), reqs # <<>>, IsAsked(Head(reqs))
  PROVE  LET r == Head(reqs)
             f == [kind |-> "confirm", corr |-> r.corr, verdict |-> verdict]
         IN  /\ r \in SubscribeAsk /\ Append(high, f) \in Seq(Frame) /\ epoch <= r.corr /\ r.corr \in Nat
             /\ Announced(gate \cup {r.corr}, Append(high, f), Tail(reqs), low, top,
                          IF verdict = "ok" THEN r.corr ELSE epoch)
<1> DEFINE r == Head(reqs)
           t == Tail(reqs)
           f == [kind |-> "confirm", corr |-> r.corr, verdict |-> verdict]
           h == Append(high, f)
<1>1. /\ t \in Seq(BusRequest) /\ r \in BusRequest /\ RisingAsked(t) /\ ToCome(t) \subseteq ToCome(reqs)
      /\ r.corr \in ToCome(reqs) /\ \A c \in ToCome(t) : r.corr < c
  BY RequestTaken DEF Announced
<1>2. r \in SubscribeAsk /\ r.corr \in Nat
  BY <1>1, BusRequestsTyped
<1>3. f \in Frame /\ IsConfirm(f) /\ f.corr = r.corr /\ f.verdict = verdict
  BY <1>2 DEF Frame, Confirm, IsConfirm
<1>4. \A c \in OnWay(high) : c < r.corr
  BY <1>1 DEF Announced
<1> HIDE DEF r, t, f
<1>5. /\ h \in Seq(Frame) /\ OnWay(h) = OnWay(high) \cup {r.corr}
      /\ OkOnWay(h) = OkOnWay(high) \cup (IF verdict = "ok" THEN {r.corr} ELSE {})
      /\ Rising(h)
  BY <1>3, <1>4, FrameQueued DEF Announced
<1> HIDE DEF h
<1>6. low < r.corr /\ r.corr <= top
  BY <1>1 DEF Announced
<1>7. epoch <= r.corr
  <2>1. CASE epoch <= low
    BY <1>2, <1>6, <2>1
  <2>2. CASE epoch \in OkOnWay(high)
    BY <1>2, <1>4, <2>2, OkIsOnWay
  <2> QED
    BY <2>1, <2>2 DEF Announced
<1>8. Announced(gate \cup {r.corr}, h, t, low, top, IF verdict = "ok" THEN r.corr ELSE epoch)
  <2>1. gate \cup {r.corr} = OnWay(h) /\ Rising(h) /\ RisingAsked(t)
    BY <1>1, <1>5 DEF Announced
  <2>2. \A c \in OnWay(h) \cup ToCome(t) : low < c /\ c <= top
    BY <1>1, <1>5, <1>6 DEF Announced
  <2>3. \A c \in OnWay(h) : \A x \in ToCome(t) : c < x
    BY <1>1, <1>5 DEF Announced
  <2>4. CASE verdict = "ok"
    BY <1>5, <2>1, <2>2, <2>3, <2>4 DEF Announced
  <2>5. CASE verdict # "ok"
    <3>1. epoch <= low \/ epoch \in OkOnWay(h)
      BY <1>5 DEF Announced
    <3> QED
      BY <2>1, <2>2, <2>3, <2>5, <3>1 DEF Announced
  <2> QED
    BY <2>4, <2>5
<1> QED
  BY <1>2, <1>5, <1>7, <1>8 DEF r, t, f, h

LEMMA SnapshotAnnounced ==
  ASSUME NEW gate, NEW high \in Seq(Frame), NEW reqs, NEW low, NEW top, NEW epoch,
         Announced(gate, high, reqs, low, top, epoch), NEW f \in SnapshotFrame
  PROVE  /\ Append(high, f) \in Seq(Frame) /\ Announced(gate, Append(high, f), reqs, low, top, epoch)
         /\ SnapshotsOf(Append(high, f)) = SnapshotsOf(high) \cup {f}
<1>1. f \in Frame /\ ~IsConfirm(f)
  BY DEF Frame, SnapshotFrame, IsConfirm
<1>2. /\ Append(high, f) \in Seq(Frame) /\ OnWay(Append(high, f)) = OnWay(high)
      /\ OkOnWay(Append(high, f)) = OkOnWay(high) /\ Rising(Append(high, f))
      /\ SnapshotsOf(Append(high, f)) = SnapshotsOf(high) \cup {f}
  BY <1>1, FrameQueued DEF Announced
<1> QED
  BY <1>2 DEF Announced

\* What Subscribe replays: the events of the ring after the cursor, of the domains asked for.
Due(r) == {n \in Oldest .. Seq0 : n > r.cursor /\ log[n].dom \in r.domains}

LEMMA ReplayFacts ==
  ASSUME LogTyped, NEW r \in SubscribeAsk
  PROVE  /\ Replay(r) \in Seq(BusItem) /\ Len(Replay(r)) <= RingCap
         /\ Sound(Replay(r), Seq0, r.corr) /\ Numbers(Replay(r)) = Due(r)
<1> DEFINE D == Due(r)
           N == Cardinality(D)
           A == Ascending(D)
<1>1. ringLen \in Nat /\ RingCap \in Nat /\ ringLen <= RingCap /\ ringLen <= Seq0 /\ Seq0 \in Nat
  BY LogFacts, BoundsAssumption DEF LogTyped
<1>2. Oldest \in Nat /\ Oldest >= 1 /\ Oldest = Seq0 - ringLen + 1
  BY <1>1 DEF Oldest, Seq0
<1>3. IsFiniteSet(Oldest .. Seq0) /\ Cardinality(Oldest .. Seq0) = ringLen
  <2>1. ringLen = 0 => Oldest > Seq0
    BY <1>1, <1>2
  <2>2. ringLen > 0 => ~(Oldest > Seq0) /\ Seq0 - Oldest + 1 = ringLen
    BY <1>1, <1>2
  <2>3. Oldest \in Int /\ Seq0 \in Int
    BY <1>1, <1>2
  <2>4. IsFiniteSet(Oldest .. Seq0) /\ Cardinality(Oldest .. Seq0) = IF Oldest > Seq0 THEN 0 ELSE Seq0 - Oldest + 1
    BY <2>3, FS_Interval
  <2> QED
    BY <1>1, <2>1, <2>2, <2>4
<1>4. D \in SUBSET (Oldest .. Seq0)
  BY DEF Due
<1>5. IsFiniteSet(D) /\ N <= RingCap /\ N \in Nat
  <2>1. IsFiniteSet(D) /\ N <= ringLen
    BY <1>3, <1>4, FS_Subset
  <2>2. N \in Nat
    BY <2>1, FS_CardinalityType
  <2> QED
    BY <1>1, <2>1, <2>2
<1>6. D \subseteq Int /\ \A n \in D : n \in 1 .. Seq0
  BY <1>1, <1>2, <1>4
<1>7. /\ A \in [1 .. N -> D]
      /\ \A n \in D : \E k \in 1 .. N : A[k] = n
  BY <1>5, <1>6, AscendingFacts
<1>8. Replay(r) = [k \in 1 .. N |-> Item(A[k], r.corr)]
  BY DEF Replay, Due
<1> HIDE DEF D, N, A
<1>9. r.corr \in Nat
  BY DEF SubscribeAsk
<1>10. Replay(r) \in [1 .. N -> BusItem]
  <2>0. \A n \in D : n \in Nat
    BY <1>1, <1>6
  <2>1. \A k \in 1 .. N : A[k] \in D /\ A[k] \in Nat
    BY <1>7, <2>0
  <2>2. \A k \in 1 .. N : Item(A[k], r.corr) \in BusItem
    BY <1>9, <2>1 DEF Item, BusItem
  <2> QED
    BY <1>8, <2>2
<1> HIDE DEF BusItem
<1>11. Replay(r) \in Seq(BusItem) /\ Len(Replay(r)) = N
  BY <1>5, <1>10, SequenceOf
<1>12. \A k \in 1 .. N : Replay(r)[k].n = A[k] /\ Replay(r)[k].epoch = r.corr
  BY <1>8 DEF Item
<1>13. Sound(Replay(r), Seq0, r.corr)
  <2>1. \A k \in 1 .. N : Replay(r)[k].n \in 1 .. Seq0
    BY <1>6, <1>7, <1>12
  <2>2. \A k \in 1 .. N : Replay(r)[k].epoch <= r.corr
    BY <1>9, <1>12
  <2> QED
    BY <1>11, <2>1, <2>2 DEF Sound
<1>14. Numbers(Replay(r)) = D
  <2>1. \A k \in 1 .. N : Replay(r)[k].n \in D
    BY <1>7, <1>12
  <2>2. \A n \in D : \E k \in 1 .. N : Replay(r)[k].n = n
    BY <1>7, <1>12
  <2> QED
    BY <1>11, <2>1, <2>2 DEF Numbers
<1> QED
  BY <1>5, <1>11, <1>13, <1>14 DEF D

\* The steps of the dispatcher.
LEMMA SubscribeFrames ==
  ASSUME FrameInv, Subscribe
  PROVE  FrameInv'
<1> DEFINE r == Head(conn.reqs)
           v == Verdict(r)
           f == [kind |-> "confirm", corr |-> r.corr, verdict |-> v]
           h == Append(conn.high, f)
<1>1. /\ UNCHANGED <<value, life, log, ringLen, gen, publisher, fe>>
      /\ conn.up /\ conn.reqs # <<>> /\ IsAsked(r)
      /\ conn' = [conn EXCEPT !.reqs = Tail(@), !.gate = @ \cup {r.corr}, !.high = h]
      /\ sub' = IF v = "ok" THEN [sub EXCEPT !.on = TRUE, !.domains = r.domains, !.pending = Replay(r),
                                              !.epoch = r.corr, !.since = r.since]
                ELSE sub
  <2>1. conn' = [conn EXCEPT !.reqs = Tail(@), !.gate = @ \cup {r.corr}, !.high = Append(@, f)]
    BY DEF Subscribe
  <2> QED
    BY <2>1 DEF Subscribe, sessionVars, busVars, IsAsked
<1>2. /\ sub \in Subscription /\ conn \in Connection /\ fe \in Follower
      /\ conn.high \in Seq(Frame) /\ conn.reqs \in Seq(BusRequest) /\ conn.gate \in SUBSET Nat
      /\ sub.epoch \in Nat /\ fe.confirmed \in Nat /\ fe.reqs \in Nat
  BY DEF FrameInv, RecordsTyped, Subscription, Connection, Follower
<1>3. v \in {"ok", "stale", "bad"}
  BY DEF Verdict
<1>4. Announced(conn.gate, conn.high, conn.reqs, fe.confirmed, fe.reqs, sub.epoch)
  BY DEF FrameInv, Confirming
<1>5. /\ r \in SubscribeAsk /\ h \in Seq(Frame) /\ sub.epoch <= r.corr /\ r.corr \in Nat
      /\ Announced(conn.gate \cup {r.corr}, h, Tail(conn.reqs), fe.confirmed, fe.reqs,
                   IF v = "ok" THEN r.corr ELSE sub.epoch)
  BY <1>1, <1>2, <1>3, <1>4, SubscriptionAnnounced
<1>6. Tail(conn.reqs) \in Seq(BusRequest)
  BY <1>1, <1>2, <1>4, RequestTaken DEF Announced
<1>7. /\ Replay(r) \in Seq(BusItem) /\ Len(Replay(r)) <= RingCap /\ Sound(Replay(r), Seq0, r.corr)
      /\ Seq0 \in Nat
  BY <1>5, ReplayFacts, LogFacts DEF FrameInv
<1>8. r.domains \in SUBSET Domain /\ r.since \in Nat
  BY <1>5 DEF SubscribeAsk
<1> HIDE DEF r, v, f, h, BusItem, BusRequest, Frame
<1>9. /\ conn' \in Connection /\ conn'.reqs = Tail(conn.reqs) /\ conn'.gate = conn.gate \cup {r.corr}
      /\ conn'.high = h /\ conn'.pc = conn.pc /\ conn'.buf = conn.buf /\ conn'.held = conn.held /\ conn'.up
  BY <1>1, <1>2, <1>5, <1>6 DEF Connection
<1>10. /\ sub' \in Subscription /\ sub'.ch = sub.ch
       /\ sub'.epoch = IF v = "ok" THEN r.corr ELSE sub.epoch
       /\ sub'.pending = IF v = "ok" THEN Replay(r) ELSE sub.pending
  BY <1>1, <1>2, <1>5, <1>7, <1>8 DEF Subscription
<1>11. sub'.epoch \in Nat /\ sub.epoch <= sub'.epoch
  BY <1>2, <1>5, <1>10
<1>12. PublishersTyped'
  <2>1. publisher \in [Publisher -> Publication]
    BY DEF FrameInv, PublishersTyped
  <2>2. \A p \in Publisher : publisher[p].epoch \in Nat
    BY <2>1 DEF Publication
  <2>3. \A p \in Publisher : publisher[p].epoch <= sub'.epoch
    BY <1>2, <1>11, <2>2 DEF FrameInv, PublishersTyped
  <2> QED
    BY <1>1, <2>3 DEF FrameInv, PublishersTyped, Seq0
<1>13. QueuesAreSound' /\ WriterIsPlaced'
  <2>1. /\ sub.ch \in Seq(BusItem) /\ sub.pending \in Seq(BusItem)
        /\ conn.held \in Seq(BusItem) /\ conn.buf \in Seq(BusItem)
    BY <1>2 DEF Subscription, Connection
  <2>2. \A q \in Seq(BusItem) : Sound(q, Seq0, sub.epoch) => Sound(q, Seq0, sub'.epoch)
    <3> TAKE q \in Seq(BusItem)
    <3>1. Seq0 <= Seq0
      BY <1>7
    <3> QED
      BY <1>2, <1>7, <1>11, <3>1, SoundStays
  <2>3. Sound(sub'.pending, Seq0, sub'.epoch) /\ Len(sub'.pending) <= RingCap
    BY <1>7, <1>10, <2>1, <2>2 DEF FrameInv, QueuesAreSound
  <2> QED
    BY <1>1, <1>9, <1>10, <2>1, <2>2, <2>3 DEF FrameInv, QueuesAreSound, WriterIsPlaced, Seq0
<1>14. Confirming'
  BY <1>1, <1>5, <1>9, <1>10 DEF Confirming
<1> QED
  BY <1>1, <1>2, <1>9, <1>10, <1>12, <1>13, <1>14 DEF FrameInv, SessionsTyped, LogTyped, RecordsTyped, Seq0

LEMMA UnsubscribeFrames ==
  ASSUME FrameInv, Unsubscribe
  PROVE  FrameInv'
<1> DEFINE left == sub.domains \ Head(conn.reqs).domains
<1>1. /\ UNCHANGED <<value, life, log, ringLen, gen, publisher, fe>> /\ conn.up /\ conn.reqs # <<>>
      /\ conn' = [conn EXCEPT !.reqs = Tail(@)]
      /\ sub' = [sub EXCEPT !.domains = left, !.on = @ /\ left # {}]
  BY DEF Unsubscribe, sessionVars, busVars
<1>2. /\ sub \in Subscription /\ conn \in Connection
      /\ conn.high \in Seq(Frame) /\ conn.reqs \in Seq(BusRequest)
      /\ Announced(conn.gate, conn.high, conn.reqs, fe.confirmed, fe.reqs, sub.epoch)
  BY DEF FrameInv, RecordsTyped, Connection, Confirming
<1>3. Tail(conn.reqs) \in Seq(BusRequest)
  BY <1>1, <1>2, RequestTaken DEF Announced
<1>4. Announced(conn.gate, conn.high, Tail(conn.reqs), fe.confirmed, fe.reqs, sub.epoch)
  BY <1>1, <1>2, RequestDropped
<1> HIDE DEF BusItem, BusRequest, Frame
<1>5. /\ conn' \in Connection /\ conn'.reqs = Tail(conn.reqs) /\ conn'.gate = conn.gate
      /\ conn'.high = conn.high /\ conn'.pc = conn.pc /\ conn'.buf = conn.buf /\ conn'.held = conn.held
      /\ conn'.up
  BY <1>1, <1>2, <1>3 DEF Connection
<1>6. left \in SUBSET Domain
  BY <1>2 DEF Subscription
<1> HIDE DEF left
<1>7. /\ sub' \in Subscription /\ sub'.ch = sub.ch /\ sub'.epoch = sub.epoch /\ sub'.pending = sub.pending
  BY <1>1, <1>2, <1>6 DEF Subscription
<1>8. QueuesAreSound' /\ WriterIsPlaced' /\ Confirming' /\ PublishersTyped'
  BY <1>1, <1>4, <1>5, <1>7 DEF FrameInv, QueuesAreSound, WriterIsPlaced, Confirming, PublishersTyped, Seq0
<1> QED
  BY <1>1, <1>5, <1>7, <1>8 DEF FrameInv, SessionsTyped, LogTyped, RecordsTyped, Seq0

LEMMA SnapshotSeqFrames ==
  ASSUME FrameInv, SnapshotSeq
  PROVE  FrameInv'
<1> DEFINE o == [seq |-> Seq0, states |-> None]
<1>1. /\ UNCHANGED <<value, life, log, ringLen, gen, publisher, sub, fe>> /\ conn.up /\ conn.reqs # <<>>
      /\ conn' = [conn EXCEPT !.reqs = Tail(@), !.op = o]
  BY DEF SnapshotSeq, sessionVars, busVars
<1>2. /\ conn \in Connection /\ conn.high \in Seq(Frame) /\ conn.reqs \in Seq(BusRequest)
      /\ Announced(conn.gate, conn.high, conn.reqs, fe.confirmed, fe.reqs, sub.epoch)
  BY DEF FrameInv, RecordsTyped, Connection, Confirming
<1>3. Tail(conn.reqs) \in Seq(BusRequest) /\ o \in Reading
  <2>1. Seq0 \in Nat
    BY LogFacts DEF FrameInv
  <2> QED
    BY <1>1, <1>2, <2>1, RequestTaken DEF Announced, Reading
<1>4. Announced(conn.gate, conn.high, Tail(conn.reqs), fe.confirmed, fe.reqs, sub.epoch)
  BY <1>1, <1>2, RequestDropped
<1> HIDE DEF BusItem, BusRequest, Frame, Reading, o
<1>5. /\ conn' \in Connection /\ conn'.reqs = Tail(conn.reqs) /\ conn'.gate = conn.gate
      /\ conn'.high = conn.high /\ conn'.pc = conn.pc /\ conn'.buf = conn.buf /\ conn'.held = conn.held
      /\ conn'.up
  BY <1>1, <1>2, <1>3 DEF Connection
<1> QED
  BY <1>1, <1>4, <1>5 DEF FrameInv, SessionsTyped, LogTyped, RecordsTyped, PublishersTyped,
     QueuesAreSound, WriterIsPlaced, Confirming, Seq0

LEMMA SnapshotStatesFrames ==
  ASSUME FrameInv, SnapshotStates
  PROVE  FrameInv'
<1>1. UNCHANGED <<value, life, log, ringLen, gen, publisher, sub, fe>>
  BY DEF SnapshotStates, sessionVars, busVars
<1>2. conn \in Connection /\ conn.op \in Reading /\ value \in [Domain -> Nat]
  BY DEF FrameInv, RecordsTyped, Connection, SessionsTyped, SnapshotStates
<1> DEFINE o == [conn.op EXCEPT !.states = value]
<1>3. o \in Reading /\ conn' = [conn EXCEPT !.op = o]
  BY <1>2 DEF Reading, SnapshotStates
<1> HIDE DEF BusItem, BusRequest, Frame, Reading, o
<1>5. /\ conn' \in Connection /\ conn'.reqs = conn.reqs /\ conn'.gate = conn.gate /\ conn'.up = conn.up
      /\ conn'.high = conn.high /\ conn'.pc = conn.pc /\ conn'.buf = conn.buf /\ conn'.held = conn.held
  BY <1>1, <1>2, <1>3 DEF Connection
<1> QED
  BY <1>1, <1>5 DEF FrameInv, SessionsTyped, LogTyped, RecordsTyped, PublishersTyped,
     QueuesAreSound, WriterIsPlaced, Confirming, Seq0

LEMMA SnapshotReplyFrames ==
  ASSUME FrameInv, SnapshotReply
  PROVE  FrameInv'
<1> DEFINE f == [kind |-> "snapshot", seq |-> conn.op.seq, states |-> conn.op.states]
           h == Append(conn.high, f)
<1>1. /\ UNCHANGED <<value, life, log, ringLen, gen, publisher, sub, fe>>
      /\ conn' = [conn EXCEPT !.op = None, !.high = h]
  BY DEF SnapshotReply, sessionVars, busVars
<1>2. /\ conn \in Connection /\ conn.high \in Seq(Frame) /\ conn.op \in Reading
      /\ Announced(conn.gate, conn.high, conn.reqs, fe.confirmed, fe.reqs, sub.epoch)
  BY DEF FrameInv, RecordsTyped, Connection, Confirming, SnapshotReply
<1>3. f \in SnapshotFrame
  BY <1>2 DEF Reading, SnapshotFrame, SnapshotReply
<1> HIDE DEF f
<1>4. h \in Seq(Frame) /\ Announced(conn.gate, h, conn.reqs, fe.confirmed, fe.reqs, sub.epoch)
  BY <1>2, <1>3, SnapshotAnnounced
<1> HIDE DEF BusItem, BusRequest, Frame, Reading, h
<1>5. /\ conn' \in Connection /\ conn'.reqs = conn.reqs /\ conn'.gate = conn.gate /\ conn'.up = conn.up
      /\ conn'.high = h /\ conn'.pc = conn.pc /\ conn'.buf = conn.buf /\ conn'.held = conn.held
  BY <1>1, <1>2, <1>4 DEF Connection
<1> QED
  BY <1>1, <1>4, <1>5 DEF FrameInv, SessionsTyped, LogTyped, RecordsTyped, PublishersTyped,
     QueuesAreSound, WriterIsPlaced, Confirming, Seq0

\* What is left to announce after the writer has written a frame.
LEMMA FrameAnnounced ==
  ASSUME NEW gate, NEW high \in Seq(Frame), NEW reqs, NEW low \in Nat, NEW top \in Nat, NEW epoch \in Nat,
         \A c \in ToCome(reqs) : c \in Nat,
         Announced(gate, high, reqs, low, top, epoch), high # <<>>
  PROVE  LET f == Head(high) IN
         /\ IsConfirm(f) =>
              /\ low < f.corr /\ f.corr <= top /\ f \in Confirm
              /\ Announced(gate \ {f.corr}, Tail(high), reqs,
                           IF f.verdict = "ok" THEN f.corr ELSE low, top, epoch)
         /\ ~IsConfirm(f) => Announced(gate, Tail(high), reqs, low, top, epoch)
<1> DEFINE f == Head(high)
           t == Tail(high)
<1>1. /\ t \in Seq(Frame) /\ f \in Frame /\ Rising(t)
      /\ IsConfirm(f) =>
           /\ f.corr \in OnWay(high) /\ f.corr \notin OnWay(t)
           /\ \A c \in OnWay(t) : f.corr < c
           /\ f.verdict = "ok" => OkOnWay(high) = {f.corr} \cup OkOnWay(t)
           /\ f.verdict # "ok" => OkOnWay(high) = OkOnWay(t)
      /\ OnWay(high) = OnWay(t) \cup (IF IsConfirm(f) THEN {f.corr} ELSE {})
      /\ ~IsConfirm(f) => OkOnWay(high) = OkOnWay(t)
  BY FrameWritten DEF Announced
<1>2. IsConfirm(f) => f \in Confirm /\ f.corr \in Nat
  BY <1>1, FramesTyped
<1> HIDE DEF f, t
<1>3. ASSUME IsConfirm(f)
      PROVE  /\ low < f.corr /\ f.corr <= top
             /\ Announced(gate \ {f.corr}, t, reqs, IF f.verdict = "ok" THEN f.corr ELSE low, top, epoch)
  <2>1. low < f.corr /\ f.corr <= top
    BY <1>1, <1>3 DEF Announced
  <2>2. gate \ {f.corr} = OnWay(t) /\ Rising(t) /\ RisingAsked(reqs)
    BY <1>1, <1>3 DEF Announced
  <2>3. /\ \A c \in OnWay(t) \cup ToCome(reqs) : low < c /\ c <= top /\ f.corr < c
        /\ \A c \in OnWay(t) : \A r \in ToCome(reqs) : c < r
    BY <1>1, <1>3 DEF Announced
  <2>4. CASE f.verdict = "ok"
    <3>1. epoch <= f.corr \/ epoch \in OkOnWay(t)
      BY <1>1, <1>2, <1>3, <2>1, <2>4 DEF Announced
    <3> QED
      BY <2>1, <2>2, <2>3, <2>4, <3>1 DEF Announced
  <2>5. CASE f.verdict # "ok"
    <3>1. epoch <= low \/ epoch \in OkOnWay(t)
      BY <1>1, <1>3, <2>5 DEF Announced
    <3> QED
      BY <2>1, <2>2, <2>3, <2>5, <3>1 DEF Announced
  <2> QED
    BY <2>1, <2>4, <2>5
<1>4. ASSUME ~IsConfirm(f) PROVE Announced(gate, t, reqs, low, top, epoch)
  BY <1>1, <1>4 DEF Announced
<1> QED
  BY <1>2, <1>3, <1>4 DEF f, t

LEMMA NothingAnnounced ==
  ASSUME NEW high, NEW reqs, NEW low, NEW top, NEW epoch, Announced({}, high, reqs, low, top, epoch)
  PROVE  epoch <= low
BY OkIsOnWay DEF Announced

\* What the front end makes of a frame.
LEMMA ConfirmTaken ==
  ASSUME fe \in Follower, NEW f \in Confirm
  PROVE  /\ OnConfirm(f) \in Follower
         /\ OnConfirm(f).confirmed = (IF f.verdict = "ok" THEN f.corr ELSE fe.confirmed)
         /\ OnConfirm(f).snap \in {fe.snap, None}
         /\ OnConfirm(f).view = fe.view /\ OnConfirm(f).at = fe.at /\ OnConfirm(f).gen = fe.gen
         /\ OnConfirm(f).got = fe.got /\ OnConfirm(f).reqs = fe.reqs
<1>1. f.corr \in Nat /\ f.verdict \in {"ok", "stale", "bad"}
  BY DEF Confirm
<1>2. CASE f.verdict = "ok"
  <2>1. OnConfirm(f) = [fe EXCEPT !.confirmed = f.corr]
    BY <1>2 DEF OnConfirm
  <2> QED
    BY <1>1, <1>2, <2>1 DEF Follower
<1>3. CASE f.verdict = "stale"
  <2>1. OnConfirm(f) = [fe EXCEPT !.snap = None]
    BY <1>3 DEF OnConfirm
  <2> QED
    BY <1>1, <1>3, <2>1 DEF Follower
<1>4. CASE f.verdict = "bad"
  <2>1. OnConfirm(f) = fe
    BY <1>4 DEF OnConfirm
  <2> QED
    BY <1>1, <1>4, <2>1 DEF Follower
<1> QED
  BY <1>1, <1>2, <1>3, <1>4

IsNewer(f, d) == fe.gen # gen \/ fe.at[d] <= f.seq

LEMMA SnapshotTaken ==
  ASSUME fe \in Follower, NEW f \in SnapshotFrame, gen \in Nat
  PROVE  /\ OnSnapshot(f) \in Follower
         /\ \A d \in Domain : /\ OnSnapshot(f).view[d] = IF IsNewer(f, d) THEN f.states[d] ELSE fe.view[d]
                              /\ OnSnapshot(f).at[d] = IF IsNewer(f, d) THEN f.seq ELSE fe.at[d]
         /\ OnSnapshot(f).got = (IF fe.gen # gen THEN {} ELSE fe.got)
         /\ OnSnapshot(f).snap = f.seq /\ OnSnapshot(f).gen = gen
         /\ OnSnapshot(f).confirmed = fe.confirmed /\ OnSnapshot(f).reqs = fe.reqs
<1> DEFINE vw == [d \in Domain |-> IF IsNewer(f, d) THEN f.states[d] ELSE fe.view[d]]
           ats == [d \in Domain |-> IF IsNewer(f, d) THEN f.seq ELSE fe.at[d]]
           had == IF fe.gen # gen THEN {} ELSE fe.got
           q == [fe EXCEPT !.view = vw, !.at = ats, !.got = had, !.snap = f.seq, !.last = f.seq, !.gen = gen]
<1>1. OnSnapshot(f) = q
  BY DEF OnSnapshot, IsNewer
<1>2. f.seq \in Nat /\ f.states \in [Domain -> Nat]
  BY DEF SnapshotFrame
<1>3. fe.view \in [Domain -> Nat] /\ fe.at \in [Domain -> Nat] /\ fe.got \in SUBSET Nat
  BY DEF Follower
<1>4. vw \in [Domain -> Nat] /\ ats \in [Domain -> Nat] /\ had \in SUBSET Nat
  BY <1>2, <1>3
<1>5. \A d \in Domain : /\ vw[d] = IF IsNewer(f, d) THEN f.states[d] ELSE fe.view[d]
                        /\ ats[d] = IF IsNewer(f, d) THEN f.seq ELSE fe.at[d]
  OBVIOUS
<1> HIDE DEF vw, ats, had
<1>6. /\ q \in Follower /\ q.view = vw /\ q.at = ats /\ q.got = had /\ q.snap = f.seq /\ q.gen = gen
      /\ q.confirmed = fe.confirmed /\ q.reqs = fe.reqs
  BY <1>2, <1>4 DEF Follower
<1> HIDE DEF q
<1> QED
  BY <1>1, <1>5, <1>6 DEF had

LEMMA EventTaken ==
  ASSUME fe \in Follower, LogTyped, NEW n \in 1 .. Seq0
  PROVE  LET d == log[n].dom IN
         /\ OnEvent(n) \in Follower /\ d \in Domain
         /\ OnEvent(n).view = [fe.view EXCEPT ![d] = IF n > fe.at[d] THEN log[n].val ELSE fe.view[d]]
         /\ OnEvent(n).at = [fe.at EXCEPT ![d] = IF n > fe.at[d] THEN n ELSE fe.at[d]]
         /\ OnEvent(n).got = fe.got \cup {n} /\ OnEvent(n).snap = fe.snap /\ OnEvent(n).gen = fe.gen
         /\ OnEvent(n).confirmed = fe.confirmed /\ OnEvent(n).reqs = fe.reqs
<1> DEFINE d == log[n].dom
           vw == [fe.view EXCEPT ![d] = IF n > fe.at[d] THEN log[n].val ELSE fe.view[d]]
           ats == [fe.at EXCEPT ![d] = IF n > fe.at[d] THEN n ELSE fe.at[d]]
           q == [fe EXCEPT !.view = vw, !.at = ats, !.got = fe.got \cup {n}, !.last = n]
<1>1. fe.view \in [Domain -> Nat] /\ fe.at \in [Domain -> Nat] /\ fe.got \in SUBSET Nat
  BY DEF Follower
<1>2. OnEvent(n) = q
  BY <1>1 DEF OnEvent
<1>3. d \in Domain /\ log[n].val \in Nat /\ n \in Nat
  BY LogFacts
<1>4. vw \in [Domain -> Nat] /\ ats \in [Domain -> Nat]
  BY <1>1, <1>3
<1> HIDE DEF vw, ats
<1>5. /\ q \in Follower /\ q.view = vw /\ q.at = ats /\ q.got = fe.got \cup {n} /\ q.snap = fe.snap
      /\ q.gen = fe.gen /\ q.confirmed = fe.confirmed /\ q.reqs = fe.reqs
  BY <1>1, <1>3, <1>4 DEF Follower
<1> HIDE DEF q
<1> QED
  BY <1>2, <1>3, <1>5 DEF vw, ats

\* What WriteHigh does, in the names of the code.
HighGate == IF IsConfirm(Head(conn.high)) THEN conn.gate \ {Head(conn.high).corr} ELSE conn.gate
Flushes == IsConfirm(Head(conn.high)) /\ HighGate = {}
HighOut == IF Flushes THEN sub.pending \o conn.held ELSE <<>>

LEMMA WriteHighStep ==
  ASSUME FrameInv, WriteHigh
  PROVE  /\ UNCHANGED <<value, life, log, ringLen, gen, publisher>>
         /\ conn.high # <<>> /\ conn.buf = <<>> /\ Head(conn.high) \in Frame
         /\ fe' = IF IsConfirm(Head(conn.high)) THEN OnConfirm(Head(conn.high)) ELSE OnSnapshot(Head(conn.high))
         /\ fe' \in Follower /\ conn' \in Connection /\ sub' \in Subscription
         /\ conn'.high = Tail(conn.high) /\ conn'.gate = HighGate /\ conn'.buf = HighOut
         /\ conn'.held = (IF Flushes THEN <<>> ELSE conn.held)
         /\ conn'.pc = (IF HighOut = <<>> THEN "drain" ELSE "write")
         /\ conn'.reqs = conn.reqs /\ conn'.op = conn.op /\ conn'.up
         /\ sub'.pending = (IF Flushes THEN <<>> ELSE sub.pending)
         /\ sub'.on = sub.on /\ sub'.domains = sub.domains /\ sub'.ch = sub.ch /\ sub'.overrun = sub.overrun
         /\ sub'.epoch = sub.epoch /\ sub'.since = sub.since
<1> DEFINE f == Head(conn.high)
<1>1. /\ UNCHANGED <<value, life, log, ringLen, gen, publisher>>
      /\ conn.up /\ conn.pc \in {"drain", "step"} /\ conn.high # <<>>
      /\ fe' = IF IsConfirm(f) THEN OnConfirm(f) ELSE OnSnapshot(f)
      /\ conn' = [conn EXCEPT !.high = Tail(@), !.gate = HighGate, !.buf = HighOut,
                              !.held = IF Flushes THEN <<>> ELSE @,
                              !.pc = IF HighOut = <<>> THEN "drain" ELSE "write"]
      /\ sub' = IF Flushes THEN [sub EXCEPT !.pending = <<>>] ELSE sub
  BY DEF WriteHigh, sessionVars, busVars, IsConfirm, HighGate, Flushes, HighOut
<1>2. /\ sub \in Subscription /\ conn \in Connection /\ fe \in Follower /\ conn.high \in Seq(Frame)
      /\ sub.pending \in Seq(BusItem) /\ conn.held \in Seq(BusItem) /\ conn.gate \in SUBSET Nat
  BY DEF FrameInv, RecordsTyped, Subscription, Connection
<1>3. f \in Frame /\ Tail(conn.high) \in Seq(Frame)
  BY <1>1, <1>2, FrameWritten DEF FrameInv, Confirming, Announced
<1>4. conn.buf = <<>>
  BY <1>1 DEF FrameInv, WriterIsPlaced
<1>5. fe' \in Follower
  <2>1. gen \in Nat
    BY LogFacts DEF FrameInv
  <2>2. CASE IsConfirm(f)
    BY <1>1, <1>2, <1>3, <2>2, FramesTyped, ConfirmTaken
  <2>3. CASE ~IsConfirm(f)
    BY <1>1, <1>2, <1>3, <2>1, <2>3, FramesTyped, SnapshotTaken
  <2> QED
    BY <2>2, <2>3
<1>6. HighOut \in Seq(BusItem) /\ HighGate \in SUBSET Nat /\ <<>> \in Seq(BusItem)
  <2>1. sub.pending \o conn.held \in Seq(BusItem)
    BY <1>2, EventsJoined
  <2> QED
    BY <1>2, <2>1, NoEvents DEF HighOut, HighGate
<1> HIDE DEF BusItem, Frame, BusRequest, f
<1>7. /\ conn' \in Connection /\ conn'.high = Tail(conn.high) /\ conn'.gate = HighGate /\ conn'.buf = HighOut
      /\ conn'.held = (IF Flushes THEN <<>> ELSE conn.held)
      /\ conn'.pc = (IF HighOut = <<>> THEN "drain" ELSE "write")
      /\ conn'.reqs = conn.reqs /\ conn'.op = conn.op /\ conn'.up
  BY <1>1, <1>2, <1>3, <1>6 DEF Connection, Places
<1>8. /\ sub' \in Subscription /\ sub'.pending = (IF Flushes THEN <<>> ELSE sub.pending)
      /\ sub'.on = sub.on /\ sub'.domains = sub.domains /\ sub'.ch = sub.ch /\ sub'.overrun = sub.overrun
      /\ sub'.epoch = sub.epoch /\ sub'.since = sub.since
  BY <1>1, <1>2, <1>6 DEF Subscription
<1> QED
  BY <1>1, <1>3, <1>4, <1>5, <1>7, <1>8 DEF f

LEMMA WriteHighFrames ==
  ASSUME FrameInv, WriteHigh
  PROVE  FrameInv'
<1> DEFINE f == Head(conn.high)
<1>1. /\ UNCHANGED <<value, life, log, ringLen, gen, publisher>>
      /\ conn.high # <<>> /\ conn.buf = <<>> /\ f \in Frame
      /\ fe' = IF IsConfirm(f) THEN OnConfirm(f) ELSE OnSnapshot(f)
      /\ fe' \in Follower /\ conn' \in Connection /\ sub' \in Subscription
      /\ conn'.high = Tail(conn.high) /\ conn'.gate = HighGate /\ conn'.buf = HighOut
      /\ conn'.held = (IF Flushes THEN <<>> ELSE conn.held)
      /\ conn'.pc = (IF HighOut = <<>> THEN "drain" ELSE "write")
      /\ conn'.reqs = conn.reqs /\ conn'.up
      /\ sub'.pending = (IF Flushes THEN <<>> ELSE sub.pending)
      /\ sub'.on = sub.on /\ sub'.ch = sub.ch /\ sub'.epoch = sub.epoch
  BY WriteHighStep
<1>2. /\ fe \in Follower /\ conn.high \in Seq(Frame) /\ sub.epoch \in Nat /\ fe.confirmed \in Nat
      /\ fe.reqs \in Nat /\ sub.pending \in Seq(BusItem) /\ conn.held \in Seq(BusItem) /\ conn.reqs \in Seq(BusRequest)
      /\ gen \in Nat /\ Seq0 \in Nat
  BY LogFacts DEF FrameInv, RecordsTyped, Subscription, Connection, Follower
<1>3. \A c \in ToCome(conn.reqs) : c \in Nat
  <2>1. \A r \in AskedOf(conn.reqs) : r \in BusRequest /\ IsAsked(r)
    BY <1>2, RangeOfSeq DEF AskedOf
  <2> QED
    BY <2>1, BusRequestsTyped DEF ToCome
<1>4. /\ fe'.confirmed = IF IsConfirm(f) /\ f.verdict = "ok" THEN f.corr ELSE fe.confirmed
      /\ fe'.reqs = fe.reqs
  <2>1. CASE IsConfirm(f)
    BY <1>1, <1>2, <2>1, FramesTyped, ConfirmTaken
  <2>2. CASE ~IsConfirm(f)
    BY <1>1, <1>2, <2>2, FramesTyped, SnapshotTaken
  <2> QED
    BY <2>1, <2>2
<1>5. /\ IsConfirm(f) =>
           /\ fe.confirmed < f.corr /\ f.corr <= fe.reqs /\ f \in Confirm
           /\ Announced(conn.gate \ {f.corr}, Tail(conn.high), conn.reqs,
                        IF f.verdict = "ok" THEN f.corr ELSE fe.confirmed, fe.reqs, sub.epoch)
      /\ ~IsConfirm(f) => Announced(conn.gate, Tail(conn.high), conn.reqs, fe.confirmed, fe.reqs, sub.epoch)
  BY <1>1, <1>2, <1>3, FrameAnnounced DEF FrameInv, Confirming
<1>6. HighGate = IF IsConfirm(f) THEN conn.gate \ {f.corr} ELSE conn.gate
  BY DEF HighGate
<1>7. Flushes <=> IsConfirm(f) /\ HighGate = {}
  BY DEF Flushes
<1>8. HighOut = IF Flushes THEN sub.pending \o conn.held ELSE <<>>
  BY DEF HighOut
<1> HIDE DEF f, BusItem, Frame, BusRequest
<1>9. Announced(HighGate, Tail(conn.high), conn.reqs, fe'.confirmed, fe.reqs, sub.epoch)
  <2>1. CASE IsConfirm(f) /\ f.verdict = "ok"
    BY <1>4, <1>5, <1>6, <2>1
  <2>2. CASE IsConfirm(f) /\ f.verdict # "ok"
    BY <1>4, <1>5, <1>6, <2>2
  <2>3. CASE ~IsConfirm(f)
    BY <1>4, <1>5, <1>6, <2>3
  <2> QED
    BY <2>1, <2>2, <2>3
<1>10. fe.confirmed <= fe'.confirmed /\ fe'.confirmed \in Nat /\ fe'.confirmed <= fe.reqs
  <2>1. IsConfirm(f) => f.corr \in Nat
    BY <1>5 DEF Confirm
  <2>2. fe.confirmed <= fe.reqs
    BY DEF FrameInv, RecordsTyped
  <2> QED
    BY <1>2, <1>4, <1>5, <2>1, <2>2
<1>11. RecordsTyped' /\ PublishersTyped'
  BY <1>1, <1>4, <1>10 DEF FrameInv, RecordsTyped, PublishersTyped, Seq0
<1>12. Confirming'
  <2>1. HighGate = {} => sub'.pending = <<>> /\ conn'.held = <<>>
    <3>1. CASE Flushes
      BY <1>1, <3>1
    <3>2. CASE ~Flushes
      <4>1. HighGate = {} => conn.gate = {}
        BY <1>6, <1>7, <3>2
      <4> QED
        BY <1>1, <3>2, <4>1 DEF FrameInv, Confirming
    <3> QED
      BY <3>1, <3>2
  <2> QED
    BY <1>1, <1>4, <1>9, <2>1 DEF Confirming
<1>13. Sound(sub.pending, Seq0, sub.epoch) /\ Sound(conn.held, Seq0, sub.epoch)
  BY DEF FrameInv, QueuesAreSound
<1>14. Sound(HighOut, Seq0, sub.epoch) /\ HighOut \in Seq(BusItem)
  BY <1>2, <1>8, <1>13, EventsJoined, NoEvents
<1>15. QueuesAreSound'
  <2>1. Sound(<<>>, Seq0, sub.epoch) /\ Len(<<>>) = 0 /\ 0 <= RingCap
    BY NoEvents, BoundsAssumption
  <2> QED
    BY <1>1, <1>14, <2>1 DEF FrameInv, QueuesAreSound, Seq0
<1>16. WriterIsPlaced'
  <2>1. HighOut # <<>> => Sound(HighOut, Seq0, fe'.confirmed)
    <3> SUFFICES ASSUME HighOut # <<>> PROVE Sound(HighOut, Seq0, fe'.confirmed)
      OBVIOUS
    <3>1. HighGate = {}
      BY <1>7, <1>8
    <3>2. sub.epoch <= fe'.confirmed
      BY <1>9, <3>1, NothingAnnounced
    <3>3. Seq0 <= Seq0
      BY <1>2
    <3> QED
      BY <1>2, <1>10, <1>14, <3>2, <3>3, SoundStays
  <2>2. Len(conn'.held) <= 1
    BY <1>1, NoEvents DEF FrameInv, WriterIsPlaced
  <2>3. HighOut # <<>> => conn'.held = <<>>
    BY <1>1, <1>8
  <2> QED
    BY <1>1, <2>1, <2>2, <2>3 DEF WriterIsPlaced, Seq0
<1> QED
  BY <1>1, <1>11, <1>12, <1>15, <1>16 DEF FrameInv, SessionsTyped, LogTyped, Seq0

LEMMA DrainedFrames ==
  ASSUME FrameInv, Drained
  PROVE  FrameInv'
<1>1. /\ UNCHANGED <<value, life, log, ringLen, gen, publisher, sub, fe>>
      /\ conn.up /\ conn.pc = "drain" /\ conn.high = <<>> /\ conn' = [conn EXCEPT !.pc = "step"]
  BY DEF Drained, sessionVars, busVars
<1>2. conn \in Connection
  BY DEF FrameInv, RecordsTyped
<1> HIDE DEF BusItem, Frame, BusRequest
<1>3. /\ conn' \in Connection /\ conn'.pc = "step" /\ conn'.buf = conn.buf /\ conn'.held = conn.held /\ conn'.up
      /\ conn'.high = conn.high /\ conn'.gate = conn.gate /\ conn'.reqs = conn.reqs
  BY <1>1, <1>2 DEF Connection, Places
<1>4. conn.held = <<>>
  <2>1. conn.gate = {}
    BY <1>1, NoFrames DEF FrameInv, Confirming, Announced
  <2> QED
    BY <2>1 DEF FrameInv, Confirming
<1> QED
  BY <1>1, <1>3, <1>4 DEF FrameInv, SessionsTyped, LogTyped, RecordsTyped, PublishersTyped,
     QueuesAreSound, WriterIsPlaced, Confirming, Seq0

LEMMA TakeStep ==
  ASSUME FrameInv, Take
  PROVE  /\ UNCHANGED <<value, life, log, ringLen, gen, publisher, fe>>
         /\ conn.buf = <<>> /\ sub.ch # <<>> /\ conn.up /\ conn.pc = "step"
         /\ conn' \in Connection /\ sub' \in Subscription
         /\ conn'.pc = "took" /\ conn'.buf = <<Head(sub.ch)>> /\ conn'.held = conn.held /\ conn'.up
         /\ conn'.high = conn.high /\ conn'.gate = conn.gate /\ conn'.reqs = conn.reqs /\ conn'.op = conn.op
         /\ sub'.ch = Tail(sub.ch) /\ sub'.pending = sub.pending /\ sub'.on = sub.on /\ sub'.epoch = sub.epoch
         /\ sub'.domains = sub.domains /\ sub'.overrun = sub.overrun /\ sub'.since = sub.since
<1>1. /\ UNCHANGED <<value, life, log, ringLen, gen, publisher, fe>>
      /\ conn.up /\ conn.pc = "step" /\ sub.ch # <<>>
      /\ conn' = [conn EXCEPT !.pc = "took", !.buf = <<Head(sub.ch)>>]
      /\ sub' = [sub EXCEPT !.ch = Tail(@)]
  BY DEF Take, sessionVars, busVars
<1>2. conn \in Connection /\ sub \in Subscription /\ sub.ch \in Seq(BusItem) /\ conn.buf = <<>>
  BY <1>1 DEF FrameInv, RecordsTyped, Subscription, WriterIsPlaced
<1>3. Head(sub.ch) \in BusItem /\ Tail(sub.ch) \in Seq(BusItem)
  BY <1>1, <1>2, HeadTailProperties
<1>4. <<Head(sub.ch)>> \in Seq(BusItem)
  BY <1>3
<1> HIDE DEF BusItem, Frame, BusRequest
<1> QED
  BY <1>1, <1>2, <1>3, <1>4 DEF Connection, Subscription, Places

LEMMA TakeFrames ==
  ASSUME FrameInv, Take
  PROVE  FrameInv'
<1> DEFINE x == Head(sub.ch)
<1>1. /\ UNCHANGED <<value, life, log, ringLen, gen, publisher, fe>>
      /\ conn.buf = <<>> /\ sub.ch # <<>> /\ conn.pc = "step"
      /\ conn' \in Connection /\ sub' \in Subscription
      /\ conn'.pc = "took" /\ conn'.buf = <<x>> /\ conn'.held = conn.held /\ conn'.up
      /\ conn'.high = conn.high /\ conn'.gate = conn.gate /\ conn'.reqs = conn.reqs
      /\ sub'.ch = Tail(sub.ch) /\ sub'.pending = sub.pending /\ sub'.on = sub.on /\ sub'.epoch = sub.epoch
  BY TakeStep
<1>2. sub.ch \in Seq(BusItem) /\ Seq0 \in Nat /\ sub.epoch \in Nat
  BY LogFacts DEF FrameInv, RecordsTyped, Subscription
<1>3. /\ Len(Tail(sub.ch)) = Len(sub.ch) - 1 /\ Len(sub.ch) \in Nat /\ x \in BusItem
      /\ Sound(Tail(sub.ch), Seq0, sub.epoch) /\ x.n \in 1 .. Seq0 /\ x.epoch <= sub.epoch
  BY <1>1, <1>2, OneEventLess DEF FrameInv, QueuesAreSound
<1>4. Len(<<x>>) = 1 /\ Sound(<<x>>, Seq0, sub.epoch)
  BY <1>2, <1>3, OneEvent
<1> HIDE DEF x, BusItem
<1>5. QueuesAreSound'
  <2>1. Len(Tail(sub.ch)) <= SubQueue
    <3>1. Len(sub.ch) <= SubQueue /\ SubQueue \in Nat
      BY BoundsAssumption DEF FrameInv, QueuesAreSound
    <3> QED
      BY <1>3, <3>1
  <2> QED
    BY <1>1, <1>3, <1>4, <2>1 DEF FrameInv, QueuesAreSound, Seq0
<1> QED
  BY <1>1, <1>4, <1>5 DEF FrameInv, SessionsTyped, LogTyped, RecordsTyped, PublishersTyped,
     WriterIsPlaced, Confirming, Seq0

LEMMA HoldFrames ==
  ASSUME FrameInv, Hold
  PROVE  FrameInv'
<1> DEFINE hd == conn.held \o conn.buf
<1>1. /\ UNCHANGED <<value, life, log, ringLen, gen, publisher, sub, fe>>
      /\ conn.pc = "took" /\ conn.gate # {}
      /\ conn' = [conn EXCEPT !.held = hd, !.buf = <<>>, !.pc = "drain"]
  BY DEF Hold, sessionVars, busVars
<1>2. /\ conn \in Connection /\ conn.held \in Seq(BusItem) /\ conn.buf \in Seq(BusItem)
      /\ conn.held = <<>> /\ Len(conn.buf) = 1
      /\ Sound(conn.held, Seq0, sub.epoch) /\ Sound(conn.buf, Seq0, sub.epoch)
  BY <1>1 DEF FrameInv, RecordsTyped, Connection, QueuesAreSound, WriterIsPlaced
<1>3. hd \in Seq(BusItem) /\ Len(hd) = 1 /\ Sound(hd, Seq0, sub.epoch) /\ <<>> \in Seq(BusItem)
      /\ Sound(<<>>, Seq0, sub.epoch)
  BY <1>2, EventsJoined, NoEvents
<1> HIDE DEF hd, BusItem, Frame, BusRequest
<1>4. /\ conn' \in Connection /\ conn'.pc = "drain" /\ conn'.buf = <<>> /\ conn'.held = hd /\ conn'.up = conn.up
      /\ conn'.high = conn.high /\ conn'.gate = conn.gate /\ conn'.reqs = conn.reqs
  BY <1>1, <1>2, <1>3 DEF Connection, Places
<1>5. WriterIsPlaced'
  <2>1. Len(conn'.held) = 1
    BY <1>3, <1>4, Zenon
  <2>2. Len(conn'.held) <= 1
    BY <2>1
  <2> QED
    BY <1>4, <2>2 DEF WriterIsPlaced
<1>6. QueuesAreSound'
  BY <1>1, <1>3, <1>4 DEF FrameInv, QueuesAreSound, Seq0
<1>7. Confirming'
  BY <1>1, <1>4 DEF FrameInv, Confirming
<1> QED
  BY <1>1, <1>4, <1>5, <1>6, <1>7 DEF FrameInv, SessionsTyped, LogTyped, RecordsTyped, PublishersTyped, Seq0

LEMMA PassFrames ==
  ASSUME FrameInv, Pass
  PROVE  FrameInv'
<1>1. /\ UNCHANGED <<value, life, log, ringLen, gen, publisher, sub, fe>>
      /\ conn.pc = "took" /\ conn.gate = {} /\ conn' = [conn EXCEPT !.pc = "write"]
  BY DEF Pass, sessionVars, busVars
<1>2. /\ conn \in Connection /\ conn.buf \in Seq(BusItem) /\ Len(conn.buf) = 1 /\ conn.held = <<>>
      /\ Sound(conn.buf, Seq0, sub.epoch) /\ Seq0 \in Nat /\ sub.epoch \in Nat /\ fe.confirmed \in Nat
  BY <1>1, LogFacts DEF FrameInv, RecordsTyped, Connection, Subscription, Follower, QueuesAreSound, WriterIsPlaced
<1>3. sub.epoch <= fe.confirmed
  BY <1>1, NothingAnnounced DEF FrameInv, Confirming
<1>4. Sound(conn.buf, Seq0, fe.confirmed)
  <2>1. Seq0 <= Seq0
    BY <1>2
  <2> QED
    BY <1>2, <1>3, <2>1, SoundStays
<1>5. conn.buf # <<>>
  <2> SUFFICES ASSUME conn.buf = <<>> PROVE FALSE
    OBVIOUS
  <2>1. Len(conn.buf) = 0
    BY EmptySeq, Zenon
  <2> QED
    BY <1>2, <2>1
<1> HIDE DEF BusItem, Frame, BusRequest
<1>6. /\ conn' \in Connection /\ conn'.pc = "write" /\ conn'.buf = conn.buf /\ conn'.held = conn.held
      /\ conn'.up = conn.up /\ conn'.high = conn.high /\ conn'.gate = conn.gate /\ conn'.reqs = conn.reqs
  BY <1>1, <1>2 DEF Connection, Places
<1> QED
  BY <1>1, <1>2, <1>4, <1>5, <1>6 DEF FrameInv, SessionsTyped, LogTyped, RecordsTyped, PublishersTyped,
     QueuesAreSound, WriterIsPlaced, Confirming, Seq0

LEMMA WriteEventStep ==
  ASSUME FrameInv, WriteEvent
  PROVE  /\ UNCHANGED <<value, life, log, ringLen, gen, publisher, sub>>
         /\ conn.up /\ conn.pc = "write" /\ conn.buf # <<>> /\ conn.buf \in Seq(BusItem)
         /\ Head(conn.buf).n \in 1 .. Seq0 /\ fe' = OnEvent(Head(conn.buf).n) /\ conn' \in Connection
         /\ conn'.buf = Tail(conn.buf) /\ conn'.pc = (IF Len(conn.buf) = 1 THEN "drain" ELSE "write")
         /\ conn'.held = conn.held /\ conn'.up
         /\ conn'.high = conn.high /\ conn'.gate = conn.gate /\ conn'.reqs = conn.reqs /\ conn'.op = conn.op
<1>1. /\ UNCHANGED <<value, life, log, ringLen, gen, publisher, sub>>
      /\ conn.up /\ conn.pc = "write" /\ fe' = OnEvent(Head(conn.buf).n)
      /\ conn' = [conn EXCEPT !.buf = Tail(@), !.pc = IF Len(conn.buf) = 1 THEN "drain" ELSE "write"]
  BY DEF WriteEvent, sessionVars, busVars
<1>2. conn \in Connection /\ conn.buf \in Seq(BusItem) /\ conn.buf # <<>> /\ Sound(conn.buf, Seq0, fe.confirmed)
  BY <1>1 DEF FrameInv, RecordsTyped, Connection, WriterIsPlaced
<1>3. Tail(conn.buf) \in Seq(BusItem) /\ Head(conn.buf).n \in 1 .. Seq0
  BY <1>2, OneEventLess
<1> HIDE DEF BusItem, Frame, BusRequest
<1> QED
  BY <1>1, <1>2, <1>3 DEF Connection, Places

LEMMA WriteEventFrames ==
  ASSUME FrameInv, WriteEvent
  PROVE  FrameInv'
<1>1. /\ UNCHANGED <<value, life, log, ringLen, gen, publisher, sub>>
      /\ conn.up /\ conn.pc = "write" /\ conn.buf # <<>> /\ conn.buf \in Seq(BusItem)
      /\ Head(conn.buf).n \in 1 .. Seq0 /\ fe' = OnEvent(Head(conn.buf).n) /\ conn' \in Connection
      /\ conn'.buf = Tail(conn.buf) /\ conn'.pc = (IF Len(conn.buf) = 1 THEN "drain" ELSE "write")
      /\ conn'.held = conn.held /\ conn'.up
      /\ conn'.high = conn.high /\ conn'.gate = conn.gate /\ conn'.reqs = conn.reqs
  BY WriteEventStep
<1>2. fe' \in Follower /\ fe'.confirmed = fe.confirmed /\ fe'.reqs = fe.reqs
  BY <1>1, EventTaken DEF FrameInv, RecordsTyped
<1>3. /\ Sound(conn.buf, Seq0, sub.epoch) /\ Sound(conn.buf, Seq0, fe.confirmed) /\ conn.held = <<>>
  BY <1>1 DEF FrameInv, QueuesAreSound, WriterIsPlaced
<1>4. /\ Sound(Tail(conn.buf), Seq0, sub.epoch) /\ Sound(Tail(conn.buf), Seq0, fe.confirmed)
      /\ Tail(conn.buf) = <<>> <=> Len(conn.buf) = 1
  BY <1>1, <1>3, OneEventLess
<1>5. WriterIsPlaced' /\ QueuesAreSound'
  <2>1. Len(conn.held) <= 1
    BY DEF FrameInv, WriterIsPlaced
  <2> QED
    BY <1>1, <1>2, <1>3, <1>4, <2>1 DEF FrameInv, WriterIsPlaced, QueuesAreSound, Seq0
<1> QED
  BY <1>1, <1>2, <1>5 DEF FrameInv, SessionsTyped, LogTyped, RecordsTyped, PublishersTyped, Confirming, Seq0

\* The end of a connection: whatever was on its way is gone with it.
ClosedState ==
  /\ conn' = NoConn /\ sub' = NoSub
  /\ publisher' \in [Publisher -> Publication]
  /\ \A p \in Publisher : publisher'[p] = IdlePublisher \/
       (publisher'[p] = publisher[p] /\ publisher[p].pc \in {"idle", "publish"})

LEMMA ClosedKeeps ==
  ASSUME FrameInv, Closed
  PROVE  ClosedState /\ \A p \in Publisher : publisher[p].pc = "publish" <=> publisher'[p].pc = "publish"
<1>1. publisher \in [Publisher -> Publication] /\ IdlePublisher \in Publication
  BY DEF FrameInv, PublishersTyped, IdlePublisher, Publication, Stage
<1>2. /\ conn' = NoConn /\ sub' = NoSub
      /\ publisher' = [p \in Publisher |->
           IF publisher[p].pc \in {"deliver", "full"} THEN IdlePublisher ELSE publisher[p]]
  BY DEF Closed
<1>3. \A p \in Publisher : publisher[p].pc \in Stage
  BY <1>1 DEF Publication
<1>4. publisher' \in [Publisher -> Publication]
  BY <1>1, <1>2
<1>5. \A p \in Publisher : \/ publisher'[p] = IdlePublisher /\ publisher[p].pc \in {"deliver", "full"}
                           \/ publisher'[p] = publisher[p] /\ publisher[p].pc \in {"idle", "publish"}
  BY <1>2, <1>3 DEF Stage
<1>6. IdlePublisher.pc = "idle"
  BY DEF IdlePublisher
<1> QED
  BY <1>2, <1>4, <1>5, <1>6 DEF ClosedState

\* With the connection closed the frame part holds as soon as the rest has its types.
LEMMA ClosedFrames ==
  ASSUME ClosedState, SessionsTyped', LogTyped', fe' \in Follower, fe'.confirmed <= fe'.reqs, fe'.reqs <= MaxReq,
         \A p \in Publisher : publisher'[p].seq <= Seq0' /\ publisher'[p].epoch = 0 /\ publisher'[p].pc # "deliver"
  PROVE  FrameInv'
<1>1. conn' = NoConn /\ sub' = NoSub
  BY DEF ClosedState
<1>2. <<>> \in Seq(BusItem) /\ <<>> \in Seq(BusRequest) /\ <<>> \in Seq(Frame) /\ Len(<<>>) = 0
  BY EmptySeq
<1>3. Seq0' \in Nat
  BY LenProperties DEF LogTyped, Seq0
<1>4. \A s, e : Sound(<<>>, s, e)
  BY NoEvents
<1> HIDE DEF BusItem, BusRequest, Frame
<1>5. /\ sub' \in Subscription /\ ~sub'.on /\ sub'.ch = <<>> /\ sub'.pending = <<>> /\ sub'.epoch = 0
  BY <1>1, <1>2 DEF NoSub, Subscription
<1>6. /\ conn' \in Connection /\ conn'.buf = <<>> /\ conn'.held = <<>> /\ conn'.pc = "drain"
      /\ conn'.high = <<>> /\ conn'.reqs = <<>> /\ conn'.gate = {}
  BY <1>1, <1>2 DEF NoConn, Connection, Places
<1>7. RecordsTyped'
  BY <1>5, <1>6 DEF RecordsTyped
<1>8. PublishersTyped'
  BY <1>5 DEF PublishersTyped, ClosedState
<1>9. QueuesAreSound' /\ WriterIsPlaced'
  <2>1. 0 <= SubQueue /\ 0 <= RingCap
    BY BoundsAssumption
  <2> QED
    BY <1>2, <1>4, <1>5, <1>6, <2>1 DEF QueuesAreSound, WriterIsPlaced
<1>10. Confirming'
  <2>1. 0 <= fe'.confirmed
    BY DEF Follower
  <2> QED
    BY <1>5, <1>6, <2>1, NoFrames DEF Confirming, Announced
<1> QED
  BY <1>7, <1>8, <1>9, <1>10 DEF FrameInv


LEMMA ConnectionEnds ==
  ASSUME FrameInv, Closed, UNCHANGED <<value, life, log, ringLen, gen>>, fe' \in Follower,
         fe'.confirmed = fe.confirmed, fe'.reqs = fe.reqs
  PROVE  FrameInv'
<1>1. ClosedState
  BY ClosedKeeps
<1>2. SessionsTyped' /\ LogTyped' /\ Seq0' = Seq0
  BY DEF FrameInv, SessionsTyped, LogTyped, Seq0
<1>3. fe'.confirmed <= fe'.reqs /\ fe'.reqs <= MaxReq
  BY DEF FrameInv, RecordsTyped
<1>4. \A p \in Publisher : publisher'[p].seq <= Seq0' /\ publisher'[p].epoch = 0 /\ publisher'[p].pc # "deliver"
  <2> TAKE p \in Publisher
  <2>1. Seq0 \in Nat
    BY LogFacts DEF FrameInv
  <2>2. CASE publisher'[p] = IdlePublisher
    BY <1>2, <2>1, <2>2 DEF IdlePublisher
  <2>3. CASE publisher'[p] = publisher[p] /\ publisher[p].pc \in {"idle", "publish"}
    BY <1>2, <2>3 DEF FrameInv, PublishersTyped
  <2> QED
    BY <1>1, <2>2, <2>3 DEF ClosedState
<1> QED
  BY <1>1, <1>2, <1>3, <1>4, ClosedFrames

LEMMA GoodbyeFrames ==
  ASSUME FrameInv, Goodbye
  PROVE  FrameInv'
<1>1. /\ UNCHANGED <<value, life, log, ringLen, gen>> /\ Closed /\ fe' = [fe EXCEPT !.snap = None]
      /\ fe \in Follower
  BY DEF Goodbye, sessionVars, busVars, FrameInv, RecordsTyped
<1>2. fe' \in Follower /\ fe'.confirmed = fe.confirmed /\ fe'.reqs = fe.reqs
  BY <1>1 DEF Follower
<1> QED
  BY <1>1, <1>2, ConnectionEnds

LEMMA BreakFrames ==
  ASSUME FrameInv, Break
  PROVE  FrameInv'
<1>1. /\ UNCHANGED <<value, life, log, ringLen, gen, fe>> /\ Closed /\ fe \in Follower
  BY DEF Break, sessionVars, busVars, FrameInv, RecordsTyped
<1> QED
  BY <1>1, ConnectionEnds

LEMMA RestartFrames ==
  ASSUME FrameInv, Restart
  PROVE  FrameInv'
<1>1. /\ gen < MaxGen /\ gen' = gen + 1 /\ log' = <<>> /\ ringLen' = 0
      /\ value' = [d \in Domain |-> value[d] + 1] /\ life' = [d \in Domain |-> "up"]
      /\ publisher' = [p \in Publisher |-> IdlePublisher]
      /\ conn' = NoConn /\ sub' = NoSub /\ fe' = fe
  BY DEF Restart
<1>2. SessionsTyped'
  BY <1>1 DEF FrameInv, SessionsTyped
<1>3. LogTyped' /\ Seq0' = 0
  <2>1. gen' \in 1 .. MaxGen /\ 0 \in 0 .. RingCap
    BY <1>1, BoundsAssumption DEF FrameInv, LogTyped
  <2>2. log' \in Seq(Logged) /\ Seq0' = 0
    BY <1>1, EmptySeq DEF Seq0
  <2> QED
    BY <1>1, <2>1, <2>2 DEF LogTyped
<1>4. ClosedState
  BY <1>1 DEF ClosedState, IdlePublisher, Publication, Stage
<1>5. fe' \in Follower /\ fe'.confirmed <= fe'.reqs /\ fe'.reqs <= MaxReq
  BY <1>1 DEF FrameInv, RecordsTyped
<1>6. \A p \in Publisher : publisher'[p].seq <= Seq0' /\ publisher'[p].epoch = 0 /\ publisher'[p].pc # "deliver"
  BY <1>1, <1>3 DEF IdlePublisher
<1> QED
  BY <1>2, <1>3, <1>4, <1>5, <1>6, ClosedFrames

\* The front end's own steps.
LEMMA ConnectFrames ==
  ASSUME FrameInv, Connect
  PROVE  FrameInv'
<1>1. /\ UNCHANGED <<value, life, log, ringLen, gen, publisher, sub>>
      /\ conn' = [conn EXCEPT !.up = TRUE] /\ fe' = [fe EXCEPT !.conns = @ + 1]
      /\ conn \in Connection /\ fe \in Follower
  BY DEF Connect, sessionVars, busVars, FrameInv, RecordsTyped
<1>2. fe' \in Follower /\ fe'.confirmed = fe.confirmed /\ fe'.reqs = fe.reqs
  BY <1>1 DEF Follower
<1> HIDE DEF BusItem, Frame, BusRequest
<1>3. /\ conn' \in Connection /\ conn'.pc = conn.pc /\ conn'.buf = conn.buf /\ conn'.held = conn.held
      /\ conn'.up /\ conn'.high = conn.high /\ conn'.gate = conn.gate /\ conn'.reqs = conn.reqs
  BY <1>1 DEF Connection
<1> QED
  BY <1>1, <1>2, <1>3 DEF FrameInv, SessionsTyped, LogTyped, RecordsTyped, PublishersTyped,
     QueuesAreSound, WriterIsPlaced, Confirming, Seq0

LEMMA AskFrames ==
  ASSUME FrameInv, NEW r \in BusRequest, Ask(r), IsAsked(r) => r.corr = fe.reqs + 1
  PROVE  /\ FrameInv' /\ UNCHANGED <<value, life, log, ringLen, gen, publisher, sub>>
         /\ conn'.reqs = Append(conn.reqs, r) /\ conn'.buf = conn.buf /\ conn'.held = conn.held
         /\ conn'.high = conn.high /\ conn'.op = conn.op /\ conn'.up = conn.up
         /\ fe'.view = fe.view /\ fe'.at = fe.at /\ fe'.snap = fe.snap /\ fe'.gen = fe.gen /\ fe'.got = fe.got
<1> DEFINE rs == Append(conn.reqs, r)
<1>1. /\ UNCHANGED <<value, life, log, ringLen, gen, publisher, sub>>
      /\ conn' = [conn EXCEPT !.reqs = rs] /\ fe' = [fe EXCEPT !.reqs = @ + 1] /\ fe.reqs < MaxReq
      /\ conn \in Connection /\ fe \in Follower /\ conn.reqs \in Seq(BusRequest)
  BY DEF Ask, sessionVars, busVars, FrameInv, RecordsTyped, Connection
<1>2. /\ fe' \in Follower /\ fe'.confirmed = fe.confirmed /\ fe'.reqs = fe.reqs + 1 /\ fe.reqs \in Nat
      /\ fe.confirmed \in Nat
      /\ fe'.view = fe.view /\ fe'.at = fe.at /\ fe'.snap = fe.snap /\ fe'.gen = fe.gen /\ fe'.got = fe.got
  <2>1. fe.reqs \in Nat /\ fe.confirmed \in Nat
    BY <1>1 DEF Follower
  <2>2. fe.reqs + 1 \in Nat
    BY <2>1
  <2> QED
    BY <1>1, <2>1, <2>2 DEF Follower
<1>3. fe.confirmed <= fe.reqs /\ fe.reqs + 1 <= MaxReq
  BY <1>1, <1>2, BoundsAssumption DEF FrameInv, RecordsTyped
<1>4. Announced(conn.gate, conn.high, conn.reqs, fe.confirmed, fe.reqs, sub.epoch)
  BY DEF FrameInv, Confirming
<1>5. \A c \in OnWay(conn.high) \cup ToCome(conn.reqs) : c \in Nat
  <2>1. \A q \in AskedOf(conn.reqs) : q \in BusRequest /\ IsAsked(q)
    BY <1>1, RangeOfSeq DEF AskedOf
  <2>2. \A c \in ToCome(conn.reqs) : c \in Nat
    BY <2>1, BusRequestsTyped DEF ToCome
  <2>3. conn.high \in Seq(Frame)
    BY <1>1 DEF Connection
  <2>4. \A f \in ConfirmsOf(conn.high) : f \in Frame /\ IsConfirm(f)
    BY <2>3, RangeOfSeq DEF ConfirmsOf
  <2>5. \A c \in OnWay(conn.high) : c \in Nat
    BY <2>4, FramesTyped DEF OnWay
  <2> QED
    BY <2>2, <2>5
<1>6. \A c \in OnWay(conn.high) \cup ToCome(conn.reqs) : fe.confirmed < c /\ c < fe.reqs + 1 /\ c <= fe.reqs + 1
  BY <1>2, <1>4, <1>5 DEF Announced
<1>7. /\ rs \in Seq(BusRequest) /\ RisingAsked(rs)
      /\ ToCome(rs) = ToCome(conn.reqs) \cup (IF IsAsked(r) THEN {r.corr} ELSE {})
  BY <1>1, <1>4, <1>6, RequestQueued DEF Announced
<1>8. Announced(conn.gate, conn.high, rs, fe.confirmed, fe.reqs + 1, sub.epoch)
  <2>1. ASSUME NEW c \in OnWay(conn.high) \cup ToCome(rs) PROVE fe.confirmed < c /\ c <= fe.reqs + 1
    BY <1>2, <1>3, <1>6, <1>7, <2>1
  <2>2. ASSUME NEW c \in OnWay(conn.high), NEW x \in ToCome(rs) PROVE c < x
    BY <1>4, <1>6, <1>7, <2>2 DEF Announced
  <2> QED
    BY <1>4, <1>7, <2>1, <2>2 DEF Announced
<1> HIDE DEF BusItem, Frame, BusRequest, rs
<1>9. /\ conn' \in Connection /\ conn'.pc = conn.pc /\ conn'.buf = conn.buf /\ conn'.held = conn.held
      /\ conn'.up = conn.up /\ conn'.high = conn.high /\ conn'.gate = conn.gate /\ conn'.reqs = rs
      /\ conn'.op = conn.op
  BY <1>1, <1>7 DEF Connection
<1>10. FrameInv'
  BY <1>1, <1>2, <1>3, <1>8, <1>9 DEF FrameInv, SessionsTyped, LogTyped, RecordsTyped, PublishersTyped,
     QueuesAreSound, WriterIsPlaced, Confirming, Seq0
<1> QED
  BY <1>1, <1>2, <1>9, <1>10 DEF rs

\* The request of AskSubscribe.
SubscribeRequest(ds) ==
  [op |-> "subscribe", corr |-> fe.reqs + 1, domains |-> ds, gen |-> fe.gen,
   cursor |-> IF Resume = "last" THEN fe.last ELSE fe.snap, since |-> fe.snap]

LEMMA AskSteps ==
  ASSUME FrameInv
  PROVE  /\ AskSnapshot => \E r \in BusRequest : Ask(r) /\ ~IsAsked(r)
         /\ AskUnsubscribe => \E r \in BusRequest : Ask(r) /\ ~IsAsked(r)
         /\ AskSubscribe => /\ fe.snap # None /\ fe.snap \in Nat
                            /\ \E ds \in SUBSET Domain : SubscribeRequest(ds) \in SubscribeAsk /\ Ask(SubscribeRequest(ds))
<1>1. fe \in Follower
  BY DEF FrameInv, RecordsTyped
<1>2. ASSUME AskSnapshot PROVE \E r \in BusRequest : Ask(r) /\ ~IsAsked(r)
  <2>1. [op |-> "snapshot"] \in BusRequest /\ ~IsAsked([op |-> "snapshot"])
    BY DEF BusRequest, OtherRequest, IsAsked
  <2> QED
    BY <1>2, <2>1 DEF AskSnapshot
<1>3. ASSUME AskUnsubscribe PROVE \E r \in BusRequest : Ask(r) /\ ~IsAsked(r)
  <2>1. PICK d \in Domain : Ask([op |-> "unsubscribe", domains |-> {d}])
    BY <1>3 DEF AskUnsubscribe
  <2> DEFINE r == [op |-> "unsubscribe", domains |-> {d}]
  <2>2. r \in OtherRequest /\ ~IsAsked(r)
    BY DEF OtherRequest, IsAsked
  <2> QED
    BY <2>1, <2>2 DEF BusRequest
<1>4. ASSUME AskSubscribe
      PROVE  /\ fe.snap # None /\ fe.snap \in Nat
             /\ \E ds \in SUBSET Domain : SubscribeRequest(ds) \in SubscribeAsk /\ Ask(SubscribeRequest(ds))
  <2>1. fe.snap # None /\ fe.snap \in Nat /\ fe.last \in Nat /\ fe.gen \in Nat /\ fe.reqs \in Nat
    BY <1>1, <1>4 DEF AskSubscribe, Follower
  <2>2. PICK ds \in SUBSET Domain : Ask(SubscribeRequest(ds))
    BY <1>4 DEF AskSubscribe, SubscribeRequest
  <2>3. SubscribeRequest(ds) \in SubscribeAsk
    BY <2>1 DEF SubscribeRequest, SubscribeAsk
  <2> QED
    BY <2>1, <2>2, <2>3
<1> QED
  BY <1>2, <1>3, <1>4

LEMMA FrameStep == FrameInv /\ [Next]_vars => FrameInv'
<1> SUFFICES ASSUME FrameInv, [Next]_vars PROVE FrameInv'
  OBVIOUS
<1>1. ASSUME NEW p \in Publisher, Session(p) PROVE FrameInv'
  BY <1>1, SetStateFrames, PublishFrames, DeliverFrames, TerminateFrames DEF Session
<1>2. ASSUME Dispatcher PROVE FrameInv'
  BY <1>2, SubscribeFrames, UnsubscribeFrames, SnapshotSeqFrames, SnapshotStatesFrames, SnapshotReplyFrames
     DEF Dispatcher
<1>3. ASSUME Writer PROVE FrameInv'
  BY <1>3, WriteHighFrames, DrainedFrames, TakeFrames, HoldFrames, PassFrames, WriteEventFrames, GoodbyeFrames
     DEF Writer
<1>4. ASSUME FrontEnd PROVE FrameInv'
  <2>1. ASSUME NEW r \in BusRequest, Ask(r), ~IsAsked(r) PROVE FrameInv'
    BY <2>1, AskFrames
  <2>2. ASSUME NEW ds \in SUBSET Domain, SubscribeRequest(ds) \in SubscribeAsk, Ask(SubscribeRequest(ds)) PROVE FrameInv'
    <3>1. SubscribeRequest(ds) \in BusRequest /\ SubscribeRequest(ds).corr = fe.reqs + 1
      BY <2>2 DEF BusRequest, SubscribeRequest
    <3> QED
      BY <2>2, <3>1, AskFrames
  <2>3. CASE Connect
    BY <2>3, ConnectFrames
  <2>4. CASE Break
    BY <2>4, BreakFrames
  <2> QED
    BY <1>4, <2>1, <2>2, <2>3, <2>4, AskSteps DEF FrontEnd
<1>5. CASE Restart
  BY <1>5, RestartFrames
<1>6. CASE UNCHANGED vars
  BY <1>6 DEF vars, FrameInv, SessionsTyped, LogTyped, RecordsTyped, PublishersTyped,
     QueuesAreSound, WriterIsPlaced, Confirming, Seq0
<1> QED
  BY <1>1, <1>2, <1>3, <1>4, <1>5, <1>6 DEF Next

-----------------------------------------------------------------------------
(* Nothing is lost in silence: for front ends that resume from their snapshot. *)

\* A request to subscribe in the present generation continues a snapshot the front end has.
AskedContinue ==
  \A r \in AskedOf(conn.reqs) :
    /\ r.cursor = r.since
    /\ r.gen = gen => fe.gen = gen /\ \A d \in Domain : r.since <= fe.at[d]
\* So does the subscription.
SubContinues == sub.on => fe.gen = gen /\ \A d \in Domain : sub.since <= fe.at[d]
\* The front end has what it knows from the present log.
KnowsLog ==
  /\ fe.gen <= gen
  /\ fe.gen = gen =>
       /\ \A n \in fe.got : n \in 1 .. Seq0 /\ n <= fe.at[log[n].dom]
       /\ fe.snap # None => \A d \in Domain : fe.snap <= fe.at[d]
SilentInv == AskedContinue /\ SubContinues /\ KnowsLog /\ NoSilentLoss

Delivering == {publisher[p].seq : p \in {q \in Publisher : publisher[q].pc = "deliver"}}

HasNumber(q, x) == \E i \in Range(q) : i.n = x

LEMMA QueuedNumbers ==
  ASSUME NEW q \in Seq(BusItem)
  PROVE  \A x : HasNumber(q, x) <=> x \in Numbers(q)
<1>1. {i.n : i \in Range(q)} = Numbers(q)
  BY NumbersOfRange
<1> QED
  BY <1>1 DEF HasNumber

ComingNumbers == fe.got \cup Delivering \cup Numbers(sub.ch) \cup Numbers(sub.pending)
                   \cup Numbers(conn.held) \cup Numbers(conn.buf)

LEMMA ComingIs == FrameInv => Coming = ComingNumbers
<1> SUFFICES ASSUME FrameInv PROVE Coming = ComingNumbers
  OBVIOUS
<1>1. /\ sub.ch \in Seq(BusItem) /\ sub.pending \in Seq(BusItem)
      /\ conn.held \in Seq(BusItem) /\ conn.buf \in Seq(BusItem)
  BY DEF FrameInv, RecordsTyped, Subscription, Connection
<1>2. ASSUME NEW x PROVE x \in Coming <=> x \in ComingNumbers
  <2>1. x \in Coming <=>
          \/ x \in fe.got \cup Delivering
          \/ HasNumber(sub.ch, x) \/ HasNumber(sub.pending, x)
          \/ HasNumber(conn.held, x) \/ HasNumber(conn.buf, x)
    BY DEF Coming, Delivering, HasNumber
  <2>2. /\ HasNumber(sub.ch, x) <=> x \in Numbers(sub.ch)
        /\ HasNumber(sub.pending, x) <=> x \in Numbers(sub.pending)
        /\ HasNumber(conn.held, x) <=> x \in Numbers(conn.held)
        /\ HasNumber(conn.buf, x) <=> x \in Numbers(conn.buf)
    BY <1>1, QueuedNumbers
  <2> QED
    BY <2>1, <2>2 DEF ComingNumbers
<1> QED
  BY <1>2

LEMMA ComingWillBe == FrameInv' => Coming' = ComingNumbers'
<1> SUFFICES ASSUME FrameInv' PROVE Coming' = ComingNumbers'
  OBVIOUS
<1>1. /\ sub'.ch \in Seq(BusItem) /\ sub'.pending \in Seq(BusItem)
      /\ conn'.held \in Seq(BusItem) /\ conn'.buf \in Seq(BusItem)
  BY DEF FrameInv, RecordsTyped, Subscription, Connection
<1>2. ASSUME NEW x PROVE x \in Coming' <=> x \in ComingNumbers'
  <2>1. x \in Coming' <=>
          \/ x \in fe'.got \cup Delivering'
          \/ HasNumber(sub'.ch, x) \/ HasNumber(sub'.pending, x)
          \/ HasNumber(conn'.held, x) \/ HasNumber(conn'.buf, x)
    BY DEF Coming, Delivering, HasNumber
  <2>2. /\ HasNumber(sub'.ch, x) <=> x \in Numbers(sub'.ch)
        /\ HasNumber(sub'.pending, x) <=> x \in Numbers(sub'.pending)
        /\ HasNumber(conn'.held, x) <=> x \in Numbers(conn'.held)
        /\ HasNumber(conn'.buf, x) <=> x \in Numbers(conn'.buf)
    BY <1>1, QueuedNumbers
  <2> QED
    BY <2>1, <2>2 DEF ComingNumbers
<1> QED
  BY <1>2

\* What the front end knows of the present generation only grows.
KnowledgeStays ==
  /\ gen' = gen
  /\ fe.gen = gen => fe'.gen = gen /\ \A d \in Domain : fe.at[d] <= fe'.at[d]

LEMMA RequestsContinue ==
  ASSUME FrameInv, FrameInv', AskedContinue, KnowledgeStays, AskedOf(conn'.reqs) \subseteq AskedOf(conn.reqs)
  PROVE  AskedContinue'
<1> SUFFICES ASSUME NEW r \in AskedOf(conn'.reqs)
             PROVE  /\ r.cursor = r.since
                    /\ r.gen = gen' => fe'.gen = gen' /\ \A d \in Domain : r.since <= fe'.at[d]
  BY DEF AskedContinue
<1>1. r \in AskedOf(conn.reqs) /\ r.cursor = r.since
  BY DEF AskedContinue
<1>2. r.since \in Nat
  <2>1. conn.reqs \in Seq(BusRequest)
    BY DEF FrameInv, RecordsTyped, Connection
  <2>2. r \in BusRequest /\ IsAsked(r)
    BY <1>1, <2>1, RangeOfSeq DEF AskedOf
  <2> QED
    BY <2>2, BusRequestsTyped DEF SubscribeAsk
<1>3. fe.at \in [Domain -> Nat] /\ fe'.at \in [Domain -> Nat]
  BY DEF FrameInv, RecordsTyped, Follower
<1>4. ASSUME r.gen = gen', NEW d \in Domain PROVE fe'.gen = gen' /\ r.since <= fe'.at[d]
  <2>1. fe.gen = gen /\ r.since <= fe.at[d]
    BY <1>1, <1>4 DEF AskedContinue, KnowledgeStays
  <2>2. fe'.gen = gen' /\ fe.at[d] <= fe'.at[d]
    BY <2>1 DEF KnowledgeStays
  <2> QED
    BY <1>2, <1>3, <2>1, <2>2
<1>5. r.gen = gen' => fe'.gen = gen'
  BY <1>1 DEF AskedContinue, KnowledgeStays
<1> QED
  BY <1>1, <1>4, <1>5

LEMMA SubscriptionContinues ==
  ASSUME FrameInv, FrameInv', SubContinues, KnowledgeStays, sub'.on => sub.on, sub'.since = sub.since
  PROVE  SubContinues'
<1> SUFFICES ASSUME sub'.on PROVE fe'.gen = gen' /\ \A d \in Domain : sub'.since <= fe'.at[d]
  BY DEF SubContinues
<1>1. fe.gen = gen /\ fe'.gen = gen' /\ \A d \in Domain : sub.since <= fe.at[d] /\ fe.at[d] <= fe'.at[d]
  BY DEF SubContinues, KnowledgeStays
<1>2. fe.at \in [Domain -> Nat] /\ fe'.at \in [Domain -> Nat] /\ sub.since \in Nat
  BY DEF FrameInv, RecordsTyped, Follower, Subscription
<1>3. \A d \in Domain : fe.at[d] \in Nat /\ fe'.at[d] \in Nat
  BY <1>2
<1>4. \A d \in Domain : sub.since <= fe'.at[d]
  BY <1>1, <1>2, <1>3
<1> QED
  BY <1>1, <1>4

\* A subscription that stays as it was loses nothing as long as nothing disappears on the way.
LEMMA NothingDisappears ==
  ASSUME NoSilentLoss, log' = log, Subscribed' => Subscribed,
         sub'.since = sub.since, sub'.domains \subseteq sub.domains, Coming \subseteq Coming'
  PROVE  NoSilentLoss'
<1> SUFFICES ASSUME Subscribed', NEW n \in 1 .. Seq0', n > sub'.since, log'[n].dom \in sub'.domains
             PROVE  n \in Coming'
  BY DEF NoSilentLoss
<1>1. n \in 1 .. Seq0 /\ n > sub.since /\ log[n].dom \in sub.domains
  BY DEF Seq0
<1> QED
  BY <1>1 DEF NoSilentLoss

\* Steps that leave alone what the front end knows, the subscription and the events on their way.
LEMMA SilentAside ==
  ASSUME FrameInv, FrameInv', SilentInv,
         UNCHANGED <<log, gen, fe, sub>>, conn'.up = conn.up \/ ~conn.up,
         conn'.held = conn.held, conn'.buf = conn.buf,
         AskedOf(conn'.reqs) \subseteq AskedOf(conn.reqs),
         \A p \in Publisher : /\ publisher[p].pc = "deliver" <=> publisher'[p].pc = "deliver"
                              /\ publisher[p].pc = "deliver" => publisher'[p].seq = publisher[p].seq
                              /\ publisher[p].pc = "full" => publisher'[p].pc = "full"
  PROVE  SilentInv'
<1>1. KnowledgeStays
  <2>1. \A d \in Domain : fe.at[d] <= fe.at[d]
    BY DEF FrameInv, RecordsTyped, Follower
  <2> QED
    BY <2>1 DEF KnowledgeStays
<1>2. AskedContinue' /\ SubContinues'
  BY <1>1, RequestsContinue, SubscriptionContinues DEF SilentInv
<1>3. KnowsLog'
  BY DEF SilentInv, KnowsLog, Seq0
<1>4. NoSilentLoss'
  <2>1. Delivering' = Delivering
    BY DEF Delivering
  <2>2. Coming' = Coming
    BY <2>1, ComingIs, ComingWillBe DEF ComingNumbers
  <2>3. Subscribed' => Subscribed
    <3>1. sub.on => conn.up
      BY DEF FrameInv, RecordsTyped
    <3> QED
      BY <3>1 DEF Subscribed
  <2> QED
    BY <2>2, <2>3, NothingDisappears DEF SilentInv
<1> QED
  BY <1>2, <1>3, <1>4 DEF SilentInv

LEMMA SilentInit == Init => SilentInv
<1> SUFFICES ASSUME Init PROVE SilentInv
  OBVIOUS
<1>1. AskedOf(conn.reqs) = {} /\ ~sub.on /\ fe.gen = 0 /\ gen = 1
  BY NoFrames DEF Init, NoConn, NoSub
<1> QED
  BY <1>1 DEF SilentInv, AskedContinue, SubContinues, KnowsLog, NoSilentLoss, Subscribed

\* An end of the connection or of the daemon: nobody is subscribed.
LEMMA SilentGone ==
  ASSUME ClosedState, KnowsLog'
  PROVE  SilentInv'
<1>1. AskedOf(conn'.reqs) = {} /\ ~sub'.on
  BY NoFrames DEF ClosedState, NoConn, NoSub
<1> QED
  BY <1>1 DEF SilentInv, AskedContinue, SubContinues, NoSilentLoss, Subscribed

LEMMA SilentSetState ==
  ASSUME FrameInv, FrameInv', SilentInv, NEW p \in Publisher, SetState(p)
  PROVE  SilentInv'
<1>1. UNCHANGED <<log, gen, fe, sub, conn>> /\ publisher[p].pc = "idle"
  BY DEF SetState, busVars
<1>2. publisher \in [Publisher -> Publication] /\ publisher[p] \in Publication
  BY DEF FrameInv, PublishersTyped
<1>3. publisher'[p].pc = "publish"
  BY <1>2 DEF SetState, Publication
<1>4. \A q \in Publisher : q # p => publisher'[q] = publisher[q]
  BY <1>2 DEF SetState
<1>5. \A q \in Publisher : /\ publisher[q].pc = "deliver" <=> publisher'[q].pc = "deliver"
                           /\ publisher[q].pc = "deliver" => publisher'[q].seq = publisher[q].seq
                           /\ publisher[q].pc = "full" => publisher'[q].pc = "full"
  BY <1>1, <1>3, <1>4
<1> QED
  BY <1>1, <1>5, SilentAside

LEMMA SilentPublish ==
  ASSUME FrameInv, FrameInv', SilentInv, NEW p \in Publisher, Publish(p)
  PROVE  SilentInv'
<1> DEFINE e == [dom |-> p[1], val |-> publisher[p].val]
           x == IF sub.on /\ p[1] \in sub.domains
                THEN [pc |-> "deliver", val |-> 0, seq |-> Len(log'), epoch |-> sub.epoch]
                ELSE IdlePublisher
<1>1. /\ UNCHANGED <<gen, fe, sub, conn>> /\ publisher[p].pc = "publish" /\ log' = Append(log, e)
      /\ publisher' = [publisher EXCEPT ![p] = x] /\ publisher \in [Publisher -> Publication]
  BY DEF Publish, FrameInv, PublishersTyped
<1>2. /\ Seq0 \in Nat /\ Seq0' = Seq0 + 1 /\ log'[Seq0 + 1] = e
      /\ \A n \in 1 .. Seq0 : log'[n] = log[n]
  <2>1. p[1] \in Domain /\ publisher[p] \in Publication
    BY <1>1 DEF Publisher
  <2>2. e \in Logged /\ log \in Seq(Logged)
    BY <2>1 DEF Logged, Publication, FrameInv, LogTyped
  <2> HIDE DEF e, Logged
  <2> QED
    BY <1>1, <2>2, AppendProperties, LenProperties DEF Seq0
<1>3. KnowledgeStays
  <2>1. \A d \in Domain : fe.at[d] <= fe.at[d]
    BY DEF FrameInv, RecordsTyped, Follower
  <2> QED
    BY <1>1, <2>1 DEF KnowledgeStays
<1>4. AskedContinue' /\ SubContinues'
  BY <1>1, <1>3, RequestsContinue, SubscriptionContinues DEF SilentInv
<1>5. KnowsLog'
  <2>1. \A n \in 1 .. Seq0 : n \in 1 .. Seq0' /\ log'[n] = log[n]
    BY <1>2
  <2> QED
    BY <1>1, <2>1 DEF SilentInv, KnowsLog
<1>6. NoSilentLoss'
  <2> SUFFICES ASSUME Subscribed', NEW n \in 1 .. Seq0', n > sub.since, log'[n].dom \in sub.domains
               PROVE  n \in Coming'
    BY <1>1 DEF NoSilentLoss
  <2>1. Coming' = fe.got \cup Delivering' \cup Numbers(sub.ch) \cup Numbers(sub.pending)
                    \cup Numbers(conn.held) \cup Numbers(conn.buf)
    BY <1>1, ComingWillBe DEF ComingNumbers
  <2>2. CASE n = Seq0 + 1
    <3>1. p[1] \in sub.domains /\ sub.on
      <4>1. log'[n].dom = p[1]
        BY <1>2, <2>2
      <4> QED
        BY <1>1, <4>1 DEF Subscribed
    <3>2. publisher'[p].pc = "deliver" /\ publisher'[p].seq = n
      BY <1>1, <1>2, <2>2, <3>1 DEF Seq0
    <3> QED
      BY <2>1, <3>2 DEF Delivering
  <2>3. CASE n # Seq0 + 1
    <3>1. n \in 1 .. Seq0 /\ log[n] = log'[n]
      BY <1>2, <2>3
    <3>2. Subscribed
      <4>1. \A q \in Publisher : publisher[q].pc = "full" => publisher'[q].pc = "full"
        BY <1>1
      <4> QED
        BY <1>1, <4>1 DEF Subscribed
    <3>3. n \in Coming
      BY <3>1, <3>2 DEF SilentInv, NoSilentLoss
    <3>4. Delivering \subseteq Delivering'
      <4>1. \A q \in Publisher : publisher[q].pc = "deliver" => publisher'[q] = publisher[q]
        BY <1>1
      <4> QED
        BY <4>1 DEF Delivering
    <3> QED
      BY <2>1, <3>3, <3>4, ComingIs DEF ComingNumbers
  <2> QED
    BY <2>2, <2>3
<1> QED
  BY <1>4, <1>5, <1>6 DEF SilentInv

LEMMA SilentDeliver ==
  ASSUME FrameInv, FrameInv', SilentInv, NEW p \in Publisher, Deliver(p)
  PROVE  SilentInv'
<1> DEFINE it == Item(publisher[p].seq, publisher[p].epoch)
<1>1. /\ UNCHANGED <<log, gen, fe, conn>> /\ publisher[p].pc = "deliver"
      /\ publisher \in [Publisher -> Publication] /\ publisher[p] \in Publication /\ sub \in Subscription
      /\ sub.ch \in Seq(BusItem)
  BY DEF Deliver, busVars, FrameInv, PublishersTyped, RecordsTyped, Subscription
<1>2. KnowledgeStays
  <2>1. \A d \in Domain : fe.at[d] <= fe.at[d]
    BY DEF FrameInv, RecordsTyped, Follower
  <2> QED
    BY <1>1, <2>1 DEF KnowledgeStays
<1>3. KnowsLog'
  BY <1>1 DEF SilentInv, KnowsLog, Seq0
<1>4. CASE Len(sub.ch) < SubQueue
  <2>1. /\ sub' = [sub EXCEPT !.ch = Append(@, it)]
        /\ publisher' = [publisher EXCEPT ![p] = IdlePublisher]
    BY <1>4 DEF Deliver
  <2>2. /\ sub'.on = sub.on /\ sub'.since = sub.since /\ sub'.domains = sub.domains
        /\ sub'.overrun = sub.overrun /\ sub'.pending = sub.pending /\ sub'.ch = Append(sub.ch, it)
    BY <1>1, <2>1 DEF Subscription
  <2>3. AskedContinue' /\ SubContinues'
    BY <1>1, <1>2, <2>2, RequestsContinue, SubscriptionContinues DEF SilentInv
  <2>4. Numbers(sub'.ch) = Numbers(sub.ch) \cup {publisher[p].seq}
    <3>1. it \in BusItem /\ it.n = publisher[p].seq
      BY <1>1 DEF Item, BusItem, Publication
    <3> HIDE DEF it, BusItem
    <3>2. 0 \in Nat
      OBVIOUS
    <3> QED
      BY <1>1, <2>2, <3>1, <3>2, OneEventMore
  <2>5. Delivering \subseteq Delivering' \cup {publisher[p].seq}
    <3>1. \A q \in Publisher : q # p => publisher'[q] = publisher[q]
      BY <1>1, <2>1
    <3> QED
      BY <3>1 DEF Delivering
  <2>6. Coming \subseteq Coming'
    BY <1>1, <2>2, <2>4, <2>5, ComingIs, ComingWillBe DEF ComingNumbers
  <2>7. Subscribed' => Subscribed
    <3>1. \A q \in Publisher : publisher[q].pc = "full" => publisher'[q].pc = "full"
      BY <1>1, <2>1
    <3> QED
      BY <1>1, <2>2, <3>1 DEF Subscribed
  <2>8. NoSilentLoss'
    BY <1>1, <2>2, <2>6, <2>7, NothingDisappears DEF SilentInv
  <2> QED
    BY <1>3, <2>3, <2>8 DEF SilentInv
<1>5. CASE ~(Len(sub.ch) < SubQueue)
  <2>1. sub' = [sub EXCEPT !.on = FALSE]
    BY <1>5 DEF Deliver
  <2>2. ~sub'.on /\ sub'.since = sub.since
    BY <1>1, <2>1 DEF Subscription
  <2>3. AskedContinue' /\ SubContinues'
    BY <1>1, <1>2, <2>2, RequestsContinue, SubscriptionContinues DEF SilentInv
  <2>4. NoSilentLoss'
    BY <2>2 DEF NoSilentLoss, Subscribed
  <2> QED
    BY <1>3, <2>3, <2>4 DEF SilentInv
<1> QED
  BY <1>4, <1>5

LEMMA SilentTerminate ==
  ASSUME FrameInv, FrameInv', SilentInv, NEW p \in Publisher, TerminateOverrun(p)
  PROVE  SilentInv'
<1>1. /\ UNCHANGED <<log, gen, fe, conn>> /\ sub' = [sub EXCEPT !.overrun = TRUE] /\ sub \in Subscription
  BY DEF TerminateOverrun, busVars, FrameInv, RecordsTyped
<1>2. sub'.on = sub.on /\ sub'.since = sub.since /\ sub'.overrun
  BY <1>1 DEF Subscription
<1>3. KnowledgeStays
  <2>1. \A d \in Domain : fe.at[d] <= fe.at[d]
    BY DEF FrameInv, RecordsTyped, Follower
  <2> QED
    BY <1>1, <2>1 DEF KnowledgeStays
<1>4. AskedContinue' /\ SubContinues'
  BY <1>1, <1>2, <1>3, RequestsContinue, SubscriptionContinues DEF SilentInv
<1>5. KnowsLog'
  BY <1>1 DEF SilentInv, KnowsLog, Seq0
<1>6. NoSilentLoss'
  BY <1>2 DEF NoSilentLoss, Subscribed
<1> QED
  BY <1>4, <1>5, <1>6 DEF SilentInv

LEMMA NumbersJoined ==
  ASSUME NEW q \in Seq(BusItem), NEW r \in Seq(BusItem)
  PROVE  Numbers(q \o r) = Numbers(q) \cup Numbers(r)
<1>1. PICK s, e : s = 0 /\ e = 0
  OBVIOUS
<1> QED
  BY <1>1, EventsJoined

LEMMA NobodyMoves ==
  ASSUME FrameInv, gen' = gen, fe' = fe
  PROVE  KnowledgeStays
<1>1. \A d \in Domain : fe.at[d] <= fe.at[d]
  BY DEF FrameInv, RecordsTyped, Follower
<1> QED
  BY <1>1 DEF KnowledgeStays

LEMMA HeadIsAsked ==
  ASSUME FrameInv, conn.reqs # <<>>
  PROVE  /\ AskedOf(Tail(conn.reqs)) \subseteq AskedOf(conn.reqs) /\ Head(conn.reqs) \in BusRequest
         /\ IsAsked(Head(conn.reqs)) => Head(conn.reqs) \in AskedOf(conn.reqs) /\ Head(conn.reqs) \in SubscribeAsk
<1>1. conn.reqs \in Seq(BusRequest) /\ RisingAsked(conn.reqs)
  BY DEF FrameInv, RecordsTyped, Connection, Confirming, Announced
<1> QED
  BY <1>1, RequestTaken, BusRequestsTyped

LEMMA SilentSubscribe ==
  ASSUME FrameInv, FrameInv', SilentInv, Subscribe
  PROVE  SilentInv'
<1> DEFINE r == Head(conn.reqs)
           v == Verdict(r)
<1>1. /\ UNCHANGED <<log, ringLen, gen, publisher, fe>>
      /\ conn.reqs # <<>> /\ IsAsked(r) /\ sub \in Subscription /\ conn \in Connection
      /\ conn' = [conn EXCEPT !.reqs = Tail(@), !.gate = @ \cup {r.corr},
                              !.high = Append(@, [kind |-> "confirm", corr |-> r.corr, verdict |-> v])]
      /\ sub' = IF v = "ok" THEN [sub EXCEPT !.on = TRUE, !.domains = r.domains, !.pending = Replay(r),
                                              !.epoch = r.corr, !.since = r.since]
                ELSE sub
  BY DEF Subscribe, busVars, IsAsked, FrameInv, RecordsTyped
<1>2. /\ AskedOf(Tail(conn.reqs)) \subseteq AskedOf(conn.reqs)
      /\ r \in AskedOf(conn.reqs) /\ r \in SubscribeAsk
  BY <1>1, HeadIsAsked
<1>3. r.cursor = r.since /\ (r.gen = gen => fe.gen = gen /\ \A d \in Domain : r.since <= fe.at[d])
  BY <1>2 DEF SilentInv, AskedContinue
<1>4. conn'.reqs = Tail(conn.reqs) /\ conn'.held = conn.held /\ conn'.buf = conn.buf /\ conn'.up = conn.up
  BY <1>1 DEF Connection
<1>5. KnowledgeStays
  BY <1>1, NobodyMoves
<1>6. AskedContinue'
  BY <1>2, <1>4, <1>5, RequestsContinue DEF SilentInv
<1>7. KnowsLog'
  BY <1>1 DEF SilentInv, KnowsLog, Seq0
<1>8. CASE v = "ok"
  <2>1. /\ sub'.on /\ sub'.domains = r.domains /\ sub'.pending = Replay(r) /\ sub'.since = r.since
    BY <1>1, <1>8 DEF Subscription
  <2>2. r.gen = gen /\ (ringLen > 0 => ~(r.cursor + 1 < Oldest))
    BY <1>8 DEF Verdict
  <2>3. SubContinues'
    BY <1>1, <1>3, <2>1, <2>2 DEF SubContinues
  <2>4. NoSilentLoss'
    <3> SUFFICES ASSUME NEW n \in 1 .. Seq0', n > sub'.since, log'[n].dom \in sub'.domains PROVE n \in Coming'
      BY DEF NoSilentLoss
    <3>1. n \in 1 .. Seq0 /\ n > r.cursor /\ log[n].dom \in r.domains /\ Seq0 \in Nat
      BY <1>1, <1>3, <2>1, LogFacts DEF Seq0, FrameInv
    <3>2. ringLen > 0
      BY <3>1 DEF FrameInv, LogTyped
    <3>3. r.cursor \in Nat /\ Oldest \in Int
      BY <1>2, LogFacts DEF SubscribeAsk, FrameInv
    <3>4. n >= Oldest
      BY <2>2, <3>1, <3>2, <3>3
    <3>5. n \in Due(r)
      BY <3>1, <3>3, <3>4 DEF Due
    <3>6. Numbers(sub'.pending) = Due(r)
      BY <1>2, <2>1, ReplayFacts DEF FrameInv
    <3> QED
      BY <3>5, <3>6, ComingWillBe DEF ComingNumbers
  <2> QED
    BY <1>6, <1>7, <2>3, <2>4 DEF SilentInv
<1>9. CASE v # "ok"
  <2>1. sub' = sub
    BY <1>1, <1>9
  <2> QED
    BY <1>1, <1>2, <1>4, <2>1, SilentAside
<1> QED
  BY <1>8, <1>9

LEMMA SilentUnsubscribe ==
  ASSUME FrameInv, FrameInv', SilentInv, Unsubscribe
  PROVE  SilentInv'
<1> DEFINE left == sub.domains \ Head(conn.reqs).domains
<1>1. /\ UNCHANGED <<log, gen, publisher, fe>> /\ conn.reqs # <<>>
      /\ conn' = [conn EXCEPT !.reqs = Tail(@)] /\ sub \in Subscription /\ conn \in Connection
      /\ sub' = [sub EXCEPT !.domains = left, !.on = @ /\ left # {}]
  BY DEF Unsubscribe, busVars, FrameInv, RecordsTyped
<1>2. conn'.reqs = Tail(conn.reqs) /\ conn'.held = conn.held /\ conn'.buf = conn.buf /\ conn'.up = conn.up
  BY <1>1 DEF Connection
<1>3. /\ sub'.domains \subseteq sub.domains /\ (sub'.on => sub.on) /\ sub'.since = sub.since
      /\ sub'.ch = sub.ch /\ sub'.pending = sub.pending /\ sub'.overrun = sub.overrun
  <2>1. sub'.domains = left /\ (sub'.on <=> sub.on /\ left # {}) /\ sub'.since = sub.since
        /\ sub'.ch = sub.ch /\ sub'.pending = sub.pending /\ sub'.overrun = sub.overrun
    <3> HIDE DEF left
    <3> QED
      BY <1>1 DEF Subscription
  <2> QED
    BY <2>1
<1>4. KnowledgeStays
  BY <1>1, NobodyMoves
<1>5. AskedContinue' /\ SubContinues'
  BY <1>1, <1>2, <1>3, <1>4, HeadIsAsked, RequestsContinue, SubscriptionContinues DEF SilentInv
<1>6. KnowsLog'
  BY <1>1 DEF SilentInv, KnowsLog, Seq0
<1>7. NoSilentLoss'
  <2>1. Coming' = Coming
    <3>1. Delivering' = Delivering
      BY <1>1 DEF Delivering
    <3>2. ComingNumbers' = ComingNumbers
      <4> HIDE DEF left
      <4> QED
        BY <1>1, <1>2, <1>3, <3>1 DEF ComingNumbers
    <3> QED
      BY <3>2, ComingIs, ComingWillBe
  <2>2. Subscribed' => Subscribed
    BY <1>1, <1>2, <1>3 DEF Subscribed
  <2> QED
    BY <1>1, <1>3, <2>1, <2>2, NothingDisappears DEF SilentInv
<1> QED
  BY <1>5, <1>6, <1>7 DEF SilentInv

LEMMA SilentSnapshotSteps ==
  ASSUME FrameInv, FrameInv', SilentInv, SnapshotSeq \/ SnapshotStates \/ SnapshotReply \/ Drained \/ Pass
  PROVE  SilentInv'
<1>0. conn \in Connection
  BY DEF FrameInv, RecordsTyped
<1>1. UNCHANGED <<log, gen, fe, sub, publisher>>
  BY DEF SnapshotSeq, SnapshotStates, SnapshotReply, Drained, Pass, busVars
<1>2. /\ conn'.held = conn.held /\ conn'.buf = conn.buf /\ conn'.up = conn.up
      /\ conn'.reqs = conn.reqs \/ (conn.reqs # <<>> /\ conn'.reqs = Tail(conn.reqs))
  <2>1. CASE SnapshotSeq
    BY <1>0, <2>1 DEF SnapshotSeq, Connection
  <2>2. CASE SnapshotStates
    <3> DEFINE o == [conn.op EXCEPT !.states = value]
    <3>1. conn' = [conn EXCEPT !.op = o]
      BY <1>0, <2>2 DEF SnapshotStates
    <3> HIDE DEF o
    <3> QED
      BY <1>0, <3>1 DEF Connection
  <2>3. CASE SnapshotReply
    BY <1>0, <2>3 DEF SnapshotReply, Connection
  <2>4. CASE Drained
    BY <1>0, <2>4 DEF Drained, Connection
  <2>5. CASE Pass
    BY <1>0, <2>5 DEF Pass, Connection
  <2> QED
    BY <2>1, <2>2, <2>3, <2>4, <2>5
<1>3. AskedOf(conn'.reqs) \subseteq AskedOf(conn.reqs)
  BY <1>2, HeadIsAsked
<1> QED
  BY <1>1, <1>2, <1>3, SilentAside

LEMMA SilentWriteHigh ==
  ASSUME FrameInv, FrameInv', SilentInv, WriteHigh
  PROVE  SilentInv'
<1> DEFINE f == Head(conn.high)
<1>1. /\ UNCHANGED <<log, gen, publisher>> /\ conn.buf = <<>> /\ f \in Frame
      /\ fe' = IF IsConfirm(f) THEN OnConfirm(f) ELSE OnSnapshot(f)
      /\ conn'.buf = HighOut /\ conn'.held = (IF Flushes THEN <<>> ELSE conn.held)
      /\ conn'.reqs = conn.reqs /\ conn'.up
      /\ sub'.pending = (IF Flushes THEN <<>> ELSE sub.pending)
      /\ sub'.on = sub.on /\ sub'.domains = sub.domains /\ sub'.ch = sub.ch /\ sub'.overrun = sub.overrun
      /\ sub'.since = sub.since
  BY WriteHighStep
<1>2. /\ fe \in Follower /\ gen \in Nat /\ fe.at \in [Domain -> Nat] /\ fe'.at \in [Domain -> Nat]
      /\ sub.pending \in Seq(BusItem) /\ conn.held \in Seq(BusItem) /\ conn.up
  BY LogFacts DEF FrameInv, RecordsTyped, Follower, Subscription, Connection, WriteHigh
<1>3. f.verdict \in {"ok", "stale", "bad"} \/ ~IsConfirm(f)
  BY <1>1, FramesTyped DEF Confirm
<1> HIDE DEF f
<1>4. /\ fe.gen = gen => fe'.gen = gen /\ fe'.got = fe.got /\ \A d \in Domain : fe.at[d] <= fe'.at[d]
      /\ fe'.gen <= gen
      /\ fe'.gen = gen /\ fe'.snap # None => (fe.gen = gen /\ fe'.snap = fe.snap) \/ \A d \in Domain : fe'.snap <= fe'.at[d]
      /\ fe'.gen = gen => fe.gen = gen \/ fe'.got = {}
  <2>1. CASE IsConfirm(f)
    <3>1. /\ fe'.snap \in {fe.snap, None} /\ fe'.at = fe.at /\ fe'.gen = fe.gen /\ fe'.got = fe.got
      BY <1>1, <1>2, <2>1, FramesTyped, ConfirmTaken
    <3>2. \A d \in Domain : fe.at[d] <= fe.at[d]
      BY <1>2
    <3> QED
      BY <3>1, <3>2 DEF SilentInv, KnowsLog
  <2>2. CASE ~IsConfirm(f)
    <3>1. f \in SnapshotFrame /\ f.seq \in Nat
      BY <1>1, <2>2, FramesTyped DEF SnapshotFrame
    <3>2. /\ \A d \in Domain : fe'.at[d] = IF IsNewer(f, d) THEN f.seq ELSE fe.at[d]
          /\ fe'.got = (IF fe.gen # gen THEN {} ELSE fe.got)
          /\ fe'.snap = f.seq /\ fe'.gen = gen
      BY <1>1, <1>2, <2>2, <3>1, SnapshotTaken
    <3>3. \A d \in Domain : f.seq <= fe'.at[d] /\ (fe.gen = gen => fe.at[d] <= fe'.at[d])
      <4> TAKE d \in Domain
      <4>1. fe.at[d] \in Nat
        BY <1>2
      <4>2. CASE IsNewer(f, d)
        BY <3>1, <3>2, <4>1, <4>2 DEF IsNewer
      <4>3. CASE ~IsNewer(f, d)
        BY <3>1, <3>2, <4>1, <4>3 DEF IsNewer
      <4> QED
        BY <4>2, <4>3
    <3> QED
      BY <1>2, <3>2, <3>3
  <2> QED
    BY <2>1, <2>2
<1>5. KnowledgeStays
  BY <1>1, <1>4 DEF KnowledgeStays
<1>6. AskedContinue' /\ SubContinues'
  BY <1>1, <1>5, RequestsContinue, SubscriptionContinues DEF SilentInv
<1>7. KnowsLog'
  <2>1. fe'.gen <= gen'
    BY <1>1, <1>4
  <2>2. ASSUME fe'.gen = gen', NEW n \in fe'.got PROVE n \in 1 .. Seq0' /\ n <= fe'.at[log'[n].dom]
    <3>1. fe.gen = gen /\ n \in fe.got
      BY <1>1, <1>4, <2>2
    <3>2. n \in 1 .. Seq0 /\ n <= fe.at[log[n].dom]
      BY <3>1 DEF SilentInv, KnowsLog
    <3>3. log[n].dom \in Domain /\ Seq0 \in Nat
      BY <3>2, LogFacts DEF FrameInv
    <3>4. fe.at[log[n].dom] <= fe'.at[log[n].dom] /\ fe.at[log[n].dom] \in Nat /\ fe'.at[log[n].dom] \in Nat
      BY <1>2, <1>4, <3>1, <3>3
    <3> QED
      BY <1>1, <3>2, <3>3, <3>4 DEF Seq0
  <2>3. ASSUME fe'.gen = gen', fe'.snap # None, NEW d \in Domain PROVE fe'.snap <= fe'.at[d]
    <3>1. CASE fe.gen = gen /\ fe'.snap = fe.snap
      <4>1. fe.snap <= fe.at[d] /\ fe.at[d] <= fe'.at[d]
        BY <1>4, <2>3, <3>1 DEF SilentInv, KnowsLog
      <4>2. fe.snap \in Nat /\ fe.at[d] \in Nat /\ fe'.at[d] \in Nat
        BY <1>2, <2>3, <3>1 DEF Follower
      <4> QED
        BY <3>1, <4>1, <4>2
    <3>2. CASE ~(fe.gen = gen /\ fe'.snap = fe.snap)
      BY <1>1, <1>4, <2>3, <3>2
    <3> QED
      BY <3>1, <3>2
  <2> QED
    BY <2>1, <2>2, <2>3 DEF KnowsLog
<1>8. NoSilentLoss'
  <2> SUFFICES ASSUME Subscribed' PROVE NoSilentLoss'
    BY DEF NoSilentLoss
  <2>1. Subscribed /\ fe.gen = gen
    BY <1>1, <1>2 DEF Subscribed, SilentInv, SubContinues
  <2>2. Numbers(sub.pending) \cup Numbers(conn.held)
          \subseteq Numbers(sub'.pending) \cup Numbers(conn'.held) \cup Numbers(conn'.buf)
    <3>1. Flushes => Numbers(conn'.buf) = Numbers(sub.pending) \cup Numbers(conn.held)
      BY <1>1, <1>2, NumbersJoined DEF HighOut
    <3> QED
      BY <1>1, <3>1
  <2>3. Numbers(conn.buf) = {}
    BY <1>1, NoEvents
  <2>4. Coming \subseteq Coming'
    BY <1>1, <1>4, <2>1, <2>2, <2>3, ComingIs, ComingWillBe DEF ComingNumbers, Delivering
  <2> QED
    BY <1>1, <2>1, <2>4, NothingDisappears DEF SilentInv
<1> QED
  BY <1>6, <1>7, <1>8 DEF SilentInv

LEMMA SilentTake ==
  ASSUME FrameInv, FrameInv', SilentInv, Take
  PROVE  SilentInv'
<1>1. /\ UNCHANGED <<log, gen, publisher, fe>>
      /\ conn.buf = <<>> /\ sub.ch # <<>> /\ conn.up
      /\ conn'.buf = <<Head(sub.ch)>> /\ conn'.held = conn.held /\ conn'.up /\ conn'.reqs = conn.reqs
      /\ sub'.ch = Tail(sub.ch) /\ sub'.pending = sub.pending /\ sub'.on = sub.on
      /\ sub'.domains = sub.domains /\ sub'.overrun = sub.overrun /\ sub'.since = sub.since
  BY TakeStep
<1>2. KnowledgeStays
  BY <1>1, NobodyMoves
<1>3. AskedContinue' /\ SubContinues'
  BY <1>1, <1>2, RequestsContinue, SubscriptionContinues DEF SilentInv
<1>4. KnowsLog'
  BY <1>1 DEF SilentInv, KnowsLog, Seq0
<1>5. sub.ch \in Seq(BusItem)
  BY DEF FrameInv, RecordsTyped, Subscription
<1>6. Numbers(sub.ch) \subseteq Numbers(sub'.ch) \cup Numbers(conn'.buf) /\ Numbers(conn.buf) = {}
  <2>1. Head(sub.ch) \in BusItem /\ Numbers(sub.ch) = {Head(sub.ch).n} \cup Numbers(Tail(sub.ch))
    BY <1>1, <1>5, OneEventLess
  <2>2. 0 \in Nat
    OBVIOUS
  <2>3. Numbers(<<Head(sub.ch)>>) = {Head(sub.ch).n}
    BY <2>1, <2>2, OneEvent
  <2> QED
    BY <1>1, <2>1, <2>3, NoEvents
<1>7. NoSilentLoss'
  <2>1. Coming \subseteq Coming'
    BY <1>1, <1>6, ComingIs, ComingWillBe DEF ComingNumbers, Delivering
  <2>2. Subscribed' => Subscribed
    BY <1>1 DEF Subscribed
  <2> QED
    BY <1>1, <2>1, <2>2, NothingDisappears DEF SilentInv
<1> QED
  BY <1>3, <1>4, <1>7 DEF SilentInv

LEMMA SilentHold ==
  ASSUME FrameInv, FrameInv', SilentInv, Hold
  PROVE  SilentInv'
<1>1. /\ UNCHANGED <<log, gen, publisher, sub, fe>> /\ conn \in Connection
      /\ conn' = [conn EXCEPT !.held = @ \o conn.buf, !.buf = <<>>, !.pc = "drain"]
  BY DEF Hold, busVars, FrameInv, RecordsTyped
<1>2. /\ conn'.buf = <<>> /\ conn'.held = conn.held \o conn.buf /\ conn'.up = conn.up /\ conn'.reqs = conn.reqs
      /\ conn.held \in Seq(BusItem) /\ conn.buf \in Seq(BusItem)
  BY <1>1 DEF Connection
<1>3. KnowledgeStays
  BY <1>1, NobodyMoves
<1>4. AskedContinue' /\ SubContinues'
  BY <1>1, <1>2, <1>3, RequestsContinue, SubscriptionContinues DEF SilentInv
<1>5. KnowsLog'
  BY <1>1 DEF SilentInv, KnowsLog, Seq0
<1>6. NoSilentLoss'
  <2>1. Numbers(conn'.held) = Numbers(conn.held) \cup Numbers(conn.buf)
    BY <1>2, NumbersJoined
  <2>2. Coming \subseteq Coming'
    BY <1>1, <1>2, <2>1, ComingIs, ComingWillBe DEF ComingNumbers, Delivering
  <2>3. Subscribed' => Subscribed
    BY <1>1, <1>2 DEF Subscribed
  <2> QED
    BY <1>1, <2>2, <2>3, NothingDisappears DEF SilentInv
<1> QED
  BY <1>4, <1>5, <1>6 DEF SilentInv

LEMMA SilentWriteEvent ==
  ASSUME FrameInv, FrameInv', SilentInv, WriteEvent
  PROVE  SilentInv'
<1> DEFINE n == Head(conn.buf).n
           d == log[n].dom
<1>1. /\ UNCHANGED <<log, gen, publisher, sub>>
      /\ conn.up /\ conn.buf # <<>> /\ conn.buf \in Seq(BusItem) /\ n \in 1 .. Seq0 /\ fe' = OnEvent(n)
      /\ conn'.buf = Tail(conn.buf) /\ conn'.held = conn.held /\ conn'.up /\ conn'.reqs = conn.reqs
  BY WriteEventStep
<1>2. Numbers(conn.buf) = {n} \cup Numbers(conn'.buf)
  BY <1>1, OneEventLess
<1> HIDE DEF n
<1>3. /\ fe \in Follower /\ LogTyped /\ fe.at \in [Domain -> Nat] /\ fe.snap \in Nat \cup {None} /\ Seq0 \in Nat
  BY LogFacts DEF FrameInv, RecordsTyped, Follower
<1>4. /\ d \in Domain /\ fe'.at = [fe.at EXCEPT ![d] = IF n > fe.at[d] THEN n ELSE fe.at[d]]
      /\ fe'.got = fe.got \cup {n} /\ fe'.snap = fe.snap /\ fe'.gen = fe.gen
  BY <1>1, <1>3, EventTaken
<1> HIDE DEF d
<1>5. \A x \in Domain : fe.at[x] <= fe'.at[x] /\ fe.at[x] \in Nat /\ fe'.at[x] \in Nat /\ (x = d => n <= fe'.at[x])
  <2> TAKE x \in Domain
  <2>1. fe.at[x] \in Nat /\ n \in Nat
    BY <1>1, <1>3
  <2>2. CASE x = d /\ n > fe.at[d]
    BY <1>3, <1>4, <2>1, <2>2
  <2>3. CASE x = d /\ ~(n > fe.at[d])
    BY <1>3, <1>4, <2>1, <2>3
  <2>4. CASE x # d
    BY <1>3, <1>4, <2>1, <2>4
  <2> QED
    BY <2>2, <2>3, <2>4
<1>6. KnowledgeStays
  BY <1>1, <1>4, <1>5 DEF KnowledgeStays
<1>7. AskedContinue' /\ SubContinues'
  BY <1>1, <1>6, RequestsContinue, SubscriptionContinues DEF SilentInv
<1>8. KnowsLog'
  <2>1. fe'.gen <= gen'
    BY <1>1, <1>4 DEF SilentInv, KnowsLog
  <2>2. ASSUME fe'.gen = gen', NEW m \in fe'.got PROVE m \in 1 .. Seq0' /\ m <= fe'.at[log'[m].dom]
    <3>1. CASE m = n
      BY <1>1, <1>4, <1>5, <3>1 DEF d, Seq0
    <3>2. CASE m # n
      <4>1. m \in 1 .. Seq0 /\ m <= fe.at[log[m].dom]
        BY <1>1, <1>4, <2>2, <3>2 DEF SilentInv, KnowsLog
      <4>2. log[m].dom \in Domain
        BY <1>3, <4>1, LogFacts
      <4>3. fe.at[log[m].dom] <= fe'.at[log[m].dom] /\ fe.at[log[m].dom] \in Nat /\ fe'.at[log[m].dom] \in Nat
        BY <1>5, <4>2
      <4> QED
        BY <1>1, <1>3, <4>1, <4>3 DEF Seq0
    <3> QED
      BY <3>1, <3>2
  <2>3. ASSUME fe'.gen = gen', fe'.snap # None, NEW x \in Domain PROVE fe'.snap <= fe'.at[x]
    <3>1. fe.snap <= fe.at[x] /\ fe.at[x] <= fe'.at[x]
      BY <1>1, <1>4, <1>5, <2>3 DEF SilentInv, KnowsLog
    <3>2. fe.snap \in Nat /\ fe.at[x] \in Nat /\ fe'.at[x] \in Nat
      BY <1>3, <1>4, <1>5, <2>3
    <3> QED
      BY <1>4, <3>1, <3>2
  <2> QED
    BY <2>1, <2>2, <2>3 DEF KnowsLog
<1>9. NoSilentLoss'
  <2>1. Coming \subseteq Coming'
    BY <1>1, <1>2, <1>4, ComingIs, ComingWillBe DEF ComingNumbers, Delivering
  <2>2. Subscribed' => Subscribed
    BY <1>1 DEF Subscribed
  <2> QED
    BY <1>1, <2>1, <2>2, NothingDisappears DEF SilentInv
<1> QED
  BY <1>7, <1>8, <1>9 DEF SilentInv

LEMMA SilentEnds ==
  ASSUME FrameInv, SilentInv, Goodbye \/ Break \/ Restart
  PROVE  SilentInv'
<1>1. CASE Goodbye
  <2>1. UNCHANGED <<log, gen>> /\ Closed /\ fe' = [fe EXCEPT !.snap = None] /\ fe \in Follower
    BY <1>1 DEF Goodbye, busVars, FrameInv, RecordsTyped
  <2>2. fe'.gen = fe.gen /\ fe'.got = fe.got /\ fe'.at = fe.at /\ fe'.snap = None
    BY <2>1 DEF Follower
  <2> QED
    BY <2>1, <2>2, ClosedKeeps, SilentGone DEF SilentInv, KnowsLog, Seq0
<1>2. CASE Break
  <2>1. UNCHANGED <<log, gen, fe>> /\ Closed
    BY <1>2 DEF Break, busVars
  <2> QED
    BY <2>1, ClosedKeeps, SilentGone DEF SilentInv, KnowsLog, Seq0
<1>3. CASE Restart
  <2>1. gen' = gen + 1 /\ fe' = fe /\ conn' = NoConn /\ sub' = NoSub
        /\ publisher' = [p \in Publisher |-> IdlePublisher]
    BY <1>3 DEF Restart
  <2>2. ClosedState
    BY <2>1 DEF ClosedState, IdlePublisher, Publication, Stage
  <2>3. fe.gen \in Nat /\ gen \in Nat /\ fe.gen <= gen
    BY LogFacts DEF FrameInv, RecordsTyped, Follower, SilentInv, KnowsLog
  <2>4. fe'.gen <= gen' /\ fe'.gen # gen'
    BY <2>1, <2>3
  <2> QED
    BY <2>2, <2>4, SilentGone DEF KnowsLog
<1> QED
  BY <1>1, <1>2, <1>3

LEMMA SilentConnect ==
  ASSUME FrameInv, FrameInv', SilentInv, Connect
  PROVE  SilentInv'
<1>1. /\ UNCHANGED <<log, gen, publisher, sub>> /\ ~conn.up
      /\ conn' = [conn EXCEPT !.up = TRUE] /\ fe' = [fe EXCEPT !.conns = @ + 1]
      /\ conn \in Connection /\ fe \in Follower
  BY DEF Connect, busVars, FrameInv, RecordsTyped
<1>2. conn'.reqs = conn.reqs
  BY <1>1 DEF Connection
<1>3. fe'.gen = fe.gen /\ fe'.got = fe.got /\ fe'.at = fe.at /\ fe'.snap = fe.snap
  BY <1>1 DEF Follower
<1>4. ~sub'.on
  BY <1>1 DEF FrameInv, RecordsTyped
<1>5. AskedContinue'
  BY <1>1, <1>2, <1>3 DEF SilentInv, AskedContinue
<1>6. KnowsLog'
  BY <1>1, <1>3 DEF SilentInv, KnowsLog, Seq0
<1> QED
  BY <1>4, <1>5, <1>6 DEF SilentInv, SubContinues, NoSilentLoss, Subscribed

LEMMA SilentAsk ==
  ASSUME FrameInv, SilentInv, NEW r \in BusRequest, Ask(r), IsAsked(r) => r.corr = fe.reqs + 1,
         IsAsked(r) => /\ r.cursor = r.since
                       /\ r.gen = gen => fe.gen = gen /\ \A d \in Domain : r.since <= fe.at[d]
  PROVE  SilentInv'
<1>1. /\ FrameInv' /\ UNCHANGED <<log, gen, publisher, sub>>
      /\ conn'.reqs = Append(conn.reqs, r) /\ conn'.buf = conn.buf /\ conn'.held = conn.held
      /\ conn'.up = conn.up
      /\ fe'.at = fe.at /\ fe'.snap = fe.snap /\ fe'.gen = fe.gen /\ fe'.got = fe.got
  BY AskFrames
<1>2. AskedOf(conn'.reqs) = AskedOf(conn.reqs) \cup (IF IsAsked(r) THEN {r} ELSE {})
  <2>1. conn.reqs \in Seq(BusRequest)
    BY DEF FrameInv, RecordsTyped, Connection
  <2> QED
    BY <1>1, <2>1, RequestQueued
<1>3. AskedContinue'
  BY <1>1, <1>2 DEF SilentInv, AskedContinue
<1>4. SubContinues' /\ KnowsLog'
  BY <1>1 DEF SilentInv, SubContinues, KnowsLog, Seq0
<1>5. NoSilentLoss'
  <2>1. Coming' = Coming
    BY <1>1, ComingIs, ComingWillBe DEF ComingNumbers, Delivering
  <2>2. Subscribed' => Subscribed
    BY <1>1 DEF Subscribed
  <2> QED
    BY <1>1, <2>1, <2>2, NothingDisappears DEF SilentInv
<1> QED
  BY <1>3, <1>4, <1>5 DEF SilentInv

LEMMA SilentStep ==
  ASSUME Resume = "snapshot"
  PROVE  FrameInv /\ SilentInv /\ [Next]_vars => SilentInv'
<1> SUFFICES ASSUME FrameInv, SilentInv, [Next]_vars PROVE SilentInv'
  OBVIOUS
<1>0. FrameInv'
  BY FrameStep
<1>1. ASSUME NEW p \in Publisher, Session(p) PROVE SilentInv'
  BY <1>0, <1>1, SilentSetState, SilentPublish, SilentDeliver, SilentTerminate DEF Session
<1>2. ASSUME Dispatcher PROVE SilentInv'
  BY <1>0, <1>2, SilentSubscribe, SilentUnsubscribe, SilentSnapshotSteps DEF Dispatcher
<1>3. ASSUME Writer PROVE SilentInv'
  BY <1>0, <1>3, SilentWriteHigh, SilentSnapshotSteps, SilentTake, SilentHold, SilentWriteEvent, SilentEnds
     DEF Writer
<1>4. ASSUME FrontEnd PROVE SilentInv'
  <2>1. ASSUME NEW r \in BusRequest, Ask(r), ~IsAsked(r) PROVE SilentInv'
    BY <2>1, SilentAsk
  <2>2. ASSUME NEW ds \in SUBSET Domain, SubscribeRequest(ds) \in SubscribeAsk, Ask(SubscribeRequest(ds)), fe.snap # None
        PROVE  SilentInv'
    <3> DEFINE r == SubscribeRequest(ds)
    <3>1. /\ r \in BusRequest /\ r.corr = fe.reqs + 1 /\ r.cursor = fe.snap /\ r.since = fe.snap /\ r.gen = fe.gen
      BY <2>2 DEF BusRequest, SubscribeRequest
    <3>2. fe.gen = gen => \A d \in Domain : fe.snap <= fe.at[d]
      BY <2>2 DEF SilentInv, KnowsLog
    <3> HIDE DEF r
    <3>3. Ask(r)
      BY <2>2 DEF r
    <3> QED
      BY <3>1, <3>2, <3>3, SilentAsk
  <2>3. CASE Connect
    BY <1>0, <2>3, SilentConnect
  <2>4. CASE Break
    BY <2>4, SilentEnds
  <2> QED
    BY <1>4, <2>1, <2>2, <2>3, <2>4, AskSteps DEF FrontEnd
<1>5. CASE Restart
  BY <1>5, SilentEnds
<1>6. CASE UNCHANGED vars
  <2>1. UNCHANGED <<log, gen, publisher, sub, conn, fe>>
    BY <1>6 DEF vars
  <2> QED
    BY <1>0, <2>1, SilentAside
<1> QED
  BY <1>1, <1>2, <1>3, <1>4, <1>5, <1>6 DEF Next

-----------------------------------------------------------------------------
(* The view is current in the end: for states that one goroutine changes.   *)

\* The state x of domain d is as new as event n: it is the present one, or an event after n, or
\* one about to be numbered, tells of a newer one.
UpTo(d, x, n, now, past, pub) ==
  /\ n <= Len(past)
  /\ \/ x = now[d]
     \/ \E m \in n + 1 .. Len(past) : past[m].dom = d
     \/ \E p \in Publisher : p[1] = d /\ pub[p].pc = "publish"

PresentPublished == \A p \in Publisher : publisher[p].pc = "publish" => publisher[p].val = value[p[1]]
LoggedUpTo == \A n \in 1 .. Seq0 : UpTo(log[n].dom, log[n].val, n, value, log, publisher)
ReadUpTo ==
  conn.op # None =>
    /\ conn.op.seq <= Seq0
    /\ conn.op.states # None => \A d \in Domain : UpTo(d, conn.op.states[d], conn.op.seq, value, log, publisher)
SentUpTo ==
  \A f \in SnapshotsOf(conn.high) : \A d \in Domain : UpTo(d, f.states[d], f.seq, value, log, publisher)
SeenUpTo ==
  /\ fe.gen <= gen
  /\ fe.gen = gen => \A d \in Domain : UpTo(d, fe.view[d], fe.at[d], value, log, publisher)
ViewInv == PresentPublished /\ LoggedUpTo /\ ReadUpTo /\ SentUpTo /\ SeenUpTo

\* What was up to an event still is.
UpToStays ==
  \A d \in Domain, x \in Nat, n \in Nat :
    UpTo(d, x, n, value, log, publisher) => UpTo(d, x, n, value', log', publisher')

LEMMA NothingPublished ==
  ASSUME value' = value, log' = log,
         \A p \in Publisher : publisher[p].pc = "publish" => publisher'[p].pc = "publish"
  PROVE  UpToStays
BY DEF UpToStays, UpTo

LEMMA OnePublished ==
  ASSUME FrameInv, NEW p \in Publisher, Publish(p)
  PROVE  UpToStays /\ Seq0' = Seq0 + 1 /\ Seq0 \in Nat /\ log'[Seq0 + 1] = [dom |-> p[1], val |-> publisher[p].val]
         /\ \A n \in 1 .. Seq0 : log'[n] = log[n]
<1>1. publisher \in [Publisher -> Publication] /\ publisher[p] \in Publication /\ p[1] \in Domain /\ value' = value
  BY DEF FrameInv, PublishersTyped, Publisher, Publish, sessionVars
<1> DEFINE e == [dom |-> p[1], val |-> publisher[p].val]
<1>2. e \in Logged /\ log \in Seq(Logged) /\ log' = Append(log, e) /\ e.dom = p[1]
  BY <1>1 DEF Logged, Publication, FrameInv, LogTyped, Publish
<1>3. Len(log') = Len(log) + 1 /\ Len(log) \in Nat /\ log'[Len(log) + 1] = e /\ \A n \in 1 .. Len(log) : log'[n] = log[n]
  <2> HIDE DEF e, Logged
  <2> QED
    BY <1>2, AppendProperties, LenProperties
<1>4. \A q \in Publisher : q # p => publisher'[q] = publisher[q]
  BY <1>1 DEF Publish
<1>5. ASSUME NEW d \in Domain, NEW x \in Nat, NEW n \in Nat, UpTo(d, x, n, value, log, publisher)
      PROVE  UpTo(d, x, n, value', log', publisher')
  <2>1. n <= Len(log)
    BY <1>5 DEF UpTo
  <2>2. n <= Len(log') /\ Len(log) + 1 \in n + 1 .. Len(log')
    BY <1>3, <2>1
  <2>3. CASE d = p[1]
    <3>1. log'[Len(log) + 1].dom = d
      BY <1>2, <1>3, <2>3
    <3> QED
      BY <2>2, <3>1 DEF UpTo
  <2>4. CASE d # p[1]
    <3>1. CASE x = value[d]
      BY <1>1, <2>2, <3>1 DEF UpTo
    <3>2. ASSUME NEW m \in n + 1 .. Len(log), log[m].dom = d PROVE UpTo(d, x, n, value', log', publisher')
      <4>1. m \in n + 1 .. Len(log') /\ log'[m] = log[m]
        BY <1>3
      <4> QED
        BY <2>2, <3>2, <4>1 DEF UpTo
    <3>3. ASSUME NEW q \in Publisher, q[1] = d, publisher[q].pc = "publish"
          PROVE  UpTo(d, x, n, value', log', publisher')
      <4>1. publisher'[q].pc = "publish"
        BY <1>4, <2>4, <3>3
      <4> QED
        BY <2>2, <3>3, <4>1 DEF UpTo
    <3> QED
      BY <1>5, <3>1, <3>2, <3>3 DEF UpTo
  <2> QED
    BY <2>3, <2>4
<1> QED
  BY <1>3, <1>5 DEF UpToStays, Seq0

LEMMA OneSet ==
  ASSUME FrameInv, NEW p \in Publisher, SetState(p)
  PROVE  /\ UpToStays /\ publisher'[p].pc = "publish" /\ publisher'[p].val = value'[p[1]]
         /\ \A q \in Publisher : q # p => publisher'[q] = publisher[q]
         /\ \A d \in Domain : d # p[1] => value'[d] = value[d]
<1>1. publisher \in [Publisher -> Publication] /\ publisher[p] \in Publication /\ p[1] \in Domain
      /\ value \in [Domain -> Nat] /\ log' = log
  BY DEF FrameInv, PublishersTyped, SessionsTyped, Publisher, SetState, busVars
<1>2. value' = [value EXCEPT ![p[1]] = @ + 1]
  BY DEF SetState
<1>3. value'[p[1]] \in Nat
  BY <1>1, <1>2
<1>4. \A d \in Domain : d # p[1] => value'[d] = value[d]
  BY <1>1, <1>2
<1> DEFINE v == value'[p[1]]
           x == [publisher[p] EXCEPT !.pc = "publish", !.val = v]
<1>5. publisher' = [publisher EXCEPT ![p] = x]
  BY <1>1 DEF SetState
<1>6. x.pc = "publish" /\ x.val = v
  <2> HIDE DEF v
  <2> QED
    BY <1>1 DEF Publication
<1> HIDE DEF x
<1>7. publisher'[p].pc = "publish" /\ publisher'[p].val = v /\ \A q \in Publisher : q # p => publisher'[q] = publisher[q]
  BY <1>1, <1>5, <1>6
<1>8. ASSUME NEW d \in Domain, NEW y \in Nat, NEW n \in Nat, UpTo(d, y, n, value, log, publisher)
      PROVE  UpTo(d, y, n, value', log', publisher')
  <2>1. CASE d = p[1]
    BY <1>1, <1>7, <1>8, <2>1 DEF UpTo
  <2>2. CASE d # p[1]
    <3>1. value'[d] = value[d] /\ \A q \in Publisher : q[1] = d => publisher'[q] = publisher[q]
      BY <1>4, <1>7, <2>2
    <3> QED
      BY <1>1, <1>8, <3>1 DEF UpTo
  <2> QED
    BY <2>1, <2>2
<1> QED
  BY <1>4, <1>7, <1>8 DEF UpToStays

\* What is read, sent or seen and stays as it was is still up to its number.
LEMMA StillRead ==
  ASSUME FrameInv, ReadUpTo, UpToStays, Seq0 <= Seq0', Seq0 \in Nat, Seq0' \in Nat, conn'.op \in {conn.op, None}
  PROVE  ReadUpTo'
<1>1. CASE conn'.op = None
  BY <1>1 DEF ReadUpTo
<1>2. CASE conn'.op # None
  <2>1. conn'.op = conn.op /\ conn.op \in Reading
    BY <1>2 DEF FrameInv, RecordsTyped, Connection
  <2>2. PICK o : o = conn.op
    OBVIOUS
  <2>3. o.seq \in Nat /\ o.states \in [Domain -> Nat] \cup {None} /\ o.seq <= Seq0
    BY <1>2, <2>1, <2>2 DEF Reading, ReadUpTo
  <2>4. ASSUME o.states # None, NEW d \in Domain PROVE UpTo(d, o.states[d], o.seq, value', log', publisher')
    <3>1. o.states[d] \in Nat /\ UpTo(d, o.states[d], o.seq, value, log, publisher)
      BY <1>2, <2>1, <2>2, <2>3, <2>4 DEF ReadUpTo
    <3> QED
      BY <2>3, <3>1 DEF UpToStays
  <2>5. o.seq <= Seq0'
    BY <2>3
  <2> QED
    BY <2>1, <2>2, <2>4, <2>5 DEF ReadUpTo
<1> QED
  BY <1>1, <1>2

LEMMA SnapshotsTyped ==
  ASSUME FrameInv
  PROVE  \A f \in SnapshotsOf(conn.high) : f \in SnapshotFrame /\ f.seq \in Nat /\ f.states \in [Domain -> Nat]
<1>1. conn.high \in Seq(Frame)
  BY DEF FrameInv, RecordsTyped, Connection
<1>2. \A f \in SnapshotsOf(conn.high) : f \in Frame /\ ~IsConfirm(f)
  BY <1>1, RangeOfSeq DEF SnapshotsOf
<1>3. \A f \in SnapshotsOf(conn.high) : f \in SnapshotFrame
  BY <1>2, FramesTyped
<1> QED
  BY <1>3 DEF SnapshotFrame

LEMMA StillSent ==
  ASSUME FrameInv, SentUpTo, UpToStays, SnapshotsOf(conn'.high) \subseteq SnapshotsOf(conn.high)
  PROVE  SentUpTo'
<1> SUFFICES ASSUME NEW f \in SnapshotsOf(conn'.high), NEW d \in Domain
             PROVE  UpTo(d, f.states[d], f.seq, value', log', publisher')
  BY DEF SentUpTo
<1>1. f.seq \in Nat /\ f.states[d] \in Nat /\ UpTo(d, f.states[d], f.seq, value, log, publisher)
  BY SnapshotsTyped DEF SentUpTo
<1> QED
  BY <1>1 DEF UpToStays

LEMMA StillSeen ==
  ASSUME FrameInv, SeenUpTo, UpToStays, gen' = gen, fe'.gen = fe.gen, fe'.view = fe.view, fe'.at = fe.at
  PROVE  SeenUpTo'
<1> SUFFICES ASSUME fe.gen = gen, NEW d \in Domain
             PROVE  UpTo(d, fe'.view[d], fe'.at[d], value', log', publisher')
  BY DEF SeenUpTo
<1>1. fe \in Follower
  BY DEF FrameInv, RecordsTyped
<1>2. PICK x, n : x = fe.view[d] /\ n = fe.at[d]
  OBVIOUS
<1>3. x \in Nat /\ n \in Nat /\ UpTo(d, x, n, value, log, publisher)
  BY <1>1, <1>2 DEF SeenUpTo, Follower
<1> QED
  BY <1>2, <1>3 DEF UpToStays

\* Steps that neither change a state nor number an event.
QuietBus ==
  /\ UNCHANGED <<value, log, gen>>
  /\ \A p \in Publisher : /\ publisher[p].pc = "publish" <=> publisher'[p].pc = "publish"
                          /\ publisher[p].pc = "publish" => publisher'[p].val = publisher[p].val

LEMMA QuietLog ==
  ASSUME FrameInv, PresentPublished, LoggedUpTo, QuietBus
  PROVE  UpToStays /\ PresentPublished' /\ LoggedUpTo' /\ Seq0' = Seq0 /\ Seq0 \in Nat
<1>1. UpToStays
  BY NothingPublished DEF QuietBus
<1>2. PresentPublished'
  BY DEF PresentPublished, QuietBus
<1>3. Seq0' = Seq0 /\ Seq0 \in Nat /\ log' = log
  BY LogFacts DEF FrameInv, QuietBus, Seq0
<1>4. ASSUME NEW n \in 1 .. Seq0' PROVE UpTo(log'[n].dom, log'[n].val, n, value', log', publisher')
  <2>1. PICK x : x = log[n]
    OBVIOUS
  <2>2. x.dom \in Domain /\ x.val \in Nat /\ n \in Nat /\ n \in 1 .. Seq0
    BY <1>3, <2>1, LogFacts DEF FrameInv
  <2>3. UpTo(x.dom, x.val, n, value, log, publisher)
    BY <2>1, <2>2 DEF LoggedUpTo
  <2>4. UpTo(x.dom, x.val, n, value', log', publisher')
    BY <1>1, <2>2, <2>3 DEF UpToStays
  <2> QED
    BY <1>3, <2>1, <2>4
<1> QED
  BY <1>1, <1>2, <1>3, <1>4 DEF LoggedUpTo

LEMMA ViewAside ==
  ASSUME FrameInv, ViewInv, QuietBus, conn'.op \in {conn.op, None},
         SnapshotsOf(conn'.high) \subseteq SnapshotsOf(conn.high),
         fe'.gen = fe.gen, fe'.view = fe.view, fe'.at = fe.at
  PROVE  ViewInv'
<1>1. UpToStays /\ PresentPublished' /\ LoggedUpTo' /\ Seq0' = Seq0 /\ Seq0 \in Nat
  BY QuietLog DEF ViewInv
<1>2. ReadUpTo'
  BY <1>1, StillRead DEF ViewInv
<1>3. SentUpTo' /\ SeenUpTo'
  BY <1>1, StillSent, StillSeen DEF ViewInv, QuietBus
<1> QED
  BY <1>1, <1>2, <1>3 DEF ViewInv

LEMMA ViewInit == Init => ViewInv
<1> SUFFICES ASSUME Init PROVE ViewInv
  OBVIOUS
<1>1. Seq0 = 0 /\ SnapshotsOf(conn.high) = {} /\ conn.op = None /\ fe.gen = 0 /\ gen = 1
  BY EmptySeq, NoFrames DEF Init, NoConn, Seq0
<1>2. PresentPublished
  BY DEF Init, PresentPublished, IdlePublisher
<1> QED
  BY <1>1, <1>2 DEF ViewInv, LoggedUpTo, ReadUpTo, SentUpTo, SeenUpTo

LEMMA ViewSetState ==
  ASSUME Worker = {"session"}, FrameInv, ViewInv, NEW p \in Publisher, SetState(p)
  PROVE  ViewInv'
<1>1. UNCHANGED <<log, gen, conn, fe>>
  BY DEF SetState, busVars
<1>2. /\ UpToStays /\ publisher'[p].pc = "publish" /\ publisher'[p].val = value'[p[1]]
      /\ \A q \in Publisher : q # p => publisher'[q] = publisher[q]
      /\ \A d \in Domain : d # p[1] => value'[d] = value[d]
  BY OneSet
<1>3. PresentPublished'
  <2> SUFFICES ASSUME NEW q \in Publisher, publisher'[q].pc = "publish" PROVE publisher'[q].val = value'[q[1]]
    BY DEF PresentPublished
  <2>1. CASE q = p
    BY <1>2, <2>1
  <2>2. CASE q # p
    <3>1. q[1] # p[1] /\ q[1] \in Domain
      BY <2>2 DEF Publisher
    <3> QED
      BY <1>2, <2>2, <3>1 DEF ViewInv, PresentPublished
  <2> QED
    BY <2>1, <2>2
<1>4. Seq0' = Seq0 /\ Seq0 \in Nat
  BY <1>1, LogFacts DEF FrameInv, Seq0
<1>5. LoggedUpTo'
  <2> SUFFICES ASSUME NEW n \in 1 .. Seq0 PROVE UpTo(log[n].dom, log[n].val, n, value', log', publisher')
    BY <1>1, <1>4 DEF LoggedUpTo
  <2>1. PICK x : x = log[n]
    OBVIOUS
  <2>2. x.dom \in Domain /\ x.val \in Nat /\ n \in Nat /\ UpTo(x.dom, x.val, n, value, log, publisher)
    BY <1>4, <2>1, LogFacts DEF FrameInv, ViewInv, LoggedUpTo
  <2> QED
    BY <1>2, <2>1, <2>2 DEF UpToStays
<1>6. ReadUpTo' /\ SentUpTo' /\ SeenUpTo'
  BY <1>1, <1>2, <1>4, StillRead, StillSent, StillSeen DEF ViewInv
<1> QED
  BY <1>3, <1>5, <1>6 DEF ViewInv

LEMMA ViewPublish ==
  ASSUME FrameInv, ViewInv, NEW p \in Publisher, Publish(p)
  PROVE  ViewInv'
<1>1. UNCHANGED <<value, gen, conn, fe>> /\ publisher[p].pc = "publish"
  BY DEF Publish, sessionVars
<1>2. /\ UpToStays /\ Seq0' = Seq0 + 1 /\ Seq0 \in Nat
      /\ log'[Seq0 + 1] = [dom |-> p[1], val |-> publisher[p].val] /\ \A n \in 1 .. Seq0 : log'[n] = log[n]
  BY OnePublished
<1>3. PresentPublished'
  <2>1. publisher \in [Publisher -> Publication]
    BY DEF FrameInv, PublishersTyped
  <2>2. publisher'[p].pc # "publish"
    BY <2>1 DEF Publish, IdlePublisher
  <2>3. \A q \in Publisher : q # p => publisher'[q] = publisher[q]
    BY <2>1 DEF Publish
  <2> QED
    BY <1>1, <2>2, <2>3 DEF ViewInv, PresentPublished
<1>4. LoggedUpTo'
  <2> SUFFICES ASSUME NEW n \in 1 .. Seq0' PROVE UpTo(log'[n].dom, log'[n].val, n, value', log', publisher')
    BY DEF LoggedUpTo
  <2>1. CASE n \in 1 .. Seq0
    <3>1. PICK x : x = log[n]
      OBVIOUS
    <3>2. x.dom \in Domain /\ x.val \in Nat /\ n \in Nat /\ UpTo(x.dom, x.val, n, value, log, publisher)
      BY <1>2, <2>1, <3>1, LogFacts DEF FrameInv, ViewInv, LoggedUpTo
    <3>3. UpTo(x.dom, x.val, n, value', log', publisher')
      BY <1>2, <3>2 DEF UpToStays
    <3> QED
      BY <1>2, <2>1, <3>1, <3>3
  <2>2. CASE n \notin 1 .. Seq0
    <3>1. n = Seq0 + 1 /\ n <= Len(log')
      BY <1>2, <2>2 DEF Seq0
    <3>2. log'[n].dom = p[1] /\ log'[n].val = value'[p[1]]
      BY <1>1, <1>2, <3>1 DEF ViewInv, PresentPublished
    <3> QED
      BY <3>1, <3>2 DEF UpTo
  <2> QED
    BY <2>1, <2>2
<1>5. Seq0 <= Seq0' /\ Seq0' \in Nat
  BY <1>2
<1>6. ReadUpTo' /\ SentUpTo' /\ SeenUpTo'
  BY <1>1, <1>2, <1>5, StillRead, StillSent, StillSeen DEF ViewInv
<1> QED
  BY <1>3, <1>4, <1>6 DEF ViewInv

\* The rest of a publication, and the steps of the connection that carry no state.
LEMMA ViewDeliver ==
  ASSUME FrameInv, ViewInv, NEW p \in Publisher, Deliver(p) \/ TerminateOverrun(p)
  PROVE  ViewInv'
<1>1. UNCHANGED <<value, log, gen, conn, fe>> /\ publisher[p].pc \in {"deliver", "full"}
      /\ publisher \in [Publisher -> Publication]
  BY DEF Deliver, TerminateOverrun, sessionVars, busVars, FrameInv, PublishersTyped
<1>2. publisher'[p].pc # "publish" /\ \A q \in Publisher : q # p => publisher'[q] = publisher[q]
  <2>1. publisher[p] \in Publication
    BY <1>1
  <2>2. CASE publisher' = [publisher EXCEPT ![p] = IdlePublisher]
    BY <1>1, <2>2 DEF IdlePublisher
  <2>3. CASE publisher' = [publisher EXCEPT ![p].pc = "full"]
    BY <1>1, <2>1, <2>3 DEF Publication
  <2> QED
    BY <2>2, <2>3 DEF Deliver, TerminateOverrun
<1>3. QuietBus
  BY <1>1, <1>2 DEF QuietBus
<1> QED
  BY <1>1, <1>3, ViewAside

LEMMA ViewSubscribe ==
  ASSUME FrameInv, ViewInv, Subscribe
  PROVE  ViewInv'
<1> DEFINE r == Head(conn.reqs)
           v == Verdict(r)
<1>1. /\ UNCHANGED <<value, log, gen, publisher, fe>> /\ conn \in Connection /\ conn.reqs # <<>> /\ IsAsked(r)
      /\ conn' = [conn EXCEPT !.reqs = Tail(@), !.gate = @ \cup {r.corr},
                              !.high = Append(@, [kind |-> "confirm", corr |-> r.corr, verdict |-> v])]
  BY DEF Subscribe, sessionVars, busVars, FrameInv, RecordsTyped, IsAsked
<1>2. v \in {"ok", "stale", "bad"}
  BY DEF Verdict
<1>3. r.corr \in Nat
  BY <1>1, HeadIsAsked DEF SubscribeAsk
<1> HIDE DEF v, r
<1> DEFINE f == [kind |-> "confirm", corr |-> r.corr, verdict |-> v]
<1>4. f \in Frame /\ IsConfirm(f)
  BY <1>2, <1>3 DEF Frame, Confirm, IsConfirm
<1>5. conn'.high = Append(conn.high, f) /\ conn'.op = conn.op /\ conn.high \in Seq(Frame)
  <2> HIDE DEF f
  <2>1. conn' = [conn EXCEPT !.reqs = Tail(@), !.gate = @ \cup {r.corr}, !.high = Append(@, f)]
    BY <1>1 DEF f
  <2> QED
    BY <1>1, <2>1 DEF Connection
<1> HIDE DEF f
<1>6. SnapshotsOf(conn'.high) = SnapshotsOf(conn.high)
  <2>1. SnapshotsOf(Append(conn.high, f)) = SnapshotsOf(conn.high) \cup (IF IsConfirm(f) THEN {} ELSE {f})
    BY <1>4, <1>5, FrameQueued
  <2> QED
    BY <1>4, <1>5, <2>1
<1>7. QuietBus
  BY <1>1 DEF QuietBus
<1> QED
  BY <1>1, <1>5, <1>6, <1>7, ViewAside

LEMMA ViewIdleSteps ==
  ASSUME FrameInv, ViewInv, Unsubscribe \/ Drained \/ Take \/ Hold \/ Pass
  PROVE  ViewInv'
<1>1. UNCHANGED <<value, log, gen, publisher, fe>> /\ conn \in Connection
  BY DEF Unsubscribe, Drained, Take, Hold, Pass, sessionVars, busVars, FrameInv, RecordsTyped
<1>2. conn'.op = conn.op /\ conn'.high = conn.high
  <2>1. CASE Unsubscribe
    BY <1>1, <2>1 DEF Unsubscribe, Connection
  <2>2. CASE Drained \/ Pass
    BY <1>1, <2>2 DEF Drained, Pass, Connection
  <2>3. CASE Take
    BY <1>1, <2>3 DEF Take, Connection
  <2>4. CASE Hold
    BY <1>1, <2>4 DEF Hold, Connection
  <2> QED
    BY <2>1, <2>2, <2>3, <2>4
<1>3. QuietBus
  BY <1>1 DEF QuietBus
<1> QED
  BY <1>1, <1>2, <1>3, ViewAside

\* A snapshot: the number first, then the states.
LEMMA ViewSnapshotSeq ==
  ASSUME FrameInv, ViewInv, SnapshotSeq
  PROVE  ViewInv'
<1>1. UNCHANGED <<value, log, gen, publisher, fe>> /\ conn \in Connection
      /\ conn' = [conn EXCEPT !.reqs = Tail(@), !.op = [seq |-> Seq0, states |-> None]]
  BY DEF SnapshotSeq, sessionVars, busVars, FrameInv, RecordsTyped
<1>2. conn'.high = conn.high /\ conn'.op = [seq |-> Seq0, states |-> None]
  BY <1>1 DEF Connection
<1>3. QuietBus
  BY <1>1 DEF QuietBus
<1>4. UpToStays /\ PresentPublished' /\ LoggedUpTo' /\ Seq0' = Seq0 /\ Seq0 \in Nat
  BY <1>3, QuietLog DEF ViewInv
<1>5. ReadUpTo'
  BY <1>2, <1>4 DEF ReadUpTo
<1>6. SentUpTo' /\ SeenUpTo'
  BY <1>1, <1>2, <1>4, StillSent, StillSeen DEF ViewInv
<1> QED
  BY <1>4, <1>5, <1>6 DEF ViewInv

LEMMA ViewSnapshotStates ==
  ASSUME FrameInv, ViewInv, SnapshotStates
  PROVE  ViewInv'
<1>1. UNCHANGED <<value, log, gen, publisher, fe>> /\ conn \in Connection /\ conn.op # None
      /\ conn' = [conn EXCEPT !.op.states = value]
  BY DEF SnapshotStates, sessionVars, busVars, FrameInv, RecordsTyped
<1>2. conn.op \in Reading /\ conn.op.seq <= Seq0
  BY <1>1 DEF Connection, ViewInv, ReadUpTo
<1>3. conn'.high = conn.high /\ conn'.op = [conn.op EXCEPT !.states = value]
  BY <1>1 DEF Connection
<1>4. conn'.op.seq = conn.op.seq /\ conn'.op.states = value
  BY <1>2, <1>3 DEF Reading
<1>5. QuietBus
  BY <1>1 DEF QuietBus
<1>6. UpToStays /\ PresentPublished' /\ LoggedUpTo' /\ Seq0' = Seq0 /\ Seq0 \in Nat
  BY <1>5, QuietLog DEF ViewInv
<1>7. ReadUpTo'
  <2>1. \A d \in Domain : UpTo(d, value'[d], conn.op.seq, value', log', publisher')
    BY <1>1, <1>2 DEF UpTo, Seq0
  <2>2. \A d \in Domain : UpTo(d, conn'.op.states[d], conn'.op.seq, value', log', publisher')
    BY <1>1, <1>4, <2>1
  <2> QED
    BY <1>2, <1>4, <1>6, <2>2 DEF ReadUpTo
<1>8. SentUpTo' /\ SeenUpTo'
  BY <1>1, <1>3, <1>6, StillSent, StillSeen DEF ViewInv
<1> QED
  BY <1>6, <1>7, <1>8 DEF ViewInv

LEMMA ViewSnapshotReply ==
  ASSUME FrameInv, ViewInv, SnapshotReply
  PROVE  ViewInv'
<1> DEFINE f == [kind |-> "snapshot", seq |-> conn.op.seq, states |-> conn.op.states]
<1>1. UNCHANGED <<value, log, gen, publisher, fe>> /\ conn \in Connection
      /\ conn.op # None /\ conn.op.states # None /\ conn.high \in Seq(Frame)
      /\ conn' = [conn EXCEPT !.op = None, !.high = Append(@, f)]
  BY DEF SnapshotReply, sessionVars, busVars, FrameInv, RecordsTyped, Connection
<1>2. f \in SnapshotFrame /\ f.seq = conn.op.seq /\ f.states = conn.op.states
  BY <1>1 DEF Connection, Reading, SnapshotFrame
<1>3. f \in Frame /\ ~IsConfirm(f)
  BY <1>2 DEF Frame, IsConfirm
<1>4. \A d \in Domain : UpTo(d, f.states[d], f.seq, value, log, publisher)
  BY <1>1, <1>2 DEF ViewInv, ReadUpTo
<1> HIDE DEF f
<1>5. conn'.high = Append(conn.high, f) /\ conn'.op = None
  BY <1>1 DEF Connection
<1>6. SnapshotsOf(conn'.high) = SnapshotsOf(conn.high) \cup {f}
  BY <1>1, <1>3, <1>5, FrameQueued
<1>7. QuietBus
  BY <1>1 DEF QuietBus
<1>8. UpToStays /\ PresentPublished' /\ LoggedUpTo' /\ Seq0' = Seq0 /\ Seq0 \in Nat
  BY <1>7, QuietLog DEF ViewInv
<1>9. SentUpTo'
  <2> SUFFICES ASSUME NEW g \in SnapshotsOf(conn'.high), NEW d \in Domain
               PROVE  UpTo(d, g.states[d], g.seq, value', log', publisher')
    BY DEF SentUpTo
  <2>1. g \in SnapshotsOf(conn.high) \/ g = f
    BY <1>6
  <2>2. UpTo(d, g.states[d], g.seq, value, log, publisher)
    BY <1>4, <2>1 DEF ViewInv, SentUpTo
  <2>3. g.states[d] \in Nat /\ g.seq \in Nat
    BY <1>2, <2>1, SnapshotsTyped DEF SnapshotFrame
  <2> QED
    BY <1>8, <2>2, <2>3 DEF UpToStays
<1>10. ReadUpTo' /\ SeenUpTo'
  BY <1>1, <1>5, <1>8, StillSeen DEF ViewInv, ReadUpTo
<1> QED
  BY <1>8, <1>9, <1>10 DEF ViewInv

LEMMA ViewWriteHigh ==
  ASSUME FrameInv, ViewInv, WriteHigh
  PROVE  ViewInv'
<1> DEFINE f == Head(conn.high)
<1>1. /\ UNCHANGED <<value, log, gen, publisher>> /\ f \in Frame
      /\ fe' = IF IsConfirm(f) THEN OnConfirm(f) ELSE OnSnapshot(f)
      /\ conn'.high = Tail(conn.high) /\ conn'.op = conn.op
  BY WriteHighStep
<1>2. /\ SnapshotsOf(Tail(conn.high)) \subseteq SnapshotsOf(conn.high)
      /\ ~IsConfirm(f) => f \in SnapshotsOf(conn.high)
  BY FrameWritten, WriteHighStep DEF FrameInv, RecordsTyped, Connection, Confirming, Announced
<1> HIDE DEF f
<1>3. fe \in Follower /\ gen \in Nat
  BY LogFacts DEF FrameInv, RecordsTyped
<1>4. QuietBus
  BY <1>1 DEF QuietBus
<1>5. CASE IsConfirm(f)
  <2>1. fe'.gen = fe.gen /\ fe'.view = fe.view /\ fe'.at = fe.at
    BY <1>1, <1>3, <1>5, FramesTyped, ConfirmTaken
  <2> QED
    BY <1>1, <1>2, <1>4, <2>1, ViewAside
<1>6. CASE ~IsConfirm(f)
  <2>1. f \in SnapshotFrame /\ f.seq \in Nat /\ f.states \in [Domain -> Nat]
    BY <1>1, <1>6, FramesTyped DEF SnapshotFrame
  <2>2. /\ \A d \in Domain : /\ fe'.view[d] = IF IsNewer(f, d) THEN f.states[d] ELSE fe.view[d]
                             /\ fe'.at[d] = IF IsNewer(f, d) THEN f.seq ELSE fe.at[d]
        /\ fe'.gen = gen
    BY <1>1, <1>3, <1>6, <2>1, SnapshotTaken
  <2>3. UpToStays /\ PresentPublished' /\ LoggedUpTo' /\ Seq0' = Seq0 /\ Seq0 \in Nat
    BY <1>4, QuietLog DEF ViewInv
  <2>4. ReadUpTo' /\ SentUpTo'
    BY <1>1, <1>2, <2>3, StillRead, StillSent DEF ViewInv
  <2>5. ASSUME NEW d \in Domain PROVE UpTo(d, fe'.view[d], fe'.at[d], value', log', publisher')
    <3>1. PICK x, n : x = fe'.view[d] /\ n = fe'.at[d]
      OBVIOUS
    <3>2. UpTo(d, x, n, value, log, publisher) /\ x \in Nat /\ n \in Nat
      <4>1. CASE IsNewer(f, d)
        <5>1. x = f.states[d] /\ n = f.seq
          BY <2>2, <3>1, <4>1
        <5> QED
          BY <1>2, <1>6, <2>1, <5>1 DEF ViewInv, SentUpTo
      <4>2. CASE ~IsNewer(f, d)
        <5>1. x = fe.view[d] /\ n = fe.at[d] /\ fe.gen = gen
          BY <2>2, <3>1, <4>2 DEF IsNewer
        <5> QED
          BY <1>3, <5>1 DEF ViewInv, SeenUpTo, Follower
      <4> QED
        BY <4>1, <4>2
    <3> QED
      BY <2>3, <3>1, <3>2 DEF UpToStays
  <2>6. SeenUpTo'
    BY <1>1, <1>3, <2>2, <2>5 DEF SeenUpTo
  <2> QED
    BY <2>3, <2>4, <2>6 DEF ViewInv
<1> QED
  BY <1>5, <1>6

LEMMA ViewWriteEvent ==
  ASSUME FrameInv, ViewInv, WriteEvent
  PROVE  ViewInv'
<1> DEFINE n == Head(conn.buf).n
           d == log[n].dom
<1>1. /\ UNCHANGED <<value, log, gen, publisher>> /\ n \in 1 .. Seq0 /\ fe' = OnEvent(n) /\ conn \in Connection
  BY WriteEventStep DEF FrameInv, RecordsTyped
<1>2. conn'.high = conn.high /\ conn'.op = conn.op
  BY <1>1 DEF WriteEvent, Connection
<1> HIDE DEF n
<1>3. /\ fe \in Follower /\ LogTyped /\ fe.view \in [Domain -> Nat] /\ fe.at \in [Domain -> Nat] /\ Seq0 \in Nat
      /\ log[n].val \in Nat /\ n \in Nat
  BY <1>1, LogFacts DEF FrameInv, RecordsTyped, Follower
<1>4. /\ d \in Domain /\ fe'.gen = fe.gen
      /\ fe'.view = [fe.view EXCEPT ![d] = IF n > fe.at[d] THEN log[n].val ELSE fe.view[d]]
      /\ fe'.at = [fe.at EXCEPT ![d] = IF n > fe.at[d] THEN n ELSE fe.at[d]]
  BY <1>1, <1>3, EventTaken
<1>5. UpTo(d, log[n].val, n, value, log, publisher)
  BY <1>1 DEF ViewInv, LoggedUpTo
<1> HIDE DEF d
<1>6. QuietBus
  BY <1>1 DEF QuietBus
<1>7. UpToStays /\ PresentPublished' /\ LoggedUpTo' /\ Seq0' = Seq0
  BY <1>6, QuietLog DEF ViewInv
<1>8. ReadUpTo' /\ SentUpTo'
  BY <1>2, <1>3, <1>7, StillRead, StillSent DEF ViewInv
<1>9. SeenUpTo'
  <2> SUFFICES ASSUME fe.gen = gen, NEW e \in Domain
               PROVE  UpTo(e, fe'.view[e], fe'.at[e], value', log', publisher')
    BY <1>1, <1>4 DEF SeenUpTo, ViewInv
  <2>1. PICK x, k : x = fe'.view[e] /\ k = fe'.at[e]
    OBVIOUS
  <2>2. UpTo(e, x, k, value, log, publisher) /\ x \in Nat /\ k \in Nat
    <3>1. CASE e = d /\ n > fe.at[d]
      <4>1. x = log[n].val /\ k = n
        BY <1>3, <1>4, <2>1, <3>1
      <4> QED
        BY <1>3, <1>5, <3>1, <4>1
    <3>2. CASE ~(e = d /\ n > fe.at[d])
      <4>1. x = fe.view[e] /\ k = fe.at[e]
        BY <1>3, <1>4, <2>1, <3>2
      <4> QED
        BY <1>3, <4>1 DEF ViewInv, SeenUpTo
    <3> QED
      BY <3>1, <3>2
  <2> QED
    BY <1>7, <2>1, <2>2 DEF UpToStays
<1> QED
  BY <1>7, <1>8, <1>9 DEF ViewInv

\* The end of a connection, of a daemon, and the front end's own steps.
LEMMA ViewEnds ==
  ASSUME FrameInv, ViewInv, Goodbye \/ Break \/ Restart
  PROVE  ViewInv'
<1>1. SnapshotsOf(NoConn.high) = {} /\ NoConn.op = None
  BY NoFrames DEF NoConn
<1>2. CASE Goodbye \/ Break
  <2>1. UNCHANGED <<value, log, gen>> /\ Closed /\ conn' = NoConn
        /\ (fe' = [fe EXCEPT !.snap = None] \/ fe' = fe)
    BY <1>2 DEF Goodbye, Break, sessionVars, busVars, Closed
  <2>2. fe'.gen = fe.gen /\ fe'.view = fe.view /\ fe'.at = fe.at
    BY <2>1 DEF FrameInv, RecordsTyped, Follower
  <2>3. QuietBus
    <3>1. publisher' \in [Publisher -> Publication]
          /\ \A p \in Publisher : publisher'[p] = IdlePublisher \/ publisher'[p] = publisher[p]
      BY <2>1, ClosedKeeps DEF ClosedState
    <3>2. \A p \in Publisher : publisher[p].pc = "publish" <=> publisher'[p].pc = "publish"
      BY <2>1, ClosedKeeps
    <3> QED
      BY <2>1, <3>1, <3>2 DEF QuietBus, IdlePublisher
  <2> QED
    BY <1>1, <2>1, <2>2, <2>3, ViewAside
<1>3. CASE Restart
  <2>1. gen' = gen + 1 /\ fe' = fe /\ conn' = NoConn /\ log' = <<>>
        /\ publisher' = [p \in Publisher |-> IdlePublisher]
    BY <1>3 DEF Restart
  <2>2. fe.gen \in Nat /\ gen \in Nat /\ fe.gen <= gen
    BY LogFacts DEF FrameInv, RecordsTyped, Follower, ViewInv, SeenUpTo
  <2>3. fe'.gen <= gen' /\ fe'.gen # gen'
    BY <2>1, <2>2
  <2>4. PresentPublished'
    BY <2>1 DEF PresentPublished, IdlePublisher
  <2>5. LoggedUpTo'
    BY <2>1, EmptySeq DEF LoggedUpTo, Seq0
  <2> QED
    BY <1>1, <2>1, <2>3, <2>4, <2>5 DEF ViewInv, ReadUpTo, SentUpTo, SeenUpTo
<1> QED
  BY <1>2, <1>3

LEMMA ViewFrontEnd ==
  ASSUME FrameInv, ViewInv, Connect \/ \E r : Ask(r)
  PROVE  ViewInv'
<1>1. UNCHANGED <<value, log, gen, publisher>> /\ conn \in Connection /\ fe \in Follower
  BY DEF Connect, Ask, sessionVars, busVars, FrameInv, RecordsTyped
<1>2. conn'.op = conn.op /\ conn'.high = conn.high /\ fe'.gen = fe.gen /\ fe'.view = fe.view /\ fe'.at = fe.at
  <2>1. CASE Connect
    BY <1>1, <2>1 DEF Connect, Connection, Follower
  <2>2. ASSUME NEW r, Ask(r) PROVE conn'.op = conn.op /\ conn'.high = conn.high /\ fe'.gen = fe.gen /\ fe'.view = fe.view /\ fe'.at = fe.at
    BY <1>1, <2>2 DEF Ask, Connection, Follower
  <2> QED
    BY <2>1, <2>2
<1>3. QuietBus
  BY <1>1 DEF QuietBus
<1> QED
  BY <1>2, <1>3, ViewAside

LEMMA ViewStep ==
  ASSUME Worker = {"session"}
  PROVE  FrameInv /\ ViewInv /\ [Next]_vars => ViewInv'
<1> SUFFICES ASSUME FrameInv, ViewInv, [Next]_vars PROVE ViewInv'
  OBVIOUS
<1>1. ASSUME NEW p \in Publisher, Session(p) PROVE ViewInv'
  BY <1>1, ViewSetState, ViewPublish, ViewDeliver DEF Session
<1>2. ASSUME Dispatcher PROVE ViewInv'
  BY <1>2, ViewSubscribe, ViewIdleSteps, ViewSnapshotSeq, ViewSnapshotStates, ViewSnapshotReply DEF Dispatcher
<1>3. ASSUME Writer PROVE ViewInv'
  BY <1>3, ViewWriteHigh, ViewIdleSteps, ViewWriteEvent, ViewEnds DEF Writer
<1>4. ASSUME FrontEnd PROVE ViewInv'
  <2>1. CASE Connect \/ Break
    BY <2>1, ViewFrontEnd, ViewEnds
  <2>2. CASE AskSnapshot \/ AskSubscribe \/ AskUnsubscribe
    <3>1. \E r : Ask(r)
      BY <2>2 DEF AskSnapshot, AskSubscribe, AskUnsubscribe
    <3> QED
      BY <3>1, ViewFrontEnd
  <2> QED
    BY <1>4, <2>1, <2>2 DEF FrontEnd
<1>5. CASE Restart
  BY <1>5, ViewEnds
<1>6. CASE UNCHANGED vars
  <2>1. UNCHANGED <<value, log, gen, publisher, conn, fe>>
    BY <1>6 DEF vars
  <2>2. QuietBus
    BY <2>1 DEF QuietBus
  <2> QED
    BY <2>1, <2>2, ViewAside
<1> QED
  BY <1>1, <1>2, <1>3, <1>4, <1>5, <1>6 DEF Next

LEMMA LatchAndOrder == FrameInv => LatchHoldsOne /\ ConfirmedFirst
<1> SUFFICES ASSUME FrameInv PROVE LatchHoldsOne /\ ConfirmedFirst
  OBVIOUS
<1>1. LatchHoldsOne
  BY DEF FrameInv, WriterIsPlaced, LatchHoldsOne
<1>2. conn.gate = {} => sub.pending = <<>> /\ conn.held = <<>>
  BY DEF FrameInv, Confirming
<1>3. ASSUME conn.pc = "write", NEW x \in Range(conn.buf) PROVE x.epoch <= fe.confirmed
  <2>1. conn.buf \in Seq(BusItem) /\ Sound(conn.buf, Seq0, fe.confirmed)
    BY <1>3 DEF FrameInv, RecordsTyped, Connection, WriterIsPlaced
  <2>2. \E i \in 1 .. Len(conn.buf) : x = conn.buf[i]
    BY <1>3, <2>1, RangeEquality
  <2> QED
    BY <2>1, <2>2 DEF Sound
<1> QED
  BY <1>1, <1>2, <1>3 DEF ConfirmedFirst

LEMMA CurrentInTheEnd == FrameInv /\ SilentInv /\ ViewInv => ViewIsCurrent
<1> SUFFICES ASSUME FrameInv, SilentInv, ViewInv, Settled, NEW d \in sub.domains PROVE fe.view[d] = value[d]
  BY DEF ViewIsCurrent
<1>1. /\ Subscribed /\ sub.on /\ \A p \in Publisher : publisher[p].pc = "idle"
      /\ conn.gate = {} /\ conn.buf = <<>> /\ sub.ch = <<>>
  BY DEF Settled, Subscribed
<1>2. d \in Domain /\ fe.gen = gen /\ sub.since <= fe.at[d]
  <2>1. d \in Domain
    BY DEF FrameInv, RecordsTyped, Subscription
  <2> QED
    BY <1>1, <2>1 DEF SilentInv, SubContinues
<1>3. UpTo(d, fe.view[d], fe.at[d], value, log, publisher)
  BY <1>2 DEF ViewInv, SeenUpTo
<1>4. ASSUME NEW m \in fe.at[d] + 1 .. Len(log), log[m].dom = d PROVE FALSE
  <2>1. fe.at[d] \in Nat /\ sub.since \in Nat /\ Len(log) \in Nat /\ Seq0 = Len(log)
    BY <1>2, LogFacts DEF FrameInv, RecordsTyped, Follower, Subscription, Seq0
  <2>2. m \in 1 .. Seq0 /\ m > sub.since /\ m > fe.at[d]
    BY <1>2, <2>1
  <2>3. m \in Coming
    BY <1>1, <1>4, <2>2 DEF SilentInv, NoSilentLoss
  <2>4. sub.pending = <<>> /\ conn.held = <<>>
    BY <1>1 DEF FrameInv, Confirming
  <2>5. Delivering = {}
    BY <1>1 DEF Delivering
  <2>6. Numbers(<<>>) = {}
    BY EmptySeq DEF Numbers
  <2>7. m \in fe.got
    BY <1>1, <2>3, <2>4, <2>5, <2>6, ComingIs DEF ComingNumbers
  <2>8. m <= fe.at[log[m].dom]
    BY <1>2, <2>7 DEF SilentInv, KnowsLog
  <2> QED
    BY <1>4, <2>1, <2>2, <2>8
<1>5. ASSUME NEW p \in Publisher, publisher[p].pc = "publish" PROVE FALSE
  BY <1>1, <1>5
<1> QED
  BY <1>3, <1>4, <1>5 DEF UpTo

\* Types.
LEMMA SoundItems ==
  ASSUME NEW q \in Seq(BusItem), NEW s \in Nat, NEW e \in Nat, NEW top \in Nat, e <= top, Sound(q, s, e)
  PROVE  q \in Seq([n : 1 .. s, epoch : 0 .. top])
<1>1. Len(q) \in Nat /\ q \in [1 .. Len(q) -> BusItem]
  BY LenProperties
<1>2. ASSUME NEW i \in 1 .. Len(q) PROVE q[i] \in [n : 1 .. s, epoch : 0 .. top]
  <2>1. q[i] \in BusItem /\ q[i].n \in 1 .. s /\ q[i].epoch <= e
    BY <1>1 DEF Sound
  <2>2. PICK x : x = q[i]
    OBVIOUS
  <2>3. x.n \in 1 .. s /\ x.epoch \in 0 .. top /\ x \in BusItem
    BY <2>1, <2>2 DEF BusItem
  <2>4. x \in [n : 1 .. s, epoch : 0 .. top]
    BY <2>3 DEF BusItem
  <2> QED
    BY <2>2, <2>4
<1> HIDE DEF BusItem
<1>3. q \in [1 .. Len(q) -> [n : 1 .. s, epoch : 0 .. top]]
  BY <1>1, <1>2
<1> QED
  BY <1>1, <1>3, SequenceOf

LEMMA BusTypes == FrameInv => TypeOK
<1> SUFFICES ASSUME FrameInv PROVE TypeOK
  OBVIOUS
<1> DEFINE Items == [n : 1 .. Seq0, epoch : 0 .. MaxReq]
<1>1. /\ Seq0 \in Nat /\ MaxReq \in Nat /\ sub \in Subscription /\ conn \in Connection /\ fe \in Follower
      /\ fe.confirmed <= fe.reqs /\ fe.reqs <= MaxReq /\ fe.confirmed \in Nat /\ fe.reqs \in Nat /\ sub.epoch \in Nat
      /\ sub.ch \in Seq(BusItem) /\ sub.pending \in Seq(BusItem)
      /\ conn.held \in Seq(BusItem) /\ conn.buf \in Seq(BusItem)
  BY LogFacts DEF FrameInv, RecordsTyped, Subscription, Connection, Follower
<1>2. sub.epoch <= MaxReq
  <2>1. CASE sub.epoch <= fe.confirmed
    BY <1>1, <2>1
  <2>2. CASE sub.epoch \in OkOnWay(conn.high)
    <3>1. sub.epoch \in OnWay(conn.high)
      BY <2>2, OkIsOnWay
    <3>2. sub.epoch <= fe.reqs
      BY <3>1 DEF FrameInv, Confirming, Announced
    <3> QED
      BY <1>1, <3>2
  <2> QED
    BY <2>1, <2>2 DEF FrameInv, Confirming, Announced
<1>3. sub.ch \in Seq(Items) /\ sub.pending \in Seq(Items) /\ conn.held \in Seq(Items) /\ conn.buf \in Seq(Items)
  BY <1>1, <1>2, SoundItems DEF FrameInv, QueuesAreSound
<1>4. publisher \in [Publisher -> [pc : {"idle", "publish", "deliver", "full"}, val : Nat,
                                    seq : 0 .. Seq0, epoch : 0 .. MaxReq]]
  <2>1. publisher \in [Publisher -> Publication]
    BY DEF FrameInv, PublishersTyped
  <2>2. ASSUME NEW p \in Publisher
        PROVE  publisher[p] \in [pc : {"idle", "publish", "deliver", "full"}, val : Nat,
                                 seq : 0 .. Seq0, epoch : 0 .. MaxReq]
    <3>1. PICK x : x = publisher[p]
      OBVIOUS
    <3>2. x \in Publication /\ x.seq <= Seq0 /\ x.epoch <= sub.epoch
      BY <2>1, <3>1 DEF FrameInv, PublishersTyped
    <3>3. x.seq \in 0 .. Seq0 /\ x.epoch \in 0 .. MaxReq
      BY <1>1, <1>2, <3>2 DEF Publication
    <3> QED
      BY <3>1, <3>2, <3>3 DEF Publication, Stage
  <2> QED
    BY <2>1, <2>2
<1>5. conn.buf # <<>> <=> conn.pc \in {"took", "write"}
  <2>1. conn.pc \in {"drain", "step", "took", "write"}
    BY <1>1 DEF Connection, Places
  <2>2. Len(conn.buf) = 1 => conn.buf # <<>>
    BY EmptySeq
  <2> QED
    BY <2>1, <2>2 DEF FrameInv, WriterIsPlaced
<1>6. log \in Seq([dom : Domain, val : Nat]) /\ gen \in 1 .. MaxGen /\ ringLen \in 0 .. RingCap /\ ringLen <= Seq0
  BY DEF FrameInv, LogTyped, Logged
<1>7. /\ sub.on \in BOOLEAN /\ sub.overrun \in BOOLEAN /\ sub.domains \subseteq Domain
      /\ conn.up \in BOOLEAN /\ conn.pc \in {"drain", "step", "took", "write"}
      /\ fe.view \in [Domain -> Nat] /\ fe.snap \in Nat \cup {None}
  BY <1>1 DEF Subscription, Connection, Follower, Places
<1>8. Len(sub.ch) <= SubQueue /\ Len(sub.pending) <= RingCap
  BY DEF FrameInv, QueuesAreSound
<1>9. value \in [Domain -> Nat] /\ life \in [Domain -> {"up", "stopping", "over"}]
  BY DEF FrameInv, SessionsTyped
<1> QED
  BY <1>3, <1>4, <1>5, <1>6, <1>7, <1>8, <1>9 DEF TypeOK

\* The queues of the bus, of the subscriber and of the connection keep their types and their
\* limits (bus.go, server.go).
THEOREM BusTyped == Spec => []TypeOK
<1>1. Spec => []FrameInv
  BY FrameInit, FrameStep, PTL DEF Spec
<1> QED
  BY <1>1, BusTypes, PTL

\* At most one event waits for a latch, whatever the sessions and the front end do, and no event
\* of a subscription is written before its confirmation (server.go's opSubscribe and takeEvent).
THEOREM ConfirmedBeforeEvents == Spec => [](LatchHoldsOne /\ ConfirmedFirst)
<1>1. Spec => []FrameInv
  BY FrameInit, FrameStep, PTL DEF Spec
<1> QED
  BY <1>1, LatchAndOrder, PTL

\* A front end that resumes from its last snapshot loses no event in silence, with any number of
\* goroutines publishing (bus.go's promise: delivered or disconnected).
THEOREM NothingIsLost ==
  ASSUME Resume = "snapshot"
  PROVE  Spec => []NoSilentLoss
<1>1. FrameInv /\ SilentInv /\ [Next]_vars => SilentInv'
  BY SilentStep
<1>2. Spec => [](FrameInv /\ SilentInv)
  BY <1>1, FrameInit, FrameStep, SilentInit, PTL DEF Spec
<1>3. SilentInv => NoSilentLoss
  BY DEF SilentInv
<1> QED
  BY <1>2, <1>3, PTL

\* What a front end is promised when it subscribes, for any number of events, requests,
\* connections and generations: it resumes from its snapshot, and one goroutine changes the state
\* of a session, as in the run bus.
THEOREM FollowersAreCurrent ==
  ASSUME Resume = "snapshot", Worker = {"session"}
  PROVE  Spec => []FollowersKeepUp
<1>1. FrameInv /\ SilentInv /\ [Next]_vars => SilentInv'
  BY SilentStep
<1>2. FrameInv /\ ViewInv /\ [Next]_vars => ViewInv'
  BY ViewStep
<1>3. Spec => [](FrameInv /\ SilentInv /\ ViewInv)
  BY <1>1, <1>2, FrameInit, FrameStep, SilentInit, ViewInit, PTL DEF Spec
<1>4. FrameInv /\ SilentInv /\ ViewInv => FollowersKeepUp
  BY LatchAndOrder, CurrentInTheEnd DEF FollowersKeepUp, SilentInv
<1> QED
  BY <1>3, <1>4, PTL

-----------------------------------------------------------------------------
(* The legs that follow the screen of a terminal session *)

Bases == [version : Nat, alt : BOOLEAN, is : BOOLEAN]
ScreenFrames == [kind : {"snapshot", "diff"}, rev : Nat, from : Nat, at : Bases]
Followers == [need : BOOLEAN, base : Bases, rev : Nat, pressure : BOOLEAN,
              queue : Seq(ScreenFrames), sending : Seq(ScreenFrames)]
Screens == [version : Nat, clean : Nat, alt : BOOLEAN, wake : BOOLEAN]
Shown == [version : Nat, alt : BOOLEAN, rev : Nat, right : BOOLEAN]

SurfaceTyped ==
  /\ screen \in Screens /\ screen.clean <= screen.version
  /\ follower \in [SurfaceLeg -> Followers] /\ shown \in [SurfaceLeg -> Shown]
  /\ \A l \in DOMAIN loop : loop[l] \in ScreenFrames

\* A view is what a client shows; after a frame it is the frame's.
View(c) == <<c.version, c.alt, c.rev>>
ViewAfter(f) == <<f.at.version, f.at.alt, f.rev>>
Fits(v, f) == f.kind = "snapshot" \/ (f.rev = v[3] /\ f.from <= v[1] /\ f.at.alt = v[2])

\* Every frame of q fits the view that the frames before it leave; v is the first view.
ViewBefore(v, q, i) == IF i = 1 THEN v ELSE ViewAfter(q[i - 1])
FitsAll(v, q) == \A i \in 1 .. Len(q) : Fits(ViewBefore(v, q, i), q[i])
ViewIn(v, q) == ViewBefore(v, q, Len(q) + 1)

\* What the client will show when everything queued for the leg is written.
Upcoming(c, r) == ViewIn(ViewIn(View(c), r.sending), r.queue)

\* The leg's base is that view. The frame the loop holds for the leg fits it; without one
\* a leg not in need of a snapshot shows this revision, and nothing older than the dirt.
FollowerSound(c, r, l) ==
  LET v == Upcoming(c, r) IN
  /\ c.right /\ FitsAll(View(c), r.sending) /\ FitsAll(ViewIn(View(c), r.sending), r.queue)
  /\ r.base.is => v[1] = r.base.version /\ v[2] = r.base.alt
  /\ l \in DOMAIN loop =>
       /\ Fits(v, loop[l]) /\ loop[l].rev = r.rev /\ loop[l].at.version >= screen.clean
  /\ l \notin DOMAIN loop /\ ~r.need /\ r.base.is => v[3] = r.rev /\ v[1] >= screen.clean

SurfaceInv == SurfaceTyped /\ \A l \in SurfaceLeg : FollowerSound(shown[l], follower[l], l)

LEMMA ListFacts ==
  ASSUME NEW T, NEW q \in Seq(T), NEW x \in T
  PROVE  /\ Append(q, x) \in Seq(T) /\ Len(Append(q, x)) = Len(q) + 1 /\ Len(q) \in Nat
         /\ \A i \in 1 .. Len(q) : Append(q, x)[i] = q[i]
         /\ Append(q, x)[Len(q) + 1] = x
         /\ q # <<>> => /\ Tail(q) \in Seq(T) /\ Len(Tail(q)) = Len(q) - 1 /\ Len(q) # 0
                        /\ Head(q) = q[1]
                        /\ \A i \in 1 .. Len(q) - 1 : Tail(q)[i] = q[i + 1]
OBVIOUS

LEMMA FitsNone ==
  ASSUME NEW v
  PROVE  FitsAll(v, <<>>) /\ ViewIn(v, <<>>) = v
BY DEF FitsAll, ViewIn, ViewBefore

\* A frame that fits goes behind the others, ...
LEMMA FitsAdded ==
  ASSUME NEW v, NEW q \in Seq(ScreenFrames), NEW f \in ScreenFrames, FitsAll(v, q), Fits(ViewIn(v, q), f)
  PROVE  FitsAll(v, Append(q, f)) /\ ViewIn(v, Append(q, f)) = ViewAfter(f)
<1> DEFINE n == Len(q)
           p == Append(q, f)
<1>1. /\ n \in Nat /\ Len(p) = n + 1 /\ p[n + 1] = f /\ \A i \in 1 .. n : p[i] = q[i]
  BY ListFacts
<1> HIDE DEF p
<1>2. ASSUME NEW i \in 1 .. n + 1 PROVE ViewBefore(v, p, i) = ViewBefore(v, q, i)
  <2>1. i = 1 \/ i - 1 \in 1 .. n
    BY <1>1
  <2> QED BY <1>1, <2>1 DEF ViewBefore
<1>3. ASSUME NEW i \in 1 .. n + 1 PROVE Fits(ViewBefore(v, p, i), p[i])
  <2>1. CASE i = n + 1
    BY <1>1, <1>2, <2>1 DEF ViewIn
  <2>2. CASE i # n + 1
    <3>1. i \in 1 .. n
      BY <1>1, <2>2
    <3> QED BY <1>1, <1>2, <3>1 DEF FitsAll
  <2> QED BY <2>1, <2>2
<1>4. ViewIn(v, p) = ViewAfter(f)
  <2>1. Len(p) + 1 # 1 /\ (Len(p) + 1) - 1 = n + 1
    BY <1>1
  <2> QED BY <1>1, <2>1 DEF ViewIn, ViewBefore
<1> QED BY <1>1, <1>3, <1>4 DEF FitsAll, p

\* ... and the first one is written.
LEMMA FitsTaken ==
  ASSUME NEW v, NEW q \in Seq(ScreenFrames), q # <<>>, FitsAll(v, q)
  PROVE  /\ Fits(v, Head(q)) /\ FitsAll(ViewAfter(Head(q)), Tail(q))
         /\ ViewIn(ViewAfter(Head(q)), Tail(q)) = ViewIn(v, q)
<1> DEFINE n == Len(q)
           p == Tail(q)
           u == ViewAfter(Head(q))
<1>1. /\ n \in Nat \ {0} /\ Len(p) = n - 1 /\ Head(q) = q[1]
      /\ \A i \in 1 .. n - 1 : p[i] = q[i + 1]
  <2>1. q[1] \in ScreenFrames
    OBVIOUS
  <2> QED BY <2>1, ListFacts
<1> HIDE DEF p
<1>2. ASSUME NEW i \in 1 .. n PROVE ViewBefore(u, p, i) = ViewBefore(v, q, i + 1)
  <2>1. CASE i = 1
    BY <1>1, <2>1 DEF ViewBefore
  <2>2. CASE i # 1
    <3>1. i - 1 \in 1 .. n - 1 /\ (i - 1) + 1 = i /\ (i + 1) - 1 = i /\ i + 1 # 1
      BY <1>1, <2>2
    <3> QED BY <1>1, <2>2, <3>1 DEF ViewBefore
  <2> QED BY <2>1, <2>2
<1>3. ASSUME NEW i \in 1 .. n - 1 PROVE Fits(ViewBefore(u, p, i), p[i])
  <2>1. i + 1 \in 1 .. n /\ i \in 1 .. n
    BY <1>1
  <2> QED BY <1>1, <1>2, <2>1 DEF FitsAll
<1>4. Fits(v, Head(q))
  <2>1. 1 \in 1 .. n
    BY <1>1
  <2> QED BY <1>1, <2>1 DEF FitsAll, ViewBefore
<1>5. ViewIn(u, p) = ViewIn(v, q)
  <2>1. n \in 1 .. n /\ (n - 1) + 1 = n
    BY <1>1
  <2> QED BY <1>1, <1>2, <2>1 DEF ViewIn
<1> QED BY <1>1, <1>3, <1>4, <1>5 DEF FitsAll, p

\* A leg nothing is sent to, and which is at most marked, stays sound.
LEMMA LegKept ==
  ASSUME NEW l, FollowerSound(shown[l], follower[l], l),
         shown'[l] = shown[l], screen'.clean = screen.clean,
         follower'[l].base = follower[l].base, follower'[l].rev = follower[l].rev,
         follower'[l].queue = follower[l].queue, follower'[l].sending = follower[l].sending,
         l \in DOMAIN loop' => l \in DOMAIN loop,
         l \in DOMAIN loop' => loop'[l] = loop[l],
         l \notin DOMAIN loop' /\ ~follower'[l].need => l \notin DOMAIN loop /\ ~follower[l].need
  PROVE  FollowerSound(shown[l], follower[l], l)'
<1>1. Upcoming(shown[l], follower[l])' = Upcoming(shown[l], follower[l])
  BY DEF Upcoming
<1> QED BY <1>1 DEF FollowerSound

Forced == {l \in SurfaceLeg : NeedsSnapshot(follower[l])}
Served == Forced \cup (IF NothingDirty THEN {} ELSE SurfaceLeg)

\* The legs that get a frame are the served ones, and dirt is forgotten only if there are any.
LEMMA CollectedFrames ==
  ASSUME Collects, screen \in Screens
  PROVE  /\ \A l \in DOMAIN loop' : l \in Served
                /\ loop'[l] = MakeFrame(IF l \in Forced THEN "snapshot" ELSE "diff", follower'[l].rev)
         /\ Served \subseteq DOMAIN loop'
         /\ Served # {} => screen' = [screen EXCEPT !.wake = FALSE, !.clean = screen.version]
         /\ screen' \in Screens /\ screen'.version = screen.version
         /\ screen'.clean = IF Served = {} THEN screen.clean ELSE screen.version
<1>1. CASE Served = {}
  <2>1. loop' = <<>> /\ screen' = [screen EXCEPT !.wake = FALSE, !.clean = screen.clean]
    BY <1>1 DEF Collects, Served, Forced
  <2>2. DOMAIN loop' = {}
    BY <2>1
  <2> QED BY <1>1, <2>1, <2>2 DEF Screens
<1>2. CASE Served # {}
  <2>1. /\ loop' = [l \in Served |-> MakeFrame(IF l \in Forced THEN "snapshot" ELSE "diff", follower'[l].rev)]
        /\ screen' = [screen EXCEPT !.wake = FALSE, !.clean = screen.version]
    BY <1>2 DEF Collects, Served, Forced
  <2> QED BY <1>2, <2>1 DEF Screens
<1> QED BY <1>1, <1>2

\* The loop makes a frame for the leg: a snapshot, or a difference to its base.
LEMMA LegServed ==
  ASSUME SurfaceTyped, Collects, NEW l \in SurfaceLeg, l \in DOMAIN loop',
         FollowerSound(shown[l], follower[l], l)
  PROVE  FollowerSound(shown[l], follower[l], l)'
<1> DEFINE r == follower[l]
           q == follower'[l]
           v == Upcoming(shown[l], r)
<1>1. /\ r \in Followers /\ screen \in Screens /\ shown' = shown /\ loop = <<>>
  BY DEF SurfaceTyped, Collects
<1>2. l \in Served /\ loop'[l] = MakeFrame(IF l \in Forced THEN "snapshot" ELSE "diff", q.rev)
  BY <1>1, CollectedFrames
<1>3. screen'.clean = screen.version
  BY <1>1, <1>2, CollectedFrames
<1>4. q = IF l \in Forced THEN [r EXCEPT !.need = FALSE, !.rev = @ + 1] ELSE r
  BY DEF Collects, Forced
<1>5. loop'[l] = [kind |-> IF l \in Forced THEN "snapshot" ELSE "diff", rev |-> q.rev,
                  from |-> screen.clean, at |-> Base]
  BY <1>2 DEF MakeFrame
<1>6. /\ q.base = r.base /\ q.queue = r.queue /\ q.sending = r.sending
  BY <1>1, <1>4 DEF Followers
<1>7. Upcoming(shown[l], follower[l])' = v
  BY <1>1, <1>6 DEF Upcoming
<1>8. screen'.clean = screen.version /\ loop'[l].at.version = screen.version /\ loop'[l].rev = q.rev
  BY <1>1, <1>3, <1>5 DEF Screens, Base
<1>9. Fits(v, loop'[l])
  <2>1. CASE l \in Forced
    BY <1>5, <2>1 DEF Fits
  <2>2. CASE l \notin Forced
    <3>1. ~r.need /\ r.base.is /\ r.base.alt = screen.alt /\ q = r /\ l \notin DOMAIN loop
      BY <1>1, <1>4, <2>2 DEF NeedsSnapshot, Forced
    <3>2. v[3] = r.rev /\ v[1] >= screen.clean /\ v[2] = screen.alt
      BY <3>1 DEF FollowerSound
    <3>3. v[1] = r.base.version
      BY <3>1 DEF FollowerSound
    <3> HIDE DEF v
    <3>4. screen.clean <= v[1]
      BY <1>1, <3>2, <3>3 DEF Screens, Followers, Bases
    <3> QED BY <1>5, <3>1, <3>2, <3>4 DEF Fits, Base
  <2> QED BY <2>1, <2>2
<1>10. screen.version >= screen'.clean
  BY <1>1, <1>8 DEF Screens
<1> QED BY <1>1, <1>6, <1>7, <1>8, <1>9, <1>10 DEF FollowerSound

\* The frame is queued: it is the leg's base, and the last view to come.
LEMMA LegQueued ==
  ASSUME SurfaceTyped, NEW l \in SurfaceLeg, Queues(l), FollowerSound(shown[l], follower[l], l)
  PROVE  FollowerSound(shown[l], follower[l], l)'
<1> DEFINE r == follower[l]
           q == follower'[l]
           f == loop[l]
           u == ViewIn(View(shown[l]), r.sending)
<1>1. /\ r \in Followers /\ f \in ScreenFrames /\ l \in DOMAIN loop
      /\ screen' = screen /\ shown' = shown /\ l \notin DOMAIN loop'
  BY DEF SurfaceTyped, Queues, Queued
<1>2. q = [r EXCEPT !.queue = Append(@, f), !.base = f.at]
  BY DEF SurfaceTyped, Queues
<1>3. /\ q.queue = Append(r.queue, f) /\ q.base = f.at /\ q.sending = r.sending
      /\ q.rev = r.rev /\ q.need = r.need /\ r.queue \in Seq(ScreenFrames)
  BY <1>1, <1>2 DEF Followers
<1>4. /\ shown[l].right /\ FitsAll(View(shown[l]), r.sending) /\ FitsAll(u, r.queue)
      /\ Fits(ViewIn(u, r.queue), f) /\ f.rev = r.rev /\ f.at.version >= screen.clean
  BY <1>1 DEF FollowerSound, Upcoming
<1>5. FitsAll(u, Append(r.queue, f)) /\ ViewIn(u, Append(r.queue, f)) = ViewAfter(f)
  BY <1>1, <1>3, <1>4, FitsAdded
<1>6. Upcoming(shown[l], follower[l])' = ViewAfter(f)
  BY <1>1, <1>3, <1>5 DEF Upcoming
<1>7. /\ ViewAfter(f)[1] = q.base.version /\ ViewAfter(f)[2] = q.base.alt /\ ViewAfter(f)[3] = q.rev
  BY <1>3, <1>4 DEF ViewAfter
<1>8. ViewAfter(f)[1] >= screen'.clean
  BY <1>1, <1>4 DEF ViewAfter
<1> QED BY <1>1, <1>3, <1>4, <1>5, <1>6, <1>7, <1>8 DEF FollowerSound

\* The writer takes the whole queue: the views to come are the same.
LEMMA LegTaken ==
  ASSUME SurfaceTyped, NEW l \in SurfaceLeg, WriterTakes(l), FollowerSound(shown[l], follower[l], l)
  PROVE  FollowerSound(shown[l], follower[l], l)'
<1> DEFINE r == follower[l]
           q == follower'[l]
           u == View(shown[l])
<1>1. /\ r \in Followers /\ screen' = screen /\ shown' = shown /\ loop' = loop
      /\ r.sending = <<>>
  BY DEF SurfaceTyped, WriterTakes
<1>2. q = [r EXCEPT !.sending = r.queue, !.queue = <<>>]
  BY DEF SurfaceTyped, WriterTakes
<1>3. /\ q.queue = <<>> /\ q.base = r.base /\ q.sending = r.queue
      /\ q.rev = r.rev /\ q.need = r.need
  BY <1>1, <1>2 DEF Followers
<1>4. ViewIn(u, <<>>) = u /\ ViewIn(ViewIn(u, r.queue), <<>>) = ViewIn(u, r.queue)
      /\ FitsAll(ViewIn(u, r.queue), <<>>)
  BY FitsNone
<1>5. Upcoming(shown[l], follower[l])' = Upcoming(shown[l], follower[l])
  BY <1>1, <1>3, <1>4 DEF Upcoming
<1> HIDE DEF u
<1>6. FitsAll(u, r.queue)
  BY <1>1, <1>4 DEF FollowerSound, u
<1> QED BY <1>1, <1>3, <1>4, <1>5, <1>6 DEF FollowerSound, u

\* A frame is written: it fits what the client shows, and the others what it shows then.
LEMMA LegWritten ==
  ASSUME SurfaceTyped, NEW l \in SurfaceLeg, NEW slow \in BOOLEAN, Writes(l, slow),
         FollowerSound(shown[l], follower[l], l)
  PROVE  FollowerSound(shown[l], follower[l], l)'
<1> DEFINE r == follower[l]
           q == follower'[l]
           c == shown[l]
           f == Head(r.sending)
<1>1. /\ r \in Followers /\ screen' = screen /\ loop' = loop /\ c \in Shown
      /\ r.sending # <<>> /\ r.sending \in Seq(ScreenFrames)
  BY DEF SurfaceTyped, Writes, Followers
<1>2. q = [r EXCEPT !.sending = Tail(@), !.pressure = slow] /\ shown'[l] = Shows(c, f)
  BY DEF SurfaceTyped, Writes
<1>3. /\ q.queue = r.queue /\ q.base = r.base /\ q.sending = Tail(r.sending)
      /\ q.rev = r.rev /\ q.need = r.need
  BY <1>1, <1>2 DEF Followers
<1>4. c.right /\ FitsAll(View(c), r.sending) /\ FitsAll(ViewIn(View(c), r.sending), r.queue)
  BY DEF FollowerSound
<1>5. /\ Fits(View(c), f) /\ FitsAll(ViewAfter(f), Tail(r.sending))
      /\ ViewIn(ViewAfter(f), Tail(r.sending)) = ViewIn(View(c), r.sending)
  BY <1>1, <1>4, FitsTaken
<1>6. View(shown'[l]) = ViewAfter(f)
  BY <1>2 DEF View, ViewAfter, Shows
<1>7. shown'[l].right
  BY <1>2, <1>4, <1>5 DEF Shows, Fits, View
<1>8. Upcoming(shown[l], follower[l])' = Upcoming(shown[l], follower[l])
  BY <1>3, <1>5, <1>6 DEF Upcoming
<1> QED BY <1>1, <1>3, <1>4, <1>5, <1>6, <1>7, <1>8 DEF FollowerSound

LEMMA FollowerEdits ==
  ASSUME NEW r \in Followers
  PROVE  /\ [r EXCEPT !.need = TRUE] \in Followers
         /\ [r EXCEPT !.need = FALSE, !.rev = @ + 1] \in Followers
         /\ \A q \in Seq(ScreenFrames) : \A b \in Bases :
               [r EXCEPT !.queue = q, !.base = b] \in Followers
         /\ [r EXCEPT !.sending = r.queue, !.queue = <<>>] \in Followers
         /\ \A q \in Seq(ScreenFrames) : \A slow \in BOOLEAN :
               [r EXCEPT !.sending = q, !.pressure = slow] \in Followers
<1>1. /\ r.need \in BOOLEAN /\ r.base \in Bases /\ r.rev \in Nat /\ r.pressure \in BOOLEAN
      /\ r.queue \in Seq(ScreenFrames) /\ r.sending \in Seq(ScreenFrames)
      /\ r = [need |-> r.need, base |-> r.base, rev |-> r.rev, pressure |-> r.pressure,
              queue |-> r.queue, sending |-> r.sending]
  BY DEF Followers
<1>2. [r EXCEPT !.need = FALSE, !.rev = @ + 1] \in Followers
  <2>1. \A n \in Nat : [r EXCEPT !.need = FALSE, !.rev = n] \in Followers
    BY <1>1 DEF Followers
  <2>2. r.rev + 1 \in Nat
    BY <1>1
  <2> QED BY <2>1, <2>2
<1>3. [r EXCEPT !.sending = r.queue, !.queue = <<>>] \in Followers
  <2>1. <<>> \in Seq(ScreenFrames)
    OBVIOUS
  <2> QED BY <1>1, <2>1 DEF Followers
<1>4. [r EXCEPT !.need = TRUE] \in Followers
  BY <1>1 DEF Followers
<1> QED BY <1>1, <1>2, <1>3, <1>4 DEF Followers

LEMMA NextVersion ==
  ASSUME NEW s \in Screens, s.clean <= s.version, NEW alt \in BOOLEAN
  PROVE  LET t == [s EXCEPT !.version = @ + 1, !.alt = alt, !.wake = TRUE]
             u == [s EXCEPT !.version = @ + 1, !.wake = TRUE]
         IN  /\ t \in Screens /\ t.clean = s.clean /\ t.clean <= t.version
             /\ u \in Screens /\ u.clean = s.clean /\ u.clean <= u.version
<1>1. \A n \in Nat :
        LET t == [s EXCEPT !.version = n, !.alt = alt, !.wake = TRUE]
            u == [s EXCEPT !.version = n, !.wake = TRUE]
        IN  t \in Screens /\ t.clean = s.clean /\ t.version = n
            /\ u \in Screens /\ u.clean = s.clean /\ u.version = n
  BY DEF Screens
<1>2. s.version + 1 \in Nat /\ s.clean <= s.version + 1
  BY DEF Screens
<1> QED BY <1>1, <1>2

LEMMA SurfaceTypedKept ==
  SurfaceTyped /\ SurfaceNext => SurfaceTyped'
<1> SUFFICES ASSUME SurfaceTyped, SurfaceNext PROVE SurfaceTyped'
  OBVIOUS
<1>0. /\ screen \in Screens /\ screen.clean <= screen.version
      /\ follower \in [SurfaceLeg -> Followers] /\ shown \in [SurfaceLeg -> Shown]
      /\ \A l \in DOMAIN loop : loop[l] \in ScreenFrames
  BY DEF SurfaceTyped
<1>a. Base \in Bases
  BY <1>0 DEF Base, Bases, Screens
<1>1. CASE \E alt \in BOOLEAN : Output(alt)
  <2>1. screen' \in Screens /\ screen'.clean <= screen'.version
    BY <1>0, <1>1, NextVersion DEF Output
  <2> QED BY <1>0, <1>1, <2>1 DEF Output, SurfaceTyped
<1>2. CASE Resized
  <2>1. \A l \in SurfaceLeg : [follower[l] EXCEPT !.need = TRUE] \in Followers
    BY <1>0, FollowerEdits
  <2>2. screen' \in Screens /\ screen'.clean <= screen'.version
    BY <1>0, <1>2, NextVersion DEF Resized
  <2> QED BY <1>0, <1>2, <2>1, <2>2 DEF Resized, SurfaceTyped
<1>3. CASE Collects
  <2>1. \A l \in SurfaceLeg : [follower[l] EXCEPT !.need = FALSE, !.rev = @ + 1] \in Followers
    BY <1>0, FollowerEdits
  <2>2. follower' \in [SurfaceLeg -> Followers]
    BY <1>0, <1>3, <2>1 DEF Collects
  <2>3. \A l \in DOMAIN loop' : loop'[l] \in ScreenFrames
    <3> SUFFICES ASSUME NEW l \in DOMAIN loop' PROVE loop'[l] \in ScreenFrames
      OBVIOUS
    <3>2. l \in Served /\ loop'[l] = MakeFrame(IF l \in Forced THEN "snapshot" ELSE "diff", follower'[l].rev)
      BY <1>0, <1>3, CollectedFrames
    <3>3. follower'[l].rev \in Nat /\ screen.clean \in Nat
      BY <1>0, <2>2, <3>2 DEF Followers, Screens, Served, Forced
    <3> QED BY <1>a, <3>2, <3>3 DEF MakeFrame, ScreenFrames
  <2>4. screen' \in Screens /\ screen'.clean <= screen'.version
    BY <1>0, <1>3, CollectedFrames DEF Screens
  <2> QED BY <1>0, <1>3, <2>2, <2>3, <2>4 DEF Collects, SurfaceTyped
<1>4. ASSUME NEW l \in SurfaceLeg, Fetch(l) PROVE SurfaceTyped'
  <2>1. [follower[l] EXCEPT !.need = TRUE] \in Followers
    BY <1>0, FollowerEdits
  <2> QED BY <1>0, <1>4, <2>1 DEF Fetch, SurfaceTyped, Screens
<1>5. ASSUME NEW l \in SurfaceLeg, Queues(l) PROVE SurfaceTyped'
  <2>1. follower[l] \in Followers /\ follower[l].queue \in Seq(ScreenFrames)
        /\ loop[l] \in ScreenFrames /\ loop[l].at \in Bases
    BY <1>0, <1>5 DEF Followers, ScreenFrames, Queues
  <2>2. Append(follower[l].queue, loop[l]) \in Seq(ScreenFrames)
    BY <2>1, ListFacts
  <2>3. [follower[l] EXCEPT !.queue = Append(@, loop[l]), !.base = loop[l].at] \in Followers
    BY <2>1, <2>2, FollowerEdits
  <2> QED BY <1>0, <1>5, <2>3 DEF Queues, Queued, SurfaceTyped
<1>6. ASSUME NEW l \in SurfaceLeg, Overflows(l) \/ FrameRefused(l) PROVE SurfaceTyped'
  <2>1. [follower[l] EXCEPT !.need = TRUE] \in Followers
    BY <1>0, FollowerEdits
  <2> QED BY <1>0, <1>6, <2>1 DEF Overflows, FrameRefused, Queued, SurfaceTyped
<1>7. ASSUME NEW l \in SurfaceLeg, WriterTakes(l) PROVE SurfaceTyped'
  <2>1. [follower[l] EXCEPT !.sending = follower[l].queue, !.queue = <<>>] \in Followers
    BY <1>0, FollowerEdits
  <2> QED BY <1>0, <1>7, <2>1 DEF WriterTakes, SurfaceTyped
<1>8. ASSUME NEW l \in SurfaceLeg, NEW slow \in BOOLEAN, Writes(l, slow) PROVE SurfaceTyped'
  <2> DEFINE s == follower[l].sending
  <2>1. follower[l] \in Followers /\ s \in Seq(ScreenFrames) /\ s # <<>>
    BY <1>0, <1>8 DEF Followers, Writes
  <2>2. Head(s) \in ScreenFrames /\ Tail(s) \in Seq(ScreenFrames)
    BY <2>1
  <2> HIDE DEF s
  <2>3. [follower[l] EXCEPT !.sending = Tail(s), !.pressure = slow] \in Followers
    BY <2>1, <2>2, FollowerEdits
  <2>4. Shows(shown[l], Head(s)) \in Shown
    <3>1. Head(s).at.version \in Nat /\ Head(s).at.alt \in BOOLEAN /\ Head(s).rev \in Nat
      BY <2>2 DEF ScreenFrames, Bases
    <3>2. shown[l].right \in BOOLEAN
      BY <1>0 DEF Shown
    <3> DEFINE right == \/ Head(s).kind = "snapshot"
                        \/ shown[l].right /\ Head(s).rev = shown[l].rev
                           /\ Head(s).from <= shown[l].version /\ Head(s).at.alt = shown[l].alt
    <3>3. right \in BOOLEAN
      OBVIOUS
    <3> HIDE DEF right
    <3>4. Shows(shown[l], Head(s)) = [version |-> Head(s).at.version, alt |-> Head(s).at.alt,
                                      rev |-> Head(s).rev, right |-> right]
      BY DEF Shows, right
    <3> QED BY <3>1, <3>3, <3>4 DEF Shown
  <2>5. /\ shown' = [shown EXCEPT ![l] = Shows(shown[l], Head(s))]
        /\ follower' = [follower EXCEPT ![l] = [follower[l] EXCEPT !.sending = Tail(s), !.pressure = slow]]
    BY <1>0, <1>8 DEF Writes, s
  <2> QED BY <1>0, <1>8, <2>3, <2>4, <2>5, ZenonT(60) DEF Writes, SurfaceTyped
<1> QED BY <1>1, <1>2, <1>3, <1>4, <1>5, <1>6, <1>7, <1>8 DEF SurfaceNext, QueueSteps

LEMMA SoundKept ==
  ASSUME SurfaceInv, SurfaceNext, NEW k \in SurfaceLeg
  PROVE  FollowerSound(shown[k], follower[k], k)'
<1>0. /\ SurfaceTyped /\ FollowerSound(shown[k], follower[k], k)
      /\ follower[k] \in Followers /\ screen \in Screens
      /\ follower \in [SurfaceLeg -> Followers] /\ shown \in [SurfaceLeg -> Shown]
  BY DEF SurfaceInv, SurfaceTyped
<1>1. CASE \E alt \in BOOLEAN : Output(alt)
  <2>1. screen'.clean = screen.clean /\ loop' = loop /\ follower' = follower /\ shown' = shown
    BY <1>0, <1>1 DEF Output, Screens
  <2> QED BY <1>0, <2>1, LegKept
<1>2. CASE Resized
  <2>1. follower'[k] = [follower[k] EXCEPT !.need = TRUE]
    BY <1>2 DEF Resized
  <2>2. screen'.clean = screen.clean /\ loop' = loop /\ shown' = shown
    BY <1>0, <1>2 DEF Resized, Screens
  <2>3. /\ follower'[k].base = follower[k].base /\ follower'[k].rev = follower[k].rev
        /\ follower'[k].queue = follower[k].queue /\ follower'[k].sending = follower[k].sending
        /\ follower'[k].need
    BY <1>0, <2>1 DEF Followers
  <2> QED BY <1>0, <2>2, <2>3, LegKept
<1>3. CASE Collects
  <2>1. CASE k \in DOMAIN loop'
    BY <1>0, <1>3, <2>1, LegServed
  <2>2. CASE k \notin DOMAIN loop'
    <3>1. k \notin Served
      BY <1>0, <1>3, <2>2, CollectedFrames
    <3>2. k \notin Forced /\ screen.clean = screen.version
      BY <3>1 DEF NothingDirty, Served
    <3>3. follower'[k] = follower[k] /\ shown' = shown /\ loop = <<>>
      BY <1>3, <3>2 DEF Collects, Forced
    <3>4. screen'.clean = screen.clean
      BY <1>0, <1>3, <3>2, CollectedFrames
    <3> QED BY <1>0, <2>2, <3>3, <3>4, LegKept
  <2> QED BY <2>1, <2>2
<1>4. ASSUME NEW l \in SurfaceLeg, Fetch(l) PROVE FollowerSound(shown[k], follower[k], k)'
  <2>1. follower'[k] = follower[k] \/ follower'[k] = [follower[k] EXCEPT !.need = TRUE]
    BY <1>0, <1>4 DEF Fetch
  <2>2. screen'.clean = screen.clean /\ loop' = loop /\ shown' = shown
    BY <1>0, <1>4 DEF Fetch, Screens
  <2>3. /\ follower'[k].base = follower[k].base /\ follower'[k].rev = follower[k].rev
        /\ follower'[k].queue = follower[k].queue /\ follower'[k].sending = follower[k].sending
        /\ follower[k].need => follower'[k].need
    BY <1>0, <2>1 DEF Followers
  <2> QED BY <1>0, <2>2, <2>3, LegKept
<1>5. ASSUME NEW l \in SurfaceLeg, Queues(l) PROVE FollowerSound(shown[k], follower[k], k)'
  <2>1. CASE k = l
    BY <1>0, <1>5, <2>1, LegQueued
  <2>2. CASE k # l
    <3>1. /\ follower'[k] = follower[k] /\ screen' = screen /\ shown' = shown
          /\ k \in DOMAIN loop' <=> k \in DOMAIN loop
    BY <1>0, <1>5, <2>2 DEF Queues, Queued
    <3>2. k \in DOMAIN loop' => loop'[k] = loop[k]
    BY <1>5, <2>2 DEF Queues, Queued
    <3> QED BY <1>0, <3>1, <3>2, LegKept
  <2> QED BY <2>1, <2>2
<1>6. ASSUME NEW l \in SurfaceLeg, Overflows(l) \/ FrameRefused(l)
      PROVE FollowerSound(shown[k], follower[k], k)'
  <2>1. follower'[k] = IF k = l THEN [follower[k] EXCEPT !.need = TRUE] ELSE follower[k]
    BY <1>0, <1>6 DEF Overflows, FrameRefused
  <2>2. /\ screen' = screen /\ shown' = shown
        /\ k \in DOMAIN loop' <=> k \in DOMAIN loop /\ k # l
    BY <1>6 DEF Overflows, FrameRefused, Queued
  <2>3. k \in DOMAIN loop' => loop'[k] = loop[k]
    BY <1>6 DEF Overflows, FrameRefused, Queued
  <2>4. /\ follower'[k].base = follower[k].base /\ follower'[k].rev = follower[k].rev
        /\ follower'[k].queue = follower[k].queue /\ follower'[k].sending = follower[k].sending
        /\ k = l => follower'[k].need
        /\ k # l => follower'[k] = follower[k]
    BY <1>0, <2>1 DEF Followers
  <2>5. k \notin DOMAIN loop' /\ ~follower'[k].need => k \notin DOMAIN loop /\ ~follower[k].need
    BY <2>2, <2>4
  <2> QED BY <1>0, <2>2, <2>3, <2>4, <2>5, LegKept
<1>7. ASSUME NEW l \in SurfaceLeg, WriterTakes(l) PROVE FollowerSound(shown[k], follower[k], k)'
  <2>1. CASE k = l
    BY <1>0, <1>7, <2>1, LegTaken
  <2>2. CASE k # l
    <3>1. follower'[k] = follower[k] /\ screen' = screen /\ shown' = shown /\ loop' = loop
      BY <1>0, <1>7, <2>2 DEF WriterTakes
    <3> QED BY <1>0, <3>1, LegKept
  <2> QED BY <2>1, <2>2
<1>8. ASSUME NEW l \in SurfaceLeg, NEW slow \in BOOLEAN, Writes(l, slow)
      PROVE FollowerSound(shown[k], follower[k], k)'
  <2>1. CASE k = l
    BY <1>0, <1>8, <2>1, LegWritten
  <2>2. CASE k # l
    <3>1. follower'[k] = follower[k] /\ screen' = screen /\ shown'[k] = shown[k] /\ loop' = loop
      BY <1>0, <1>8, <2>2 DEF Writes
    <3> QED BY <1>0, <3>1, LegKept
  <2> QED BY <2>1, <2>2
<1> QED BY <1>1, <1>2, <1>3, <1>4, <1>5, <1>6, <1>7, <1>8 DEF SurfaceNext, QueueSteps

\* A frame is no newer than the screen and its leg's revision; a queue is within its limit.
Framed(f, v, n) == f.from <= f.at.version /\ f.at.version <= v /\ f.rev <= n
AllFramed(q, v, n) == \A i \in 1 .. Len(q) : Framed(q[i], v, n)
LegFramed(r, v) ==
  Len(r.queue) <= QueueLimit /\ AllFramed(r.queue, v, r.rev) /\ AllFramed(r.sending, v, r.rev)

FramesInv ==
  /\ DOMAIN loop \subseteq SurfaceLeg
  /\ \A l \in SurfaceLeg : LegFramed(follower[l], screen.version)
  /\ \A l \in DOMAIN loop : Framed(loop[l], screen.version, follower[l].rev)

LEMMA FramedStill ==
  ASSUME NEW f \in ScreenFrames, NEW v \in Nat, NEW w \in Nat, v <= w,
         NEW n \in Nat, NEW m \in Nat, n <= m, Framed(f, v, n)
  PROVE  Framed(f, w, m)
<1>1. f.from \in Nat /\ f.at.version \in Nat /\ f.rev \in Nat
  BY DEF ScreenFrames, Bases
<1> QED BY <1>1 DEF Framed

LEMMA LegFramedStill ==
  ASSUME NEW r \in Followers, NEW q \in Followers, NEW v \in Nat, NEW w \in Nat, v <= w,
         q.queue = r.queue, q.sending = r.sending, r.rev <= q.rev, LegFramed(r, v)
  PROVE  LegFramed(q, w)
<1>1. /\ r.rev \in Nat /\ q.rev \in Nat
      /\ r.queue \in Seq(ScreenFrames) /\ r.sending \in Seq(ScreenFrames)
  BY DEF Followers
<1>2. ASSUME NEW s \in Seq(ScreenFrames), AllFramed(s, v, r.rev) PROVE AllFramed(s, w, q.rev)
  <2> SUFFICES ASSUME NEW i \in 1 .. Len(s) PROVE Framed(s[i], w, q.rev)
    BY DEF AllFramed
  <2>1. s[i] \in ScreenFrames
    OBVIOUS
  <2> QED BY <1>1, <1>2, <2>1, FramedStill DEF AllFramed
<1> QED BY <1>1, <1>2 DEF LegFramed

LEMMA FramesKept ==
  ASSUME SurfaceTyped, SurfaceTyped', FramesInv, SurfaceNext
  PROVE  FramesInv'
<1>0. /\ screen \in Screens /\ screen' \in Screens /\ screen.clean <= screen.version
      /\ follower \in [SurfaceLeg -> Followers] /\ follower' \in [SurfaceLeg -> Followers]
      /\ \A l \in DOMAIN loop : loop[l] \in ScreenFrames
      /\ DOMAIN loop \subseteq SurfaceLeg
      /\ screen.version \in Nat /\ screen'.version \in Nat /\ screen.clean \in Nat
      /\ \A l \in SurfaceLeg : /\ follower[l] \in Followers /\ follower'[l] \in Followers
                               /\ follower[l].rev \in Nat /\ follower'[l].rev \in Nat
      /\ \A l \in SurfaceLeg : LegFramed(follower[l], screen.version)
      /\ \A l \in DOMAIN loop : Framed(loop[l], screen.version, follower[l].rev)
  BY DEF SurfaceTyped, FramesInv, Screens, Followers
\* It is enough that the loop's frames are kept or right, and so are those of each leg.
<1>a. ASSUME screen.version <= screen'.version, DOMAIN loop' \subseteq DOMAIN loop,
             \A l \in DOMAIN loop' : loop'[l] = loop[l],
             \A l \in SurfaceLeg : follower[l].rev <= follower'[l].rev,
             \A l \in SurfaceLeg :
               \/ follower'[l].queue = follower[l].queue /\ follower'[l].sending = follower[l].sending
               \/ LegFramed(follower'[l], screen'.version)
      PROVE  FramesInv'
  <2>1. ASSUME NEW l \in SurfaceLeg PROVE LegFramed(follower'[l], screen'.version)
    BY <1>0, <1>a, <2>1, LegFramedStill
  <2>2. ASSUME NEW l \in DOMAIN loop' PROVE Framed(loop'[l], screen'.version, follower'[l].rev)
    <3>1. l \in DOMAIN loop /\ l \in SurfaceLeg /\ loop'[l] = loop[l]
      BY <1>0, <1>a, <2>2
    <3> QED BY <1>0, <1>a, <3>1, FramedStill
  <2>3. DOMAIN loop' \subseteq SurfaceLeg
    BY <1>0, <1>a
  <2> QED BY <2>1, <2>2, <2>3 DEF FramesInv
<1>b. ASSUME NEW l \in SurfaceLeg, NEW r, r = [follower[l] EXCEPT !.need = TRUE]
      PROVE  r.queue = follower[l].queue /\ r.sending = follower[l].sending /\ r.rev = follower[l].rev
  BY <1>0, <1>b DEF Followers
<1>c. \A l \in SurfaceLeg : follower[l].rev <= follower[l].rev
  BY <1>0
<1>d. screen.version <= screen.version
  BY <1>0
<1>1. CASE \E alt \in BOOLEAN : Output(alt)
  <2>1. screen.version <= screen'.version
    BY <1>0, <1>1 DEF Output, Screens
  <2>2. loop' = loop /\ follower' = follower
    BY <1>1 DEF Output
  <2> QED BY <1>a, <1>c, <2>1, <2>2
<1>2. CASE Resized
  <2>1. screen.version <= screen'.version
    BY <1>0, <1>2 DEF Resized, Screens
  <2>2. loop' = loop /\ \A l \in SurfaceLeg : follower'[l] = [follower[l] EXCEPT !.need = TRUE]
    BY <1>2 DEF Resized
  <2> QED BY <1>a, <1>b, <1>c, <2>1, <2>2
<1>3. CASE Collects
  <2>1. loop = <<>> /\ screen'.version = screen.version
    BY <1>0, <1>3, CollectedFrames DEF Collects
  <2>2. ASSUME NEW l \in SurfaceLeg
        PROVE  /\ follower'[l].queue = follower[l].queue /\ follower'[l].sending = follower[l].sending
               /\ follower[l].rev <= follower'[l].rev
    <3>1. \/ follower'[l] = follower[l]
          \/ follower'[l] = [follower[l] EXCEPT !.need = FALSE, !.rev = follower[l].rev + 1]
      BY <1>3 DEF Collects
    <3>2. follower[l].rev <= follower[l].rev + 1 /\ follower[l].rev + 1 \in Nat
      BY <1>0
    <3> QED BY <1>0, <1>c, <3>1, <3>2 DEF Followers
  <2>3. ASSUME NEW l \in SurfaceLeg PROVE LegFramed(follower'[l], screen'.version)
    BY <1>0, <1>d, <2>1, <2>2, LegFramedStill
  <2>4. ASSUME NEW l \in DOMAIN loop'
        PROVE  l \in SurfaceLeg /\ Framed(loop'[l], screen'.version, follower'[l].rev)
    <3>1. l \in Served /\ loop'[l] = MakeFrame(IF l \in Forced THEN "snapshot" ELSE "diff", follower'[l].rev)
      BY <1>0, <1>3, CollectedFrames
    <3>2. l \in SurfaceLeg
      BY <3>1 DEF Served, Forced
    <3>3. /\ loop'[l].from = screen.clean /\ loop'[l].at.version = screen.version
          /\ loop'[l].rev = follower'[l].rev
      BY <3>1 DEF MakeFrame, Base
    <3>4. follower'[l].rev <= follower'[l].rev
      BY <1>0, <3>2
    <3> QED BY <1>0, <1>d, <2>1, <3>2, <3>3, <3>4 DEF Framed
  <2>5. DOMAIN loop' \subseteq SurfaceLeg
    BY <2>4
  <2> QED BY <2>3, <2>4, <2>5 DEF FramesInv
<1>4. ASSUME NEW l \in SurfaceLeg, Fetch(l) PROVE FramesInv'
  <2>1. screen.version <= screen'.version
    BY <1>0, <1>4 DEF Fetch, Screens
  <2>2. /\ loop' = loop
        /\ \A k \in SurfaceLeg : \/ follower'[k] = follower[k]
                                 \/ follower'[k] = [follower[k] EXCEPT !.need = TRUE]
    BY <1>0, <1>4 DEF Fetch
  <2> QED BY <1>a, <1>b, <1>c, <2>1, <2>2
<1>5. ASSUME NEW l \in SurfaceLeg, Queues(l) PROVE FramesInv'
  <2> DEFINE r == follower[l]
             f == loop[l]
  <2>1. /\ l \in DOMAIN loop /\ Len(r.queue) < QueueLimit /\ screen' = screen
        /\ follower'[l] = [r EXCEPT !.queue = Append(r.queue, f), !.base = f.at]
        /\ \A k \in SurfaceLeg : k # l => follower'[k] = follower[k]
        /\ DOMAIN loop' \subseteq DOMAIN loop /\ \A k \in DOMAIN loop' : loop'[k] = loop[k]
    BY <1>0, <1>5 DEF Queues, Queued
  <2>2. /\ f \in ScreenFrames /\ r \in Followers /\ r.queue \in Seq(ScreenFrames)
        /\ LegFramed(r, screen.version) /\ Framed(f, screen.version, r.rev)
    BY <1>0, <2>1 DEF Followers
  <2> DEFINE q == Append(r.queue, f)
  <2>3. /\ Len(q) = Len(r.queue) + 1 /\ Len(r.queue) \in Nat
        /\ \A i \in 1 .. Len(r.queue) : q[i] = r.queue[i]
        /\ q[Len(r.queue) + 1] = f
    BY <2>2, ListFacts
  <2>4. /\ follower'[l].queue = q /\ follower'[l].sending = r.sending /\ follower'[l].rev = r.rev
    BY <2>1, <2>2 DEF Followers
  <2> HIDE DEF q, r, f
  <2>5. AllFramed(q, screen.version, r.rev)
    <3> SUFFICES ASSUME NEW i \in 1 .. Len(q) PROVE Framed(q[i], screen.version, r.rev)
      BY DEF AllFramed
    <3>1. i \in 1 .. Len(r.queue) \/ i = Len(r.queue) + 1
      BY <2>3
    <3> QED BY <2>2, <2>3, <3>1 DEF LegFramed, AllFramed
  <2>6. Len(q) <= QueueLimit
    BY <2>1, <2>3, SurfaceAssumption
  <2>7. LegFramed(follower'[l], screen'.version)
    BY <2>1, <2>2, <2>4, <2>5, <2>6 DEF LegFramed
  <2>8. follower[l].rev <= follower'[l].rev
    BY <1>c, <2>4 DEF r
  <2> QED BY <1>a, <1>c, <1>d, <2>1, <2>7, <2>8
<1>6. ASSUME NEW l \in SurfaceLeg, Overflows(l) \/ FrameRefused(l) PROVE FramesInv'
  <2>1. /\ screen' = screen
        /\ \A k \in SurfaceLeg : \/ follower'[k] = follower[k]
                                 \/ follower'[k] = [follower[k] EXCEPT !.need = TRUE]
        /\ DOMAIN loop' \subseteq DOMAIN loop /\ \A k \in DOMAIN loop' : loop'[k] = loop[k]
    BY <1>0, <1>6 DEF Overflows, FrameRefused, Queued
  <2> QED BY <1>a, <1>b, <1>c, <1>d, <2>1
<1>7. ASSUME NEW l \in SurfaceLeg, WriterTakes(l) PROVE FramesInv'
  <2> DEFINE r == follower[l]
  <2>1. /\ screen' = screen /\ loop' = loop
        /\ follower'[l] = [r EXCEPT !.sending = r.queue, !.queue = <<>>]
        /\ \A k \in SurfaceLeg : k # l => follower'[k] = follower[k]
    BY <1>0, <1>7 DEF WriterTakes
  <2>2. follower'[l].queue = <<>> /\ follower'[l].sending = r.queue /\ follower'[l].rev = r.rev
    BY <1>0, <2>1 DEF Followers
  <2>3. Len(<<>>) = 0 /\ 0 <= QueueLimit /\ 1 .. 0 = {}
    BY SurfaceAssumption
  <2>4. LegFramed(r, screen.version)
    BY <1>0
  <2> HIDE DEF r
  <2>5. AllFramed(<<>>, screen.version, r.rev)
    BY <2>3 DEF AllFramed
  <2>6. LegFramed(follower'[l], screen'.version)
    BY <2>1, <2>2, <2>3, <2>4, <2>5 DEF LegFramed
  <2> QED BY <1>a, <1>c, <1>d, <2>1, <2>2, <2>6 DEF r
<1>8. ASSUME NEW l \in SurfaceLeg, NEW slow \in BOOLEAN, Writes(l, slow) PROVE FramesInv'
  <2> DEFINE r == follower[l]
             q == Tail(r.sending)
  <2>1. /\ screen' = screen /\ loop' = loop /\ r.sending # <<>>
        /\ follower'[l] = [r EXCEPT !.sending = q, !.pressure = slow]
        /\ \A k \in SurfaceLeg : k # l => follower'[k] = follower[k]
    BY <1>0, <1>8 DEF Writes
  <2>2. r \in Followers /\ r.sending \in Seq(ScreenFrames) /\ LegFramed(r, screen.version)
    BY <1>0 DEF Followers
  <2>3. follower'[l].queue = r.queue /\ follower'[l].sending = q /\ follower'[l].rev = r.rev
    BY <2>1, <2>2 DEF Followers
  <2>4. r.sending[1] \in ScreenFrames
    BY <2>1, <2>2
  <2>5. /\ Len(q) = Len(r.sending) - 1 /\ Len(r.sending) \in Nat
        /\ \A i \in 1 .. Len(r.sending) - 1 : q[i] = r.sending[i + 1]
    BY <2>1, <2>2, <2>4, ListFacts
  <2> HIDE DEF q, r
  <2>6. AllFramed(q, screen.version, r.rev)
    <3> SUFFICES ASSUME NEW i \in 1 .. Len(q) PROVE Framed(q[i], screen.version, r.rev)
      BY DEF AllFramed
    <3>1. i + 1 \in 1 .. Len(r.sending) /\ i \in 1 .. Len(r.sending) - 1
      BY <2>5
    <3> QED BY <2>2, <2>5, <3>1 DEF LegFramed, AllFramed
  <2>7. LegFramed(follower'[l], screen'.version)
    BY <2>1, <2>2, <2>3, <2>6 DEF LegFramed
  <2> QED BY <1>a, <1>c, <1>d, <2>1, <2>3, <2>7 DEF r
<1> QED BY <1>1, <1>2, <1>3, <1>4, <1>5, <1>6, <1>7, <1>8 DEF SurfaceNext, QueueSteps

LEMMA SurfaceTypes == SurfaceInv /\ FramesInv => SurfaceTypeOK
<1> SUFFICES ASSUME SurfaceInv, FramesInv PROVE SurfaceTypeOK
  OBVIOUS
<1>1. \A l \in SurfaceLeg : /\ follower[l].queue \in Seq(ScreenFrames)
                            /\ follower[l].sending \in Seq(ScreenFrames)
  BY DEF SurfaceInv, SurfaceTyped, Followers
<1>2. ASSUME NEW q \in Seq(ScreenFrames) PROVE DOMAIN q = 1 .. Len(q)
  OBVIOUS
<1>3. ASSUME NEW l \in SurfaceLeg, NEW f \in FramesOf(l)
      PROVE  Framed(f, screen.version, follower[l].rev)
  BY <1>1, <1>2, <1>3 DEF FramesOf, FramesInv, LegFramed, AllFramed
<1> QED BY <1>3 DEF SurfaceTypeOK, SurfaceInv, SurfaceTyped, FramesInv, LegFramed, Framed

LEMMA SurfaceStarts == SurfaceInit => SurfaceInv /\ FramesInv
<1>1. SurfaceInit => SurfaceInv
  <2> SUFFICES ASSUME SurfaceInit PROVE SurfaceInv
    OBVIOUS
  <2>1. NoBase \in Bases /\ NoBase.is = FALSE
    BY DEF NoBase, Bases
  <2>2. \A l \in SurfaceLeg :
          follower[l] = [need |-> TRUE, base |-> NoBase, rev |-> 0, pressure |-> FALSE,
                         queue |-> <<>>, sending |-> <<>>]
    BY DEF SurfaceInit
  <2>3. <<>> \in Seq(ScreenFrames)
    OBVIOUS
  <2>4. follower \in [SurfaceLeg -> Followers]
    BY <2>1, <2>3 DEF SurfaceInit, Followers
  <2>5. SurfaceTyped
    <3>1. screen \in Screens /\ screen.clean <= screen.version
      BY DEF SurfaceInit, Screens
    <3>2. shown \in [SurfaceLeg -> Shown] /\ \A l \in DOMAIN loop : FALSE
      BY DEF SurfaceInit, Shown
    <3> QED BY <2>4, <3>1, <3>2 DEF SurfaceTyped
  <2>6. ASSUME NEW l \in SurfaceLeg PROVE FollowerSound(shown[l], follower[l], l)
    <3>1. /\ follower[l].need /\ ~follower[l].base.is
          /\ follower[l].queue = <<>> /\ follower[l].sending = <<>>
      BY <2>1, <2>2
    <3>2. shown[l].right /\ l \notin DOMAIN loop
      BY DEF SurfaceInit
    <3> QED BY <3>1, <3>2, FitsNone DEF FollowerSound
  <2> QED BY <2>5, <2>6 DEF SurfaceInv
<1>2. SurfaceInit => FramesInv
  <2> SUFFICES ASSUME SurfaceInit PROVE FramesInv
    OBVIOUS
  <2>1. DOMAIN loop = {}
    BY DEF SurfaceInit
  <2>2. Len(<<>>) = 0 /\ 0 <= QueueLimit /\ 1 .. 0 = {}
    BY SurfaceAssumption
  <2>3. \A l \in SurfaceLeg : follower[l].queue = <<>> /\ follower[l].sending = <<>>
    BY DEF SurfaceInit
  <2> QED BY <2>1, <2>2, <2>3 DEF FramesInv, LegFramed, AllFramed
<1> QED BY <1>1, <1>2

LEMMA SurfaceStep == SurfaceInv /\ FramesInv /\ [SurfaceNext]_surfaceVars => SurfaceInv' /\ FramesInv'
<1>1. SurfaceInv /\ [SurfaceNext]_surfaceVars => SurfaceInv'
  <2> SUFFICES ASSUME SurfaceInv, [SurfaceNext]_surfaceVars PROVE SurfaceInv'
    OBVIOUS
  <2>1. CASE SurfaceNext
    <3>1. SurfaceTyped'
      BY <2>1, SurfaceTypedKept DEF SurfaceInv
    <3>2. \A k \in SurfaceLeg : FollowerSound(shown[k], follower[k], k)'
      BY <2>1, SoundKept
    <3> QED BY <3>1, <3>2 DEF SurfaceInv
  <2>2. CASE UNCHANGED surfaceVars
    BY <2>2 DEF surfaceVars, SurfaceInv, SurfaceTyped, FollowerSound, Upcoming
  <2> QED BY <2>1, <2>2
<1>2. SurfaceInv /\ SurfaceInv' /\ FramesInv /\ [SurfaceNext]_surfaceVars => FramesInv'
  <2> SUFFICES ASSUME SurfaceInv, SurfaceInv', FramesInv, [SurfaceNext]_surfaceVars PROVE FramesInv'
    OBVIOUS
  <2>1. CASE SurfaceNext
    BY <2>1, FramesKept DEF SurfaceInv
  <2>2. CASE UNCHANGED surfaceVars
    BY <2>2 DEF surfaceVars, FramesInv
  <2> QED BY <2>1, <2>2
<1> QED BY <1>1, <1>2

\* Whatever the queue, the size limit and the writer do to its frames, the differences
\* flushSurface makes for a leg are made against the last view queued for it
\* (term_surface_session.go), and each fits the frame before it.
THEOREM FollowersAreSound == SurfaceSpec => []SurfaceInv
BY SurfaceStarts, SurfaceStep, PTL DEF SurfaceSpec

\* So no client ever shows a mixture of two screens: every difference it is sent fits the
\* view it has, although the loop forgets the dirt before the frames are queued.
THEOREM NoViewIsMixed == SurfaceSpec => []NoMixture
<1>1. SurfaceInv => NoMixture
  BY DEF SurfaceInv, FollowerSound, NoMixture
<1> QED BY <1>1, FollowersAreSound, PTL
\* No frame is ahead of the screen or of its leg's revision, and no queue is longer than
\* its limit (flushSurface, legOut.push).
THEOREM FramesAreTyped == SurfaceSpec => []SurfaceTypeOK
<1>1. SurfaceInv /\ FramesInv => SurfaceTypeOK
  BY SurfaceTypes
<1> QED BY <1>1, SurfaceStarts, SurfaceStep, PTL DEF SurfaceSpec

-----------------------------------------------------------------------------
(* All the parts *)

LEMMA CarriersTypes == CarriersInv => CarriersTypeOK
<1> SUFFICES ASSUME CarriersInv PROVE CarriersTypeOK
  OBVIOUS
<1>1. member \subseteq Peer
  BY DEF CarriersInv, Typed
<1>2. current \in 0 .. MaxManagers
  <2>1. used.managers \in 0 .. MaxManagers /\ current \in 0 .. used.managers
    BY DEF CarriersInv, Typed, Used
  <2> QED BY <2>1, CarriersAssumption
<1>3. \A m \in Manager : rules[m] \in SUBSET RuleType /\ proxies[m] \in SUBSET ProxyType
  BY DEF CarriersInv, Typed
<1>4. \A m \in Manager : \A r \in rules[m] : r.host \in Peer /\ r.port \in Port /\ r.up \in BOOLEAN
  BY <1>3 DEF RuleType
<1>5. \A m \in Manager : \A e \in proxies[m] :
        /\ e.host \in Peer /\ e.port \in Port /\ e.server \in 0 .. MaxServers
        /\ \A f \in proxies[m] : f.host = e.host => f = e
  BY <1>3 DEF ProxyType, CarriersInv, Single, OneEach
<1>6. \A s \in Server : server[s].is \in {"none", "serves", "closed"}
  BY DEF CarriersInv, Typed, ServerType
<1>7. \A c \in Conn : link[c].at \in {"none", "accepted", "asks", "dialled", "pipes"}
  BY DEF CarriersInv, Typed, LinkType
<1> QED BY <1>1, <1>2, <1>4, <1>5, <1>6, <1>7 DEF CarriersTypeOK

\* Every step of the instance is one of the bus, of the listeners or of a session's
\* screen, and their types hold together, for any of their constants.
THEOREM FacadeTyped == MCSpec => []FacadeTypeOK
<1> DEFINE Inv == FrameInv /\ CarriersInv /\ SurfaceInv /\ FramesInv
<1>1. MCInit => Inv
  <2>1. SurfaceInit => SurfaceInv /\ FramesInv
    BY SurfaceStarts
  <2> QED BY <2>1, FrameInit, CarriersInvInit DEF MCInit
<1>2. Inv /\ [MCNext]_allVars => Inv'
  <2> SUFFICES ASSUME Inv, [MCNext]_allVars PROVE Inv'
    OBVIOUS
  <2>1. [Next]_vars /\ [CarriersNext]_carriersVars /\ [SurfaceNext]_surfaceVars
    BY DEF MCNext, allVars
  <2> QED BY <2>1, FrameStep, CarriersInvKept, SurfaceStep
<1>3. Inv => FacadeTypeOK
  BY BusTypes, CarriersTypes, SurfaceTypes DEF FacadeTypeOK
<1> QED BY <1>1, <1>2, <1>3, PTL DEF MCSpec
==============================================================================
