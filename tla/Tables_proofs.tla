---------------------------- MODULE Tables_proofs ----------------------------
(* Theorems about the parts that MCTables composes: the table of hosts, the legs of  *)
(* a terminal session, and the writer of one leg.                                   *)
EXTENDS MCTables, Streams_proofs, Ascending_proofs

-----------------------------------------------------------------------------
(* The table of hosts *)

Attaches == [at : {"none", "close", "detach", "open", "list", "tell"}, old : 0 .. MaxTable,
             added : SUBSET Host]
Sessions == [token : 0 .. MaxToken, is : {"none", "running", "dying", "ended"}]
Wishes == [at : {"change", "stop", "install"}, do : {"add", "remove"}, table : Table,
           host : Host, token : 0 .. MaxToken]

TablesTyped ==
  /\ disk \in [Host -> 0 .. MaxToken] /\ memory \in [Table -> [Host -> 0 .. MaxToken]]
  /\ attached \in 0 .. MaxTable /\ opened \in 0 .. MaxTable /\ attached <= opened
  /\ served \in [Table -> [Host -> Sessions]] /\ opMu \in [Table -> {"free", "busy"}]
  /\ attach \in Attaches /\ wish \in [Requester -> Wishes \cup {Quiet}]
  /\ strayed \in BOOLEAN

Changing(q) == wish[q].at \in {"stop", "install"}

\* While the old table is closed and a new one is opened, none is attached. A request is
\* about a table that has been opened; a new token is not 0, a removal's is.
Attaching ==
  /\ attach.at \in {"close", "detach", "open"} => attached = 0
  /\ attach.at \in {"close", "detach"} => attach.old # 0
  /\ attach.at \in {"close", "open"} => opened < MaxTable
  /\ \A q \in Requester : wish[q] # Quiet =>
       wish[q].table <= opened /\ (wish[q].do = "add" <=> wish[q].token # 0)

\* A request that changes an entry has the table to itself, and the entry is there.
OneChanges ==
  /\ \A q \in Requester : Changing(q) => opMu[wish[q].table] = "busy" /\ Entry(q) # 0
  /\ \A p, q \in Requester : Changing(p) /\ Changing(q) /\ wish[p].table = wish[q].table => p = q

\* Its change is on disk; and unless a request has strayed, its table is the attached one,
\* or the one that Attach or Detach waits to close.
ChangeOnDisk ==
  ~strayed => \A q \in Requester : Changing(q) =>
    /\ disk[wish[q].host] = wish[q].token
    /\ \/ wish[q].table = attached
       \/ attached = 0 /\ attach.at \in {"close", "detach"} /\ wish[q].table = attach.old

\* No host of the table is missing from what has been told or is about to be.
HostsTold ==
  attached # 0 /\ ~strayed /\ attach.at # "list" =>
    Hosts(memory[attached]) \subseteq view \cup (IF attach.at = "tell" THEN attach.added ELSE {})

HostTableInv ==
  /\ TablesTyped /\ Attaching /\ OneChanges /\ ChangeOnDisk /\ HostsTold
  /\ EntriesAreServed /\ RecordsAreSaved

LEMMA WishFacts ==
  ASSUME HostTableInv, NEW q \in Requester, wish[q].at # "none"
  PROVE  /\ wish[q] \in Wishes /\ wish[q] # Quiet
         /\ wish[q].table \in Table /\ wish[q].host \in Host /\ wish[q].token \in 0 .. MaxToken
         /\ wish[q].table <= opened /\ opened \in Nat /\ MaxTable \in Nat
         /\ wish[q].do \in {"add", "remove"} /\ (wish[q].do = "add" <=> wish[q].token # 0)
<1>1. wish[q] # Quiet
  BY DEF Quiet
<1>2. wish[q] \in Wishes
  BY <1>1 DEF HostTableInv, TablesTyped
<1> QED BY <1>1, <1>2, HostTableAssumption DEF HostTableInv, TablesTyped, Attaching, Wishes

LEMMA QuietFacts == Quiet.at = "none" /\ \A v \in Wishes : v.at # "none" /\ v # Quiet
BY DEF Quiet, Wishes

\* What holds of the other requests when one is answered, and nothing else about requests changes.
LEMMA Answered ==
  ASSUME HostTableInv, NEW q \in Requester, Replies(q)
  PROVE  /\ wish' \in [Requester -> Wishes \cup {Quiet}] /\ wish'[q] = Quiet
         /\ \A p \in Requester : wish'[p] # Quiet => p # q /\ wish'[p] = wish[p]
         /\ \A p \in Requester : Changing(p)' => p # q /\ wish'[p] = wish[p] /\ Changing(p)
         /\ \A p \in Requester : p # q => wish'[p] = wish[p]
<1>1. wish \in [Requester -> Wishes \cup {Quiet}]
  BY DEF HostTableInv, TablesTyped
<1>2. wish' = [wish EXCEPT ![q] = Quiet]
  BY DEF Replies
<1> QED BY <1>1, <1>2, QuietFacts DEF Changing

LEMMA RefusedKept ==
  ASSUME HostTableInv, NEW q \in Requester, Refused(q)
  PROVE  HostTableInv'
<1>1. /\ wish[q].at = "change" /\ Replies(q)
      /\ UNCHANGED <<disk, attached, opened, memory, served, refused, opMu, attach, asks, view, strayed>>
  BY DEF Refused
<1>a. ~Changing(q)
  BY <1>1 DEF Changing
<1>2. TablesTyped' /\ Attaching'
  BY <1>1, Answered DEF HostTableInv, TablesTyped, Attaching
<1>3. OneChanges' /\ ChangeOnDisk'
  BY <1>1, Answered DEF HostTableInv, OneChanges, ChangeOnDisk, Entry, Mem
<1>4. HostsTold'
  BY <1>1 DEF HostTableInv, HostsTold, Hosts
<1>5. \A p \in Requester : Changing(p) => wish'[p] = wish[p]
  BY <1>1, <1>a, Answered
<1>6. EntriesAreServed'
  BY <1>1, <1>5 DEF HostTableInv, EntriesAreServed, Changing, Hosts
<1>7. RecordsAreSaved'
  BY <1>1, <1>5 DEF HostTableInv, RecordsAreSaved, Changing
<1> QED BY <1>2, <1>3, <1>4, <1>6, <1>7 DEF HostTableInv

LEMMA AskTableKept ==
  ASSUME HostTableInv, NEW q \in Requester, NEW do \in {"add", "remove"}, AskTable(q, do)
  PROVE  HostTableInv'
<1>1. PICK h \in Host, v \in IF do = "add" THEN Token ELSE {0} :
        wish' = [wish EXCEPT ![q] =
                    [at |-> "change", do |-> do, table |-> attached, host |-> h, token |-> v]]
  BY DEF AskTable
<1> DEFINE n == [at |-> "change", do |-> do, table |-> attached, host |-> h, token |-> v]
<1>2. /\ wish[q] = Quiet /\ attached # 0
      /\ UNCHANGED <<disk, attached, opened, memory, served, refused, opMu, attach, view, strayed>>
  BY DEF AskTable
<1>3. attached \in Table /\ attached <= opened
  BY <1>2, HostTableAssumption DEF HostTableInv, TablesTyped, Table
<1>4. v \in 0 .. MaxToken /\ (do = "add" <=> v # 0)
  BY HostTableAssumption DEF Token
<1>5. n \in Wishes /\ n.at = "change" /\ n.table = attached /\ n.do = do /\ n.token = v
  BY <1>3, <1>4 DEF Wishes
<1> HIDE DEF n
<1>6. wish \in [Requester -> Wishes \cup {Quiet}] /\ wish' = [wish EXCEPT ![q] = n]
  BY <1>1 DEF HostTableInv, TablesTyped, n
<1>7. wish' \in [Requester -> Wishes \cup {Quiet}] /\ wish'[q] = n
      /\ \A p \in Requester : p # q => wish'[p] = wish[p]
  BY <1>5, <1>6
<1>8. ~Changing(q) /\ ~Changing(q)'
  BY <1>2, <1>5, <1>7 DEF Changing, Quiet
<1>9. TablesTyped'
  BY <1>2, <1>7 DEF HostTableInv, TablesTyped
<1>10. Attaching'
  BY <1>2, <1>3, <1>4, <1>5, <1>7 DEF HostTableInv, Attaching
<1>11. \A p \in Requester : Changing(p)' => p # q /\ wish'[p] = wish[p] /\ Changing(p)
  BY <1>7, <1>8 DEF Changing
<1>12. OneChanges' /\ ChangeOnDisk'
  BY <1>2, <1>11 DEF HostTableInv, OneChanges, ChangeOnDisk, Entry, Mem
<1>13. HostsTold'
  BY <1>2 DEF HostTableInv, HostsTold, Hosts
<1>14. \A p \in Requester : Changing(p) => wish'[p] = wish[p]
  BY <1>7, <1>8
<1>15. EntriesAreServed'
  BY <1>2, <1>14 DEF HostTableInv, EntriesAreServed, Changing, Hosts
<1>16. RecordsAreSaved'
  BY <1>2, <1>14 DEF HostTableInv, RecordsAreSaved, Changing
<1> QED BY <1>9, <1>10, <1>12, <1>13, <1>15, <1>16 DEF HostTableInv

LEMMA AddNewKept ==
  ASSUME HostTableInv, NEW q \in Requester, AddNew(q)
  PROVE  HostTableInv'
<1>1. PICK t, h, v : t = wish[q].table /\ h = wish[q].host /\ v = wish[q].token
  OBVIOUS
<1>2. /\ wish[q].at = "change" /\ wish[q].do = "add" /\ opMu[t] = "free" /\ memory[t][h] = 0
      /\ disk' = [memory[t] EXCEPT ![h] = v] /\ memory' = [memory EXCEPT ![t] = [memory[t] EXCEPT ![h] = v]]
      /\ served' = [served EXCEPT ![t][h] = Running(v)]
      /\ view' = view \cup {h} /\ Replies(q) /\ strayed' = (strayed \/ t # attached)
      /\ UNCHANGED <<attached, opened, refused, opMu, attach, asks>>
  BY <1>1 DEF AddNew, At, Entry, Mem, Records, Idle, Strays
<1>3. /\ t \in Table /\ h \in Host /\ v \in 0 .. MaxToken /\ v # 0 /\ t <= opened
  BY <1>1, <1>2, WishFacts
<1>4. /\ memory \in [Table -> [Host -> 0 .. MaxToken]] /\ served \in [Table -> [Host -> Sessions]]
      /\ attached \in 0 .. MaxTable
  BY DEF HostTableInv, TablesTyped
<1>5. Running(v) \in Sessions
  BY <1>3 DEF Running, Sessions
<1>6. /\ memory' \in [Table -> [Host -> 0 .. MaxToken]] /\ disk' \in [Host -> 0 .. MaxToken]
      /\ memory'[t] = disk' /\ memory'[t][h] = v
      /\ \A u \in Table : u # t => memory'[u] = memory[u]
      /\ \A g \in Host : g # h => memory'[t][g] = memory[t][g]
  BY <1>2, <1>3, <1>4
<1>7. /\ served' \in [Table -> [Host -> Sessions]] /\ served'[t][h] = Running(v)
      /\ \A u \in Table : u # t => served'[u] = served[u]
      /\ \A g \in Host : g # h => served'[t][g] = served[t][g]
  BY <1>2, <1>3, <1>4, <1>5
<1>8. TablesTyped' /\ Attaching'
  BY <1>2, <1>6, <1>7, Answered DEF HostTableInv, TablesTyped, Attaching
<1>9. \A p \in Requester : Changing(p) => wish'[p] = wish[p] /\ Changing(p)' /\ wish[p].table # t
  BY <1>2, Answered DEF HostTableInv, OneChanges, Changing
<1>10. OneChanges'
  <2>1. ASSUME NEW p \in Requester, Changing(p)' PROVE opMu'[wish'[p].table] = "busy" /\ Entry(p)' # 0
    <3>1. wish'[p] = wish[p] /\ Changing(p)
      BY <1>2, <2>1, Answered
    <3>2. wish[p].table # t /\ wish[p].table \in Table /\ opMu[wish[p].table] = "busy" /\ Entry(p) # 0
      BY <1>9, <3>1, WishFacts DEF HostTableInv, OneChanges, Changing
    <3> QED BY <1>2, <1>6, <3>1, <3>2 DEF Entry, Mem
  <2> QED BY <1>2, <2>1, Answered DEF HostTableInv, OneChanges
<1>11. ~strayed' => ~strayed /\ t = attached
  BY <1>2
<1>12. ChangeOnDisk'
  <2> SUFFICES ASSUME ~strayed', NEW p \in Requester, Changing(p)' PROVE FALSE
    BY DEF ChangeOnDisk
  <2>1. Changing(p) /\ wish[p].table # t
    BY <1>2, <1>9, Answered
  <2> QED BY <1>3, <1>11, <2>1 DEF HostTableInv, ChangeOnDisk, Table
<1>13. HostsTold'
  BY <1>2, <1>6, <1>11 DEF HostTableInv, HostsTold, Hosts
<1>14. EntriesAreServed'
  <2> SUFFICES ASSUME attached # 0, NEW g \in Hosts(memory'[attached])
               PROVE  \/ served'[attached][g] = Running(memory'[attached][g])
                      \/ <<attached, g>> \in refused
                      \/ \E p \in Requester : wish'[p].table = attached /\ wish'[p].host = g
                                            /\ wish'[p].at \in {"stop", "install"}
    BY <1>2 DEF EntriesAreServed
  <2>1. CASE attached = t /\ g = h
    BY <1>6, <1>7, <2>1
  <2>2. CASE ~(attached = t /\ g = h)
    <3>1. /\ g \in Host /\ attached \in Table
      BY <1>4 DEF Hosts, Table
    <3>2. memory'[attached][g] = memory[attached][g] /\ served'[attached][g] = served[attached][g]
      BY <1>6, <1>7, <2>2, <3>1
    <3>3. g \in Hosts(memory[attached])
      BY <3>1, <3>2 DEF Hosts
    <3> QED BY <1>9, <3>2, <3>3 DEF HostTableInv, EntriesAreServed, Changing
  <2> QED BY <2>1, <2>2
<1>15. RecordsAreSaved'
  BY <1>2, <1>6, <1>11 DEF RecordsAreSaved
<1> QED BY <1>8, <1>10, <1>12, <1>13, <1>14, <1>15 DEF HostTableInv

LEMMA SaveKept ==
  ASSUME HostTableInv, NEW q \in Requester, Save(q)
  PROVE  HostTableInv'
<1>1. PICK t, h, v : t = wish[q].table /\ h = wish[q].host /\ v = wish[q].token
  OBVIOUS
<1>2. /\ wish[q].at = "change" /\ opMu[t] = "free" /\ memory[t][h] # 0
      /\ disk' = [memory[t] EXCEPT ![h] = v] /\ opMu' = [opMu EXCEPT ![t] = "busy"]
      /\ wish' = [wish EXCEPT ![q].at = "stop"] /\ strayed' = (strayed \/ t # attached)
      /\ UNCHANGED <<attached, opened, memory, served, refused, attach, asks, view>>
  BY <1>1 DEF Save, Entry, Mem, Records, Idle, Strays
<1>3. /\ t \in Table /\ h \in Host /\ v \in 0 .. MaxToken /\ t <= opened /\ wish[q] \in Wishes
  BY <1>1, <1>2, WishFacts
<1> DEFINE n == [wish[q] EXCEPT !.at = "stop"]
<1>4. /\ n \in Wishes /\ n.table = t /\ n.host = h /\ n.token = v /\ n.at = "stop"
      /\ n.do = wish[q].do
  BY <1>1, <1>3 DEF Wishes
<1>5. wish \in [Requester -> Wishes \cup {Quiet}] /\ wish' = [wish EXCEPT ![q] = n]
  BY <1>2 DEF HostTableInv, TablesTyped
<1> HIDE DEF n
<1>6. /\ wish' \in [Requester -> Wishes \cup {Quiet}] /\ wish'[q] = n
      /\ \A p \in Requester : p # q => wish'[p] = wish[p]
  BY <1>4, <1>5
<1>7. /\ memory \in [Table -> [Host -> 0 .. MaxToken]] /\ attached \in 0 .. MaxTable
      /\ opMu \in [Table -> {"free", "busy"}]
  BY DEF HostTableInv, TablesTyped
<1>8. /\ disk' \in [Host -> 0 .. MaxToken] /\ disk'[h] = v
      /\ \A g \in Host : g # h => disk'[g] = memory[t][g]
      /\ opMu' \in [Table -> {"free", "busy"}] /\ opMu'[t] = "busy"
      /\ \A u \in Table : u # t => opMu'[u] = opMu[u]
  BY <1>2, <1>3, <1>7
<1>9. TablesTyped'
  BY <1>2, <1>6, <1>8 DEF HostTableInv, TablesTyped
<1>10. Attaching'
  <2>1. wish[q].do = "add" <=> v # 0
    BY <1>1, <1>2, WishFacts
  <2>2. \A p \in Requester : wish'[p] # Quiet =>
          wish'[p].table <= opened /\ (wish'[p].do = "add" <=> wish'[p].token # 0)
    BY <1>3, <1>4, <1>6, <2>1 DEF HostTableInv, Attaching
  <2> QED BY <1>2, <2>2 DEF HostTableInv, Attaching
<1>11. \A p \in Requester : p # q /\ Changing(p)' =>
          Changing(p) /\ wish[p].table # t /\ wish[p].table \in Table /\ opMu[wish[p].table] = "busy" /\ Entry(p) # 0
  <2> SUFFICES ASSUME NEW p \in Requester, p # q, Changing(p)'
               PROVE  Changing(p) /\ wish[p].table # t /\ wish[p].table \in Table
                        /\ opMu[wish[p].table] = "busy" /\ Entry(p) # 0
    OBVIOUS
  <2>1. Changing(p)
    BY <1>6 DEF Changing
  <2>2. wish[p].table \in Table
    BY <2>1, WishFacts DEF Changing
  <2> QED BY <1>2, <2>1, <2>2 DEF HostTableInv, OneChanges
<1>12. OneChanges'
  <2>1. opMu'[wish'[q].table] = "busy" /\ Entry(q)' # 0
    BY <1>2, <1>4, <1>6, <1>8 DEF Entry, Mem
  <2>2. ASSUME NEW p \in Requester, p # q, Changing(p)'
        PROVE  opMu'[wish'[p].table] = "busy" /\ Entry(p)' # 0 /\ wish'[p].table # t /\ Changing(p)
    BY <1>2, <1>6, <1>8, <1>11, <2>2 DEF Entry, Mem
  <2>3. ASSUME NEW p \in Requester, NEW r \in Requester, Changing(p)', Changing(r)',
               wish'[p].table = wish'[r].table
        PROVE  p = r
    <3>1. CASE p = q \/ r = q
      BY <1>4, <1>6, <2>2, <2>3, <3>1
    <3>2. CASE p # q /\ r # q
      BY <1>6, <2>2, <2>3, <3>2 DEF HostTableInv, OneChanges
    <3> QED BY <3>1, <3>2
  <2> QED BY <2>1, <2>2, <2>3 DEF OneChanges
<1>13. ~strayed' => ~strayed /\ t = attached
  BY <1>2
<1>14. ChangeOnDisk'
  <2> SUFFICES ASSUME ~strayed', NEW p \in Requester, Changing(p)'
               PROVE  disk'[wish'[p].host] = wish'[p].token /\ wish'[p].table = attached
    BY <1>2 DEF ChangeOnDisk
  <2>1. p = q
    BY <1>3, <1>11, <1>13 DEF HostTableInv, ChangeOnDisk, Table
  <2> QED BY <1>4, <1>6, <1>8, <1>13, <2>1
<1>15. HostsTold'
  BY <1>2, <1>13 DEF HostTableInv, HostsTold, Hosts
<1>16. \A p \in Requester : Changing(p) => wish'[p] = wish[p]
  BY <1>2, <1>6 DEF Changing
<1>17. EntriesAreServed'
  BY <1>2, <1>16 DEF HostTableInv, EntriesAreServed, Changing, Hosts
<1>18. RecordsAreSaved'
  BY <1>2, <1>4, <1>6, <1>8, <1>13 DEF RecordsAreSaved
<1> QED BY <1>9, <1>10, <1>12, <1>14, <1>15, <1>17, <1>18 DEF HostTableInv

LEMMA StopDoneKept ==
  ASSUME HostTableInv, NEW q \in Requester, StopDone(q)
  PROVE  HostTableInv'
<1>1. PICK t, h, v : t = wish[q].table /\ h = wish[q].host /\ v = wish[q].token
  OBVIOUS
<1>2. /\ wish[q].at = "stop"
      /\ served' = [served EXCEPT ![t][h].is = IF @ = "none" THEN @ ELSE "ended"]
      /\ wish' = [wish EXCEPT ![q].at = "install"]
      /\ UNCHANGED <<disk, attached, opened, memory, refused, opMu, attach, asks, view, strayed>>
  BY <1>1 DEF StopDone
<1>3. /\ t \in Table /\ h \in Host /\ v \in 0 .. MaxToken /\ t <= opened /\ wish[q] \in Wishes
      /\ wish[q].do = "add" <=> v # 0
  BY <1>1, <1>2, WishFacts
<1> DEFINE n == [wish[q] EXCEPT !.at = "install"]
<1>4. /\ n \in Wishes /\ n.table = t /\ n.host = h /\ n.token = v /\ n.at = "install"
      /\ n.do = wish[q].do
  BY <1>1, <1>3 DEF Wishes
<1>5. wish \in [Requester -> Wishes \cup {Quiet}] /\ wish' = [wish EXCEPT ![q] = n]
  BY <1>2 DEF HostTableInv, TablesTyped
<1> HIDE DEF n
<1>6. /\ wish' \in [Requester -> Wishes \cup {Quiet}] /\ wish'[q] = n
      /\ \A p \in Requester : p # q => wish'[p] = wish[p]
  BY <1>4, <1>5
<1>7. /\ served \in [Table -> [Host -> Sessions]] /\ attached \in 0 .. MaxTable
  BY DEF HostTableInv, TablesTyped
<1> DEFINE s == [served[t][h] EXCEPT !.is = IF @ = "none" THEN @ ELSE "ended"]
<1>8. s \in Sessions
  BY <1>3, <1>7 DEF Sessions
<1>9. served' = [served EXCEPT ![t] = [served[t] EXCEPT ![h] = s]]
  BY <1>2, <1>3, <1>7
<1> HIDE DEF s
<1>10. /\ served' \in [Table -> [Host -> Sessions]]
       /\ \A u \in Table : u # t => served'[u] = served[u]
       /\ \A g \in Host : g # h => served'[t][g] = served[t][g]
  BY <1>3, <1>7, <1>8, <1>9
<1>11. TablesTyped'
  BY <1>2, <1>6, <1>10 DEF HostTableInv, TablesTyped
<1>12. Attaching'
  BY <1>2, <1>3, <1>4, <1>6 DEF HostTableInv, Attaching
<1>13. \A p \in Requester : /\ Changing(p)' <=> Changing(p)
                            /\ Changing(p) => /\ wish'[p].table = wish[p].table
                                              /\ wish'[p].host = wish[p].host
                                              /\ wish'[p].token = wish[p].token
  BY <1>1, <1>2, <1>4, <1>6 DEF Changing
<1>14. OneChanges' /\ ChangeOnDisk'
  BY <1>2, <1>13 DEF HostTableInv, OneChanges, ChangeOnDisk, Entry, Mem
<1>15. HostsTold' /\ RecordsAreSaved'
  BY <1>2, <1>13 DEF HostTableInv, HostsTold, Hosts, RecordsAreSaved, Changing
<1>16. EntriesAreServed'
  <2> SUFFICES ASSUME attached # 0, NEW g \in Hosts(memory[attached])
               PROVE  \/ served'[attached][g] = Running(memory[attached][g])
                      \/ <<attached, g>> \in refused
                      \/ \E p \in Requester : wish'[p].table = attached /\ wish'[p].host = g
                                            /\ wish'[p].at \in {"stop", "install"}
    BY <1>2 DEF EntriesAreServed
  <2>1. CASE attached = t /\ g = h
    BY <1>4, <1>6, <2>1
  <2>2. CASE ~(attached = t /\ g = h)
    <3>1. served'[attached][g] = served[attached][g]
      BY <1>7, <1>10, <2>2 DEF Hosts, Table
    <3> QED BY <1>13, <3>1 DEF HostTableInv, EntriesAreServed, Changing
  <2> QED BY <2>1, <2>2
<1> QED BY <1>11, <1>12, <1>14, <1>15, <1>16 DEF HostTableInv

LEMMA StopTimesOutKept ==
  ASSUME HostTableInv, NEW q \in Requester, StopTimesOut(q)
  PROVE  HostTableInv'
<1>1. PICK t, h : t = wish[q].table /\ h = wish[q].host
  OBVIOUS
<1>2. /\ wish[q].at = "stop" /\ served' = [served EXCEPT ![t][h].is = "dying"]
      /\ refused' = refused \cup {<<t, h>>} /\ opMu' = [opMu EXCEPT ![t] = "free"] /\ Replies(q)
      /\ UNCHANGED <<disk, attached, opened, memory, attach, asks, view, strayed>>
  BY <1>1 DEF StopTimesOut
<1>3. t \in Table /\ h \in Host
  BY <1>1, <1>2, WishFacts
<1>4. /\ served \in [Table -> [Host -> Sessions]] /\ attached \in 0 .. MaxTable
      /\ opMu \in [Table -> {"free", "busy"}]
  BY DEF HostTableInv, TablesTyped
<1> DEFINE s == [served[t][h] EXCEPT !.is = "dying"]
<1>5. s \in Sessions
  <2>1. served[t][h] \in Sessions
    BY <1>3, <1>4
  <2> QED BY <2>1 DEF Sessions
<1>6. served' = [served EXCEPT ![t] = [served[t] EXCEPT ![h] = s]]
  BY <1>2, <1>3, <1>4
<1> HIDE DEF s
<1>7. /\ served' \in [Table -> [Host -> Sessions]]
      /\ \A u \in Table : u # t => served'[u] = served[u]
      /\ \A g \in Host : g # h => served'[t][g] = served[t][g]
      /\ opMu' \in [Table -> {"free", "busy"}]
      /\ \A u \in Table : u # t => opMu'[u] = opMu[u]
  BY <1>2, <1>3, <1>4, <1>5, <1>6
<1>8. TablesTyped' /\ Attaching'
  BY <1>2, <1>7, Answered DEF HostTableInv, TablesTyped, Attaching
<1>9. Changing(q)
  BY <1>2 DEF Changing
<1>10. \A p \in Requester : Changing(p)' =>
         p # q /\ wish'[p] = wish[p] /\ Changing(p) /\ wish[p].table \in Table /\ wish[p].table # t
  BY <1>1, <1>2, <1>9, Answered, WishFacts DEF HostTableInv, OneChanges, Changing
<1>11. OneChanges'
  BY <1>2, <1>7, <1>10 DEF HostTableInv, OneChanges, Entry, Mem
<1>12. ChangeOnDisk'
  BY <1>2, <1>10 DEF HostTableInv, ChangeOnDisk
<1>13. HostsTold'
  BY <1>2 DEF HostTableInv, HostsTold, Hosts
<1>14. \A p \in Requester : p # q => wish'[p] = wish[p]
  BY <1>2, Answered
<1>15. EntriesAreServed'
  <2> SUFFICES ASSUME attached # 0, NEW g \in Hosts(memory[attached])
               PROVE  \/ served'[attached][g] = Running(memory[attached][g])
                      \/ <<attached, g>> \in refused'
                      \/ \E p \in Requester : wish'[p].table = attached /\ wish'[p].host = g
                                            /\ wish'[p].at \in {"stop", "install"}
    BY <1>2 DEF EntriesAreServed
  <2>1. CASE attached = t /\ g = h
    BY <1>2, <2>1
  <2>2. CASE ~(attached = t /\ g = h)
    <3>1. served'[attached][g] = served[attached][g]
      BY <1>4, <1>7, <2>2 DEF Hosts, Table
    <3>2. ASSUME NEW p \in Requester, wish[p].table = attached, wish[p].host = g PROVE p # q
      BY <1>1, <2>2, <3>2
    <3> QED BY <1>2, <1>14, <3>1, <3>2 DEF HostTableInv, EntriesAreServed
  <2> QED BY <2>1, <2>2
<1>16. RecordsAreSaved'
  <2> SUFFICES ASSUME attached # 0, ~strayed, NEW g \in Host
               PROVE  \/ disk[g] = memory[attached][g]
                      \/ <<attached, g>> \in refused'
                      \/ \E p \in Requester : wish'[p].host = g /\ wish'[p].at \in {"stop", "install"}
    BY <1>2 DEF RecordsAreSaved
  <2>1. t = attached
    BY <1>1, <1>9 DEF HostTableInv, ChangeOnDisk
  <2>2. CASE g = h
    BY <1>2, <2>1, <2>2
  <2>3. CASE g # h
    <3>1. ASSUME NEW p \in Requester, wish[p].host = g PROVE p # q
      BY <1>1, <2>3, <3>1
    <3> QED BY <1>2, <1>14, <3>1 DEF HostTableInv, RecordsAreSaved
  <2> QED BY <2>2, <2>3
<1> QED BY <1>8, <1>11, <1>12, <1>13, <1>15, <1>16 DEF HostTableInv

LEMMA InstallKept ==
  ASSUME HostTableInv, NEW q \in Requester, Install(q)
  PROVE  HostTableInv'
<1>1. PICK t, h, v : t = wish[q].table /\ h = wish[q].host /\ v = wish[q].token
  OBVIOUS
<1> DEFINE s == IF wish[q].do = "add" THEN Running(v) ELSE NoSession
<1>2. /\ wish[q].at = "install" /\ memory' = [memory EXCEPT ![t][h] = v]
      /\ served' = [served EXCEPT ![t][h] = s]
      /\ view' = IF wish[q].do = "add" THEN view ELSE view \ {h}
      /\ refused' = refused \ {<<t, h>>} /\ opMu' = [opMu EXCEPT ![t] = "free"] /\ Replies(q)
      /\ UNCHANGED <<disk, attached, opened, attach, asks, strayed>>
  BY <1>1 DEF Install
<1>3. /\ t \in Table /\ h \in Host /\ v \in 0 .. MaxToken /\ (wish[q].do = "add" <=> v # 0)
  BY <1>1, <1>2, WishFacts
<1>4. /\ served \in [Table -> [Host -> Sessions]] /\ attached \in 0 .. MaxTable
      /\ opMu \in [Table -> {"free", "busy"}] /\ memory \in [Table -> [Host -> 0 .. MaxToken]]
  BY DEF HostTableInv, TablesTyped
<1>5. s \in Sessions /\ (v # 0 => s = Running(v))
  BY <1>3, HostTableAssumption DEF Sessions, Running, NoSession
<1>6. served' = [served EXCEPT ![t] = [served[t] EXCEPT ![h] = s]]
  BY <1>2, <1>3, <1>4
<1> HIDE DEF s
<1>7. /\ served' \in [Table -> [Host -> Sessions]] /\ served'[t][h] = s
      /\ \A u \in Table : u # t => served'[u] = served[u]
      /\ \A g \in Host : g # h => served'[t][g] = served[t][g]
  BY <1>3, <1>4, <1>5, <1>6
<1>8. /\ memory' \in [Table -> [Host -> 0 .. MaxToken]] /\ memory'[t][h] = v
      /\ \A u \in Table : u # t => memory'[u] = memory[u]
      /\ \A g \in Host : g # h => memory'[t][g] = memory[t][g]
      /\ opMu' \in [Table -> {"free", "busy"}]
      /\ \A u \in Table : u # t => opMu'[u] = opMu[u]
  BY <1>2, <1>3, <1>4
<1>9. TablesTyped' /\ Attaching'
  BY <1>2, <1>7, <1>8, Answered DEF HostTableInv, TablesTyped, Attaching
<1>10. Changing(q)
  BY <1>2 DEF Changing
<1>11. \A p \in Requester : Changing(p)' =>
         p # q /\ wish'[p] = wish[p] /\ Changing(p) /\ wish[p].table \in Table /\ wish[p].table # t
  BY <1>1, <1>2, <1>10, Answered, WishFacts DEF HostTableInv, OneChanges, Changing
<1>12. OneChanges'
  BY <1>2, <1>8, <1>11 DEF HostTableInv, OneChanges, Entry, Mem
<1>13. ChangeOnDisk'
  BY <1>2, <1>11 DEF HostTableInv, ChangeOnDisk
<1>14. HostsTold'
  <2> SUFFICES ASSUME attached # 0, ~strayed, attach.at # "list", NEW g \in Host, memory'[attached][g] # 0
               PROVE  g \in view' \cup (IF attach.at = "tell" THEN attach.added ELSE {})
    BY <1>2 DEF HostsTold, Hosts
  <2>1. t = attached /\ memory[t][h] # 0
    BY <1>1, <1>10 DEF HostTableInv, ChangeOnDisk, OneChanges, Entry, Mem
  <2>2. memory[attached][g] # 0
    BY <1>8, <2>1
  <2>3. g \in view \cup (IF attach.at = "tell" THEN attach.added ELSE {})
    BY <2>2 DEF HostTableInv, HostsTold, Hosts
  <2>4. g = h => v # 0
    BY <1>8, <2>1
  <2> QED BY <1>2, <1>3, <2>3, <2>4
<1>15. \A p \in Requester : p # q => wish'[p] = wish[p]
  BY <1>2, Answered
<1>16. EntriesAreServed'
  <2> SUFFICES ASSUME attached # 0, NEW g \in Host, memory'[attached][g] # 0
               PROVE  \/ served'[attached][g] = Running(memory'[attached][g])
                      \/ <<attached, g>> \in refused'
                      \/ \E p \in Requester : wish'[p].table = attached /\ wish'[p].host = g
                                            /\ wish'[p].at \in {"stop", "install"}
    BY <1>2 DEF EntriesAreServed, Hosts
  <2>1. CASE attached = t /\ g = h
    BY <1>5, <1>7, <1>8, <2>1
  <2>2. CASE ~(attached = t /\ g = h)
    <3>1. served'[attached][g] = served[attached][g] /\ memory'[attached][g] = memory[attached][g]
      BY <1>4, <1>7, <1>8, <2>2 DEF Table
    <3>2. ASSUME NEW p \in Requester, wish[p].table = attached, wish[p].host = g PROVE p # q
      BY <1>1, <2>2, <3>2
    <3>3. <<attached, g>> \in refused => <<attached, g>> \in refused'
      BY <1>2, <2>2
    <3> QED BY <1>15, <3>1, <3>2, <3>3 DEF HostTableInv, EntriesAreServed, Hosts
  <2> QED BY <2>1, <2>2
<1>17. RecordsAreSaved'
  <2> SUFFICES ASSUME attached # 0, ~strayed, NEW g \in Host
               PROVE  \/ disk[g] = memory'[attached][g]
                      \/ <<attached, g>> \in refused'
                      \/ \E p \in Requester : wish'[p].host = g /\ wish'[p].at \in {"stop", "install"}
    BY <1>2 DEF RecordsAreSaved
  <2>1. t = attached /\ disk[h] = v
    BY <1>1, <1>10 DEF HostTableInv, ChangeOnDisk
  <2>2. CASE g = h
    BY <1>8, <2>1, <2>2
  <2>3. CASE g # h
    <3>1. ASSUME NEW p \in Requester, wish[p].host = g PROVE p # q
      BY <1>1, <2>3, <3>1
    <3>2. <<attached, g>> \in refused => <<attached, g>> \in refused'
      BY <1>2, <2>3
    <3>3. memory'[attached][g] = memory[attached][g]
      BY <1>8, <2>1, <2>3
    <3>4. \/ disk[g] = memory[attached][g]
          \/ <<attached, g>> \in refused
          \/ \E p \in Requester : wish[p].host = g /\ wish[p].at \in {"stop", "install"}
      BY DEF HostTableInv, RecordsAreSaved
    <3> QED BY <1>15, <3>1, <3>2, <3>3, <3>4
  <2> QED BY <2>2, <2>3
<1> QED BY <1>9, <1>12, <1>13, <1>14, <1>16, <1>17 DEF HostTableInv

LEMMA BeginKept ==
  ASSUME HostTableInv, BeginAttach \/ BeginDetach
  PROVE  HostTableInv'
<1> DEFINE at == IF attached = 0 THEN "open" ELSE "close"
<1>1. /\ attach = NotAttaching /\ attached' = 0
      /\ UNCHANGED <<disk, opened, memory, served, refused, opMu, wish, asks, view, strayed>>
      /\ \/ opened < MaxTable /\ attach' = [attach EXCEPT !.at = at, !.old = attached]
         \/ attached # 0 /\ attach' = [attach EXCEPT !.at = "detach", !.old = attached]
  BY DEF BeginAttach, BeginDetach
<1>2. attach.at = "none" /\ attach.old = 0 /\ attach.added = {} /\ attach \in Attaches
      /\ attached \in 0 .. MaxTable /\ 0 \in 0 .. MaxTable /\ opened \in Nat /\ 0 <= opened
  BY <1>1, HostTableAssumption DEF NotAttaching, HostTableInv, TablesTyped
<1>3. attach' \in Attaches /\ attach'.old = attached
      /\ attach'.at \in {"open", "close", "detach"}
      /\ (attach'.at = "open" => attached = 0)
      /\ (attach'.at \in {"open", "close"} => opened < MaxTable)
      /\ (attach'.at # "open" => attached # 0)
  BY <1>1, <1>2 DEF Attaches
<1>4. TablesTyped' /\ Attaching'
  BY <1>1, <1>2, <1>3 DEF HostTableInv, TablesTyped, Attaching
<1>5. OneChanges'
  BY <1>1 DEF HostTableInv, OneChanges, Changing, Entry, Mem
<1>6. ChangeOnDisk'
  <2> SUFFICES ASSUME ~strayed, NEW p \in Requester, Changing(p)
               PROVE  /\ disk[wish[p].host] = wish[p].token
                      /\ attach'.at \in {"close", "detach"} /\ wish[p].table = attach'.old
    BY <1>1 DEF ChangeOnDisk, Changing
  <2>1. disk[wish[p].host] = wish[p].token /\ wish[p].table = attached
    BY <1>2 DEF HostTableInv, ChangeOnDisk
  <2>2. wish[p].table # 0
    BY WishFacts DEF Changing, Table
  <2> QED BY <1>3, <2>1, <2>2
<1>7. HostsTold' /\ EntriesAreServed' /\ RecordsAreSaved'
  BY <1>1 DEF HostsTold, EntriesAreServed, RecordsAreSaved
<1> QED BY <1>4, <1>5, <1>6, <1>7 DEF HostTableInv

LEMMA CloseTableKept ==
  ASSUME HostTableInv, CloseTable
  PROVE  HostTableInv'
<1>1. PICK t : t = attach.old
  OBVIOUS
<1>2. PICK slow \in SUBSET {h \in Host : ~HasEnded(attach.old, h)} :
        served' = [served EXCEPT ![attach.old] =
                     [h \in Host |-> IF h \in slow THEN [served[attach.old][h] EXCEPT !.is = "dying"]
                                     ELSE NoSession]]
  BY Zenon DEF CloseTable
<1>3. /\ attach.at \in {"close", "detach"} /\ opMu[t] = "free"
      /\ memory' = [memory EXCEPT ![t] = NoEntries]
      /\ attach' = IF attach.at = "detach" THEN NotAttaching ELSE [attach EXCEPT !.at = "open"]
      /\ UNCHANGED <<disk, attached, opened, refused, opMu, wish, asks, strayed>>
  BY <1>1 DEF CloseTable
<1>4. /\ memory \in [Table -> [Host -> 0 .. MaxToken]] /\ served \in [Table -> [Host -> Sessions]]
      /\ attach \in Attaches /\ attached = 0 /\ attach.old # 0 /\ MaxToken \in Nat /\ MaxTable \in Nat
  BY <1>3, HostTableAssumption DEF HostTableInv, TablesTyped, Attaching
<1>5. t \in Table
  BY <1>1, <1>4 DEF Attaches, Table
<1>6. memory' \in [Table -> [Host -> 0 .. MaxToken]] /\ \A u \in Table : u # t => memory'[u] = memory[u]
  BY <1>3, <1>4, <1>5 DEF NoEntries
<1>7. served' \in [Table -> [Host -> Sessions]]
  <2>1. NoSession \in Sessions
    BY <1>4 DEF NoSession, Sessions
  <2>2. ASSUME NEW h \in Host PROVE [served[t][h] EXCEPT !.is = "dying"] \in Sessions
    <3>1. served[t][h] \in Sessions
      BY <1>4, <1>5
    <3> QED BY <3>1 DEF Sessions
  <2> QED BY <1>1, <1>2, <1>4, <1>5, <2>1, <2>2
<1>8. attach' \in Attaches /\ attach'.at \in {"none", "open"}
      /\ (attach'.at = "open" => attach.at = "close")
  BY <1>3, <1>4 DEF Attaches, NotAttaching
<1>9. TablesTyped'
  BY <1>3, <1>6, <1>7, <1>8 DEF HostTableInv, TablesTyped
<1>10. Attaching'
  BY <1>3, <1>4, <1>8 DEF HostTableInv, Attaching
<1>11. \A p \in Requester : Changing(p) => wish[p].table # t /\ wish[p].table \in Table
  BY <1>3, WishFacts DEF HostTableInv, OneChanges, Changing
<1>12. OneChanges'
  BY <1>3, <1>6, <1>11 DEF HostTableInv, OneChanges, Changing, Entry, Mem
<1>13. ChangeOnDisk'
  <2> SUFFICES ASSUME ~strayed, NEW p \in Requester, Changing(p) PROVE FALSE
    BY <1>3 DEF ChangeOnDisk, Changing
  <2>1. wish[p].table = t \/ wish[p].table = attached
    BY <1>1 DEF HostTableInv, ChangeOnDisk
  <2> QED BY <1>4, <1>11, <2>1 DEF Table
<1>14. HostsTold' /\ EntriesAreServed' /\ RecordsAreSaved'
  BY <1>3, <1>4 DEF HostsTold, EntriesAreServed, RecordsAreSaved
<1> QED BY <1>9, <1>10, <1>12, <1>13, <1>14 DEF HostTableInv

LEMMA OpenTableKept ==
  ASSUME HostTableInv, OpenTable
  PROVE  HostTableInv'
<1>1. PICK t : t = opened + 1
  OBVIOUS
<1>2. /\ attach.at = "open" /\ opened' = t /\ memory' = [memory EXCEPT ![t] = disk]
      /\ served' = [served EXCEPT ![t] =
                      [h \in Host |-> IF disk[h] = 0 THEN NoSession ELSE Running(disk[h])]]
      /\ attached' = t /\ attach' = [attach EXCEPT !.at = "list"]
      /\ UNCHANGED <<disk, refused, opMu, wish, asks, view, strayed>>
  BY <1>1 DEF OpenTable
<1>3. /\ memory \in [Table -> [Host -> 0 .. MaxToken]] /\ served \in [Table -> [Host -> Sessions]]
      /\ disk \in [Host -> 0 .. MaxToken] /\ attach \in Attaches /\ attached = 0
      /\ MaxToken \in Nat /\ MaxTable \in Nat /\ opened \in 0 .. MaxTable /\ opened < MaxTable
  BY <1>2, HostTableAssumption DEF HostTableInv, TablesTyped, Attaching
<1>4. t \in Table /\ t # 0 /\ t \in 0 .. MaxTable /\ opened < t /\ t <= t
  BY <1>1, <1>3 DEF Table
<1>5. /\ memory' \in [Table -> [Host -> 0 .. MaxToken]] /\ memory'[t] = disk
      /\ \A u \in Table : u # t => memory'[u] = memory[u]
  BY <1>2, <1>3, <1>4
<1>6. \A h \in Host : (IF disk[h] = 0 THEN NoSession ELSE Running(disk[h])) \in Sessions
  BY <1>3 DEF NoSession, Running, Sessions
<1>7. served' \in [Table -> [Host -> Sessions]]
  BY <1>2, <1>3, <1>4, <1>6
<1>8. \A h \in Host : disk[h] # 0 => served'[t][h] = Running(disk[h])
  BY <1>2, <1>3, <1>4
<1>9. attach' \in Attaches /\ attach'.at = "list"
  BY <1>2, <1>3 DEF Attaches
<1>10. TablesTyped'
  BY <1>2, <1>3, <1>4, <1>5, <1>7, <1>9 DEF HostTableInv, TablesTyped
<1>11. Attaching'
  <2>1. \A p \in Requester : wish[p] # Quiet => wish[p].table <= t
    <3> SUFFICES ASSUME NEW p \in Requester, wish[p] # Quiet PROVE wish[p].table <= t
      OBVIOUS
    <3>1. wish[p].table \in Table /\ wish[p].table <= opened
      BY WishFacts, QuietFacts DEF HostTableInv, TablesTyped
    <3> QED BY <1>3, <1>4, <3>1 DEF Table
  <2> QED BY <1>2, <1>9, <2>1 DEF HostTableInv, Attaching
<1>12. \A p \in Requester : Changing(p) => wish[p].table # t /\ wish[p].table \in Table
  <2> SUFFICES ASSUME NEW p \in Requester, Changing(p) PROVE wish[p].table # t /\ wish[p].table \in Table
    OBVIOUS
  <2>1. wish[p].table \in Table /\ wish[p].table <= opened
    BY WishFacts DEF Changing
  <2> QED BY <1>3, <1>4, <2>1 DEF Table
<1>13. OneChanges'
  BY <1>2, <1>5, <1>12 DEF HostTableInv, OneChanges, Changing, Entry, Mem
<1>14. ChangeOnDisk'
  <2> SUFFICES ASSUME ~strayed, NEW p \in Requester, Changing(p) PROVE FALSE
    BY <1>2 DEF ChangeOnDisk, Changing
  <2>1. wish[p].table = attached
    BY <1>2 DEF HostTableInv, ChangeOnDisk
  <2> QED BY <1>3, <1>12, <2>1 DEF Table
<1>15. HostsTold' /\ RecordsAreSaved'
  BY <1>2, <1>5, <1>9 DEF HostsTold, RecordsAreSaved
<1>16. EntriesAreServed'
  BY <1>2, <1>5, <1>8 DEF EntriesAreServed, Hosts
<1> QED BY <1>10, <1>11, <1>13, <1>14, <1>15, <1>16 DEF HostTableInv

LEMMA TellingKept ==
  ASSUME HostTableInv, ListHosts \/ TellHosts
  PROVE  HostTableInv'
<1>1. UNCHANGED <<disk, attached, opened, memory, served, refused, opMu, wish, asks, strayed>>
  BY DEF ListHosts, TellHosts
<1>2. attach \in Attaches
  BY DEF HostTableInv, TablesTyped
<1>3. /\ attach.at \in {"list", "tell"} /\ attach' \in Attaches /\ attach'.at \in {"none", "tell"}
      /\ attach.at = "list" => attach'.at = "tell" /\ attach'.added = Hosts(memory[attached])
      /\ attach.at = "tell" => view' = view \cup attach.added
  <2>1. CASE ListHosts
    BY <1>2, <2>1 DEF ListHosts, Attaches, Hosts
  <2>2. CASE TellHosts
    <3>1. 0 \in 0 .. MaxTable
      BY HostTableAssumption
    <3> QED BY <2>2, <3>1 DEF TellHosts, NotAttaching, Attaches
  <2> QED BY <2>1, <2>2
<1>4. TablesTyped' /\ Attaching'
  BY <1>1, <1>3 DEF HostTableInv, TablesTyped, Attaching
<1>5. OneChanges'
  BY <1>1 DEF HostTableInv, OneChanges, Changing, Entry, Mem
<1>6. ChangeOnDisk'
  BY <1>1, <1>3 DEF HostTableInv, ChangeOnDisk, Changing, Attaching
<1>7. HostsTold'
  <2>1. CASE attach.at = "list"
    BY <1>1, <1>3, <2>1 DEF HostsTold, Hosts
  <2>2. CASE attach.at = "tell"
    BY <1>1, <1>3, <2>2 DEF HostTableInv, HostsTold, Hosts
  <2> QED BY <1>3, <2>1, <2>2
<1>8. EntriesAreServed' /\ RecordsAreSaved'
  BY <1>1 DEF HostTableInv, EntriesAreServed, RecordsAreSaved, Hosts
<1> QED BY <1>4, <1>5, <1>6, <1>7, <1>8 DEF HostTableInv

LEMMA SessionDiesKept ==
  ASSUME HostTableInv, NEW t \in Table, NEW h \in Host, SessionDies(t, h)
  PROVE  HostTableInv'
<1> DEFINE s == [served[t][h] EXCEPT !.is = "ended"]
<1>1. /\ served[t][h].is = "dying"
      /\ UNCHANGED <<disk, attached, opened, memory, refused, opMu, attach, wish, asks, view, strayed>>
  BY DEF SessionDies
<1>2. served \in [Table -> [Host -> Sessions]] /\ attached \in 0 .. MaxTable
  BY DEF HostTableInv, TablesTyped
<1>3. s \in Sessions
  <2>1. served[t][h] \in Sessions
    BY <1>2
  <2> QED BY <2>1 DEF Sessions
<1>4. served' = [served EXCEPT ![t] = [served[t] EXCEPT ![h] = s]]
  BY <1>2 DEF SessionDies
<1> HIDE DEF s
<1>5. /\ served' \in [Table -> [Host -> Sessions]]
      /\ \A u \in Table : u # t => served'[u] = served[u]
      /\ \A g \in Host : g # h => served'[t][g] = served[t][g]
  BY <1>2, <1>3, <1>4
<1>6. TablesTyped' /\ Attaching'
  BY <1>1, <1>5 DEF HostTableInv, TablesTyped, Attaching
<1>7. OneChanges' /\ ChangeOnDisk' /\ HostsTold' /\ RecordsAreSaved'
  BY <1>1 DEF HostTableInv, OneChanges, ChangeOnDisk, HostsTold, RecordsAreSaved, Changing, Entry, Mem, Hosts
<1>8. EntriesAreServed'
  <2> SUFFICES ASSUME attached # 0, NEW g \in Hosts(memory[attached])
               PROVE  \/ served'[attached][g] = Running(memory[attached][g])
                      \/ <<attached, g>> \in refused
                      \/ \E p \in Requester : wish[p].table = attached /\ wish[p].host = g
                                            /\ wish[p].at \in {"stop", "install"}
    BY <1>1 DEF EntriesAreServed
  <2>1. CASE attached = t /\ g = h
    <3>1. served[attached][g] # Running(memory[attached][g])
      BY <1>1, <2>1 DEF Running
    <3> QED BY <3>1 DEF HostTableInv, EntriesAreServed
  <2>2. CASE ~(attached = t /\ g = h)
    <3>1. served'[attached][g] = served[attached][g]
      BY <1>2, <1>5, <2>2 DEF Hosts, Table
    <3> QED BY <3>1 DEF HostTableInv, EntriesAreServed
  <2> QED BY <2>1, <2>2
<1> QED BY <1>6, <1>7, <1>8 DEF HostTableInv

LEMMA ProcessDiesKept ==
  ASSUME HostTableInv, ProcessDies
  PROVE  HostTableInv'
<1>1. /\ attached' = 0 /\ memory' = [t \in Table |-> NoEntries] /\ served' = [t \in Table |-> NoSessions]
      /\ opMu' = [t \in Table |-> "free"] /\ attach' = NotAttaching /\ wish' = [q \in Requester |-> Quiet]
      /\ UNCHANGED <<disk, opened, asks, strayed>>
  BY DEF ProcessDies
<1>2. NoEntries \in [Host -> 0 .. MaxToken] /\ NoSessions \in [Host -> Sessions]
      /\ NotAttaching \in Attaches /\ NotAttaching.at = "none" /\ 0 \in 0 .. MaxTable
  BY HostTableAssumption DEF NoEntries, NoSessions, NoSession, Sessions, NotAttaching, Attaches
<1>3. TablesTyped'
  <2>1. opened \in 0 .. MaxTable /\ 0 <= opened
    BY HostTableAssumption DEF HostTableInv, TablesTyped
  <2> QED BY <1>1, <1>2, <2>1 DEF HostTableInv, TablesTyped
<1>4. \A q \in Requester : wish'[q] = Quiet /\ ~Changing(q)'
  BY <1>1, QuietFacts DEF Changing
<1>5. Attaching' /\ OneChanges' /\ ChangeOnDisk'
  BY <1>1, <1>2, <1>4 DEF Attaching, OneChanges, ChangeOnDisk
<1>6. HostsTold' /\ EntriesAreServed' /\ RecordsAreSaved'
  BY <1>1 DEF HostsTold, EntriesAreServed, RecordsAreSaved
<1> QED BY <1>3, <1>5, <1>6 DEF HostTableInv

LEMMA HostTableBegins == HostTableInit => HostTableInv
<1> SUFFICES ASSUME HostTableInit PROVE HostTableInv
  OBVIOUS
<1>1. /\ attached = 0 /\ opened = 0 /\ memory = [t \in Table |-> NoEntries] /\ served = [t \in Table |-> NoSessions]
      /\ opMu = [t \in Table |-> "free"] /\ attach = NotAttaching /\ wish = [q \in Requester |-> Quiet]
      /\ disk \in [Host -> {0, 1}] /\ strayed = FALSE
  BY DEF HostTableInit
<1>2. NoEntries \in [Host -> 0 .. MaxToken] /\ NoSessions \in [Host -> Sessions]
      /\ NotAttaching \in Attaches /\ NotAttaching.at = "none" /\ 0 \in 0 .. MaxTable /\ 0 <= 0
  BY HostTableAssumption DEF NoEntries, NoSessions, NoSession, Sessions, NotAttaching, Attaches
<1>3. disk \in [Host -> 0 .. MaxToken]
  BY <1>1, HostTableAssumption
<1>4. TablesTyped
  BY <1>1, <1>2, <1>3 DEF TablesTyped
<1>5. \A q \in Requester : wish[q] = Quiet /\ ~Changing(q)
  BY <1>1, QuietFacts DEF Changing
<1>6. Attaching /\ OneChanges /\ ChangeOnDisk
  BY <1>1, <1>2, <1>5 DEF Attaching, OneChanges, ChangeOnDisk
<1>7. HostsTold /\ EntriesAreServed /\ RecordsAreSaved
  BY <1>1 DEF HostsTold, EntriesAreServed, RecordsAreSaved
<1> QED BY <1>4, <1>6, <1>7 DEF HostTableInv

LEMMA HostTableStep == HostTableInv /\ [HostTableNext]_hostTableVars => HostTableInv'
<1> SUFFICES ASSUME HostTableInv, [HostTableNext]_hostTableVars PROVE HostTableInv'
  OBVIOUS
<1>1. ASSUME NEW q \in Requester, AskTable(q, "add") \/ AskTable(q, "remove") PROVE HostTableInv'
  BY <1>1, AskTableKept
<1>2. ASSUME NEW q \in Requester, Change(q) PROVE HostTableInv'
  BY <1>2, RefusedKept, AddNewKept, SaveKept, StopDoneKept, StopTimesOutKept, InstallKept DEF Change
<1>3. CASE UNCHANGED hostTableVars
  BY <1>3 DEF hostTableVars, HostTableInv, TablesTyped, Attaching, OneChanges, ChangeOnDisk, HostsTold,
              EntriesAreServed, RecordsAreSaved, Changing, Entry, Mem, Hosts
<1> QED BY <1>1, <1>2, <1>3, BeginKept, CloseTableKept, OpenTableKept, TellingKept,
           SessionDiesKept, ProcessDiesKept DEF HostTableNext

\* A request that changes an entry has its table to itself, with the change on disk, until it
\* has put it into memory; and Attach and Detach wait for it (host.add, host.remove, Attach,
\* Detach and Close in clientcore/facade/table.go).
THEOREM HostTableKept == HostTableSpec => []HostTableInv
BY HostTableBegins, HostTableStep, PTL DEF HostTableSpec

\* The running sessions, hosts.json and what the front ends were told follow the attached
\* table through every order of host.add, host.remove, Attach, Detach, and crashes, as long
\* as no request works on a table that is not attached any more.
THEOREM TablesAgree == HostTableSpec => []HostsAgree
<1>1. HostTableInv => HostsAgree
  <2> SUFFICES ASSUME HostTableInv PROVE NoHostMissing
    BY DEF HostTableInv, HostsAgree
  <2>1. attach = NotAttaching => attach.at = "none"
    BY DEF NotAttaching
  <2> QED BY <2>1 DEF HostTableInv, HostsTold, NoHostMissing
<1> QED BY <1>1, HostTableKept, PTL

-----------------------------------------------------------------------------
(* The legs of a terminal session *)

Distinct(q) == \A i, j \in 1 .. Len(q) : q[i] = q[j] => i = j

LEMMA RangeIs ==
  ASSUME NEW S, NEW q \in Seq(S)
  PROVE  /\ Len(q) \in Nat /\ DOMAIN q = 1 .. Len(q) /\ Range(q) = {q[i] : i \in 1 .. Len(q)} /\ Range(q) \subseteq S
         /\ q # <<>> => Len(q) >= 1 /\ Head(q) = q[1] /\ Head(q) \in Range(q)
         /\ Range(q) # {} => q # <<>>
<1>1. Len(q) \in Nat /\ DOMAIN q = 1 .. Len(q) /\ q \in [1 .. Len(q) -> S]
  BY LenProperties
<1>2. Range(q) = {q[i] : i \in 1 .. Len(q)}
  BY <1>1 DEF Range
<1>3. Range(q) \subseteq S
  BY <1>1, <1>2
<1>4. q # <<>> => Len(q) \in Nat \ {0} /\ Head(q) = q[1]
  BY EmptySeq
<1>5. q # <<>> => Len(q) >= 1 /\ 1 \in 1 .. Len(q) /\ Head(q) = q[1]
  BY <1>1, <1>4
<1>6. q = <<>> => Range(q) = {}
  BY <1>2, EmptySeq
<1> QED
  BY <1>1, <1>2, <1>3, <1>5, <1>6

LEMMA DistinctLength ==
  ASSUME NEW S, NEW q \in Seq(S), Distinct(q)
  PROVE  IsFiniteSet(Range(q)) /\ Len(q) = Cardinality(Range(q))
<1>1. Len(q) \in Nat /\ DOMAIN q = 1 .. Len(q) /\ Range(q) = {q[i] : i \in 1 .. Len(q)} /\ q \in [1 .. Len(q) -> S]
  BY RangeIs, LenProperties
<1>2. q \in Bijection(1 .. Len(q), Range(q))
  <2>1. q \in [1 .. Len(q) -> Range(q)]
    BY <1>1
  <2> QED
    BY <1>1, <2>1 DEF Distinct, Bijection, Injection, Surjection, IsInjective
<1>3. IsFiniteSet(1 .. Len(q)) /\ Cardinality(1 .. Len(q)) = Len(q)
  <2>1. 1 \in Int /\ Len(q) \in Int
    BY <1>1
  <2>2. IsFiniteSet(1 .. Len(q)) /\ Cardinality(1 .. Len(q)) = IF 1 > Len(q) THEN 0 ELSE Len(q) - 1 + 1
    BY <2>1, FS_Interval
  <2> QED
    BY <1>1, <2>2
<1>4. ExistsBijection(1 .. Len(q), Range(q))
  BY <1>2 DEF ExistsBijection
<1> QED
  BY <1>3, <1>4, FS_Bijection

LEMMA PutInFront ==
  ASSUME NEW S, NEW e \in S, NEW q \in Seq(S), Distinct(q), e \notin Range(q)
  PROVE  /\ <<e>> \o q \in Seq(S) /\ Distinct(<<e>> \o q) /\ Range(<<e>> \o q) = {e} \cup Range(q)
         /\ <<e>> \o q # <<>> /\ Head(<<e>> \o q) = e
<1> DEFINE r == <<e>> \o q
<1>1. Len(q) \in Nat /\ Range(q) = {q[i] : i \in 1 .. Len(q)}
  BY RangeIs
<1>2. <<e>> \in Seq(S) /\ Len(<<e>>) = 1 /\ <<e>>[1] = e
  OBVIOUS
<1>3. /\ r \in Seq(S) /\ Len(r) = 1 + Len(q)
      /\ \A i \in 1 .. 1 + Len(q) : r[i] = IF i <= 1 THEN <<e>>[i] ELSE q[i - 1]
  BY <1>2, ConcatProperties
<1>4. r[1] = e /\ \A i \in 1 .. Len(q) : r[i + 1] = q[i]
  <2>1. 1 \in 1 .. 1 + Len(q) /\ 1 <= 1
    BY <1>1
  <2>2. r[1] = e
    BY <1>2, <1>3, <2>1
  <2>3. ASSUME NEW i \in 1 .. Len(q) PROVE r[i + 1] = q[i]
    <3>1. i + 1 \in 1 .. 1 + Len(q) /\ ~(i + 1 <= 1) /\ (i + 1) - 1 = i
      BY <1>1
    <3> QED
      BY <1>3, <3>1
  <2> QED
    BY <2>2, <2>3
<1> HIDE DEF r
<1>5. \A k \in 1 .. Len(r) : k = 1 \/ (k - 1 \in 1 .. Len(q) /\ r[k] = q[k - 1])
  <2> TAKE k \in 1 .. Len(r)
  <2>1. k # 1 => k - 1 \in 1 .. Len(q) /\ (k - 1) + 1 = k
    BY <1>1, <1>3
  <2>2. k # 1 => r[(k - 1) + 1] = q[k - 1]
    BY <1>4, <2>1
  <2> QED
    BY <2>1, <2>2
<1>6. Range(r) = {r[i] : i \in 1 .. Len(r)}
  BY <1>3, RangeIs
<1>7. Range(r) = {e} \cup Range(q)
  <2>1. \A y \in Range(r) : y = e \/ y \in Range(q)
    BY <1>1, <1>4, <1>5, <1>6
  <2>2. \A y \in Range(q) : y \in Range(r)
    <3>1. \A i \in 1 .. Len(q) : i + 1 \in 1 .. Len(r)
      BY <1>1, <1>3
    <3> QED
      BY <1>1, <1>4, <1>6, <3>1
  <2>3. e \in Range(r)
    <3>1. 1 \in 1 .. Len(r)
      BY <1>1, <1>3
    <3> QED
      BY <1>4, <1>6, <3>1
  <2> QED
    BY <2>1, <2>2, <2>3
<1>8. Distinct(r)
  <2> SUFFICES ASSUME NEW i \in 1 .. Len(r), NEW j \in 1 .. Len(r), r[i] = r[j] PROVE i = j
    BY DEF Distinct
  <2>1. CASE i = 1 \/ j = 1
    <3>1. \A k \in 1 .. Len(r) : k # 1 => r[k] # e
      BY <1>1, <1>5
    <3> QED
      BY <1>4, <2>1, <3>1
  <2>2. CASE i # 1 /\ j # 1
    <3>1. i - 1 \in 1 .. Len(q) /\ j - 1 \in 1 .. Len(q) /\ q[i - 1] = q[j - 1]
      BY <1>5, <2>2
    <3>2. i - 1 = j - 1
      BY <3>1 DEF Distinct
    <3> QED
      BY <3>2
  <2> QED
    BY <2>1, <2>2
<1>9. r # <<>> /\ Head(r) = e
  <2>1. r # <<>>
    BY <1>7, <1>3, RangeIs
  <2> QED
    BY <1>3, <1>4, <2>1, RangeIs
<1> QED
  BY <1>3, <1>7, <1>8, <1>9 DEF r

\* Only keeps the legs it is to keep, in the order in which they acted.
LEMMA OnlyFacts ==
  ASSUME acted \in Seq(Leg), Distinct(acted), NEW L, L \subseteq legs
  PROVE  /\ Only(L) \in Seq(Leg) /\ Distinct(Only(L)) /\ Range(Only(L)) = L
         /\ L # {} => Only(L) # <<>> /\ Head(Only(L)) \in L /\ Last(Only(L)) \in L
         /\ Head(acted) \in L => Head(Only(L)) = Head(acted)
<1> DEFINE K == {i \in DOMAIN acted : acted[i] \in L}
           n == Cardinality(K)
           a == Ascending(K)
           q == Only(L)
<1>1. Len(acted) \in Nat /\ DOMAIN acted = 1 .. Len(acted) /\ legs = {acted[i] : i \in 1 .. Len(acted)} /\ legs \subseteq Leg
  BY RangeIs DEF legs
<1>2. IsFiniteSet(K) /\ K \subseteq Int
  <2>1. 1 \in Int /\ Len(acted) \in Int
    BY <1>1
  <2>2. IsFiniteSet(1 .. Len(acted))
    BY <2>1, FS_Interval
  <2>3. K \in SUBSET (1 .. Len(acted))
    BY <1>1
  <2>4. IsFiniteSet(K)
    BY <2>2, <2>3, FS_Subset
  <2> QED
    BY <1>1, <2>4
<1>3. /\ n \in Nat /\ a \in [1 .. n -> K]
      /\ \A i \in K : \E k \in 1 .. n : a[k] = i
      /\ \A i, j \in 1 .. n : i < j => a[i] < a[j]
  <2> HIDE DEF K
  <2> QED
    BY <1>2, AscendingFacts
<1>4. q = [k \in 1 .. n |-> acted[a[k]]]
  BY DEF Only
<1>5. \A i \in K : i \in 1 .. Len(acted) /\ acted[i] \in L
  BY <1>1
<1>6. \A y \in L : \E i \in K : acted[i] = y
  BY <1>1
<1>7. \A i, j \in K : acted[i] = acted[j] => i = j
  BY <1>1 DEF Distinct
<1> HIDE DEF K, n, a, q
<1>8. q \in [1 .. n -> L]
  BY <1>3, <1>4, <1>5
<1>9. q \in Seq(Leg) /\ Len(q) = n
  <2>1. q \in [1 .. n -> Leg]
    BY <1>1, <1>8
  <2> QED
    BY <1>3, <2>1, SequenceOf
<1>10. Range(q) = {q[i] : i \in 1 .. n}
  BY <1>9, RangeIs
<1>11. Range(q) = L
  <2>1. \A y \in Range(q) : y \in L
    BY <1>8, <1>10
  <2>2. ASSUME NEW y \in L PROVE y \in Range(q)
    <3>1. PICK i \in K : acted[i] = y
      BY <1>6
    <3>2. PICK k \in 1 .. n : a[k] = i
      BY <1>3
    <3> QED
      BY <1>4, <1>10, <3>1, <3>2
  <2> QED
    BY <2>1, <2>2
<1>12. Distinct(q)
  <2> SUFFICES ASSUME NEW i \in 1 .. n, NEW j \in 1 .. n, q[i] = q[j] PROVE i = j
    BY <1>9 DEF Distinct
  <2>1. a[i] = a[j] /\ a[i] \in Int /\ a[j] \in Int
    BY <1>2, <1>3, <1>4, <1>7
  <2>2. ~(i < j) /\ ~(j < i)
    BY <1>3, <2>1
  <2> QED
    BY <1>3, <2>2
<1>13. L # {} => q # <<>> /\ Head(q) \in L /\ Last(q) \in L
  <2> SUFFICES ASSUME L # {} PROVE q # <<>> /\ Head(q) \in L /\ Last(q) \in L
    OBVIOUS
  <2>1. q # <<>> /\ Head(q) \in L /\ n >= 1
    BY <1>9, <1>11, RangeIs
  <2>2. Last(q) = q[n] /\ n \in 1 .. n
    BY <1>3, <1>9, <2>1 DEF Last
  <2> QED
    BY <1>8, <2>1, <2>2
<1>14. ASSUME Head(acted) \in L PROVE Head(q) = Head(acted)
  <2>1. acted # <<>>
    BY <1>14, RangeIs DEF legs
  <2>2. Len(acted) >= 1 /\ Head(acted) = acted[1]
    BY <2>1, RangeIs
  <2>3. 1 \in K
    BY <1>1, <1>14, <2>2 DEF K
  <2>4. PICK k \in 1 .. n : a[k] = 1
    BY <1>3, <2>3
  <2>5. k = 1
    <3>1. 1 \in 1 .. n /\ a[1] \in K
      BY <1>3
    <3>2. a[1] >= 1 /\ a[1] \in Int
      BY <1>1, <1>5, <3>1
    <3>3. ~(1 < k)
      BY <1>3, <2>4, <3>1, <3>2
    <3> QED
      BY <1>3, <3>3
  <2>6. q[1] = Head(acted)
    BY <1>4, <2>2, <2>4, <2>5
  <2>7. q # <<>> /\ Head(q) = q[1]
    BY <1>9, <1>11, <1>14, RangeIs
  <2> QED
    BY <2>6, <2>7
<1> QED
  BY <1>9, <1>11, <1>12, <1>13, <1>14 DEF q


LineType == [client : Client \cup {Anonymous}, conn : {"new", "open", "lost", "gone"},
             size : Size \cup {0}, told : {"no", "ended", "quit"}, stalled : BOOLEAN,
             writer : {"none", "due", "running", "gone"}]
LegSessionType == [active : Leg \cup {Nobody}, size : Size \cup {0}, rawTerms : Nat,
                   answers : BOOLEAN, writers : Nat, ring : BOOLEAN,
                   ending : {"no", "waiting", "over"}]

\* The list has every leg once, and as many as the session takes.
ListOK(q) == q \in Seq(Leg) /\ Distinct(q) /\ Cardinality(Range(q)) <= MaxClients

\* A leg of the list is a connection that asked; nobody else has a writer.
Placed(q, n) ==
  /\ \A l \in Range(q) : n[l].conn # "new"
  /\ \A l \in Leg : n[l].conn = "new" => n[l].writer = "none"

Answering(q, s) ==
  /\ s.rawTerms = Cardinality(Range(q) \cap RawTerm)
  /\ s.answers = (Range(q) \cap RawTerm = {})

OnePerClient(q, n) ==
  \A l, m \in Range(q) : n[l].client = n[m].client /\ n[l].client # Anonymous => l = m
Active(q, n, s) ==
  /\ s.ending = "no" /\ s.active \in Range(q) => s.size = n[s.active].size
  /\ Range(q) # {} => s.active # Nobody
  /\ s.active \in Range(q) => s.active = Head(q)

\* The writers are counted, and the ring goes with the last of them.
WritersOf(n) == {l \in Leg : n[l].writer = "running"}
Counting(n, s) ==
  /\ s.writers = Cardinality(WritersOf(n))
  /\ s.ending = "over" /\ s.writers = 0 => ~s.ring

LegsInv ==
  /\ ListOK(acted) /\ line \in [Leg -> LineType] /\ session \in LegSessionType
  /\ Placed(acted, line) /\ Answering(acted, session) /\ OnePerClient(acted, line)
  /\ Active(acted, line, session) /\ Counting(line, session)

LEMMA FewLegs ==
  ASSUME ListOK(acted)
  PROVE  /\ IsFiniteSet(legs) /\ legs \subseteq Leg /\ Cardinality(legs) \in Nat
         /\ Len(acted) = Cardinality(legs)
         /\ \A L \in SUBSET legs : IsFiniteSet(L) /\ Cardinality(L) \in Nat /\ Cardinality(L) <= Cardinality(legs)
<1>1. legs \subseteq Leg
  BY RangeIs DEF ListOK, legs
<1>2. IsFiniteSet(legs)
  <2>1. legs \in SUBSET Leg
    BY <1>1
  <2> QED
    BY <2>1, TermLegsAssumption, FS_Subset
<1>3. \A L \in SUBSET legs : IsFiniteSet(L) /\ Cardinality(L) \in Nat /\ Cardinality(L) <= Cardinality(legs)
  BY <1>2, FS_Subset, FS_CardinalityType
<1> QED
  BY <1>1, <1>2, <1>3, FS_CardinalityType, DistinctLength DEF ListOK, legs

\* What stays on the list of the legs L, possibly with one leg in front.
LEMMA ListKept ==
  ASSUME ListOK(acted), NEW L \in SUBSET legs
  PROVE  /\ ListOK(Only(L)) /\ Range(Only(L)) = L
         /\ L # {} => Head(Only(L)) \in L /\ Last(Only(L)) \in L
         /\ Head(acted) \in L => Head(Only(L)) = Head(acted)
<1> DEFINE q == Only(L)
<1>1. /\ q \in Seq(Leg) /\ Distinct(q) /\ Range(q) = L
      /\ L # {} => Head(q) \in L /\ Last(q) \in L
      /\ Head(acted) \in L => Head(q) = Head(acted)
  BY OnlyFacts DEF ListOK
<1>2. IsFiniteSet(L) /\ Cardinality(L) \in Nat /\ Cardinality(L) <= MaxClients
  <2>1. Cardinality(legs) \in Nat /\ Cardinality(legs) <= MaxClients /\ MaxClients \in Nat
    BY FewLegs, TermLegsAssumption DEF ListOK, legs
  <2>2. IsFiniteSet(L) /\ Cardinality(L) \in Nat /\ Cardinality(L) <= Cardinality(legs)
    BY FewLegs
  <2> QED
    BY <2>1, <2>2
<1> HIDE DEF q
<1> QED
  BY <1>1, <1>2 DEF ListOK, q

LEMMA FrontKept ==
  ASSUME ListOK(acted), NEW L \in SUBSET legs, NEW l \in Leg, l \notin L, Cardinality(L) < MaxClients
  PROVE  /\ ListOK(<<l>> \o Only(L)) /\ Range(<<l>> \o Only(L)) = {l} \cup L
         /\ Head(<<l>> \o Only(L)) = l
<1> DEFINE q == Only(L)
<1>1. q \in Seq(Leg) /\ Distinct(q) /\ Range(q) = L
  BY ListKept DEF ListOK
<1>2. IsFiniteSet(L) /\ Cardinality(L) \in Nat
  BY FewLegs
<1> HIDE DEF q
<1>3. /\ <<l>> \o q \in Seq(Leg) /\ Distinct(<<l>> \o q) /\ Range(<<l>> \o q) = {l} \cup Range(q)
      /\ Head(<<l>> \o q) = l
  BY <1>1, PutInFront
<1>4. Cardinality(L \cup {l}) = Cardinality(L) + 1
  BY <1>2, FS_AddElement
<1>5. L \cup {l} = {l} \cup L
  OBVIOUS
<1>6. Cardinality(L) + 1 <= MaxClients
  BY <1>2, TermLegsAssumption
<1> QED
  BY <1>1, <1>3, <1>4, <1>5, <1>6 DEF ListOK, q

LEMMA TouchedFacts ==
  ASSUME ListOK(acted), NEW l \in Leg
  PROVE  /\ ListOK(Touched(l)) /\ Range(Touched(l)) = legs
         /\ l \in legs => Head(Touched(l)) = l
<1>1. CASE l \notin legs
  BY <1>1 DEF Touched, legs
<1>2. CASE l \in legs
  <2>1. IsFiniteSet(legs) /\ Cardinality(legs) \in Nat /\ Cardinality(legs) <= MaxClients
    BY FewLegs DEF ListOK, legs
  <2>2. Cardinality(legs \ {l}) = Cardinality(legs) - 1
    BY <1>2, <2>1, FS_RemoveElement
  <2>3. Cardinality(legs \ {l}) < MaxClients
    BY <2>1, <2>2, TermLegsAssumption
  <2>4. /\ legs \ {l} \in SUBSET legs /\ l \notin legs \ {l} /\ {l} \cup (legs \ {l}) = legs
        /\ Touched(l) = <<l>> \o Only(legs \ {l})
    BY <1>2 DEF Touched
  <2>5. /\ ListOK(<<l>> \o Only(legs \ {l})) /\ Range(<<l>> \o Only(legs \ {l})) = {l} \cup (legs \ {l})
        /\ Head(<<l>> \o Only(legs \ {l})) = l
    BY <2>3, <2>4, FrontKept
  <2> QED
    BY <2>4, <2>5
<1> QED
  BY <1>1, <1>2

\* What one of the session's edits leaves alone.
Alike(s, t) == t.writers = s.writers /\ t.ring = s.ring /\ t.ending = s.ending
SameTerms(s, t) == t.rawTerms = s.rawTerms /\ t.answers = s.answers

LEMMA ActiveEdits ==
  ASSUME NEW s \in LegSessionType, NEW l \in Leg, NEW z \in Size \cup {0}
  PROVE  /\ Activates(s, l, z) \in LegSessionType /\ Activates(s, l, z).active = l
         /\ Alike(s, Activates(s, l, z)) /\ SameTerms(s, Activates(s, l, z))
         /\ ~Done => Activates(s, l, z).size = z
<1>1. /\ s.active \in Leg \cup {Nobody} /\ s.size \in Size \cup {0} /\ s.rawTerms \in Nat
      /\ s.answers \in BOOLEAN /\ s.writers \in Nat /\ s.ring \in BOOLEAN
      /\ s.ending \in {"no", "waiting", "over"}
  BY DEF LegSessionType
<1> DEFINE y == IF Done THEN s.size ELSE z
           t == [s EXCEPT !.active = l, !.size = y]
<1>2. y \in Size \cup {0} /\ (~Done => y = z)
  BY <1>1
<1>3. Activates(s, l, z) = t
  BY DEF Activates
<1> HIDE DEF y
<1>4. t.active = l /\ t.size = y /\ Alike(s, t) /\ SameTerms(s, t)
  BY <1>1 DEF LegSessionType, Alike, SameTerms
<1>5. t \in LegSessionType
  BY <1>1, <1>2 DEF LegSessionType
<1> QED
  BY <1>2, <1>3, <1>4, <1>5

LEMMA NobodyEdits ==
  ASSUME NEW s \in LegSessionType, NEW t, t = [s EXCEPT !.active = Nobody]
  PROVE  /\ t \in LegSessionType /\ t.active = Nobody /\ t.size = s.size
         /\ Alike(s, t) /\ SameTerms(s, t)
BY DEF LegSessionType, Alike, SameTerms

LEMMA SplitCount ==
  ASSUME NEW A, NEW B, NEW C, IsFiniteSet(A), IsFiniteSet(B), C = A \cup B, A \cap B = {}
  PROVE  Cardinality(C) = Cardinality(A) + Cardinality(B)
<1>1. Cardinality(A \cup B) = Cardinality(A) + Cardinality(B) - Cardinality(A \cap B)
  BY FS_Union
<1>2. Cardinality(A) \in Nat /\ Cardinality(B) \in Nat /\ Cardinality(A \cap B) = 0
  BY FS_CardinalityType, FS_EmptySet
<1> QED
  BY <1>1, <1>2

\* Real terminals are counted in and out with the list.
RawLeft(gone, come) == ((legs \ gone) \cup come) \cap RawTerm
NoRaw(gone, come) == RawLeft(gone, come) = {}
CountIsRight(s) == s \in LegSessionType /\ s.rawTerms = Cardinality(legs \cap RawTerm)
CountedOut(gone) == gone \in SUBSET legs
CountedIn(come) == come \in SUBSET (Leg \ legs) /\ IsFiniteSet(come)

LEMMA Counted ==
  ASSUME ListOK(acted), NEW s, CountIsRight(s), NEW gone, CountedOut(gone), NEW come, CountedIn(come),
         NEW t, t = CountsTerms(s, gone, come)
  PROVE  /\ t \in LegSessionType /\ t.rawTerms = Cardinality(RawLeft(gone, come))
         /\ t.answers = NoRaw(gone, come)
         /\ t.active = s.active /\ t.size = s.size /\ Alike(s, t)
<1>0. /\ s \in LegSessionType /\ s.rawTerms = Cardinality(legs \cap RawTerm)
      /\ gone \in SUBSET legs /\ come \in SUBSET (Leg \ legs) /\ IsFiniteSet(come)
  BY DEF CountIsRight, CountedOut, CountedIn
<1> DEFINE left == RawLeft(gone, come)
           b == NoRaw(gone, come)
<1>a. left = ((legs \ gone) \cup come) \cap RawTerm /\ b = (left = {})
  BY DEF RawLeft, NoRaw
<1> HIDE DEF left, b
<1> DEFINE A == legs \cap RawTerm
           B == gone \cap RawTerm
           C == come \cap RawTerm
           K == (legs \ gone) \cap RawTerm
           n == s.rawTerms + Cardinality(C) - Cardinality(B)
<1>1. IsFiniteSet(A) /\ IsFiniteSet(B) /\ IsFiniteSet(C) /\ IsFiniteSet(K) /\ IsFiniteSet(left)
  <2>1. IsFiniteSet(legs) /\ IsFiniteSet(gone) /\ legs \ gone \in SUBSET legs
    BY <1>0, FewLegs
  <2>2. IsFiniteSet(legs \ gone)
    BY <2>1, FewLegs
  <2>3. IsFiniteSet((legs \ gone) \cup come)
    BY <1>0, <2>2, FS_Union
  <2> QED
    BY <1>0, <1>a, <2>1, <2>2, <2>3, FS_Intersection
<1>2. Cardinality(K) + Cardinality(B) = Cardinality(A)
  <2>1. A = K \cup B /\ K \cap B = {}
    BY <1>0
  <2> QED
    BY <1>1, <2>1, SplitCount
<1>3. Cardinality(left) = Cardinality(K) + Cardinality(C)
  <2>1. left = K \cup C /\ K \cap C = {}
    BY <1>0, <1>a
  <2> QED
    BY <1>1, <2>1, SplitCount
<1>4. /\ Cardinality(A) \in Nat /\ Cardinality(B) \in Nat /\ Cardinality(C) \in Nat
      /\ Cardinality(K) \in Nat /\ Cardinality(left) \in Nat
  BY <1>1, FS_CardinalityType
<1>5. n = Cardinality(left)
  BY <1>0, <1>2, <1>3, <1>4
<1>6. (n = 0) = (left = {})
  BY <1>1, <1>5, FS_EmptySet
<1>7. t = [s EXCEPT !.rawTerms = n, !.answers = (n = 0)]
  BY DEF CountsTerms
<1>8. n \in Nat /\ (n = 0) \in BOOLEAN
  BY <1>4, <1>5
<1> HIDE DEF n
<1>9. t = [s EXCEPT !.rawTerms = Cardinality(left), !.answers = b]
  BY <1>a, <1>5, <1>6, <1>7
<1>10. Cardinality(left) \in Nat /\ b \in BOOLEAN
  BY <1>a, <1>4
<1> QED
  <2> PICK m : m = Cardinality(left)
    OBVIOUS
  <2>1. t = [s EXCEPT !.rawTerms = m, !.answers = b] /\ m \in Nat /\ b \in BOOLEAN
    BY <1>9, <1>10
  <2>2. /\ t \in LegSessionType /\ t.rawTerms = m /\ t.answers = b
        /\ t.active = s.active /\ t.size = s.size /\ Alike(s, t)
    BY <1>0, <2>1 DEF LegSessionType, Alike
  <2> QED
    BY <2>2 DEF left, b

\* A new active leg is elected among those that remain, and its size applied.
LEMMA Elected ==
  ASSUME ListOK(acted), line \in [Leg -> LineType], NEW s \in LegSessionType,
         s.active \in legs => s.active = Head(acted),
         ~Done /\ s.active \in legs => s.size = line[s.active].size,
         NEW rest \in SUBSET legs
  PROVE  LET t == Elects(s, rest)
         IN  /\ t \in LegSessionType /\ SameTerms(s, t) /\ Alike(s, t)
             /\ rest # {} => t.active # Nobody
             /\ t.active \in rest => t.active = Head(Only(rest))
             /\ ~Done /\ t.active \in rest => t.size = line[t.active].size
<1>0. legs \subseteq Leg /\ Nobody \notin Leg
  BY FewLegs, TermLegsAssumption
<1>1. CASE rest = {}
  <2>1. Elects(s, rest) = [s EXCEPT !.active = Nobody]
    BY <1>1 DEF Elects
  <2> QED
    BY <1>1, <2>1, NobodyEdits
<1>2. CASE rest # {} /\ s.active \in rest
  <2>1. Elects(s, rest) = s
    BY <1>2 DEF Elects
  <2>2. Head(acted) \in rest => Head(Only(rest)) = Head(acted)
    BY ListKept
  <2> QED
    BY <1>0, <1>2, <2>1, <2>2 DEF Alike, SameTerms
<1>3. CASE rest # {} /\ s.active \notin rest
  <2> DEFINE l == Head(Only(rest))
  <2>1. l \in rest /\ l \in Leg
    BY <1>0, <1>3, ListKept
  <2>2. Elects(s, rest) = Activates(s, l, line[l].size)
    BY <1>3 DEF Elects
  <2> HIDE DEF l
  <2>3. line[l].size \in Size \cup {0}
    BY <2>1 DEF LineType
  <2>4. /\ Activates(s, l, line[l].size) \in LegSessionType
        /\ Activates(s, l, line[l].size).active = l
        /\ Alike(s, Activates(s, l, line[l].size)) /\ SameTerms(s, Activates(s, l, line[l].size))
        /\ ~Done => Activates(s, l, line[l].size).size = line[l].size
    BY <2>1, <2>3, ActiveEdits
  <2> QED
    BY <1>0, <2>1, <2>2, <2>4 DEF l
<1> QED
  BY <1>1, <1>2, <1>3


\* Who is active, what its size is: what the list of the legs needs after a change.
LEMMA InvParts ==
  ASSUME LegsInv
  PROVE  /\ ListOK(acted) /\ line \in [Leg -> LineType] /\ session \in LegSessionType
         /\ legs \subseteq Leg /\ Nobody \notin Leg
         /\ \A l \in Leg : line[l] \in LineType /\ line[l].size \in Size \cup {0}
         /\ \A l \in legs : line[l].conn # "new"
         /\ \A l \in Leg : line[l].conn = "new" => line[l].writer = "none" /\ l \notin legs
         /\ session.rawTerms = Cardinality(legs \cap RawTerm)
         /\ session.answers = (legs \cap RawTerm = {})
         /\ \A l, m \in legs : line[l].client = line[m].client /\ line[l].client # Anonymous => l = m
         /\ ~Done /\ session.active \in legs => session.size = line[session.active].size
         /\ legs # {} => session.active # Nobody
         /\ session.active \in legs => session.active = Head(acted)
         /\ session.writers = Cardinality(WritersOf(line))
         /\ session.ending = "over" /\ session.writers = 0 => ~session.ring
<1>1. legs \subseteq Leg /\ Nobody \notin Leg
  BY FewLegs, TermLegsAssumption DEF LegsInv
<1>2. \A l \in Leg : line[l] \in LineType /\ line[l].size \in Size \cup {0}
  BY DEF LegsInv, LineType
<1> QED
  BY <1>1, <1>2 DEF LegsInv, Placed, Answering, OnePerClient, Active, Counting, legs, Done

\* Nothing changes but the connection of a leg, or what its writer was told.
LEMMA LineStep ==
  ASSUME LegsInv, acted' = acted, session' = session, line' \in [Leg -> LineType],
         \A k \in Leg : /\ line'[k].client = line[k].client /\ line'[k].size = line[k].size
                        /\ line'[k].writer = line[k].writer
                        /\ line'[k].conn = "new" => line[k].conn = "new"
  PROVE  LegsInv'
<1>1. legs' = legs /\ Range(acted') = legs /\ legs \subseteq Leg
  BY InvParts DEF legs
<1>2. WritersOf(line') = WritersOf(line)
  BY DEF WritersOf
<1>3. Placed(acted', line') /\ OnePerClient(acted', line')
  <2>1. \A l \in legs : line'[l].conn # "new"
    BY <1>1, InvParts
  <2> QED
    BY <1>1, <2>1, InvParts DEF Placed, OnePerClient
<1>4. Active(acted', line', session')
  <2>1. session.ending = "no" /\ session.active \in legs => session.size = line'[session.active].size
    BY <1>1, InvParts DEF Done
  <2> QED
    BY <1>1, <2>1, InvParts DEF Active
<1>5. Counting(line', session')
  BY <1>2, InvParts DEF Counting
<1>6. ListOK(acted') /\ session' \in LegSessionType /\ Answering(acted', session')
  BY <1>1, InvParts DEF Answering
<1> QED
  BY <1>3, <1>4, <1>5, <1>6 DEF LegsInv

\* A leg is taken off the list, by its read loop or its writer, if it is still on it.
LEMMA LegEndsStep ==
  ASSUME LegsInv, NEW l \in Leg, NEW changed \in [Leg -> LineType], EndLeg(l, changed),
         \A k \in Leg : k # l => changed[k] = line[k],
         changed[l].client = line[l].client, changed[l].writer = line[l].writer,
         changed[l].conn # "new"
  PROVE  LegsInv'
<1>0. /\ ListOK(acted) /\ line \in [Leg -> LineType] /\ session \in LegSessionType /\ legs \subseteq Leg
      /\ Cardinality(WritersOf(changed)) = session.writers
  <2>1. WritersOf(changed) = WritersOf(line)
    BY DEF WritersOf
  <2> QED
    BY <2>1, InvParts
<1>1. CASE l \in legs
  <2> DEFINE rest == legs \ {l}
             t == CountsTerms(session, {l}, {})
             u == Elects(t, rest)
             n == [changed EXCEPT ![l].told = "quit", ![l].stalled = FALSE]
  <2>1. acted' = Only(rest) /\ session' = u /\ line' = n
    BY <1>1 DEF EndLeg
  <2>2. rest \in SUBSET legs /\ {l} \in SUBSET legs /\ {} \in SUBSET (Leg \ legs) /\ IsFiniteSet({})
    BY <1>1, FS_EmptySet
  <2>3. /\ ListOK(acted') /\ Range(acted') = rest
        /\ Head(acted) \in rest => Head(acted') = Head(acted)
    BY <1>0, <2>1, <2>2, ListKept
  <2>4. /\ t \in LegSessionType /\ t.rawTerms = Cardinality(rest \cap RawTerm)
        /\ t.answers = (rest \cap RawTerm = {})
        /\ t.active = session.active /\ t.size = session.size /\ Alike(session, t)
    <3>1. CountIsRight(session) /\ CountedOut({l}) /\ CountedIn({})
      BY <1>0, <2>2, InvParts DEF CountIsRight, CountedOut, CountedIn
    <3>2. /\ t \in LegSessionType /\ t.rawTerms = Cardinality(RawLeft({l}, {})) /\ t.answers = NoRaw({l}, {})
          /\ t.active = session.active /\ t.size = session.size /\ Alike(session, t)
      BY <1>0, <3>1, Counted
    <3>3. RawLeft({l}, {}) = rest \cap RawTerm
      BY DEF RawLeft
    <3> HIDE DEF t, rest
    <3> QED
      BY <3>2, <3>3 DEF NoRaw
  <2> HIDE DEF t
  <2>5. /\ u \in LegSessionType /\ SameTerms(t, u) /\ Alike(t, u)
        /\ rest # {} => u.active # Nobody
        /\ u.active \in rest => u.active = Head(Only(rest))
        /\ ~Done /\ u.active \in rest => u.size = line[u.active].size
    <3>1. t.active \in legs => t.active = Head(acted)
      BY <2>4, InvParts
    <3>2. ~Done /\ t.active \in legs => t.size = line[t.active].size
      BY <2>4, InvParts
    <3> QED
      BY <1>0, <2>2, <2>4, <3>1, <3>2, Elected
  <2>6. /\ n \in [Leg -> LineType]
        /\ \A k \in Leg : k # l => n[k] = line[k]
        /\ n[l].client = line[l].client /\ n[l].writer = line[l].writer /\ n[l].conn # "new"
    <3> DEFINE v == [changed[l] EXCEPT !.told = "quit", !.stalled = FALSE]
    <3>1. changed[l] \in LineType
      OBVIOUS
    <3>2. /\ v \in LineType /\ v.client = changed[l].client /\ v.writer = changed[l].writer
          /\ v.conn = changed[l].conn
      BY <3>1 DEF LineType
    <3>3. n = [changed EXCEPT ![l] = v]
      OBVIOUS
    <3> HIDE DEF v, n
    <3> QED
      BY <3>2, <3>3
  <2> HIDE DEF u, n, rest
  <2>7. Placed(acted', line') /\ OnePerClient(acted', line')
    <3>1. \A k \in rest : k \in legs /\ k # l /\ k \in Leg /\ line'[k] = line[k]
      BY <1>0, <2>1, <2>6 DEF rest
    <3>2. \A k \in Leg : line'[k].conn = "new" => line'[k].writer = "none"
      BY <2>1, <2>6, InvParts
    <3>3. \A k \in rest : line'[k].conn # "new"
      BY <3>1, InvParts
    <3>4. \A j, k \in rest : line'[j].client = line'[k].client /\ line'[j].client # Anonymous => j = k
      BY <3>1, InvParts
    <3> QED
      BY <2>3, <3>2, <3>3, <3>4 DEF Placed, OnePerClient
  <2>8. Answering(acted', session')
    BY <2>1, <2>3, <2>4, <2>5 DEF Answering, SameTerms
  <2>9. Active(acted', line', session')
    <3>1. \A k \in rest : line'[k] = line[k]
      BY <1>0, <2>1, <2>6 DEF rest
    <3>2. u.ending = session.ending
      BY <2>4, <2>5 DEF Alike
    <3> QED
      BY <2>1, <2>3, <2>5, <3>1, <3>2 DEF Active, Done
  <2>10. Counting(line', session')
    <3>1. WritersOf(line') = WritersOf(changed)
      BY <2>1, <2>6 DEF WritersOf
    <3> QED
      BY <1>0, <2>1, <2>4, <2>5, <3>1, InvParts DEF Counting, Alike
  <2> QED
    BY <2>1, <2>3, <2>5, <2>6, <2>7, <2>8, <2>9, <2>10 DEF LegsInv
<1>2. CASE l \notin legs
  <2>1. acted' = acted /\ session' = session /\ line' = changed /\ Range(acted') = legs
    BY <1>2 DEF EndLeg, legs
  <2>2. \A k \in legs : line'[k] = line[k]
    BY <1>0, <1>2, <2>1
  <2>3. Placed(acted', line') /\ OnePerClient(acted', line')
    <3>1. \A k \in Leg : line'[k].conn = "new" => line'[k].writer = "none"
      BY <2>1, InvParts
    <3> QED
      BY <2>1, <2>2, <3>1, InvParts DEF Placed, OnePerClient
  <2>4. Active(acted', line', session')
    BY <2>1, <2>2, InvParts DEF Active, Done
  <2>5. Counting(line', session') /\ Answering(acted', session')
    BY <1>0, <2>1, InvParts DEF Counting, Answering
  <2> QED
    BY <1>0, <2>1, <2>3, <2>4, <2>5 DEF LegsInv
<1> QED
  BY <1>1, <1>2

\* A leg acts: it is active, its size applied, and it goes to the front of the list.
LEMMA ActsStep ==
  ASSUME LegsInv, NEW l \in Leg, NEW z \in Size \cup {0}, line' \in [Leg -> LineType],
         acted' = Touched(l), session' = Activates(session, l, z), line[l].conn # "new",
         line'[l].size = z,
         \A k \in Leg : /\ line'[k].client = line[k].client /\ line'[k].writer = line[k].writer
                        /\ line'[k].conn = line[k].conn /\ (k # l => line'[k].size = line[k].size)
  PROVE  LegsInv'
<1>1. ListOK(acted') /\ Range(acted') = legs /\ (l \in legs => Head(acted') = l)
  BY InvParts, TouchedFacts
<1>2. /\ session' \in LegSessionType /\ session'.active = l
      /\ Alike(session, session') /\ SameTerms(session, session')
      /\ ~Done => session'.size = z
  BY InvParts, ActiveEdits
<1>3. Placed(acted', line') /\ OnePerClient(acted', line')
  <2>1. legs \subseteq Leg
    BY InvParts
  <2> QED
    BY <1>1, <2>1, InvParts DEF Placed, OnePerClient
<1>4. Answering(acted', session')
  BY <1>1, <1>2, InvParts DEF Answering, SameTerms
<1>5. Active(acted', line', session')
  BY <1>1, <1>2, InvParts DEF Active, Done, Alike
<1>6. Counting(line', session')
  <2>1. WritersOf(line') = WritersOf(line)
    BY DEF WritersOf
  <2> QED
    BY <1>2, <2>1, InvParts DEF Counting, Alike
<1> QED
  BY <1>1, <1>2, <1>3, <1>4, <1>5, <1>6 DEF LegsInv


\* Room is made for one leg: the evicted one, if any, is one of those it may be.
LEMMA RoomIsMade ==
  ASSUME ListOK(acted), NEW L \in SUBSET legs, NEW evicted \in Victims(L)
  PROVE  evicted \subseteq L /\ Cardinality(L \ evicted) < MaxClients
<1>1. IsFiniteSet(L) /\ Cardinality(L) \in Nat /\ Cardinality(L) <= MaxClients
  <2>1. Cardinality(legs) \in Nat /\ Cardinality(legs) <= MaxClients /\ MaxClients \in Nat
    BY FewLegs, TermLegsAssumption DEF ListOK, legs
  <2>2. IsFiniteSet(L) /\ Cardinality(L) \in Nat /\ Cardinality(L) <= Cardinality(legs)
    BY FewLegs
  <2> QED
    BY <2>1, <2>2
<1>2. MaxClients \in Nat /\ MaxClients # 0
  BY TermLegsAssumption
<1>3. CASE Cardinality(L) < MaxClients
  <2>1. evicted = {}
    BY <1>3 DEF Victims
  <2>2. L \ {} = L
    OBVIOUS
  <2> QED
    BY <1>3, <2>1, <2>2
<1>4. CASE ~(Cardinality(L) < MaxClients)
  <2>1. L # {}
    BY <1>1, <1>2, <1>4, FS_EmptySet
  <2>2. Last(Only(L)) \in L
    BY <2>1, ListKept
  <2>3. \E l \in L : evicted = {l}
    <3> DEFINE stalled == {l \in L : line[l].stalled}
    <3>1. evicted \in IF stalled # {} THEN {{l} : l \in stalled} ELSE {{Last(Only(L))}}
      BY <1>4 DEF Victims
    <3> QED
      BY <2>2, <3>1
  <2>4. PICK l \in L : evicted = {l}
    BY <2>3
  <2>5. Cardinality(L \ {l}) = Cardinality(L) - 1
    BY <1>1, FS_RemoveElement
  <2>6. Cardinality(L) - 1 < MaxClients
    BY <1>1, <1>2
  <2> QED
    BY <2>4, <2>5, <2>6
<1> QED
  BY <1>3, <1>4

LEMMA ToldFacts ==
  ASSUME line \in [Leg -> LineType], NEW l \in Leg, NEW how \in {"ended", "quit"}
  PROVE  /\ Told(l, how) \in LineType /\ Told(l, how).client = line[l].client
         /\ Told(l, how).size = line[l].size /\ Told(l, how).writer = line[l].writer
         /\ Told(l, how).conn = line[l].conn
<1> DEFINE y == IF line[l].told = "quit" THEN line[l].told ELSE how
           t == [line[l] EXCEPT !.told = y, !.stalled = FALSE]
<1>1. y \in {"no", "ended", "quit"}
  OBVIOUS
<1>2. Told(l, how) = t
  BY DEF Told
<1>3. line[l] \in LineType
  OBVIOUS
<1> HIDE DEF y
<1> QED
  BY <1>1, <1>2, <1>3 DEF LineType

LEMMA AttachStep ==
  ASSUME LegsInv, NEW c \in Leg, NEW z \in Size, NEW takeover \in BOOLEAN, Attach(c, z, takeover)
  PROVE  LegsInv'
<1> DEFINE replaced == IF takeover THEN legs ELSE SameClient(c)
<1>1. /\ ListOK(acted) /\ line \in [Leg -> LineType] /\ session \in LegSessionType /\ legs \subseteq Leg
      /\ line[c].conn = "new" /\ line[c].writer = "none" /\ c \notin legs /\ ~Done
  BY InvParts DEF Attach
<1>2. replaced \subseteq legs /\ SameClient(c) \subseteq replaced
  BY DEF SameClient
<1>3. PICK evicted \in Victims(legs \ replaced) :
        /\ acted' = <<c>> \o Only(legs \ (replaced \cup evicted))
        /\ line' = [l \in Leg |->
                     CASE l = c -> [line[c] EXCEPT !.conn = "open", !.size = z, !.writer = "due"]
                       [] l \in replaced -> Told(l, "ended")
                       [] l \in evicted -> Told(l, "quit")
                       [] OTHER -> line[l]]
        /\ session' = Activates(CountsTerms(session, replaced \cup evicted, {c}), c, z)
  BY DEF Attach
<1> HIDE DEF replaced
<1> DEFINE gone == replaced \cup evicted
           left == legs \ gone
           t == CountsTerms(session, gone, {c})
<1>4. evicted \subseteq legs /\ left = (legs \ replaced) \ evicted /\ Cardinality(left) < MaxClients
  <2>1. legs \ replaced \in SUBSET legs
    BY <1>2
  <2>2. evicted \subseteq legs \ replaced /\ Cardinality((legs \ replaced) \ evicted) < MaxClients
    BY <1>1, <2>1, RoomIsMade
  <2>3. left = (legs \ replaced) \ evicted
    OBVIOUS
  <2> QED
    BY <2>2, <2>3
<1>5. /\ gone \in SUBSET legs /\ left \in SUBSET legs /\ c \notin left
      /\ {c} \in SUBSET (Leg \ legs) /\ IsFiniteSet({c})
  BY <1>1, <1>2, <1>4, FS_Singleton
<1>6. ListOK(acted') /\ Range(acted') = {c} \cup left /\ Head(acted') = c
  <2> HIDE DEF left
  <2>1. acted' = <<c>> \o Only(left)
    BY <1>3 DEF left
  <2> QED
    BY <1>1, <1>4, <1>5, <2>1, FrontKept
<1>7. /\ t \in LegSessionType /\ t.rawTerms = Cardinality((left \cup {c}) \cap RawTerm)
      /\ t.answers = ((left \cup {c}) \cap RawTerm = {})
      /\ t.active = session.active /\ t.size = session.size /\ Alike(session, t)
  <2>1. CountIsRight(session) /\ CountedOut(gone) /\ CountedIn({c})
    BY <1>1, <1>5, InvParts DEF CountIsRight, CountedOut, CountedIn
  <2>2. RawLeft(gone, {c}) = (left \cup {c}) \cap RawTerm
    BY DEF RawLeft
  <2>3. ListOK(acted) /\ t = CountsTerms(session, gone, {c})
    BY <1>1
  <2> HIDE DEF gone, left, t
  <2>4. /\ t \in LegSessionType /\ t.rawTerms = Cardinality(RawLeft(gone, {c})) /\ t.answers = NoRaw(gone, {c})
        /\ t.active = session.active /\ t.size = session.size /\ Alike(session, t)
    BY <2>1, <2>3, Counted
  <2> QED
    BY <2>2, <2>4 DEF NoRaw
<1>8. session' = Activates(t, c, z)
  BY <1>3
<1> HIDE DEF t
<1>9. /\ session' \in LegSessionType /\ session'.active = c
      /\ Alike(t, session') /\ SameTerms(t, session') /\ session'.size = z
  BY <1>1, <1>7, <1>8, ActiveEdits
<1>10. /\ line'[c] \in LineType /\ line'[c].client = line[c].client /\ line'[c].size = z
       /\ line'[c].conn = "open" /\ line'[c].writer = "due"
  <2> DEFINE r == [line[c] EXCEPT !.conn = "open", !.size = z, !.writer = "due"]
  <2>1. line'[c] = r
    <3>1. c \notin replaced /\ c \notin evicted
      BY <1>1, <1>2, <1>4
    <3> HIDE DEF r
    <3>2. r = [line[c] EXCEPT !.conn = "open", !.size = z, !.writer = "due"]
      BY DEF r
    <3> QED
      BY <1>3, <3>1, <3>2
  <2>2. line[c] \in LineType
    BY <1>1
  <2>3. r \in LineType /\ r.client = line[c].client /\ r.size = z /\ r.conn = "open" /\ r.writer = "due"
    BY <2>2 DEF LineType
  <2> HIDE DEF r
  <2> QED
    BY <2>1, <2>3
<1>11. ASSUME NEW l \in Leg, l # c
       PROVE  /\ line'[l] \in LineType /\ line'[l].client = line[l].client
              /\ line'[l].size = line[l].size /\ line'[l].conn = line[l].conn
              /\ line'[l].writer = line[l].writer
  <2>1. line'[l] \in {Told(l, "ended"), Told(l, "quit"), line[l]}
    BY <1>3, <1>11
  <2>2. line[l] \in LineType
    BY <1>1
  <2> QED
    BY <1>1, <2>1, <2>2, ToldFacts
<1>12. line' \in [Leg -> LineType]
  <2>1. line' = [l \in Leg |-> line'[l]]
    BY <1>3
  <2>2. \A l \in Leg : line'[l] \in LineType
    BY <1>10, <1>11
  <2> QED
    BY <2>1, <2>2
<1>13. Placed(acted', line')
  <2>1. \A l \in {c} \cup left : line'[l].conn # "new"
    <3>1. \A l \in left : l \in Leg /\ l # c /\ line[l].conn # "new"
      BY <1>1, <1>5, InvParts
    <3> QED
      BY <1>10, <1>11, <3>1
  <2>2. \A l \in Leg : line'[l].conn = "new" => line'[l].writer = "none"
    BY <1>10, <1>11, InvParts
  <2> QED
    BY <1>6, <2>1, <2>2 DEF Placed
<1>14. OnePerClient(acted', line')
  <2>1. \A l \in left : l \in legs /\ l \in Leg /\ l # c /\ line'[l].client = line[l].client /\ l \notin SameClient(c)
    BY <1>1, <1>2, <1>5, <1>11
  <2>2. \A l \in left : line[l].client = line[c].client => line[c].client = Anonymous
    BY <2>1 DEF SameClient
  <2>3. \A l, m \in left : line'[l].client = line'[m].client /\ line'[l].client # Anonymous => l = m
    BY <2>1, InvParts
  <2> HIDE DEF left
  <2> QED
    BY <1>6, <1>10, <2>1, <2>2, <2>3 DEF OnePerClient
<1>15. Answering(acted', session')
  <2>1. {c} \cup left = left \cup {c}
    OBVIOUS
  <2> HIDE DEF left
  <2> QED
    BY <1>6, <1>7, <1>9, <2>1 DEF Answering, SameTerms
<1>16. Active(acted', line', session')
  <2>1. Nobody # c
    BY TermLegsAssumption
  <2> QED
    BY <1>6, <1>9, <1>10, <2>1 DEF Active
<1>17. Counting(line', session')
  <2>1. WritersOf(line') = WritersOf(line)
    BY <1>1, <1>10, <1>11 DEF WritersOf
  <2> QED
    BY <1>7, <1>9, <2>1, InvParts DEF Counting, Alike
<1> QED
  BY <1>6, <1>9, <1>12, <1>13, <1>14, <1>15, <1>16, <1>17 DEF LegsInv

\* finish: the list is emptied, and nobody is active or a real terminal any more.
LEMMA EndStep ==
  ASSUME LegsInv, SessionEnds
  PROVE  LegsInv'
<1> DEFINE s == [session EXCEPT !.ending = "waiting", !.active = Nobody]
           t == CountsTerms(s, legs, {})
<1>1. /\ ListOK(acted) /\ line \in [Leg -> LineType] /\ session \in LegSessionType /\ legs \subseteq Leg
  BY InvParts
<1>2. /\ s \in LegSessionType /\ s.ending = "waiting" /\ s.active = Nobody /\ s.writers = session.writers
      /\ s.rawTerms = session.rawTerms
  BY <1>1 DEF LegSessionType
<1> HIDE DEF s
<1>3. /\ t \in LegSessionType /\ t.rawTerms = Cardinality({}) /\ t.answers = TRUE
      /\ t.active = s.active /\ t.size = s.size /\ Alike(s, t)
  <2>1. CountIsRight(s) /\ CountedOut(legs) /\ CountedIn({})
    BY <1>2, FS_EmptySet, InvParts DEF CountIsRight, CountedOut, CountedIn
  <2>2. RawLeft(legs, {}) = {}
    BY DEF RawLeft
  <2>3. t = CountsTerms(s, legs, {})
    OBVIOUS
  <2> HIDE DEF t
  <2>4. /\ t \in LegSessionType /\ t.rawTerms = Cardinality(RawLeft(legs, {})) /\ t.answers = NoRaw(legs, {})
        /\ t.active = s.active /\ t.size = s.size /\ Alike(s, t)
    BY <1>1, <2>1, <2>3, Counted
  <2> QED
    BY <2>2, <2>4 DEF NoRaw
<1>4. acted' = <<>> /\ session' = t /\ line' = [l \in Leg |-> IF l \in legs THEN Told(l, "ended") ELSE line[l]]
  BY DEF SessionEnds, s
<1> HIDE DEF t
<1>5. ASSUME NEW l \in Leg
      PROVE  /\ line'[l] \in LineType /\ line'[l].client = line[l].client
             /\ line'[l].conn = line[l].conn /\ line'[l].writer = line[l].writer
  <2>1. line'[l] \in {Told(l, "ended"), line[l]}
    BY <1>4
  <2>2. line[l] \in LineType
    BY <1>1
  <2> QED
    BY <1>1, <2>1, <2>2, ToldFacts
<1>6. line' \in [Leg -> LineType]
  BY <1>4, <1>5
<1>7. Range(acted') = {} /\ ListOK(acted')
  <2>1. <<>> \in Seq(Leg) /\ Len(<<>>) = 0 /\ 1 .. 0 = {}
    OBVIOUS
  <2>2. Range(<<>>) = {}
    <3>1. Range(<<>>) = {(<<>>)[i] : i \in 1 .. Len(<<>>)}
      BY <2>1, RangeIs
    <3> QED
      BY <2>1, <3>1
  <2>3. Cardinality({}) = 0 /\ 0 <= MaxClients
    BY FS_EmptySet, TermLegsAssumption
  <2> QED
    BY <1>4, <2>1, <2>2, <2>3 DEF ListOK, Distinct
<1>8. Placed(acted', line') /\ OnePerClient(acted', line')
  BY <1>5, <1>7, InvParts DEF Placed, OnePerClient
<1>9. Answering(acted', session')
  <2>1. {} \cap RawTerm = {}
    OBVIOUS
  <2> QED
    BY <1>3, <1>4, <1>7, <2>1 DEF Answering
<1>10. Active(acted', line', session')
  BY <1>7 DEF Active
<1>11. Counting(line', session')
  <2>1. WritersOf(line') = WritersOf(line)
    BY <1>5 DEF WritersOf
  <2>2. session'.ending = "waiting" /\ session'.writers = session.writers
    BY <1>2, <1>3, <1>4 DEF Alike
  <2> QED
    BY <2>1, <2>2, InvParts DEF Counting
<1> QED
  BY <1>3, <1>4, <1>6, <1>7, <1>8, <1>9, <1>10, <1>11 DEF LegsInv


\* The count of the writers follows one that starts or ends.
LEMMA WriterCounted ==
  ASSUME NEW n, NEW m, NEW l \in Leg, \A k \in Leg : k # l => m[k].writer = n[k].writer
  PROVE  /\ Cardinality(WritersOf(n)) \in Nat
         /\ n[l].writer # "running" /\ m[l].writer = "running" =>
              Cardinality(WritersOf(m)) = Cardinality(WritersOf(n)) + 1
         /\ n[l].writer = "running" /\ m[l].writer # "running" =>
              Cardinality(WritersOf(n)) # 0 /\ Cardinality(WritersOf(m)) = Cardinality(WritersOf(n)) - 1
<1>1. WritersOf(n) \in SUBSET Leg
  BY DEF WritersOf
<1>2. IsFiniteSet(WritersOf(n)) /\ Cardinality(WritersOf(n)) \in Nat
  BY <1>1, TermLegsAssumption, FS_Subset, FS_CardinalityType
<1>3. ASSUME n[l].writer # "running", m[l].writer = "running"
      PROVE  Cardinality(WritersOf(m)) = Cardinality(WritersOf(n)) + 1
  <2>1. WritersOf(m) = WritersOf(n) \cup {l} /\ l \notin WritersOf(n)
    BY <1>3 DEF WritersOf
  <2> QED
    BY <1>2, <2>1, FS_AddElement
<1>4. ASSUME n[l].writer = "running", m[l].writer # "running"
      PROVE  Cardinality(WritersOf(n)) # 0 /\ Cardinality(WritersOf(m)) = Cardinality(WritersOf(n)) - 1
  <2>1. WritersOf(m) = WritersOf(n) \ {l} /\ l \in WritersOf(n)
    BY <1>4 DEF WritersOf
  <2> QED
    BY <1>2, <2>1, FS_RemoveElement, FS_EmptySet
<1> QED
  BY <1>2, <1>3, <1>4

LEMMA WritersStep ==
  ASSUME LegsInv, NEW l \in Leg, WriterStarts(l) \/ LegWriterEnds(l)
  PROVE  LegsInv'
<1>1. /\ ListOK(acted) /\ line \in [Leg -> LineType] /\ session \in LegSessionType /\ legs \subseteq Leg
      /\ session.writers = Cardinality(WritersOf(line)) /\ session.writers \in Nat
      /\ session.ending \in {"no", "waiting", "over"} /\ session.ring \in BOOLEAN
  BY InvParts DEF LegSessionType
<1>2. acted' = acted /\ Range(acted') = legs
  BY DEF WriterStarts, LegWriterEnds, legs
<1>3. /\ line' \in [Leg -> LineType]
      /\ \A k \in Leg : /\ k # l => line'[k] = line[k]
                        /\ line'[k].client = line[k].client /\ line'[k].size = line[k].size
                        /\ line'[k].conn = "new" => line[k].conn = "new"
      /\ line[l].conn # "new" /\ line'[l].conn # "new"
  <2>1. line[l].writer # "none" /\ line[l].conn # "new" /\ line[l] \in LineType
    BY <1>1, InvParts DEF WriterStarts, LegWriterEnds
  <2>2. line[l].conn \in {"new", "open", "lost", "gone"}
    BY <2>1 DEF LineType
  <2> DEFINE y == IF line[l].conn = "open" THEN "lost" ELSE line[l].conn
             r1 == [line[l] EXCEPT !.writer = "running"]
             r2 == [line[l] EXCEPT !.writer = "gone", !.conn = y]
  <2>3. y \in {"open", "lost", "gone"}
    BY <2>1, <2>2
  <2>4. line' = [line EXCEPT ![l] = r1] \/ line' = [line EXCEPT ![l] = r2]
    BY DEF WriterStarts, LegWriterEnds
  <2> HIDE DEF y
  <2>5. /\ r1 \in LineType /\ r1.client = line[l].client /\ r1.size = line[l].size /\ r1.conn = line[l].conn
        /\ r2 \in LineType /\ r2.client = line[l].client /\ r2.size = line[l].size /\ r2.conn = y
    BY <2>1, <2>3 DEF LineType
  <2> HIDE DEF r1, r2
  <2> QED
    BY <1>1, <2>1, <2>3, <2>4, <2>5
<1>4. Placed(acted', line') /\ OnePerClient(acted', line')
  <2>1. \A k \in legs : k \in Leg /\ line[k].conn # "new"
    BY <1>1, InvParts
  <2>2. \A k \in legs : line'[k].conn # "new"
    BY <1>3, <2>1
  <2>3. \A k \in Leg : line'[k].conn = "new" => line'[k].writer = "none"
    BY <1>3, InvParts
  <2>4. \A j, k \in legs : line'[j].client = line'[k].client /\ line'[j].client # Anonymous => j = k
    BY <1>3, <2>1, InvParts
  <2> QED
    BY <1>2, <2>2, <2>3, <2>4 DEF Placed, OnePerClient
<1>5. ASSUME session' \in LegSessionType, SameTerms(session, session'), session'.active = session.active,
             session'.size = session.size, session'.ending = session.ending, Counting(line', session')
      PROVE  LegsInv'
  <2>1. Answering(acted', session')
    BY <1>2, <1>5, InvParts DEF Answering, SameTerms
  <2>2. Active(acted', line', session')
    BY <1>1, <1>2, <1>3, <1>5, InvParts DEF Active, Done
  <2> QED
    BY <1>1, <1>2, <1>3, <1>4, <1>5, <2>1, <2>2 DEF LegsInv
<1>7. CASE WriterStarts(l)
  <2> DEFINE n == session.writers + 1
             t == [session EXCEPT !.writers = n, !.ring = session.ring]
  <2>1. n \in Nat /\ n # 0
    BY <1>1
  <2>2. line[l].writer = "due" /\ line'[l].writer = "running"
    BY <1>1, <1>7 DEF WriterStarts, LineType
  <2>3. Cardinality(WritersOf(line')) = n
    BY <1>1, <1>3, <2>2, WriterCounted
  <2>4. session' = t
    <3>1. session' = [session EXCEPT !.writers = n]
      BY <1>7 DEF WriterStarts
    <3> HIDE DEF n
    <3> QED
      BY <1>1, <2>1, <3>1 DEF LegSessionType
  <2> HIDE DEF n
  <2>5. /\ t \in LegSessionType /\ SameTerms(session, t) /\ t.active = session.active
        /\ t.size = session.size /\ t.ending = session.ending /\ t.writers = n /\ t.ring = session.ring
    BY <1>1, <2>1 DEF LegSessionType, SameTerms
  <2> HIDE DEF t
  <2>6. Counting(line', session')
    BY <2>1, <2>3, <2>4, <2>5 DEF Counting
  <2> QED
    BY <1>5, <2>4, <2>5, <2>6
<1>8. CASE LegWriterEnds(l)
  <2> DEFINE n == session.writers - 1
             b == IF Done /\ n = 0 THEN FALSE ELSE session.ring
             t == [session EXCEPT !.writers = n, !.ring = b]
  <2>2. line[l].writer = "running" /\ line'[l].writer = "gone"
    BY <1>1, <1>8 DEF LegWriterEnds, LineType
  <2>3. Cardinality(WritersOf(line')) = n /\ session.writers # 0
    BY <1>1, <1>3, <2>2, WriterCounted
  <2>1. n \in Nat /\ b \in BOOLEAN
    <3>1. n \in Nat
      BY <1>1, <2>3
    <3>2. b \in {FALSE, session.ring}
      OBVIOUS
    <3> HIDE DEF b
    <3> QED
      BY <1>1, <3>1, <3>2
  <2>4. session' = t
    <3>1. session' = FreesRing([session EXCEPT !.writers = n])
      BY <1>8 DEF LegWriterEnds
    <3> HIDE DEF n
    <3>2. /\ [session EXCEPT !.writers = n].writers = n
          /\ [session EXCEPT !.writers = n].ring = session.ring
      BY <1>1, <2>1 DEF LegSessionType
    <3>3. session' = [[session EXCEPT !.writers = n] EXCEPT !.ring = b]
      BY <3>1, <3>2 DEF FreesRing
    <3> HIDE DEF b
    <3> QED
      BY <1>1, <2>1, <3>3 DEF LegSessionType
  <2>7. session.ending = "over" /\ n = 0 => ~b
    BY DEF Done
  <2> HIDE DEF n, b
  <2>5. /\ t \in LegSessionType /\ SameTerms(session, t) /\ t.active = session.active
        /\ t.size = session.size /\ t.ending = session.ending /\ t.writers = n /\ t.ring = b
    BY <1>1, <2>1 DEF LegSessionType, SameTerms
  <2> HIDE DEF t
  <2>6. Counting(line', session')
    BY <2>3, <2>4, <2>5, <2>7 DEF Counting
  <2> QED
    BY <1>5, <2>4, <2>5, <2>6
<1> QED
  BY <1>7, <1>8


LEMMA ConnStep ==
  ASSUME LegsInv, NEW l \in Leg,
         AttachRefused(l) \/ ClientLeaves(l) \/ Stalls(l) \/ WriterBreaks(l)
  PROVE  LegsInv'
<1>1. line \in [Leg -> LineType] /\ line[l] \in LineType
  BY InvParts
<1>2. acted' = acted /\ session' = session
  BY DEF AttachRefused, ClientLeaves, Stalls, WriterBreaks
<1> DEFINE r1 == [line[l] EXCEPT !.conn = "gone"]
           r2 == [line[l] EXCEPT !.conn = "lost"]
           r3 == [line[l] EXCEPT !.stalled = ~@]
           y == IF line[l].conn = "open" THEN "lost" ELSE line[l].conn
           r4 == [line[l] EXCEPT !.told = "quit", !.stalled = FALSE, !.conn = y]
           Good(r) == /\ r \in LineType /\ r.client = line[l].client /\ r.size = line[l].size
                      /\ r.writer = line[l].writer /\ (r.conn = "new" => line[l].conn = "new")
<1>3. line' \in {[line EXCEPT ![l] = r1], [line EXCEPT ![l] = r2], [line EXCEPT ![l] = r3],
                 [line EXCEPT ![l] = r4]}
  BY DEF AttachRefused, ClientLeaves, Stalls, WriterBreaks
<1>4. y \in {"new", "open", "lost", "gone"} /\ (y = "new" => line[l].conn = "new")
  BY <1>1 DEF LineType
<1> HIDE DEF y
<1>5. Good(r1) /\ Good(r2) /\ Good(r4)
  BY <1>1, <1>4 DEF LineType
<1>6. Good(r3)
  BY <1>1 DEF LineType
<1> HIDE DEF r1, r2, r3, r4
<1>7. PICK r : Good(r) /\ line' = [line EXCEPT ![l] = r]
  BY <1>3, <1>5, <1>6
<1>8. line' \in [Leg -> LineType]
  BY <1>1, <1>7
<1>9. \A k \in Leg : /\ line'[k].client = line[k].client /\ line'[k].size = line[k].size
                     /\ line'[k].writer = line[k].writer
                     /\ line'[k].conn = "new" => line[k].conn = "new"
  BY <1>1, <1>7
<1> QED
  BY <1>2, <1>8, <1>9, LineStep

LEMMA ReadStep ==
  ASSUME LegsInv, NEW l \in Leg, ReadLoop(l)
  PROVE  LegsInv'
<1>1. line \in [Leg -> LineType] /\ line[l] \in LineType /\ line[l].size \in Size \cup {0}
  BY InvParts
<1>2. CASE Input(l)
  BY <1>1, <1>2, ActsStep DEF Input
<1>3. ASSUME NEW z \in Size, Resize(l, z) PROVE LegsInv'
  <2> DEFINE r == [line[l] EXCEPT !.size = z]
  <2>1. /\ r \in LineType /\ r.size = z /\ r.client = line[l].client /\ r.conn = line[l].conn
        /\ r.writer = line[l].writer
    BY <1>1 DEF LineType
  <2>2. line' = [line EXCEPT ![l] = r]
    BY <1>3 DEF Resize
  <2> HIDE DEF r
  <2>3. /\ line' \in [Leg -> LineType] /\ line'[l].size = z
        /\ \A k \in Leg : /\ line'[k].client = line[k].client /\ line'[k].writer = line[k].writer
                          /\ line'[k].conn = line[k].conn /\ (k # l => line'[k].size = line[k].size)
    BY <1>1, <2>1, <2>2
  <2>4. /\ acted' = Touched(l) /\ session' = Activates(session, l, z) /\ line[l].conn # "new"
        /\ z \in Size \cup {0}
    BY <1>3 DEF Resize
  <2> QED
    BY <2>3, <2>4, ActsStep
<1>4. CASE ReadLoopEnds(l)
  <2> DEFINE r == [line[l] EXCEPT !.conn = "gone", !.size = 0]
             n == [line EXCEPT ![l].conn = "gone", ![l].size = 0]
  <2>1. /\ r \in LineType /\ r.client = line[l].client /\ r.writer = line[l].writer /\ r.conn # "new"
    BY <1>1 DEF LineType
  <2>2. n = [line EXCEPT ![l] = r]
    OBVIOUS
  <2>3. EndLeg(l, n)
    BY <1>4 DEF ReadLoopEnds
  <2> HIDE DEF r, n
  <2>4. /\ n \in [Leg -> LineType] /\ n[l].client = line[l].client /\ n[l].writer = line[l].writer
        /\ n[l].conn # "new" /\ \A k \in Leg : k # l => n[k] = line[k]
    BY <1>1, <2>1, <2>2
  <2> QED
    BY <2>3, <2>4, LegEndsStep
<1> QED
  BY <1>2, <1>3, <1>4 DEF ReadLoop

LEMMA LegsStep == LegsInv /\ [TermLegsNext]_termLegsVars => LegsInv'
<1> SUFFICES ASSUME LegsInv, [TermLegsNext]_termLegsVars PROVE LegsInv'
  OBVIOUS
<1>1. ASSUME NEW l \in Leg, AttachRefused(l) \/ ClientLeaves(l) \/ Stalls(l) \/ WriterBreaks(l)
      PROVE  LegsInv'
  BY <1>1, ConnStep
<1>2. ASSUME NEW l \in Leg, ReadLoop(l) PROVE LegsInv'
  BY <1>2, ReadStep
<1>3. ASSUME NEW l \in Leg, WriterStarts(l) \/ LegWriterEnds(l) PROVE LegsInv'
  BY <1>3, WritersStep
<1>4. ASSUME NEW l \in Leg, WriterDrops(l) PROVE LegsInv'
  <2>1. line \in [Leg -> LineType] /\ l \in legs /\ line[l].conn # "new" /\ EndLeg(l, line)
    BY <1>4, InvParts DEF WriterDrops
  <2> QED
    BY <2>1, LegEndsStep
<1>5. ASSUME NEW l \in Leg, NEW z \in Size, NEW takeover \in BOOLEAN, Attach(l, z, takeover)
      PROVE  LegsInv'
  BY <1>5, AttachStep
<1>6. CASE SessionEnds
  BY <1>6, EndStep
<1>7. CASE ChildGone
  <2> DEFINE b == session.ring /\ session.writers # 0
             t == [session EXCEPT !.ending = "over", !.ring = b]
  <2>1. acted' = acted /\ line' = line /\ session' = t
    BY <1>7 DEF ChildGone
  <2>2. session \in LegSessionType /\ b \in BOOLEAN
    BY InvParts
  <2>3. b => session.writers # 0
    OBVIOUS
  <2> HIDE DEF b
  <2>4. /\ t \in LegSessionType /\ SameTerms(session, t) /\ t.active = session.active /\ t.size = session.size
        /\ t.ending = "over" /\ t.ring = b /\ t.writers = session.writers
    BY <2>2 DEF LegSessionType, SameTerms
  <2> HIDE DEF t
  <2> QED
    BY <2>1, <2>3, <2>4
    DEF LegsInv, Answering, Active, Counting, SameTerms
<1>8. CASE UNCHANGED termLegsVars
  BY <1>8 DEF termLegsVars, LegsInv
<1> QED
  BY <1>1, <1>2, <1>3, <1>4, <1>5, <1>6, <1>7, <1>8 DEF TermLegsNext, WriterSteps

LEMMA LegsStart == TermLegsInit => LegsInv
<1> SUFFICES ASSUME TermLegsInit PROVE LegsInv
  OBVIOUS
<1>1. acted = <<>> /\ session = [active |-> Nobody, size |-> 0, rawTerms |-> 0, answers |-> TRUE,
                                 writers |-> 0, ring |-> TRUE, ending |-> "no"]
  BY DEF TermLegsInit
<1>2. Range(acted) = {} /\ ListOK(acted)
  <2>1. <<>> \in Seq(Leg) /\ Len(<<>>) = 0 /\ 1 .. 0 = {}
    OBVIOUS
  <2>2. Range(<<>>) = {}
    <3>1. Range(<<>>) = {(<<>>)[i] : i \in 1 .. Len(<<>>)}
      BY <2>1, RangeIs
    <3> QED
      BY <2>1, <3>1
  <2>3. Cardinality({}) = 0 /\ 0 <= MaxClients
    BY FS_EmptySet, TermLegsAssumption
  <2> QED
    BY <1>1, <2>1, <2>2, <2>3 DEF ListOK, Distinct
<1>3. line \in [Leg -> LineType] /\ \A l \in Leg : line[l].conn = "new" /\ line[l].writer = "none"
  <2>1. PICK who \in [Leg -> Client \cup {Anonymous}] :
         line = [l \in Leg |-> [client |-> who[l], conn |-> "new", size |-> 0, told |-> "no",
                               writer |-> "none", stalled |-> FALSE]]
    BY DEF TermLegsInit
  <2> QED
    BY <2>1 DEF LineType
<1>4. session \in LegSessionType
  BY <1>1 DEF LegSessionType
<1>5. Placed(acted, line) /\ OnePerClient(acted, line) /\ Active(acted, line, session)
  BY <1>2, <1>3 DEF Placed, OnePerClient, Active
<1>6. Answering(acted, session)
  <2>1. {} \cap RawTerm = {} /\ Cardinality({}) = 0
    BY FS_EmptySet
  <2> QED
    BY <1>1, <1>2, <2>1 DEF Answering
<1>7. Counting(line, session)
  <2>1. WritersOf(line) = {} /\ Cardinality({}) = 0
    BY <1>3, FS_EmptySet DEF WritersOf
  <2> QED
    BY <1>1, <2>1 DEF Counting
<1> QED
  BY <1>2, <1>3, <1>4, <1>5, <1>6, <1>7 DEF LegsInv

LEMMA LegsTypes == LegsInv => TermLegsTypeOK
<1> SUFFICES ASSUME LegsInv PROVE TermLegsTypeOK
  OBVIOUS
<1>1. /\ ListOK(acted) /\ line \in [Leg -> LineType] /\ session \in LegSessionType
      /\ session.writers = Cardinality(WritersOf(line))
  BY InvParts
<1>2. legs \subseteq Leg /\ Len(acted) = Cardinality(legs) /\ Cardinality(legs) <= MaxClients
  BY <1>1, FewLegs DEF ListOK, legs
<1>3. session.writers \in 0 .. Cardinality(Leg)
  <2>1. WritersOf(line) \in SUBSET Leg
    BY DEF WritersOf
  <2>2. Cardinality(WritersOf(line)) <= Cardinality(Leg) /\ Cardinality(Leg) \in Nat
    BY <2>1, TermLegsAssumption, FS_Subset, FS_CardinalityType
  <2>3. session.writers \in Nat
    BY <1>1 DEF LegSessionType
  <2> QED
    BY <1>1, <2>2, <2>3
<1>4. session \in [active : Leg \cup {Nobody}, size : Size \cup {0}, rawTerms : Nat, answers : BOOLEAN,
                   writers : 0 .. Cardinality(Leg), ring : BOOLEAN, ending : {"no", "waiting", "over"}]
  BY <1>1, <1>3 DEF LegSessionType
<1>5. line \in [Leg -> [client : Client \cup {Anonymous},
                        conn : {"new", "open", "lost", "gone"}, size : Size \cup {0},
                        told : {"no", "ended", "quit"}, stalled : BOOLEAN,
                        writer : {"none", "due", "running", "gone"}]]
  BY <1>1 DEF LineType
<1> QED
  BY <1>2, <1>4, <1>5 DEF TermLegsTypeOK

\* Whatever order legs attach, act, break, leave, are evicted or replaced in, and the
\* session ends in (service.go, term_leg.go): the session answers queries itself exactly
\* when no real terminal is attached, its size is that of the leg that acted last, and
\* the ring goes with the last writer. For any legs, clients and limit.
THEOREM LegsStayInAgreement == TermLegsSpec => []LegsAgree
<1>1. LegsInv => LegsAgree
  <2> SUFFICES ASSUME LegsInv PROVE LegsAgree
    OBVIOUS
  <2>1. OneAnswers
    BY InvParts DEF OneAnswers
  <2>2. SizeFollowsActive
    BY InvParts DEF SizeFollowsActive
  <2>3. RingIsFreed
    <3> SUFFICES ASSUME session.ending = "over", \A l \in Leg : line[l].writer \in {"none", "gone"}
                 PROVE  ~session.ring
      BY DEF RingIsFreed
    <3>1. WritersOf(line) = {}
      BY DEF WritersOf
    <3>2. session.writers = 0
      BY <3>1, InvParts, FS_EmptySet
    <3> QED
      BY <3>2, InvParts
  <2> QED
    BY <2>1, <2>2, <2>3 DEF LegsAgree
<1> QED
  BY <1>1, LegsStart, LegsStep, PTL DEF TermLegsSpec

-----------------------------------------------------------------------------
(* The writer of one leg *)

LegAts == {"attached", "reset", "replay", "replayed", "live", "items", "last items", "peek", "wait",
           "drain", "end", "exit"}
ControlFrames == {Control(k) : k \in 1 .. MaxFrames}
LegRec == [at : LegAts, off : 0 .. MaxOut, end : 0 .. MaxOut, sent : 0 .. MaxOut, items : Seq(ControlFrames),
           torn : Frames, stalled : BOOLEAN, removed : BOOLEAN]
OutRec == [frames : Seq(ControlFrames), ended : BOOLEAN, quit : BOOLEAN, wake : BOOLEAN]
SpentRec == [frames : 0 .. MaxFrames, timeouts : Nat, skipped : SUBSET (0 .. MaxOut), from : 0 .. MaxOut]

LegTyped ==
  /\ output \in [written : 0 .. MaxOut, done : BOOLEAN] /\ out \in OutRec /\ leg \in LegRec
  /\ spent \in SpentRec /\ conn \in {"open", "gone", "closed"} /\ got \in Seq(Frames)
  /\ leg.off <= output.written /\ leg.sent <= output.written /\ leg.end <= output.written

\* A frame g may follow f: it goes on behind it, or live output behind the replay's last.
Follows(f, g, sent, end) ==
  IsData(f) /\ IsData(g) => f[3] <= g[2] \/ (end <= g[2] /\ f[3] <= sent)
Ordered(q, sent, end) ==
  \A i, j \in 1 .. Len(q) : i < j => Follows(q[i], q[j], sent, end)
GoesAfter(q, g, sent, end) == \A i \in 1 .. Len(q) : Follows(q[i], g, sent, end)

\* A frame is behind the writer's position, in the replay or in the live output.
Passed(f, off, sent) == IsData(f) => f[3] <= off \/ f[3] <= sent
AllPassed(q, off, sent) == \A i \in 1 .. Len(q) : Passed(q[i], off, sent)

\* Where the writer stands: in the replay the live position is not set yet; then it is
\* behind the replay's end, or, where a leg was ended, behind what was replayed.
Standing(at, off, sent, end) ==
  IF at \in {"attached", "reset", "replay"} THEN off = 0 ELSE end <= off \/ sent <= off

\* What is out is in order, and what is torn goes on behind it; behind the position is
\* all but the chunk that the drain tries again. Not for a replaced leg.
OrderInv ==
  output.done \/ ~leg.removed =>
    /\ Ordered(got, leg.sent, leg.end)
    /\ leg.at # "exit" =>
         /\ GoesAfter(got, leg.torn, leg.sent, leg.end) /\ AllPassed(got, leg.off, leg.sent)
         /\ Standing(leg.at, leg.off, leg.sent, leg.end)
         /\ \/ Passed(leg.torn, leg.off, leg.sent)
            \/ leg.at = "drain" /\ leg.torn = Data(leg.off, ChunkEnd(leg.off)) /\ CaughtUp <= leg.off

ReceivedIn(q) == {u \in 0 .. MaxOut : \E i \in 1 .. Len(q) : IsData(q[i]) /\ u \in Units(q[i])}
Covered(from, to, q, skipped) == Skip(from, to) \subseteq ReceivedIn(q) \cup skipped

\* ENDED is the last frame, and only the end of the drain leads to it; the drain leaves
\* nothing behind but what it passes over.
TailInv ==
  /\ output.done \/ out.ended \/ leg.at \in {"drain", "end"} => leg.removed
  /\ leg.torn = Ended => leg.at \in {"end", "exit"}
  /\ \A i \in 1 .. Len(got) : got[i] = Ended =>
       /\ leg.at = "exit" /\ leg.removed /\ i = Len(got)
       /\ Covered(spent.from, IF output.done THEN output.written ELSE leg.off, got, spent.skipped)
  /\ leg.at \in {"drain", "end"} => Covered(spent.from, leg.off, got, spent.skipped)
  /\ leg.at = "end" /\ output.done => leg.off = output.written

LEMMA FrameShapes ==
  /\ Ended \in Frames /\ NoFrame \in Frames /\ Ended # NoFrame /\ ~IsData(Ended) /\ ~IsData(NoFrame)
  /\ \A f \in ControlFrames \cup {Attached, Reset, ReplayDone} :
       f \in Frames /\ ~IsData(f) /\ f # Ended /\ f # NoFrame
  /\ \A p, q \in 0 .. MaxOut :
       /\ Data(p, q) \in Frames /\ IsData(Data(p, q)) /\ Data(p, q)[2] = p /\ Data(p, q)[3] = q
       /\ Data(p, q) # Ended /\ Data(p, q) # NoFrame
  /\ \A f \in Frames : IsData(f) => f[2] \in 0 .. MaxOut /\ f[3] \in 0 .. MaxOut
<1>1. \A f : IsData(f) <=> f[1] = "data"
  BY DEF IsData
<1>2. ~IsData(Ended) /\ ~IsData(NoFrame) /\ Ended # NoFrame
  <2>1. Ended[1] = "ended" /\ NoFrame[1] = "none"
    BY DEF Ended, NoFrame
  <2> QED
    BY <1>1, <2>1
<1>3. ASSUME NEW f \in ControlFrames \cup {Attached, Reset, ReplayDone}
      PROVE  f \in Frames /\ ~IsData(f) /\ f # Ended /\ f # NoFrame
  <2>1. f[1] \in {"control", "attached", "reset", "replayed"}
    BY DEF ControlFrames, Control, Attached, Reset, ReplayDone
  <2>2. Ended[1] = "ended" /\ NoFrame[1] = "none"
    BY DEF Ended, NoFrame
  <2>3. f \in Frames
    BY DEF ControlFrames, Frames
  <2> QED
    BY <1>1, <2>1, <2>2, <2>3
<1>4. ASSUME NEW p \in 0 .. MaxOut, NEW q \in 0 .. MaxOut
      PROVE  /\ Data(p, q) \in Frames /\ IsData(Data(p, q)) /\ Data(p, q)[2] = p /\ Data(p, q)[3] = q
             /\ Data(p, q) # Ended /\ Data(p, q) # NoFrame
  <2>1. Data(p, q)[1] = "data" /\ Data(p, q)[2] = p /\ Data(p, q)[3] = q
    BY DEF Data
  <2>2. Data(p, q) \in Frames
    BY DEF Frames
  <2> QED
    BY <1>1, <1>2, <2>1, <2>2
<1>5. ASSUME NEW f \in Frames, IsData(f) PROVE f[2] \in 0 .. MaxOut /\ f[3] \in 0 .. MaxOut
  <2>1. f \in ControlFrames \cup {Attached, Reset, ReplayDone, Ended, NoFrame} \/ \E p, q \in 0 .. MaxOut : f = Data(p, q)
    BY DEF Frames, ControlFrames
  <2>2. PICK p \in 0 .. MaxOut, q \in 0 .. MaxOut : f = Data(p, q)
    BY <1>2, <1>3, <1>5, <2>1
  <2> QED
    BY <1>4, <2>2
<1>6. Ended \in Frames /\ NoFrame \in Frames
  BY DEF Frames
<1> QED
  BY <1>2, <1>3, <1>4, <1>5, <1>6

LEMMA BoundsOfLeg ==
  ASSUME LegTyped
  PROVE  /\ MaxOut \in Nat /\ output.written \in 0 .. MaxOut /\ leg.off \in 0 .. MaxOut
         /\ leg.sent \in 0 .. MaxOut /\ leg.end \in 0 .. MaxOut /\ leg.torn \in Frames
         /\ leg.removed \in BOOLEAN /\ output.done \in BOOLEAN /\ leg.at \in LegAts
         /\ leg.off <= output.written /\ leg.sent <= output.written /\ leg.end <= output.written
         /\ got \in Seq(Frames) /\ Len(got) \in Nat /\ \A i \in 1 .. Len(got) : got[i] \in Frames
         /\ spent.skipped \subseteq 0 .. MaxOut /\ spent.from \in 0 .. MaxOut
         /\ leg.items \in Seq(ControlFrames) /\ out.frames \in Seq(ControlFrames)
<1>1. MaxOut \in Nat
  BY TermLegBounds
<1>2. got \in Seq(Frames) /\ Len(got) \in Nat /\ \A i \in 1 .. Len(got) : got[i] \in Frames
  BY DEF LegTyped
<1> QED
  BY <1>1, <1>2 DEF LegTyped, LegRec, OutRec, SpentRec

LEMMA Chunks ==
  ASSUME LegTyped
  PROVE  /\ \A p \in 0 .. output.written :
              /\ ChunkEnd(p) \in 0 .. MaxOut /\ ChunkEnd(p) <= output.written /\ p <= ChunkEnd(p)
              /\ p < output.written => p < ChunkEnd(p)
         /\ CaughtUp \in 0 .. output.written /\ leg.off <= CaughtUp
         /\ Later(leg.sent, Oldest) \in 0 .. output.written /\ leg.sent <= Later(leg.sent, Oldest)
<1>1. MaxOut \in Nat /\ RingSize \in Nat /\ Replay \in Nat /\ Chunk \in Nat /\ Chunk # 0
  BY TermLegBounds, TermLegRing
<1>2. output.written \in 0 .. MaxOut /\ leg.off \in 0 .. output.written /\ leg.sent \in 0 .. output.written
  BY BoundsOfLeg
<1>3. ASSUME NEW p \in 0 .. output.written
      PROVE  /\ ChunkEnd(p) \in 0 .. MaxOut /\ ChunkEnd(p) <= output.written /\ p <= ChunkEnd(p)
             /\ p < output.written => p < ChunkEnd(p)
  BY <1>1, <1>2 DEF ChunkEnd
<1>4. CaughtUp \in 0 .. output.written /\ leg.off <= CaughtUp
  BY <1>1, <1>2 DEF CaughtUp, Later
<1>5. Later(leg.sent, Oldest) \in 0 .. output.written /\ leg.sent <= Later(leg.sent, Oldest)
  BY <1>1, <1>2 DEF Later, Oldest
<1> QED
  BY <1>3, <1>4, <1>5

\* A frame more.
LEMMA OneMore ==
  ASSUME NEW q \in Seq(Frames), NEW g \in Frames, NEW sent, NEW end, NEW off
  PROVE  /\ Append(q, g) \in Seq(Frames) /\ Len(Append(q, g)) = Len(q) + 1 /\ Len(q) \in Nat
         /\ q \o <<g>> = Append(q, g)
         /\ \A i \in 1 .. Len(Append(q, g)) :
              (i \in 1 .. Len(q) /\ Append(q, g)[i] = q[i]) \/ (i = Len(q) + 1 /\ Append(q, g)[i] = g)
         /\ \A i \in 1 .. Len(q) : Append(q, g)[i] = q[i]
         /\ Append(q, g)[Len(q) + 1] = g
         /\ Ordered(q, sent, end) /\ GoesAfter(q, g, sent, end) => Ordered(Append(q, g), sent, end)
         /\ AllPassed(q, off, sent) /\ Passed(g, off, sent) => AllPassed(Append(q, g), off, sent)
         /\ \A f : GoesAfter(q, f, sent, end) /\ Follows(g, f, sent, end) => GoesAfter(Append(q, g), f, sent, end)
         /\ ReceivedIn(q) \subseteq ReceivedIn(Append(q, g))
         /\ IsData(g) => Units(g) \subseteq ReceivedIn(Append(q, g))
<1> DEFINE p == Append(q, g)
           n == Len(q)
<1>1. /\ p \in Seq(Frames) /\ Len(p) = n + 1 /\ n \in Nat /\ p = q \o <<g>>
      /\ (\A i \in 1 .. n : p[i] = q[i]) /\ p[n + 1] = g
  BY AppendProperties, AppendIsConcat, LenProperties
<1> HIDE DEF p
<1>2. \A i \in 1 .. Len(p) : (i \in 1 .. n /\ p[i] = q[i]) \/ (i = n + 1 /\ p[i] = g)
  <2>1. \A i \in 1 .. n + 1 : i \in 1 .. n \/ i = n + 1
    BY <1>1
  <2> QED
    BY <1>1, <2>1
<1>3. \A i \in 1 .. n : i \in 1 .. Len(p)
  BY <1>1
<1>4. n + 1 \in 1 .. Len(p)
  BY <1>1
<1>5. ASSUME Ordered(q, sent, end), GoesAfter(q, g, sent, end) PROVE Ordered(p, sent, end)
  <2> SUFFICES ASSUME NEW i \in 1 .. Len(p), NEW j \in 1 .. Len(p), i < j
               PROVE  Follows(p[i], p[j], sent, end)
    BY DEF Ordered
  <2>1. i \in 1 .. n /\ p[i] = q[i]
    BY <1>1, <1>2
  <2>2. CASE j \in 1 .. n /\ p[j] = q[j]
    BY <1>5, <2>1, <2>2 DEF Ordered
  <2>3. CASE p[j] = g
    BY <1>5, <2>1, <2>3 DEF GoesAfter
  <2> QED
    BY <1>2, <2>2, <2>3
<1>6. AllPassed(q, off, sent) /\ Passed(g, off, sent) => AllPassed(p, off, sent)
  <2> SUFFICES ASSUME \A i \in 1 .. n : Passed(q[i], off, sent), Passed(g, off, sent), NEW i \in 1 .. Len(p)
               PROVE  Passed(p[i], off, sent)
    BY DEF AllPassed
  <2> QED
    BY <1>2
<1>7. ASSUME NEW f, GoesAfter(q, f, sent, end), Follows(g, f, sent, end) PROVE GoesAfter(p, f, sent, end)
  <2> SUFFICES ASSUME NEW i \in 1 .. Len(p) PROVE Follows(p[i], f, sent, end)
    BY DEF GoesAfter
  <2>1. CASE i \in 1 .. n /\ p[i] = q[i]
    BY <1>7, <2>1 DEF GoesAfter
  <2> QED
    BY <1>2, <1>7, <2>1
<1>8. ReceivedIn(q) \subseteq ReceivedIn(p)
  BY <1>1, <1>3 DEF ReceivedIn
<1>9. IsData(g) => Units(g) \subseteq ReceivedIn(p)
  <2>1. Units(g) \subseteq 0 .. MaxOut
    BY DEF Units, Skip
  <2> QED
    BY <1>1, <1>4, <2>1 DEF ReceivedIn
<1> QED
  BY <1>1, <1>2, <1>5, <1>6, <1>7, <1>8, <1>9 DEF p

\* The position goes forward.
LEMMA Forward ==
  ASSUME NEW q \in Seq(Frames), NEW g \in Frames, NEW sent \in Nat, NEW end \in Nat, NEW off \in Nat,
         NEW sent2 \in Nat, NEW off2 \in Nat, sent <= sent2, off <= off2
  PROVE  /\ Ordered(q, sent, end) => Ordered(q, sent2, end)
         /\ GoesAfter(q, g, sent, end) => GoesAfter(q, g, sent2, end)
         /\ AllPassed(q, off, sent) => AllPassed(q, off2, sent2)
         /\ Passed(g, off, sent) => Passed(g, off2, sent2)
<1>1. ASSUME NEW f \in Frames, NEW h \in Frames, Follows(f, h, sent, end) PROVE Follows(f, h, sent2, end)
  BY <1>1, FrameShapes DEF Follows
<1>2. ASSUME NEW f \in Frames, Passed(f, off, sent) PROVE Passed(f, off2, sent2)
  BY <1>2, FrameShapes DEF Passed
<1>3. \A i \in 1 .. Len(q) : q[i] \in Frames
  OBVIOUS
<1> QED
  BY <1>1, <1>2, <1>3 DEF Ordered, GoesAfter, AllPassed

\* Where a writer goes on, whatever becomes of what it writes.
SamePlace(r, s) ==
  /\ r.at = s.at /\ r.off = s.off /\ r.end = s.end /\ r.sent = s.sent /\ r.items = s.items
  /\ r.removed = s.removed
SameSpent(r, s) == r.skipped = s.skipped /\ r.from = s.from

\* A write of g is all out, torn, or did not begin: what the client then has (q), and
\* what is torn (t).
AllOut(g, q, t) ==
  t = NoFrame /\ q = IF leg.torn \in {NoFrame, g} THEN Append(got, g) ELSE Append(Append(got, leg.torn), g)
HalfOut(g, q, t) ==
  t = g /\ q = IF leg.torn \in {NoFrame, g} THEN got ELSE Append(got, leg.torn)
NotOut(g, q, t) == leg.torn \notin {NoFrame, g} /\ t = leg.torn /\ q = got

LegInv == LegTyped /\ OrderInv /\ TailInv

LEMMA DeliveredFrames ==
  ASSUME LegTyped, NEW g \in Frames
  PROVE  got \o Delivery(g) = IF leg.torn \in {NoFrame, g} THEN Append(got, g) ELSE Append(Append(got, leg.torn), g)
<1>1. NoFrame \in Frames /\ leg.torn \in Frames /\ got \in Seq(Frames)
  BY FrameShapes, BoundsOfLeg
<1>2. got \o <<g>> = Append(got, g) /\ got \o <<leg.torn, g>> = Append(Append(got, leg.torn), g)
  <2>1. got \o <<leg.torn, g>> = (got \o <<leg.torn>>) \o <<g>>
    <3>1. <<leg.torn>> \in Seq(Frames) /\ <<g>> \in Seq(Frames) /\ <<leg.torn, g>> = <<leg.torn>> \o <<g>>
      BY <1>1
    <3> QED
      BY <1>1, <3>1, ConcatAssociative
  <2>2. got \o <<leg.torn>> = Append(got, leg.torn) /\ Append(got, leg.torn) \in Seq(Frames)
    BY <1>1, AppendIsConcat, AppendProperties
  <2> QED
    BY <1>1, <2>1, <2>2, AppendIsConcat
<1>3. got \o Delivery(g) = IF leg.torn \in {NoFrame, g} THEN Append(got, g) ELSE Append(Append(got, leg.torn), g)
  <2>1. CASE leg.torn = NoFrame \/ leg.torn = g
    <3>1. Delivery(g) = <<g>>
      BY <2>1 DEF Delivery
    <3> QED
      BY <1>2, <2>1, <3>1
  <2>2. CASE leg.torn # NoFrame /\ leg.torn # g
    <3>1. Delivery(g) = <<leg.torn, g>>
      BY <2>2 DEF Delivery
    <3> QED
      BY <1>2, <2>2, <3>1
  <2> QED
    BY <2>1, <2>2
<1> QED
  BY <1>3

LEMMA DeliversEffect ==
  ASSUME LegTyped, NEW g \in Frames, NEW next \in LegRec, Delivers(g, next)
  PROVE  /\ conn' = conn /\ out' = out /\ spent' = spent /\ leg' \in LegRec /\ SamePlace(leg', next)
         /\ AllOut(g, got', leg'.torn)
<1>1. leg' = [next EXCEPT !.torn = NoFrame] /\ got' = got \o Delivery(g)
  BY DEF Delivers
<1>2. NoFrame \in Frames /\ leg.torn \in Frames /\ got \in Seq(Frames)
  BY FrameShapes, BoundsOfLeg
<1>3. leg' \in LegRec /\ SamePlace(leg', next) /\ leg'.torn = NoFrame
  BY <1>1, <1>2 DEF LegRec, SamePlace
<1>4. got' = IF leg.torn \in {NoFrame, g} THEN Append(got, g) ELSE Append(Append(got, leg.torn), g)
  BY <1>1, DeliveredFrames
<1>5. conn' = conn /\ out' = out /\ spent' = spent
  BY DEF Delivers
<1> QED
  BY <1>3, <1>4, <1>5 DEF AllOut

LEMMA TimesOutEffect ==
  ASSUME LegTyped, NEW g \in Frames, NEW next \in LegRec, next.torn = leg.torn, TimesOut(g, next)
  PROVE  /\ conn' = conn /\ out' = out /\ spent' \in SpentRec /\ SameSpent(spent', spent)
         /\ leg' \in LegRec /\ SamePlace(leg', next)
         /\ HalfOut(g, got', leg'.torn) \/ NotOut(g, got', leg'.torn)
<1>1. spent' \in SpentRec /\ SameSpent(spent', spent)
  <2>1. spent \in SpentRec
    BY DEF LegTyped
  <2>2. \A n \in Nat : [spent EXCEPT !.timeouts = n] \in SpentRec /\ SameSpent([spent EXCEPT !.timeouts = n], spent)
    BY <2>1 DEF SpentRec, SameSpent
  <2>3. spent.timeouts + 1 \in Nat
    BY <2>1 DEF SpentRec
  <2> QED
    BY <2>2, <2>3 DEF TimesOut
<1>2. conn' = conn /\ out' = out
  BY DEF TimesOut
<1>3. CASE /\ leg' = [next EXCEPT !.torn = g, !.stalled = TRUE]
           /\ got' = IF leg.torn \in {NoFrame, g} THEN got ELSE Append(got, leg.torn)
  <2>1. leg' \in LegRec /\ SamePlace(leg', next) /\ leg'.torn = g
    BY <1>3 DEF LegRec, SamePlace
  <2> QED
    BY <1>1, <1>2, <1>3, <2>1 DEF HalfOut
<1>4. CASE /\ leg.torn \notin {NoFrame, g} /\ leg' = [next EXCEPT !.stalled = TRUE] /\ got' = got
  <2>1. leg' \in LegRec /\ SamePlace(leg', next) /\ leg'.torn = leg.torn
    BY <1>4 DEF LegRec, SamePlace
  <2> QED
    BY <1>1, <1>2, <1>4, <2>1 DEF NotOut
<1> QED
  BY <1>3, <1>4 DEF TimesOut

LEMMA FailsEffect ==
  ASSUME LegTyped, Fails
  PROVE  /\ leg' \in LegRec /\ leg'.at = "exit" /\ leg'.removed = TRUE /\ leg'.off = leg.off
         /\ leg'.sent = leg.sent /\ leg'.end = leg.end /\ leg'.torn = leg.torn
         /\ got' = got /\ spent' = spent /\ conn' = "closed" /\ out' \in OutRec
<1>1. /\ leg' = [leg EXCEPT !.at = "exit", !.removed = TRUE] /\ out' = [out EXCEPT !.quit = TRUE]
      /\ got' = got /\ spent' = spent /\ conn' = "closed"
  BY DEF Fails, Breaks
<1>2. out' \in OutRec
  BY <1>1 DEF LegTyped, OutRec
<1>3. /\ leg' \in LegRec /\ leg'.at = "exit" /\ leg'.removed = TRUE /\ leg'.off = leg.off
      /\ leg'.sent = leg.sent /\ leg'.end = leg.end /\ leg'.torn = leg.torn
  BY <1>1 DEF LegTyped, LegRec, LegAts
<1> QED
  BY <1>1, <1>2, <1>3

\* What is written keeps the order, whatever becomes of it.
LEMMA WrittenInOrder ==
  ASSUME LegTyped, NEW g \in Frames, NEW q, NEW t, NEW off2 \in Nat, NEW sent2 \in Nat,
         leg.off <= off2, leg.sent <= sent2,
         AllOut(g, q, t) \/ HalfOut(g, q, t) \/ NotOut(g, q, t),
         Ordered(got, leg.sent, leg.end), GoesAfter(got, leg.torn, leg.sent, leg.end),
         AllPassed(got, leg.off, leg.sent), GoesAfter(got, g, leg.sent, leg.end), AllOut(g, q, t) => Passed(g, off2, sent2),
         leg.torn # g => Passed(leg.torn, leg.off, leg.sent) /\ Follows(leg.torn, g, leg.sent, leg.end)
  PROVE  /\ Ordered(q, sent2, leg.end) /\ GoesAfter(q, t, sent2, leg.end)
         /\ AllPassed(q, off2, sent2) /\ (Passed(t, off2, sent2) \/ t = g)
<1>0. /\ got \in Seq(Frames) /\ leg.torn \in Frames /\ leg.sent \in Nat /\ leg.end \in Nat /\ leg.off \in Nat
      /\ NoFrame \in Frames /\ ~IsData(NoFrame)
  BY BoundsOfLeg, FrameShapes
<1>1. /\ Ordered(got, sent2, leg.end) /\ GoesAfter(got, leg.torn, sent2, leg.end)
      /\ AllPassed(got, off2, sent2) /\ GoesAfter(got, g, sent2, leg.end)
  BY <1>0, Forward
<1>2. leg.torn # g => Passed(leg.torn, off2, sent2) /\ Follows(leg.torn, g, sent2, leg.end)
  <2>1. Passed(leg.torn, leg.off, leg.sent) => Passed(leg.torn, off2, sent2)
    BY <1>0, Forward
  <2>2. Follows(leg.torn, g, leg.sent, leg.end) => Follows(leg.torn, g, sent2, leg.end)
    BY <1>0, FrameShapes DEF Follows
  <2> QED
    BY <2>1, <2>2
<1>3. \A p : GoesAfter(p, NoFrame, sent2, leg.end) /\ Passed(NoFrame, off2, sent2)
  BY <1>0 DEF GoesAfter, Follows, Passed
<1>4. /\ Ordered(Append(got, g), sent2, leg.end)
      /\ Passed(g, off2, sent2) => AllPassed(Append(got, g), off2, sent2)
  BY <1>0, <1>1, OneMore
<1>5. ASSUME leg.torn # g
      PROVE  /\ Ordered(Append(got, leg.torn), sent2, leg.end) /\ AllPassed(Append(got, leg.torn), off2, sent2)
             /\ GoesAfter(Append(got, leg.torn), g, sent2, leg.end)
             /\ Append(got, leg.torn) \in Seq(Frames)
  BY <1>0, <1>1, <1>2, <1>5, OneMore
<1>6. ASSUME leg.torn # g
      PROVE  /\ Ordered(Append(Append(got, leg.torn), g), sent2, leg.end)
             /\ Passed(g, off2, sent2) => AllPassed(Append(Append(got, leg.torn), g), off2, sent2)
  <2>1. PICK p : p = Append(got, leg.torn)
    OBVIOUS
  <2>2. /\ Ordered(p, sent2, leg.end) /\ AllPassed(p, off2, sent2)
        /\ GoesAfter(p, g, sent2, leg.end) /\ p \in Seq(Frames)
    BY <1>5, <1>6, <2>1
  <2>3. /\ Ordered(Append(p, g), sent2, leg.end)
        /\ Passed(g, off2, sent2) => AllPassed(Append(p, g), off2, sent2)
    BY <2>2, OneMore
  <2> QED
    BY <2>1, <2>3
<1>7. CASE AllOut(g, q, t)
  BY <1>3, <1>4, <1>6, <1>7 DEF AllOut
<1>8. CASE HalfOut(g, q, t)
  BY <1>1, <1>5, <1>8 DEF HalfOut
<1>9. CASE NotOut(g, q, t)
  BY <1>1, <1>2, <1>9 DEF NotOut
<1> QED
  BY <1>7, <1>8, <1>9

\* What is written, ENDED apart, and what the client has then received.
LEMMA WrittenFrames ==
  ASSUME LegTyped, NEW g \in Frames, NEW q, NEW t,
         AllOut(g, q, t) \/ HalfOut(g, q, t) \/ NotOut(g, q, t)
  PROVE  /\ q \in Seq(Frames) /\ t \in Frames /\ ReceivedIn(got) \subseteq ReceivedIn(q)
         /\ AllOut(g, q, t) /\ IsData(g) => Units(g) \subseteq ReceivedIn(q)
         /\ g # Ended /\ leg.torn # Ended /\ (\A i \in 1 .. Len(got) : got[i] # Ended) =>
              t # Ended /\ \A i \in 1 .. Len(q) : q[i] # Ended
         /\ (leg.torn # Ended \/ g = Ended) /\ (\A i \in 1 .. Len(got) : got[i] # Ended) =>
              \A i \in 1 .. Len(q) : q[i] = Ended => i = Len(q) /\ AllOut(g, q, t)
<1>0. got \in Seq(Frames) /\ leg.torn \in Frames /\ NoFrame \in Frames /\ NoFrame # Ended
  BY BoundsOfLeg, FrameShapes
<1>1. ASSUME NEW p \in Seq(Frames), NEW f \in Frames
      PROVE  /\ Append(p, f) \in Seq(Frames) /\ ReceivedIn(p) \subseteq ReceivedIn(Append(p, f))
             /\ IsData(f) => Units(f) \subseteq ReceivedIn(Append(p, f))
             /\ (\A i \in 1 .. Len(p) : p[i] # Ended) =>
                  \A i \in 1 .. Len(Append(p, f)) : Append(p, f)[i] = Ended => i = Len(Append(p, f)) /\ f = Ended
  <2>1. /\ Append(p, f) \in Seq(Frames) /\ Len(Append(p, f)) = Len(p) + 1
        /\ \A i \in 1 .. Len(Append(p, f)) :
              (i \in 1 .. Len(p) /\ Append(p, f)[i] = p[i]) \/ (i = Len(p) + 1 /\ Append(p, f)[i] = f)
        /\ ReceivedIn(p) \subseteq ReceivedIn(Append(p, f))
        /\ IsData(f) => Units(f) \subseteq ReceivedIn(Append(p, f))
    BY OneMore
  <2> QED
    BY <2>1
<1>2. PICK p1, p2, p3 : /\ p1 = Append(got, g) /\ p2 = Append(got, leg.torn)
                        /\ p3 = Append(p2, g)
  OBVIOUS
<1>3. p1 \in Seq(Frames) /\ ReceivedIn(got) \subseteq ReceivedIn(p1) /\ (IsData(g) => Units(g) \subseteq ReceivedIn(p1))
      /\ ((\A i \in 1 .. Len(got) : got[i] # Ended) => \A i \in 1 .. Len(p1) : p1[i] = Ended => i = Len(p1) /\ g = Ended)
  BY <1>0, <1>1, <1>2
<1>4. p2 \in Seq(Frames) /\ ReceivedIn(got) \subseteq ReceivedIn(p2)
      /\ (leg.torn # Ended /\ (\A i \in 1 .. Len(got) : got[i] # Ended) => \A i \in 1 .. Len(p2) : p2[i] # Ended)
  BY <1>0, <1>1, <1>2
<1>5. p3 \in Seq(Frames) /\ ReceivedIn(p2) \subseteq ReceivedIn(p3) /\ (IsData(g) => Units(g) \subseteq ReceivedIn(p3))
      /\ ((\A i \in 1 .. Len(p2) : p2[i] # Ended) => \A i \in 1 .. Len(p3) : p3[i] = Ended => i = Len(p3) /\ g = Ended)
  BY <1>1, <1>2, <1>4
<1>6. CASE AllOut(g, q, t)
  BY <1>0, <1>2, <1>3, <1>4, <1>5, <1>6 DEF AllOut
<1>7. CASE ~AllOut(g, q, t) /\ HalfOut(g, q, t)
  BY <1>0, <1>2, <1>4, <1>7 DEF HalfOut
<1>8. CASE ~AllOut(g, q, t) /\ NotOut(g, q, t)
  BY <1>0, <1>8 DEF NotOut
<1> QED
  BY <1>6, <1>7, <1>8

\* A write fails, is over, or goes on where it is to.
LEMMA RawWriteEffect ==
  ASSUME LegTyped, NEW g \in Frames, NEW next \in LegRec, next.torn = leg.torn, RawWrite(g, next), ~Fails
  PROVE  /\ conn' = conn /\ out' = out /\ spent' \in SpentRec /\ SameSpent(spent', spent)
         /\ leg' \in LegRec /\ SamePlace(leg', next)
         /\ AllOut(g, got', leg'.torn) \/ HalfOut(g, got', leg'.torn) \/ NotOut(g, got', leg'.torn)
<1> DEFINE calm == [next EXCEPT !.stalled = FALSE]
<1>1. calm \in LegRec /\ SamePlace(calm, next)
  BY DEF LegRec, SamePlace
<1> HIDE DEF calm
<1>2. CASE Delivers(g, calm)
  <2>1. /\ conn' = conn /\ out' = out /\ spent' = spent /\ leg' \in LegRec /\ SamePlace(leg', calm)
        /\ AllOut(g, got', leg'.torn)
    BY <1>1, <1>2, DeliversEffect
  <2>2. SamePlace(leg', next)
    BY <1>1, <2>1 DEF SamePlace
  <2>3. spent' \in SpentRec /\ SameSpent(spent', spent)
    BY <2>1 DEF LegTyped, SameSpent
  <2> QED
    BY <2>1, <2>2, <2>3
<1>3. CASE TimesOut(g, next)
  BY <1>3, TimesOutEffect
<1> QED
  BY <1>2, <1>3 DEF RawWrite, calm

\* A leg that breaks keeps all that was said of it.
LEMMA BreakKeeps ==
  ASSUME LegInv, Fails, output' = output
  PROVE  LegInv'
<1>1. /\ leg' \in LegRec /\ leg'.at = "exit" /\ leg'.removed = TRUE /\ leg'.off = leg.off
      /\ leg'.sent = leg.sent /\ leg'.end = leg.end /\ leg'.torn = leg.torn
      /\ got' = got /\ spent' = spent /\ conn' = "closed" /\ out' \in OutRec
  BY FailsEffect DEF LegInv
<1>2. LegTyped'
  BY <1>1 DEF LegInv, LegTyped
<1>3. OrderInv'
  BY <1>1 DEF LegInv, OrderInv
<1>4. TailInv'
  <2>1. \A from, to : Covered(from, to, got, spent.skipped)' <=> Covered(from', to', got, spent.skipped)
    BY <1>1 DEF Covered, ReceivedIn
  <2>2. \A i \in 1 .. Len(got) : got[i] = Ended =>
          i = Len(got) /\ Covered(spent.from, IF output.done THEN output.written ELSE leg.off, got, spent.skipped)
    BY DEF LegInv, TailInv
  <2> QED
    BY <1>1, <2>2 DEF TailInv
<1> QED
  BY <1>2, <1>3, <1>4 DEF LegInv

\* The writer writes g, in the handshake or in the live output.
LEMMA WriteKeeps ==
  ASSUME LegInv, output' = output, NEW g \in Frames, g # Ended, NEW next \in LegRec, RawWrite(g, next),
         leg.at \notin {"drain", "end", "exit"}, next.at \notin {"drain", "end", "exit"},
         next.torn = leg.torn, next.removed = leg.removed, next.end = leg.end,
         leg.off <= next.off, next.off <= output.written, leg.sent <= next.sent, next.sent <= output.written,
         output.done \/ ~leg.removed =>
           /\ Standing(next.at, next.off, next.sent, leg.end)
           /\ GoesAfter(got, g, leg.sent, leg.end) /\ Passed(g, next.off, next.sent)
           /\ Follows(leg.torn, g, leg.sent, leg.end)
  PROVE  LegInv'
<1>0. LegTyped /\ OrderInv /\ TailInv
  BY DEF LegInv
<1>1. CASE Fails
  BY <1>1, BreakKeeps
<1>2. CASE ~Fails
  <2>1. /\ conn' = conn /\ out' = out /\ spent' \in SpentRec /\ SameSpent(spent', spent)
        /\ leg' \in LegRec /\ SamePlace(leg', next)
        /\ AllOut(g, got', leg'.torn) \/ HalfOut(g, got', leg'.torn) \/ NotOut(g, got', leg'.torn)
    BY <1>0, <1>2, RawWriteEffect
  <2>2. /\ leg'.at = next.at /\ leg'.off = next.off /\ leg'.end = leg.end /\ leg'.sent = next.sent
        /\ leg'.removed = leg.removed
    BY <2>1 DEF SamePlace
  <2>3. leg.torn # Ended /\ \A i \in 1 .. Len(got) : got[i] # Ended
    BY <1>0 DEF TailInv
  <2>4. /\ got' \in Seq(Frames) /\ leg'.torn # Ended /\ \A i \in 1 .. Len(got') : got'[i] # Ended
    BY <1>0, <2>1, <2>3, WrittenFrames
  <2>5. next.off \in Nat /\ next.sent \in Nat
    BY BoundsOfLeg, <1>0 DEF LegRec
  <2>6. LegTyped'
    BY <1>0, <2>1, <2>2, <2>4 DEF LegTyped
  <2>7. OrderInv'
    <3> SUFFICES ASSUME output.done \/ ~leg.removed
                 PROVE  /\ Ordered(got', next.sent, leg.end)
                        /\ GoesAfter(got', leg'.torn, next.sent, leg.end) /\ AllPassed(got', next.off, next.sent)
                        /\ Standing(next.at, next.off, next.sent, leg.end)
                        /\ Passed(leg'.torn, next.off, next.sent)
      BY <2>2 DEF OrderInv
    <3>1. /\ Ordered(got, leg.sent, leg.end) /\ GoesAfter(got, leg.torn, leg.sent, leg.end)
          /\ AllPassed(got, leg.off, leg.sent) /\ Passed(leg.torn, leg.off, leg.sent)
      BY <1>0 DEF OrderInv
    <3>2. /\ Ordered(got', next.sent, leg.end) /\ GoesAfter(got', leg'.torn, next.sent, leg.end)
          /\ AllPassed(got', next.off, next.sent) /\ (Passed(leg'.torn, next.off, next.sent) \/ leg'.torn = g)
      BY <1>0, <2>1, <2>5, <3>1, WrittenInOrder
    <3> QED
      BY <3>2
  <2>8. TailInv'
    BY <1>0, <2>1, <2>2, <2>4 DEF TailInv
  <2> QED
    BY <2>6, <2>7, <2>8 DEF LegInv
<1> QED
  BY <1>1, <1>2

\* A step that writes nothing and only moves the writer on.
LEMMA OrderGoesOn ==
  ASSUME LegInv, LegTyped', output' = output, got' = got, leg'.torn = leg.torn, leg'.end = leg.end,
         leg'.removed = leg.removed, leg.off <= leg'.off, leg.sent <= leg'.sent,
         leg'.at # "exit" /\ (output.done \/ ~leg.removed) =>
            /\ leg.at # "exit" /\ Standing(leg'.at, leg'.off, leg'.sent, leg.end)
            /\ leg.at # "drain" \/ Passed(leg.torn, leg'.off, leg'.sent)
  PROVE  OrderInv'
<1>0. LegTyped /\ OrderInv
  BY DEF LegInv
<1>1. /\ got \in Seq(Frames) /\ leg.torn \in Frames /\ leg.sent \in Nat /\ leg.end \in Nat /\ leg.off \in Nat
      /\ leg'.off \in Nat /\ leg'.sent \in Nat
  BY <1>0, BoundsOfLeg DEF LegTyped, LegRec
<1>2. /\ Ordered(got, leg.sent, leg.end) => Ordered(got, leg'.sent, leg.end)
      /\ GoesAfter(got, leg.torn, leg.sent, leg.end) => GoesAfter(got, leg.torn, leg'.sent, leg.end)
      /\ AllPassed(got, leg.off, leg.sent) => AllPassed(got, leg'.off, leg'.sent)
      /\ Passed(leg.torn, leg.off, leg.sent) => Passed(leg.torn, leg'.off, leg'.sent)
  BY <1>1, Forward
<1> SUFFICES ASSUME output.done \/ ~leg.removed
             PROVE  /\ Ordered(got, leg'.sent, leg.end)
                    /\ leg'.at # "exit" =>
                         /\ GoesAfter(got, leg.torn, leg'.sent, leg.end) /\ AllPassed(got, leg'.off, leg'.sent)
                         /\ Standing(leg'.at, leg'.off, leg'.sent, leg.end)
                         /\ Passed(leg.torn, leg'.off, leg'.sent)
  BY DEF OrderInv
<1> QED
  BY <1>0, <1>2 DEF OrderInv

LEMMA TailGoesOn ==
  ASSUME LegInv, LegTyped', output' = output, got' = got, leg'.torn = leg.torn, leg'.removed = leg.removed,
         out'.ended = out.ended, leg.at \notin {"drain", "end", "exit"}, leg'.at # "end",
         leg'.at = "drain" => leg.removed /\ spent'.from = leg'.off
  PROVE  TailInv'
<1>1. leg.torn # Ended /\ \A i \in 1 .. Len(got) : got[i] # Ended
  BY DEF LegInv, TailInv
<1>2. leg'.at = "drain" => Covered(spent'.from, leg'.off, got', spent'.skipped)
  BY DEF Covered, Skip, LegTyped, LegRec
<1>3. output.done \/ out.ended => leg.removed
  BY DEF LegInv, TailInv
<1> QED
  BY <1>1, <1>2, <1>3 DEF TailInv

\* The leg as it is, but for where the writer stands.
LegAs(r, at, off, sent) ==
  /\ r \in LegRec /\ r.at = at /\ r.off = off /\ r.sent = sent /\ r.end = leg.end
  /\ r.torn = leg.torn /\ r.removed = leg.removed

LEMMA GoesTo ==
  ASSUME LegTyped, NEW at \in LegAts
  PROVE  LegAs(Goes(at), at, leg.off, leg.sent)
BY DEF LegTyped, LegRec, Goes, LegAs

LEMMA SentTo ==
  ASSUME LegTyped, NEW n \in 0 .. MaxOut
  PROVE  LegAs([leg EXCEPT !.sent = n], leg.at, leg.off, n)
BY DEF LegTyped, LegRec, LegAs

LEMMA OffTo ==
  ASSUME LegTyped, NEW n \in 0 .. MaxOut
  PROVE  LegAs([leg EXCEPT !.off = n], leg.at, n, leg.sent)
BY DEF LegTyped, LegRec, LegAs

LEMMA AtOffTo ==
  ASSUME LegTyped, NEW n \in 0 .. MaxOut, NEW at \in LegAts
  PROVE  LegAs([leg EXCEPT !.at = at, !.off = n], at, n, leg.sent)
BY DEF LegTyped, LegRec, LegAs

LEMMA AtItems ==
  ASSUME LegTyped, NEW q \in Seq(ControlFrames), NEW at \in LegAts
  PROVE  /\ LegAs([leg EXCEPT !.at = at, !.items = q], at, leg.off, leg.sent)
         /\ LegAs([leg EXCEPT !.items = q], leg.at, leg.off, leg.sent)
BY DEF LegTyped, LegRec, LegAs

LEMMA SkippedTyped ==
  ASSUME LegTyped, NEW a, NEW b, Passes(a, b)
  PROVE  spent' \in SpentRec /\ spent'.from = spent.from /\ spent'.skipped = spent.skipped \cup Skip(a, b)
<1>1. Skip(a, b) \subseteq 0 .. MaxOut /\ spent \in SpentRec
  BY DEF Skip, LegTyped
<1> DEFINE s == spent.skipped \cup Skip(a, b)
<1>2. s \in SUBSET (0 .. MaxOut)
  BY <1>1 DEF SpentRec
<1>3. spent' = [spent EXCEPT !.skipped = s]
  BY DEF Passes
<1> HIDE DEF s
<1>4. spent' \in SpentRec /\ spent'.from = spent.from /\ spent'.skipped = s
  BY <1>1, <1>2, <1>3 DEF SpentRec
<1> QED
  BY <1>4 DEF s

\* A frame that is not data.
LEMMA ControlFits ==
  ASSUME LegTyped, NEW g \in ControlFrames \cup {Attached, Reset, ReplayDone}
  PROVE  /\ g \in Frames /\ g # Ended
         /\ \A off, sent : Passed(g, off, sent)
         /\ \A sent, end : GoesAfter(got, g, sent, end) /\ Follows(leg.torn, g, sent, end)
BY FrameShapes DEF GoesAfter, Follows, Passed

\* A chunk of the ring, at the position or in the replay.
LEMMA ChunkFits ==
  ASSUME LegTyped, NEW p \in 0 .. output.written, p = leg.off \/ p = leg.sent,
         AllPassed(got, leg.off, leg.sent), Passed(leg.torn, leg.off, leg.sent),
         p = leg.sent => leg.off <= leg.sent,
         p = leg.off => leg.end <= leg.off \/ leg.sent <= leg.off
  PROVE  /\ GoesAfter(got, Data(p, ChunkEnd(p)), leg.sent, leg.end)
         /\ Follows(leg.torn, Data(p, ChunkEnd(p)), leg.sent, leg.end)
<1>1. /\ leg.off \in Nat /\ leg.sent \in Nat /\ leg.end \in Nat /\ leg.torn \in Frames /\ p \in 0 .. MaxOut
      /\ \A i \in 1 .. Len(got) : got[i] \in Frames
  BY BoundsOfLeg
<1>2. ChunkEnd(p) \in 0 .. MaxOut
  BY Chunks
<1>3. Data(p, ChunkEnd(p))[2] = p
  BY <1>1, <1>2, FrameShapes
<1>4. ASSUME NEW f \in Frames, Passed(f, leg.off, leg.sent)
      PROVE  Follows(f, Data(p, ChunkEnd(p)), leg.sent, leg.end)
  <2> SUFFICES ASSUME IsData(f) PROVE f[3] <= p \/ (leg.end <= p /\ f[3] <= leg.sent)
    BY <1>3 DEF Follows
  <2>1. f[3] \in Nat
    BY FrameShapes
  <2>2. f[3] <= leg.off \/ f[3] <= leg.sent
    BY <1>4 DEF Passed
  <2> QED
    BY <1>1, <2>1, <2>2
<1> QED
  BY <1>1, <1>4 DEF GoesAfter, AllPassed

-----------------------------------------------------------------------------

LEMMA HandshakeKeeps ==
  ASSUME LegInv, SendsAttached \/ SendsReset \/ SendsReplayDone
  PROVE  LegInv'
<1>0. LegTyped /\ OrderInv /\ output' = output
  BY DEF LegInv, SendsAttached, SendsReset, SendsReplayDone
<1>1. PICK g, at : /\ g \in {Attached, Reset, ReplayDone} /\ at \in {"reset", "replay", "live"}
                   /\ RawWrite(g, Goes(at)) /\ leg.at \in {"attached", "reset", "replayed"}
                   /\ (at = "live" <=> leg.at = "replayed")
  BY DEF SendsAttached, SendsReset, SendsReplayDone
<1>2. at \in LegAts
  BY <1>1 DEF LegAts
<1>3. LegAs(Goes(at), at, leg.off, leg.sent)
  BY <1>0, <1>2, GoesTo
<1>4. /\ g \in Frames /\ g # Ended
      /\ \A off, sent : Passed(g, off, sent)
      /\ \A sent, end : GoesAfter(got, g, sent, end) /\ Follows(leg.torn, g, sent, end)
  BY <1>0, <1>1, ControlFits
<1>5. output.done \/ ~leg.removed => Standing(at, leg.off, leg.sent, leg.end)
  BY <1>0, <1>1 DEF OrderInv, Standing
<1>6. PICK next : next = Goes(at)
  OBVIOUS
<1>7. RawWrite(g, next) /\ LegAs(next, at, leg.off, leg.sent)
  BY <1>1, <1>3, <1>6
<1>8. /\ leg.off <= leg.off /\ leg.sent <= leg.sent /\ leg.off <= output.written /\ leg.sent <= output.written
  BY <1>0, BoundsOfLeg
<1> QED
  BY <1>0, <1>1, <1>4, <1>5, <1>7, <1>8, WriteKeeps DEF LegAs

LEMMA ReplayKeeps ==
  ASSUME LegInv, SendsReplay
  PROVE  LegInv'
<1> DEFINE from == Later(leg.sent, Oldest)
<1>0. /\ LegTyped /\ OrderInv /\ output' = output /\ leg.at = "replay" /\ leg.sent < leg.end
      /\ ~leg.removed /\ ~output.done
  BY DEF LegInv, SendsReplay
<1>1. /\ MaxOut \in Nat /\ output.written \in 0 .. MaxOut /\ leg.off \in Nat /\ leg.sent \in Nat
      /\ leg.off <= output.written /\ leg.sent <= output.written
  BY <1>0, BoundsOfLeg
<1>2. from \in 0 .. output.written /\ leg.sent <= from
  BY <1>0, Chunks
<1>3. leg.off = 0 /\ AllPassed(got, leg.off, leg.sent) /\ Passed(leg.torn, leg.off, leg.sent)
  BY <1>0 DEF OrderInv, Standing
<1>4. CASE leg.sent < from
  <2>1. /\ leg' = [leg EXCEPT !.sent = from] /\ Passes(leg.sent, from)
        /\ out' = out /\ conn' = conn /\ got' = got
    BY <1>4 DEF SendsReplay
  <2>2. from \in 0 .. MaxOut
    BY <1>1, <1>2
  <2> HIDE DEF from
  <2>3. LegAs(leg', leg.at, leg.off, from)
    BY <1>0, <2>1, <2>2, SentTo
  <2>4. spent' \in SpentRec
    BY <1>0, <2>1, SkippedTyped
  <2>5. LegTyped'
    BY <1>0, <1>2, <2>1, <2>3, <2>4 DEF LegTyped, LegAs
  <2>6. Standing(leg'.at, leg'.off, leg'.sent, leg.end)
    BY <1>0, <1>3, <2>3 DEF Standing, LegAs
  <2>7. OrderInv'
    BY <1>0, <1>1, <1>2, <2>1, <2>3, <2>5, <2>6, OrderGoesOn DEF LegAs
  <2>8. TailInv'
    BY <1>0, <2>1, <2>3, <2>5, TailGoesOn DEF LegAs
  <2> QED
    BY <2>5, <2>7, <2>8 DEF LegInv
<1>5. CASE from = leg.sent
  <2> DEFINE to == ChunkEnd(leg.sent)
             g == Data(leg.sent, to)
             next == [leg EXCEPT !.sent = to]
  <2>1. RawWrite(g, next)
    BY <1>1, <1>5 DEF SendsReplay
  <2>2. to \in 0 .. MaxOut /\ to <= output.written /\ leg.sent <= to
    BY <1>0, <1>1, Chunks
  <2>3. LegAs(next, leg.at, leg.off, to)
    BY <1>0, <2>2, SentTo
  <2>4. g \in Frames /\ g # Ended /\ g[3] = to
    <3>1. leg.sent \in 0 .. MaxOut
      BY <1>1
    <3> QED
      BY <2>2, <3>1, FrameShapes
  <2>5. GoesAfter(got, g, leg.sent, leg.end) /\ Follows(leg.torn, g, leg.sent, leg.end)
    <3>1. leg.sent \in 0 .. output.written /\ leg.off <= leg.sent /\ (leg.sent = leg.off => leg.sent <= leg.off)
      BY <1>1, <1>3
    <3> QED
      BY <1>0, <1>3, <3>1, ChunkFits
  <2>6. Passed(g, leg.off, to)
    BY <2>2, <2>4 DEF Passed
  <2>7. Standing(leg.at, leg.off, to, leg.end)
    BY <1>0, <1>3 DEF Standing
  <2> HIDE DEF to, g, next
  <2> QED
    BY <1>0, <1>1, <2>1, <2>2, <2>3, <2>4, <2>5, <2>6, <2>7, WriteKeeps DEF LegAs
<1> QED
  BY <1>1, <1>2, <1>4, <1>5

LEMMA ReplayEndKeeps ==
  ASSUME LegInv, ReplayEnds
  PROVE  LegInv'
<1>0. /\ LegTyped /\ OrderInv /\ output' = output /\ leg.at = "replay"
      /\ out' = out /\ conn' = conn /\ got' = got
  BY DEF LegInv, ReplayEnds
<1>1. /\ MaxOut \in Nat /\ output.written \in 0 .. MaxOut /\ leg.off \in 0 .. MaxOut /\ leg.sent \in 0 .. MaxOut
      /\ leg.off <= output.written /\ leg.sent <= output.written /\ leg.end \in 0 .. MaxOut
      /\ leg.end <= output.written
  BY <1>0, BoundsOfLeg
<1>2. PICK n \in {leg.sent, leg.end} :
        leg' = [leg EXCEPT !.at = "replayed", !.off = n] /\ spent' \in SpentRec
  <2>1. spent \in SpentRec
    BY <1>0 DEF LegTyped
  <2>2. Passes(leg.sent, leg.end) => spent' \in SpentRec
    BY <1>0, SkippedTyped
  <2> QED
    BY <2>1, <2>2 DEF ReplayEnds
<1>3. n \in 0 .. MaxOut /\ n <= output.written /\ "replayed" \in LegAts
  BY <1>1 DEF LegAts
<1>4. LegAs(leg', "replayed", n, leg.sent)
  BY <1>0, <1>2, <1>3, AtOffTo
<1>5. LegTyped'
  BY <1>0, <1>2, <1>3, <1>4 DEF LegTyped, LegAs
<1>6. OrderInv'
  <2>1. CASE output.done \/ ~leg.removed
    <3>1. leg.off = 0
      BY <1>0, <2>1 DEF OrderInv, Standing
    <3>2. Standing("replayed", n, leg.sent, leg.end)
      BY <1>1 DEF Standing
    <3>3. leg.off <= n /\ leg.sent <= leg.sent
      BY <1>1, <3>1
    <3> QED
      BY <1>0, <1>4, <1>5, <3>2, <3>3, OrderGoesOn DEF LegAs
  <2>2. CASE ~output.done /\ leg.removed
    BY <1>0, <1>4, <2>2 DEF OrderInv, LegAs
  <2> QED
    BY <2>1, <2>2
<1>7. TailInv'
  BY <1>0, <1>4, <1>5, TailGoesOn DEF LegAs
<1> QED
  BY <1>5, <1>6, <1>7 DEF LegInv

\* take(): control frames, how the leg is to end, or nothing.
TakesOver ==
  \/ \E at \in {"items", "last items"} : TakesFrames(at)
  \/ TakesEnded \/ TakesQuit
  \/ \E at \in {"peek"} : TakesNothing(at)

LEMMA TakenKeeps ==
  ASSUME LegInv, leg.at \in {"live", "peek"}, output' = output, got' = got, TakesOver
  PROVE  LegInv'
<1>0. LegTyped /\ OrderInv /\ TailInv
  BY DEF LegInv
<1>1. /\ leg.off <= leg.off /\ leg.sent <= leg.sent
      /\ \A at \in LegAts \ {"attached", "reset", "replay"} :
           output.done \/ ~leg.removed => Standing(at, leg.off, leg.sent, leg.end)
  <2>1. leg.off \in Nat /\ leg.sent \in Nat
    BY <1>0, BoundsOfLeg
  <2> QED
    BY <1>0, <2>1 DEF OrderInv, Standing
<1>2. PICK at \in LegAts \ {"attached", "reset", "replay", "end"} :
        /\ LegAs(leg', at, leg.off, leg.sent) /\ out' \in OutRec /\ out'.ended = out.ended
        /\ spent' \in SpentRec /\ conn' \in {"open", "gone", "closed"}
        /\ at = "drain" => leg.removed /\ spent'.from = leg.off
  <2>0. /\ out \in OutRec /\ spent \in SpentRec /\ conn \in {"open", "gone", "closed"}
        /\ <<>> \in Seq(ControlFrames)
    BY <1>0, EmptySeq DEF LegTyped
  <2>1. ASSUME NEW at \in {"items", "last items"}, TakesFrames(at)
        PROVE  /\ LegAs(leg', at, leg.off, leg.sent) /\ out' \in OutRec /\ out'.ended = out.ended
               /\ spent' \in SpentRec /\ conn' \in {"open", "gone", "closed"}
    <3>1. /\ leg' = [leg EXCEPT !.at = at, !.items = out.frames] /\ out' = [out EXCEPT !.frames = <<>>]
          /\ conn' = conn /\ spent' = spent
      BY <2>1 DEF TakesFrames
    <3>2. out.frames \in Seq(ControlFrames) /\ at \in LegAts
      BY <1>0, <2>1, BoundsOfLeg DEF LegAts
    <3>3. LegAs(leg', at, leg.off, leg.sent)
      BY <1>0, <3>1, <3>2, AtItems
    <3>4. out' \in OutRec /\ out'.ended = out.ended
      BY <2>0, <3>1 DEF OutRec
    <3> QED
      BY <2>0, <3>1, <3>3, <3>4
  <2>2. ASSUME TakesEnded
        PROVE  /\ LegAs(leg', "drain", leg.off, leg.sent) /\ out' = out /\ conn' = conn
               /\ spent' \in SpentRec /\ spent'.from = leg.off /\ leg.removed
    <3>1. leg' = Goes("drain") /\ spent' = [spent EXCEPT !.from = leg.off] /\ out' = out /\ conn' = conn /\ out.ended
      BY <2>2 DEF TakesEnded
    <3>2. LegAs(leg', "drain", leg.off, leg.sent)
      BY <1>0, <3>1, GoesTo DEF LegAts
    <3>3. leg.off \in 0 .. MaxOut
      BY <1>0, BoundsOfLeg
    <3>4. spent' \in SpentRec /\ spent'.from = leg.off
      BY <2>0, <3>1, <3>3 DEF SpentRec
    <3>5. leg.removed
      BY <1>0, <3>1 DEF TailInv
    <3> QED
      BY <3>1, <3>2, <3>4, <3>5
  <2>3. ASSUME TakesQuit
        PROVE  LegAs(leg', "exit", leg.off, leg.sent) /\ out' = out /\ spent' = spent /\ conn' \in {"closed", conn}
    <3>1. leg' = Goes("exit") /\ out' = out /\ spent' = spent /\ conn' \in {"closed", conn}
      BY <2>3 DEF TakesQuit, Closes
    <3> QED
      BY <1>0, <3>1, GoesTo DEF LegAts
  <2>4. ASSUME NEW at \in {"peek"}, TakesNothing(at)
        PROVE  LegAs(leg', "peek", leg.off, leg.sent) /\ out' = out /\ spent' = spent /\ conn' = conn
    <3>1. leg' = Goes("peek") /\ out' = out /\ spent' = spent /\ conn' = conn
      BY <2>4 DEF TakesNothing
    <3> QED
      BY <1>0, <3>1, GoesTo DEF LegAts
  <2>5. CASE \E at \in {"items", "last items"} : TakesFrames(at)
    BY <2>1, <2>5 DEF LegAts
  <2>7. CASE TakesEnded
    BY <2>0, <2>2, <2>7 DEF LegAts
  <2>8. CASE TakesQuit
    <3>1. /\ LegAs(leg', "exit", leg.off, leg.sent) /\ out' \in OutRec /\ out'.ended = out.ended
          /\ spent' \in SpentRec /\ conn' \in {"open", "gone", "closed"}
      BY <2>0, <2>3, <2>8
    <3>2. "exit" \in LegAts \ {"attached", "reset", "replay", "end"} /\ "exit" # "drain"
      BY DEF LegAts
    <3> QED
      BY <3>1, <3>2
  <2>9. CASE \E at \in {"peek"} : TakesNothing(at)
    BY <2>0, <2>4, <2>9 DEF LegAts
  <2> QED
    BY <2>5, <2>7, <2>8, <2>9 DEF TakesOver
<1>3. LegTyped'
  BY <1>0, <1>2 DEF LegTyped, LegAs
<1>4. output.done \/ ~leg.removed => Standing(leg'.at, leg'.off, leg'.sent, leg.end)
  BY <1>1, <1>2 DEF LegAs
<1>5. OrderInv'
  BY <1>0, <1>1, <1>2, <1>3, <1>4, OrderGoesOn DEF LegAs
<1>6. TailInv'
  BY <1>0, <1>2, <1>3, TailGoesOn DEF LegAs
<1> QED
  BY <1>3, <1>5, <1>6 DEF LegInv

LEMMA ItemKeeps ==
  ASSUME LegInv, SendsItem
  PROVE  LegInv'
<1>0. /\ LegTyped /\ OrderInv /\ output' = output /\ leg.at \in {"items", "last items"} /\ leg.items # <<>>
  BY DEF LegInv, SendsItem
<1>1. /\ leg.off <= leg.off /\ leg.sent <= leg.sent /\ leg.off <= output.written /\ leg.sent <= output.written
  <2>1. LegTyped
    BY <1>0
  <2> QED
    BY <2>1, BoundsOfLeg
<1>2. leg.items \in Seq(ControlFrames)
  BY <1>0, BoundsOfLeg
<1>3. Head(leg.items) \in ControlFrames /\ Tail(leg.items) \in Seq(ControlFrames)
  BY <1>0, <1>2, HeadTailProperties
<1>4. PICK next, g, q : /\ q = Tail(leg.items) /\ g = Head(leg.items) /\ next = [leg EXCEPT !.items = q]
                        /\ RawWrite(g, next)
  BY DEF SendsItem
<1>5. LegAs(next, leg.at, leg.off, leg.sent)
  <2>1. leg.at \in LegAts /\ q \in Seq(ControlFrames)
    BY <1>0, <1>3, <1>4, BoundsOfLeg
  <2> QED
    BY <1>0, <1>4, <2>1, AtItems
<1>6. /\ g \in Frames /\ g # Ended
      /\ \A off, sent : Passed(g, off, sent)
      /\ \A sent, end : GoesAfter(got, g, sent, end) /\ Follows(leg.torn, g, sent, end)
  BY <1>0, <1>3, <1>4, ControlFits
<1>7. output.done \/ ~leg.removed => Standing(leg.at, leg.off, leg.sent, leg.end)
  BY <1>0 DEF OrderInv
<1> QED
  BY <1>0, <1>1, <1>4, <1>5, <1>6, <1>7, WriteKeeps DEF LegAs

\* The queue is sent: back to the live output, or the writer leaves. It wakes up.
LEMMA QuietKeeps ==
  ASSUME LegInv, ItemsSent \/ Wakes
  PROVE  LegInv'
<1>0. LegTyped /\ OrderInv /\ output' = output /\ got' = got /\ spent' = spent
  BY DEF LegInv, ItemsSent, Wakes
<1>1. PICK at \in {"live", "exit"} :
        /\ leg' = Goes(at) /\ leg.at \in {"items", "last items", "wait"}
        /\ conn' \in {conn, "closed"} /\ out' \in {out, [out EXCEPT !.wake = FALSE]}
  BY DEF ItemsSent, Wakes, Closes
<1>2. LegAs(leg', at, leg.off, leg.sent)
  BY <1>0, <1>1, GoesTo DEF LegAts
<1>3. out' \in OutRec /\ out'.ended = out.ended
  BY <1>0, <1>1 DEF LegTyped, OutRec
<1>4. LegTyped'
  BY <1>0, <1>1, <1>2, <1>3 DEF LegTyped, LegAs
<1>5. output.done \/ ~leg.removed => Standing(at, leg.off, leg.sent, leg.end)
  BY <1>0, <1>1 DEF OrderInv, Standing
<1>6. leg.off <= leg.off /\ leg.sent <= leg.sent
  BY <1>0, BoundsOfLeg
<1>7. OrderInv'
  BY <1>0, <1>1, <1>2, <1>4, <1>5, <1>6, OrderGoesOn DEF LegAs
<1>8. TailInv'
  BY <1>0, <1>1, <1>2, <1>3, <1>4, TailGoesOn DEF LegAs
<1> QED
  BY <1>4, <1>7, <1>8 DEF LegInv

LEMMA LiveKeeps ==
  ASSUME LegInv, SendsLive
  PROVE  LegInv'
<1>0. /\ LegTyped /\ OrderInv /\ output' = output /\ leg.at = "peek" /\ ~leg.removed /\ ~output.done
  BY DEF LegInv, SendsLive
<1>1. /\ MaxOut \in Nat /\ output.written \in 0 .. MaxOut /\ leg.off \in 0 .. MaxOut /\ leg.sent \in Nat
      /\ leg.off <= output.written /\ leg.sent <= output.written /\ leg.end \in Nat
  BY <1>0, BoundsOfLeg
<1>2. CaughtUp \in 0 .. output.written /\ leg.off <= CaughtUp
  BY <1>0, Chunks
<1>3. /\ AllPassed(got, leg.off, leg.sent) /\ Passed(leg.torn, leg.off, leg.sent)
      /\ (leg.end <= leg.off \/ leg.sent <= leg.off)
  BY <1>0 DEF OrderInv, Standing
<1>4. CASE leg.off < CaughtUp
  <2>1. /\ leg' = [leg EXCEPT !.off = CaughtUp] /\ Passes(leg.off, CaughtUp)
        /\ out' = out /\ conn' = conn /\ got' = got
    BY <1>4 DEF SendsLive
  <2>2. CaughtUp \in 0 .. MaxOut
    BY <1>1, <1>2
  <2>3. LegAs(leg', leg.at, CaughtUp, leg.sent)
    BY <1>0, <2>1, <2>2, OffTo
  <2>4. spent' \in SpentRec
    BY <1>0, <2>1, SkippedTyped
  <2>5. LegTyped'
    BY <1>0, <1>2, <2>1, <2>3, <2>4 DEF LegTyped, LegAs
  <2>6. Standing(leg'.at, leg'.off, leg'.sent, leg.end)
    BY <1>0, <1>1, <1>2, <1>3, <2>3 DEF Standing, LegAs
  <2>7. OrderInv'
    BY <1>0, <1>1, <1>2, <2>1, <2>3, <2>5, <2>6, OrderGoesOn DEF LegAs
  <2>8. TailInv'
    BY <1>0, <2>1, <2>3, <2>5, TailGoesOn DEF LegAs
  <2> QED
    BY <2>5, <2>7, <2>8 DEF LegInv
<1>5. CASE ~(leg.off < CaughtUp) /\ leg.off >= output.written
  <2>1. PICK at \in {"live", "wait"} :
          leg' = Goes(at) /\ out' = out /\ conn' = conn /\ got' = got /\ spent' = spent
    BY <1>5 DEF SendsLive
  <2>2. LegAs(leg', at, leg.off, leg.sent)
    BY <1>0, <2>1, GoesTo DEF LegAts
  <2>3. LegTyped'
    BY <1>0, <2>1, <2>2 DEF LegTyped, LegAs
  <2>4. Standing(at, leg.off, leg.sent, leg.end) /\ leg.off <= leg.off /\ leg.sent <= leg.sent
    BY <1>1, <1>3 DEF Standing
  <2>5. OrderInv'
    BY <1>0, <2>1, <2>2, <2>3, <2>4, OrderGoesOn DEF LegAs
  <2>6. TailInv'
    BY <1>0, <2>1, <2>2, <2>3, TailGoesOn DEF LegAs
  <2> QED
    BY <2>3, <2>5, <2>6 DEF LegInv
<1>6. CASE ~(leg.off < CaughtUp) /\ ~(leg.off >= output.written)
  <2> DEFINE to == ChunkEnd(leg.off)
             g == Data(leg.off, to)
             next == [leg EXCEPT !.at = "live", !.off = to]
  <2>1. RawWrite(g, next)
    BY <1>6 DEF SendsLive
  <2>2. to \in 0 .. MaxOut /\ to <= output.written /\ leg.off <= to
    BY <1>0, <1>1, Chunks
  <2>3. LegAs(next, "live", to, leg.sent)
    BY <1>0, <2>2, AtOffTo DEF LegAts
  <2>4. g \in Frames /\ g # Ended /\ g[3] = to
    BY <1>1, <2>2, FrameShapes
  <2>5. GoesAfter(got, g, leg.sent, leg.end) /\ Follows(leg.torn, g, leg.sent, leg.end)
    <3>1. leg.off \in 0 .. output.written /\ (leg.off = leg.sent => leg.off <= leg.sent)
      BY <1>1
    <3> QED
      BY <1>0, <1>3, <3>1, ChunkFits
  <2>6. Passed(g, to, leg.sent)
    BY <2>2, <2>4 DEF Passed
  <2>7. Standing("live", to, leg.sent, leg.end)
    BY <1>1, <1>3, <2>2 DEF Standing
  <2>8. leg.sent <= leg.sent
    BY <1>1
  <2> HIDE DEF to, g, next
  <2> QED
    BY <1>0, <1>1, <2>1, <2>2, <2>3, <2>4, <2>5, <2>6, <2>7, <2>8, WriteKeeps DEF LegAs
<1> QED
  BY <1>4, <1>5, <1>6

\* What was covered up to a position still is, and what is passed over or sent from there.
LEMMA CoveredOn ==
  ASSUME NEW from, NEW a \in Nat, NEW b \in Nat, NEW q, NEW q2, NEW skipped, NEW skipped2,
         Covered(from, a, q, skipped), ReceivedIn(q) \subseteq ReceivedIn(q2), skipped \subseteq skipped2,
         Skip(a, b) \subseteq ReceivedIn(q2) \cup skipped2, from \in Nat
  PROVE  Covered(from, b, q2, skipped2)
<1>1. MaxOut \in Nat
  BY TermLegBounds
<1>2. Skip(from, b) \subseteq Skip(from, a) \cup Skip(a, b)
  BY <1>1 DEF Skip
<1> QED
  BY <1>2 DEF Covered

LEMMA DrainKeeps ==
  ASSUME LegInv, Drains
  PROVE  LegInv'
<1>0. LegTyped /\ OrderInv /\ TailInv /\ output' = output /\ leg.at = "drain"
  BY DEF LegInv, Drains
<1>1. /\ MaxOut \in Nat /\ output.written \in 0 .. MaxOut /\ leg.off \in 0 .. MaxOut /\ leg.sent \in Nat
      /\ leg.off <= output.written /\ leg.sent <= output.written /\ leg.end \in Nat /\ spent.from \in Nat
  BY <1>0, BoundsOfLeg
<1>2. CaughtUp \in 0 .. output.written /\ leg.off <= CaughtUp
  BY <1>0, Chunks
<1>3. /\ leg.removed /\ leg.torn # Ended /\ (\A i \in 1 .. Len(got) : got[i] # Ended)
      /\ Covered(spent.from, leg.off, got, spent.skipped)
  BY <1>0 DEF TailInv
<1>4. output.done =>
        /\ Standing("drain", leg.off, leg.sent, leg.end)
        /\ Passed(leg.torn, leg.off, leg.sent) \/ (leg.torn = Data(leg.off, ChunkEnd(leg.off)) /\ CaughtUp <= leg.off)
  BY <1>0 DEF OrderInv
<1>5. CASE leg.off < CaughtUp
  <2>1. /\ leg' = [leg EXCEPT !.off = CaughtUp] /\ Passes(leg.off, CaughtUp)
        /\ out' = out /\ conn' = conn /\ got' = got
    BY <1>5 DEF Drains
  <2>2. CaughtUp \in 0 .. MaxOut
    BY <1>1, <1>2
  <2>3. LegAs(leg', leg.at, CaughtUp, leg.sent)
    BY <1>0, <2>1, <2>2, OffTo
  <2>4. /\ spent' \in SpentRec /\ spent'.from = spent.from
        /\ spent'.skipped = spent.skipped \cup Skip(leg.off, CaughtUp)
    BY <1>0, <2>1, SkippedTyped
  <2>5. LegTyped'
    BY <1>0, <1>2, <2>1, <2>3, <2>4 DEF LegTyped, LegAs
  <2>6. output.done => /\ Standing(leg'.at, leg'.off, leg'.sent, leg.end)
                       /\ Passed(leg.torn, leg'.off, leg'.sent)
    <3> SUFFICES ASSUME output.done
                 PROVE  Standing("drain", CaughtUp, leg.sent, leg.end) /\ Passed(leg.torn, CaughtUp, leg.sent)
      BY <1>0, <2>3 DEF LegAs
    <3>1. ~(CaughtUp <= leg.off)
      BY <1>1, <1>2, <1>5
    <3>2. Standing("drain", leg.off, leg.sent, leg.end) /\ Passed(leg.torn, leg.off, leg.sent)
      BY <1>4, <3>1
    <3>3. leg.torn \in Frames
      BY <1>0, BoundsOfLeg
    <3>4. Passed(leg.torn, CaughtUp, leg.sent)
      BY <1>1, <1>2, <3>2, <3>3, FrameShapes DEF Passed
    <3>5. Standing("drain", CaughtUp, leg.sent, leg.end)
      BY <1>1, <1>2, <3>2 DEF Standing
    <3> QED
      BY <3>4, <3>5
  <2>7. leg.off <= leg'.off /\ leg.sent <= leg'.sent
    BY <1>1, <1>2, <2>3 DEF LegAs
  <2>8. OrderInv'
    BY <1>0, <1>3, <2>1, <2>3, <2>5, <2>6, <2>7, OrderGoesOn DEF LegAs
  <2>9. Covered(spent'.from, leg'.off, got', spent'.skipped)
    <3>1. CaughtUp \in Nat /\ leg.off \in Nat
      BY <1>1, <1>2
    <3>2. Covered(spent.from, CaughtUp, got, spent'.skipped)
      BY <1>1, <1>3, <2>4, <3>1, CoveredOn
    <3> QED
      BY <2>1, <2>3, <2>4, <3>2 DEF LegAs
  <2>10. TailInv'
    BY <1>0, <1>3, <2>1, <2>3, <2>9 DEF TailInv, LegAs
  <2> QED
    BY <2>5, <2>8, <2>10 DEF LegInv
<1>6. CASE ~(leg.off < CaughtUp) /\ leg.off >= output.written
  <2>1. leg' = Goes("end") /\ out' = out /\ conn' = conn /\ got' = got /\ spent' = spent
    BY <1>6 DEF Drains
  <2>2. LegAs(leg', "end", leg.off, leg.sent)
    BY <1>0, <2>1, GoesTo DEF LegAts
  <2>3. LegTyped'
    BY <1>0, <2>1, <2>2 DEF LegTyped, LegAs
  <2>4. output.done => Standing("end", leg.off, leg.sent, leg.end) /\ Passed(leg.torn, leg.off, leg.sent)
    <3> SUFFICES ASSUME output.done
                 PROVE  Standing("end", leg.off, leg.sent, leg.end) /\ Passed(leg.torn, leg.off, leg.sent)
      OBVIOUS
    <3>1. leg.off \in 0 .. output.written /\ ChunkEnd(leg.off) \in 0 .. MaxOut /\ ChunkEnd(leg.off) <= output.written
      BY <1>0, <1>1, Chunks
    <3>2. Data(leg.off, ChunkEnd(leg.off))[3] = ChunkEnd(leg.off)
      BY <1>1, <3>1, FrameShapes
    <3>3. ChunkEnd(leg.off) <= leg.off
      BY <1>1, <1>6, <3>1
    <3>4. Passed(leg.torn, leg.off, leg.sent)
      BY <1>4, <3>2, <3>3 DEF Passed
    <3> QED
      BY <1>4, <3>4 DEF Standing
  <2>5. leg.off <= leg.off /\ leg.sent <= leg.sent /\ leg.off = output.written
    BY <1>1, <1>6
  <2>6. OrderInv'
    BY <1>0, <1>3, <2>1, <2>2, <2>3, <2>4, <2>5, OrderGoesOn DEF LegAs
  <2>7. Covered(spent'.from, leg'.off, got', spent'.skipped)
    BY <1>3, <2>1, <2>2 DEF LegAs
  <2>8. TailInv'
    BY <1>0, <1>3, <2>1, <2>2, <2>5, <2>7 DEF TailInv, LegAs
  <2> QED
    BY <2>3, <2>6, <2>8 DEF LegInv
<1>7. CASE ~(leg.off < CaughtUp) /\ ~(leg.off >= output.written)
  <2> DEFINE to == ChunkEnd(leg.off)
             g == Data(leg.off, to)
             next == [leg EXCEPT !.off = to]
  <2>1. Delivers(g, next) \/ TimesOut(g, leg) \/ Fails
    BY <1>7 DEF Drains
  <2>2. to \in 0 .. MaxOut /\ to <= output.written /\ leg.off <= to
    BY <1>0, <1>1, Chunks
  <2>3. LegAs(next, "drain", to, leg.sent)
    BY <1>0, <2>2, OffTo
  <2>4. g \in Frames /\ g # Ended /\ g[3] = to /\ g[2] = leg.off /\ IsData(g) /\ g # NoFrame
    BY <1>1, <2>2, FrameShapes
  <2>5. CaughtUp <= leg.off
    BY <1>1, <1>2, <1>7
  <2>6. Passed(g, to, leg.sent)
    BY <2>2, <2>4 DEF Passed
  <2>7. ASSUME output.done
        PROVE  /\ Ordered(got, leg.sent, leg.end) /\ GoesAfter(got, leg.torn, leg.sent, leg.end)
               /\ AllPassed(got, leg.off, leg.sent) /\ GoesAfter(got, g, leg.sent, leg.end)
               /\ leg.torn # g => Passed(leg.torn, leg.off, leg.sent) /\ Follows(leg.torn, g, leg.sent, leg.end)
               /\ leg.end <= leg.off \/ leg.sent <= leg.off
    <3>1. /\ Ordered(got, leg.sent, leg.end) /\ GoesAfter(got, leg.torn, leg.sent, leg.end)
          /\ AllPassed(got, leg.off, leg.sent)
      BY <1>0, <2>7 DEF OrderInv
    <3>2. leg.end <= leg.off \/ leg.sent <= leg.off
      BY <1>4, <2>7 DEF Standing
    <3>3. leg.torn # g => Passed(leg.torn, leg.off, leg.sent)
      BY <1>4, <2>7
    <3>4. ASSUME NEW f \in Frames, Passed(f, leg.off, leg.sent) PROVE Follows(f, g, leg.sent, leg.end)
      <4> SUFFICES ASSUME IsData(f) PROVE f[3] <= leg.off \/ (leg.end <= leg.off /\ f[3] <= leg.sent)
        BY <2>4 DEF Follows
      <4>1. f[3] \in Nat /\ (f[3] <= leg.off \/ f[3] <= leg.sent)
        BY <3>4, FrameShapes DEF Passed
      <4> QED
        BY <1>1, <3>2, <4>1
    <3>5. \A i \in 1 .. Len(got) : got[i] \in Frames /\ Passed(got[i], leg.off, leg.sent)
      BY <1>0, <3>1, BoundsOfLeg DEF AllPassed
    <3>6. GoesAfter(got, g, leg.sent, leg.end)
      BY <3>4, <3>5 DEF GoesAfter
    <3>7. leg.torn \in Frames
      BY <1>0, BoundsOfLeg
    <3> QED
      BY <3>1, <3>2, <3>3, <3>4, <3>6, <3>7
  <2>8. leg \in LegRec
    BY <1>0 DEF LegTyped
  <2>9. leg.off \in Nat /\ to \in Nat /\ leg.off <= leg.off /\ leg.sent <= leg.sent
    BY <1>1, <2>2
  <2>10. Units(g) = Skip(leg.off, to)
    BY <2>4 DEF Units
  <2> HIDE DEF to, next
  <2>11. CASE Delivers(g, next)
    <3>1. next \in LegRec
      BY <2>3 DEF LegAs
    <3> HIDE DEF g
    <3>2. /\ conn' = conn /\ out' = out /\ spent' = spent /\ leg' \in LegRec /\ SamePlace(leg', next)
          /\ AllOut(g, got', leg'.torn)
      BY <1>0, <2>4, <2>11, <3>1, DeliversEffect
    <3>3. /\ leg'.at = "drain" /\ leg'.off = to /\ leg'.sent = leg.sent /\ leg'.end = leg.end
          /\ leg'.removed = leg.removed /\ leg'.torn = NoFrame
      BY <2>3, <3>2 DEF LegAs, SamePlace, AllOut
    <3>4. /\ got' \in Seq(Frames) /\ ReceivedIn(got) \subseteq ReceivedIn(got') /\ Units(g) \subseteq ReceivedIn(got')
          /\ leg'.torn # Ended /\ \A i \in 1 .. Len(got') : got'[i] # Ended
      BY <1>0, <1>3, <2>4, <3>2, WrittenFrames
    <3>5. LegTyped'
      BY <1>0, <2>2, <3>2, <3>3, <3>4 DEF LegTyped
    <3>6. OrderInv'
      <4> SUFFICES ASSUME output.done
                   PROVE  /\ Ordered(got', leg.sent, leg.end)
                          /\ GoesAfter(got', leg'.torn, leg.sent, leg.end) /\ AllPassed(got', to, leg.sent)
                          /\ Standing("drain", to, leg.sent, leg.end)
                          /\ Passed(leg'.torn, to, leg.sent)
        BY <1>0, <1>3, <3>3 DEF OrderInv
      <4>1. /\ Ordered(got', leg.sent, leg.end) /\ GoesAfter(got', leg'.torn, leg.sent, leg.end)
            /\ AllPassed(got', to, leg.sent)
        BY <1>0, <1>1, <2>2, <2>4, <2>6, <2>7, <2>9, <3>2, WrittenInOrder
      <4>2. Passed(leg'.torn, to, leg.sent)
        BY <3>3, FrameShapes DEF Passed
      <4>3. Standing("drain", to, leg.sent, leg.end)
        BY <1>1, <2>2, <2>7 DEF Standing
      <4> QED
        BY <4>1, <4>2, <4>3
    <3>7. Covered(spent'.from, leg'.off, got', spent'.skipped)
      <4>1. Covered(spent.from, to, got', spent.skipped)
        BY <1>1, <1>3, <2>9, <2>10, <3>4, CoveredOn
      <4> QED
        BY <3>2, <3>3, <4>1
    <3>8. TailInv'
      BY <1>0, <1>3, <3>2, <3>3, <3>4, <3>7 DEF TailInv
    <3> QED
      BY <3>5, <3>6, <3>8 DEF LegInv
  <2>12. CASE TimesOut(g, leg)
    <3> HIDE DEF g
    <3>1. /\ conn' = conn /\ out' = out /\ spent' \in SpentRec /\ SameSpent(spent', spent)
          /\ leg' \in LegRec /\ SamePlace(leg', leg)
          /\ HalfOut(g, got', leg'.torn) \/ NotOut(g, got', leg'.torn)
      BY <1>0, <2>4, <2>8, <2>12, TimesOutEffect
    <3>2. /\ leg'.at = "drain" /\ leg'.off = leg.off /\ leg'.sent = leg.sent /\ leg'.end = leg.end
          /\ leg'.removed = leg.removed
      BY <1>0, <3>1 DEF SamePlace
    <3>3. /\ got' \in Seq(Frames) /\ ReceivedIn(got) \subseteq ReceivedIn(got')
          /\ leg'.torn # Ended /\ \A i \in 1 .. Len(got') : got'[i] # Ended
      BY <1>0, <1>3, <2>4, <3>1, WrittenFrames
    <3>4. LegTyped'
      BY <1>0, <3>1, <3>2, <3>3 DEF LegTyped
    <3>5. ~AllOut(g, got', leg'.torn)
      BY <2>4, <3>1 DEF AllOut, HalfOut, NotOut
    <3>6. CaughtUp' = CaughtUp /\ ChunkEnd(leg.off)' = to
      BY <1>0, <3>2 DEF CaughtUp, ChunkEnd, to
    <3>7. OrderInv'
      <4> SUFFICES ASSUME output.done
                   PROVE  /\ Ordered(got', leg.sent, leg.end)
                          /\ GoesAfter(got', leg'.torn, leg.sent, leg.end) /\ AllPassed(got', leg.off, leg.sent)
                          /\ Standing("drain", leg.off, leg.sent, leg.end)
                          /\ Passed(leg'.torn, leg.off, leg.sent) \/ leg'.torn = g
        BY <1>0, <1>3, <2>5, <3>2, <3>6 DEF OrderInv, g
      <4>1. /\ Ordered(got', leg.sent, leg.end) /\ GoesAfter(got', leg'.torn, leg.sent, leg.end)
            /\ AllPassed(got', leg.off, leg.sent) /\ (Passed(leg'.torn, leg.off, leg.sent) \/ leg'.torn = g)
        BY <1>0, <1>1, <2>4, <2>7, <2>9, <3>1, <3>5, WrittenInOrder
      <4> QED
        BY <1>4, <4>1
    <3>8. Covered(spent'.from, leg'.off, got', spent'.skipped)
      BY <1>3, <3>1, <3>2, <3>3 DEF Covered, SameSpent
    <3>9. TailInv'
      BY <1>0, <1>3, <3>1, <3>2, <3>3, <3>8 DEF TailInv
    <3> QED
      BY <3>4, <3>7, <3>9 DEF LegInv
  <2> QED
    BY <2>1, <2>11, <2>12, BreakKeeps, <1>0
<1> QED
  BY <1>5, <1>6, <1>7

\* ENDED, and the connection is closed.
LEMMA EndKeeps ==
  ASSUME LegInv, SendsEnded
  PROVE  LegInv'
<1>0. LegTyped /\ OrderInv /\ TailInv /\ output' = output /\ leg.at = "end"
  BY DEF LegInv, SendsEnded
<1>1. /\ MaxOut \in Nat /\ leg.off \in Nat /\ leg.sent \in Nat /\ leg.end \in Nat /\ leg \in LegRec
      /\ leg.off <= leg.off /\ leg.sent <= leg.sent /\ leg.torn \in Frames
  BY <1>0, BoundsOfLeg DEF LegTyped
<1>2. /\ leg.removed /\ (\A i \in 1 .. Len(got) : got[i] # Ended)
      /\ Covered(spent.from, leg.off, got, spent.skipped)
      /\ (output.done => leg.off = output.written)
  BY <1>0 DEF TailInv
<1>3. /\ Ended \in Frames /\ ~IsData(Ended) /\ Ended # NoFrame
      /\ \A off, sent : Passed(Ended, off, sent)
      /\ \A q, sent, end : GoesAfter(q, Ended, sent, end)
      /\ \A f, sent, end : Follows(f, Ended, sent, end)
  BY FrameShapes DEF GoesAfter, Follows, Passed
<1>4. output.done =>
        /\ Ordered(got, leg.sent, leg.end) /\ GoesAfter(got, leg.torn, leg.sent, leg.end)
        /\ AllPassed(got, leg.off, leg.sent) /\ Passed(leg.torn, leg.off, leg.sent)
        /\ Standing("end", leg.off, leg.sent, leg.end)
  BY <1>0 DEF OrderInv
<1>5. CASE /\ conn = "open" /\ got' = got \o Delivery(Ended)
           /\ leg' = [Goes("exit") EXCEPT !.torn = NoFrame]
           /\ conn' = "closed" /\ out' = out /\ spent' = spent
  <2>1. /\ leg' \in LegRec /\ leg'.at = "exit" /\ leg'.off = leg.off /\ leg'.sent = leg.sent
        /\ leg'.end = leg.end /\ leg'.removed = leg.removed /\ leg'.torn = NoFrame
    <3>1. NoFrame \in Frames
      BY FrameShapes
    <3>2. LegAs(Goes("exit"), "exit", leg.off, leg.sent)
      BY <1>0, GoesTo DEF LegAts
    <3>3. PICK r : r = Goes("exit")
      OBVIOUS
    <3> QED
      BY <1>5, <3>1, <3>2, <3>3 DEF LegAs, LegRec
  <2>2. AllOut(Ended, got', leg'.torn)
    <3>1. got' = IF leg.torn \in {NoFrame, Ended} THEN Append(got, Ended) ELSE Append(Append(got, leg.torn), Ended)
      BY <1>0, <1>3, <1>5, DeliveredFrames
    <3> QED
      BY <2>1, <3>1 DEF AllOut
  <2>3. /\ got' \in Seq(Frames) /\ ReceivedIn(got) \subseteq ReceivedIn(got')
        /\ \A i \in 1 .. Len(got') : got'[i] = Ended => i = Len(got')
    BY <1>0, <1>2, <1>3, <2>2, WrittenFrames
  <2>4. LegTyped'
    BY <1>0, <1>5, <2>1, <2>3 DEF LegTyped
  <2>5. OrderInv'
    <3>1. output.done => Ordered(got', leg.sent, leg.end)
      BY <1>0, <1>1, <1>3, <1>4, <2>2, WrittenInOrder
    <3> QED
      BY <1>0, <1>2, <2>1, <3>1 DEF OrderInv
  <2>6. Covered(spent.from, IF output.done THEN output.written ELSE leg.off, got', spent.skipped)
    BY <1>2, <2>3 DEF Covered
  <2>7. TailInv'
    BY <1>0, <1>2, <1>3, <1>5, <2>1, <2>3, <2>6 DEF TailInv
  <2> QED
    BY <2>4, <2>5, <2>7 DEF LegInv
<1>6. CASE TimesOut(Ended, leg)
  <2>1. /\ conn' = conn /\ out' = out /\ spent' \in SpentRec /\ SameSpent(spent', spent)
        /\ leg' \in LegRec /\ SamePlace(leg', leg)
        /\ HalfOut(Ended, got', leg'.torn) \/ NotOut(Ended, got', leg'.torn)
    BY <1>0, <1>1, <1>3, <1>6, TimesOutEffect
  <2>2. /\ leg'.at = "end" /\ leg'.off = leg.off /\ leg'.sent = leg.sent /\ leg'.end = leg.end
        /\ leg'.removed = leg.removed
    BY <1>0, <2>1 DEF SamePlace
  <2>3. ~AllOut(Ended, got', leg'.torn)
    BY <1>3, <2>1 DEF AllOut, HalfOut, NotOut
  <2>4. /\ got' \in Seq(Frames) /\ leg'.torn \in Frames /\ ReceivedIn(got) \subseteq ReceivedIn(got')
        /\ \A i \in 1 .. Len(got') : got'[i] # Ended
    BY <1>0, <1>2, <1>3, <2>1, <2>3, WrittenFrames
  <2>5. LegTyped'
    BY <1>0, <2>1, <2>2, <2>4 DEF LegTyped
  <2>6. OrderInv'
    <3>1. ASSUME output.done
          PROVE  /\ Ordered(got', leg.sent, leg.end) /\ GoesAfter(got', leg'.torn, leg.sent, leg.end)
                 /\ AllPassed(got', leg.off, leg.sent) /\ (Passed(leg'.torn, leg.off, leg.sent) \/ leg'.torn = Ended)
      <4>1. /\ Ordered(got, leg.sent, leg.end) /\ GoesAfter(got, leg.torn, leg.sent, leg.end)
            /\ AllPassed(got, leg.off, leg.sent) /\ Passed(leg.torn, leg.off, leg.sent)
        BY <1>4, <3>1
      <4>2. /\ GoesAfter(got, Ended, leg.sent, leg.end) /\ Passed(Ended, leg.off, leg.sent)
            /\ Follows(leg.torn, Ended, leg.sent, leg.end) /\ Ended \in Frames
        BY <1>3
      <4> QED
        BY <1>0, <1>1, <2>1, <4>1, <4>2, WrittenInOrder
    <3>2. output.done => Passed(leg'.torn, leg.off, leg.sent)
      BY <1>3, <3>1
    <3>3. output.done => Standing("end", leg.off, leg.sent, leg.end)
      BY <1>4
    <3>4. output.done =>
            /\ Ordered(got', leg'.sent, leg'.end) /\ GoesAfter(got', leg'.torn, leg'.sent, leg'.end)
            /\ AllPassed(got', leg'.off, leg'.sent) /\ Standing(leg'.at, leg'.off, leg'.sent, leg'.end)
            /\ Passed(leg'.torn, leg'.off, leg'.sent)
      BY <2>2, <3>1, <3>2, <3>3
    <3>5. output' = output /\ leg'.removed
      BY <1>0, <1>2, <2>2
    <3> QED
      BY <3>4, <3>5 DEF OrderInv
  <2>7. Covered(spent'.from, leg'.off, got', spent'.skipped)
    BY <1>2, <2>1, <2>2, <2>4 DEF Covered, SameSpent
  <2>8. TailInv'
    BY <1>0, <1>2, <2>1, <2>2, <2>4, <2>7 DEF TailInv
  <2> QED
    BY <2>5, <2>6, <2>8 DEF LegInv
<1>7. CASE Fails
  BY <1>0, <1>7, BreakKeeps
<1> QED
  BY <1>5, <1>6, <1>7 DEF SendsEnded

-----------------------------------------------------------------------------
\* The session around the leg.

LEMMA AroundKeeps ==
  ASSUME LegInv,
         ProgramWrites \/ FrameQueued \/ (\E done \in BOOLEAN : LegEnded(done)) \/ (\E left \in BOOLEAN : LegDropped(left))
  PROVE  LegInv'
<1>0. LegTyped /\ OrderInv /\ TailInv
  BY DEF LegInv
<1>1. CASE ProgramWrites
  <2>1. /\ ~output.done /\ output.written < MaxOut /\ output' = [output EXCEPT !.written = @ + 1]
        /\ out' = [out EXCEPT !.wake = ~leg.removed \/ @]
        /\ leg' = leg /\ conn' = conn /\ got' = got /\ spent' = spent
    BY <1>1 DEF ProgramWrites
  <2>2. /\ MaxOut \in Nat /\ output.written \in 0 .. MaxOut
        /\ leg.off \in Nat /\ leg.sent \in Nat /\ leg.end \in Nat
    BY <1>0, BoundsOfLeg
  <2>3. /\ output' \in [written : 0 .. MaxOut, done : BOOLEAN] /\ output'.done = output.done
        /\ output'.written = output.written + 1
    BY <1>0, <2>1, <2>2 DEF LegTyped
  <2>4. out' \in OutRec /\ out'.ended = out.ended
    <3>1. (~leg.removed \/ out.wake) \in BOOLEAN
      OBVIOUS
    <3> QED
      BY <1>0, <2>1, <3>1 DEF LegTyped, OutRec
  <2>5. LegTyped'
    BY <1>0, <2>1, <2>2, <2>3, <2>4 DEF LegTyped
  <2>6. OrderInv'
    BY <1>0, <2>1, <2>3 DEF OrderInv, TailInv
  <2>7. \A from, to : Covered(from, to, got, spent.skipped)' <=> Covered(from', to', got, spent.skipped)
    BY <2>1 DEF Covered, ReceivedIn
  <2>8. TailInv'
    <3>1. leg.at \in {"drain", "end"} => Covered(spent.from, leg.off, got, spent.skipped)
      BY <1>0 DEF TailInv
    <3>2. \A i \in 1 .. Len(got) : got[i] = Ended => Covered(spent.from, leg.off, got, spent.skipped)
      BY <1>0, <2>1 DEF TailInv
    <3> QED
      BY <1>0, <2>1, <2>3, <2>4, <3>1, <3>2 DEF TailInv
  <2> QED
    BY <2>5, <2>6, <2>8 DEF LegInv
<1>2. CASE FrameQueued
  <2>1. /\ spent.frames < MaxFrames /\ spent' = [spent EXCEPT !.frames = @ + 1]
        /\ out' = [out EXCEPT !.frames = Append(@, Control(spent.frames + 1)), !.wake = TRUE]
        /\ output' = output /\ leg' = leg /\ conn' = conn /\ got' = got
    BY <1>2 DEF FrameQueued
  <2>2. spent \in SpentRec /\ out \in OutRec /\ MaxFrames \in Nat /\ spent.frames \in 0 .. MaxFrames
    BY <1>0, TermLegBounds DEF LegTyped, SpentRec
  <2>3. spent.frames + 1 \in 1 .. MaxFrames
    BY <2>1, <2>2
  <2>4. spent' \in SpentRec /\ SameSpent(spent', spent)
    <3>1. spent.frames + 1 \in 0 .. MaxFrames
      BY <2>2, <2>3
    <3> QED
      BY <2>1, <2>2, <3>1 DEF SpentRec, SameSpent
  <2>5. Append(out.frames, Control(spent.frames + 1)) \in Seq(ControlFrames)
    <3>1. Control(spent.frames + 1) \in ControlFrames
      BY <2>3 DEF ControlFrames
    <3>2. out.frames \in Seq(ControlFrames)
      BY <2>2 DEF OutRec
    <3> QED
      BY <3>1, <3>2, AppendProperties
  <2>6. out' \in OutRec /\ out'.ended = out.ended
    BY <2>1, <2>2, <2>5 DEF OutRec
  <2>7. LegTyped'
    BY <1>0, <2>1, <2>4, <2>6 DEF LegTyped
  <2>8. OrderInv'
    BY <1>0, <2>1 DEF OrderInv, CaughtUp, ChunkEnd
  <2>9. TailInv'
    BY <1>0, <2>1, <2>4, <2>6 DEF TailInv, SameSpent
  <2> QED
    BY <2>7, <2>8, <2>9 DEF LegInv
<1>3. ASSUME NEW done \in BOOLEAN, LegEnded(done) PROVE LegInv'
  <2>1. /\ ~leg.removed /\ output' = [output EXCEPT !.done = done] /\ leg' = [leg EXCEPT !.removed = TRUE]
        /\ out' = [out EXCEPT !.ended = TRUE, !.wake = TRUE]
        /\ conn' = conn /\ got' = got /\ spent' = spent
    BY <1>3 DEF LegEnded
  <2>2. output' \in [written : 0 .. MaxOut, done : BOOLEAN] /\ output'.written = output.written
    BY <1>0, <1>3, <2>1 DEF LegTyped
  <2>3. out' \in OutRec
    BY <1>0, <2>1 DEF LegTyped, OutRec
  <2>4. /\ leg' \in LegRec /\ leg'.removed = TRUE /\ leg'.at = leg.at /\ leg'.off = leg.off /\ leg'.sent = leg.sent
        /\ leg'.end = leg.end /\ leg'.torn = leg.torn
    BY <1>0, <2>1 DEF LegTyped, LegRec
  <2>5. LegTyped'
    BY <1>0, <2>1, <2>2, <2>3, <2>4 DEF LegTyped
  <2>6. /\ leg.at \notin {"drain", "end"} /\ (\A i \in 1 .. Len(got) : got[i] # Ended)
        /\ leg.torn = Ended => leg.at \in {"end", "exit"}
    BY <1>0, <2>1 DEF TailInv
  <2>7. OrderInv'
    BY <1>0, <2>1, <2>4, <2>6 DEF OrderInv
  <2>8. TailInv'
    BY <2>1, <2>4, <2>6 DEF TailInv
  <2> QED
    BY <2>5, <2>7, <2>8 DEF LegInv
<1>4. ASSUME NEW left \in BOOLEAN, LegDropped(left) PROVE LegInv'
  <2>1. /\ ~leg.removed /\ output' = output /\ leg' = [leg EXCEPT !.removed = TRUE]
        /\ out' = [out EXCEPT !.quit = TRUE, !.wake = TRUE]
        /\ conn' \in {"gone", conn} /\ got' = got /\ spent' = spent
    BY <1>4 DEF LegDropped
  <2>2. out' \in OutRec
    BY <1>0, <2>1 DEF LegTyped, OutRec
  <2>3. /\ leg' \in LegRec /\ leg'.removed = TRUE /\ leg'.at = leg.at /\ leg'.off = leg.off /\ leg'.sent = leg.sent
        /\ leg'.end = leg.end /\ leg'.torn = leg.torn
    BY <1>0, <2>1 DEF LegTyped, LegRec
  <2>4. LegTyped'
    BY <1>0, <2>1, <2>2, <2>3 DEF LegTyped
  <2>5. /\ leg.at \notin {"drain", "end"} /\ (\A i \in 1 .. Len(got) : got[i] # Ended) /\ ~output.done
        /\ leg.torn = Ended => leg.at \in {"end", "exit"}
    BY <1>0, <2>1 DEF TailInv
  <2>6. OrderInv'
    BY <2>1, <2>3, <2>5 DEF OrderInv
  <2>7. TailInv'
    BY <2>1, <2>3, <2>5 DEF TailInv
  <2> QED
    BY <2>4, <2>6, <2>7 DEF LegInv
<1> QED
  BY <1>1, <1>2, <1>3, <1>4

-----------------------------------------------------------------------------

LEMMA LegWriterStarts == TermLegInit => LegInv
<1> SUFFICES ASSUME TermLegInit PROVE LegInv
  OBVIOUS
<1>1. PICK n0 \in 0 .. MaxOut :
        /\ output = [written |-> n0, done |-> FALSE]
        /\ out = [frames |-> <<>>, ended |-> FALSE, quit |-> FALSE, wake |-> FALSE]
        /\ leg = [at |-> "attached", off |-> 0, end |-> n0,
                  sent |-> IF n0 > Replay THEN n0 - Replay ELSE 0,
                  items |-> <<>>, torn |-> NoFrame, stalled |-> FALSE, removed |-> FALSE]
        /\ conn = "open" /\ got = <<>>
        /\ spent = [frames |-> 0, timeouts |-> 0, skipped |-> {}, from |-> 0]
  BY DEF TermLegInit
<1>2. /\ MaxOut \in Nat /\ MaxFrames \in Nat /\ Replay \in Nat /\ n0 \in Nat /\ n0 <= MaxOut
      /\ 0 \in 0 .. MaxOut /\ 0 \in 0 .. MaxFrames
  BY TermLegBounds, TermLegRing
<1>3. PICK n : n = IF n0 > Replay THEN n0 - Replay ELSE 0
  OBVIOUS
<1>4. n \in 0 .. MaxOut /\ n <= n0
  BY <1>2, <1>3
<1>5. NoFrame \in Frames /\ ~IsData(NoFrame) /\ NoFrame # Ended
  BY FrameShapes
<1>6. <<>> \in Seq(ControlFrames) /\ <<>> \in Seq(Frames) /\ Len(got) = 0
  BY <1>1, EmptySeq
<1>7. leg \in LegRec
  BY <1>1, <1>2, <1>3, <1>4, <1>5, <1>6 DEF LegRec, LegAts
<1>8. out \in OutRec /\ spent \in SpentRec
  BY <1>1, <1>2, <1>6 DEF OutRec, SpentRec
<1>9. /\ leg.off = 0 /\ leg.end = n0 /\ leg.sent = n /\ leg.at = "attached" /\ leg.torn = NoFrame /\ ~leg.removed
  BY <1>1, <1>3
<1>10. LegTyped
  BY <1>1, <1>2, <1>4, <1>6, <1>7, <1>8, <1>9 DEF LegTyped
<1>11. \A i : i \notin 1 .. Len(got)
  BY <1>6
<1>12. OrderInv
  BY <1>1, <1>5, <1>9, <1>11 DEF OrderInv, Ordered, GoesAfter, Follows, AllPassed, Passed, Standing
<1>13. TailInv
  BY <1>1, <1>5, <1>9, <1>11 DEF TailInv
<1> QED
  BY <1>10, <1>12, <1>13 DEF LegInv

LEMMA WriterKeeps == LegInv /\ [TermLegNext]_termLegVars => LegInv'
<1> SUFFICES ASSUME LegInv, [TermLegNext]_termLegVars PROVE LegInv'
  OBVIOUS
<1>1. CASE Takes
  <2>1. leg.at = "live" /\ output' = output /\ got' = got
    BY <1>1 DEF Takes
  <2>2. TakesOver
    BY <1>1 DEF Takes, TakesOver
  <2> QED
    BY <2>1, <2>2, TakenKeeps
<1>2. CASE TakesLast
  <2>1. leg.at = "peek" /\ output' = output /\ got' = got
    BY <1>2 DEF TakesLast
  <2>2. TakesOver
    BY <1>2 DEF TakesLast, TakesOver
  <2> QED
    BY <2>1, <2>2, TakenKeeps
<1>3. CASE SendsAttached \/ SendsReset \/ SendsReplayDone
  BY <1>3, HandshakeKeeps
<1>4. CASE SendsReplay \/ ReplayEnds
  BY <1>4, ReplayKeeps, ReplayEndKeeps
<1>5. CASE SendsItem \/ ItemsSent \/ Wakes
  BY <1>5, ItemKeeps, QuietKeeps
<1>6. CASE SendsLive \/ Drains \/ SendsEnded
  BY <1>6, LiveKeeps, DrainKeeps, EndKeeps
<1>7. CASE ProgramWrites \/ FrameQueued \/ (\E done \in BOOLEAN : LegEnded(done)) \/ (\E left \in BOOLEAN : LegDropped(left))
  BY <1>7, AroundKeeps
<1>8. CASE UNCHANGED termLegVars
  BY <1>8 DEF termLegVars, LegInv, LegTyped, OrderInv, TailInv, CaughtUp, ChunkEnd
<1> QED
  BY <1>1, <1>2, <1>3, <1>4, <1>5, <1>6, <1>7, <1>8 DEF TermLegNext, WriterStep

LEMMA WriterTypes == LegInv => TermLegTypeOK
<1> SUFFICES ASSUME LegInv PROVE TermLegTypeOK
  OBVIOUS
<1>1. LegTyped
  BY DEF LegInv
<1>2. out \in [frames : Seq(Frames), ended : BOOLEAN, quit : BOOLEAN, wake : BOOLEAN]
  <2>1. ControlFrames \subseteq Frames
    BY FrameShapes
  <2>2. Seq(ControlFrames) \subseteq Seq(Frames)
    BY <2>1
  <2> QED
    BY <1>1, <2>2 DEF LegTyped, OutRec
<1>3. {leg.off, leg.sent, leg.end} \subseteq 0 .. output.written
  BY <1>1, BoundsOfLeg
<1> QED
  BY <1>1, <1>2, <1>3 DEF LegTyped, LegRec, TermLegTypeOK

\* What the client of a raw leg is sent (term_leg.go) is the program's output in order,
\* whatever times out, wherever a frame is torn and however far the leg falls behind; and
\* after ENDED nothing comes, while all that the ring still held for the leg came before
\* it. For any ring, budget, chunk and number of time-outs.
THEOREM LegIsSentInOrder == TermLegSpec => []LegOutput
<1>1. LegInv => LegOutput
  <2> SUFFICES ASSUME LegInv PROVE LegOutput
    OBVIOUS
  <2>1. /\ got \in Seq(Frames) /\ DOMAIN got = 1 .. Len(got) /\ Len(got) \in Nat
        /\ spent.skipped \subseteq 0 .. MaxOut
    <3>1. got \in Seq(Frames) /\ spent.skipped \subseteq 0 .. MaxOut
      BY BoundsOfLeg DEF LegInv
    <3> QED
      BY <3>1, LenProperties
  <2>2. OutputInOrder
    <3> SUFFICES ASSUME output.done \/ ~leg.removed, NEW i \in 1 .. Len(got), NEW j \in 1 .. Len(got),
                        IsData(got[i]), IsData(got[j]), i < j
                 PROVE  got[i][3] <= got[j][2] \/ (leg.end <= got[j][2] /\ got[i][3] <= leg.sent)
      BY <2>1 DEF OutputInOrder, Before
    <3>1. Ordered(got, leg.sent, leg.end)
      BY DEF LegInv, OrderInv
    <3> QED
      BY <3>1 DEF Ordered, Follows
  <2>3. ReceivedIn(got) \subseteq Received
    <3> SUFFICES ASSUME NEW u \in ReceivedIn(got) PROVE u \in Received
      OBVIOUS
    <3>1. PICK i \in 1 .. Len(got) : IsData(got[i]) /\ u \in Units(got[i])
      BY DEF ReceivedIn
    <3> QED
      BY <2>1, <3>1 DEF Received
  <2>4. TailBeforeEnded
    <3> SUFFICES ASSUME NEW i \in 1 .. Len(got), got[i] = Ended
                 PROVE  /\ i = Len(got)
                        /\ Skip(spent.from, IF output.done THEN output.written ELSE leg.off)
                               \subseteq Received \cup spent.skipped
      BY <2>1 DEF TailBeforeEnded
    <3>1. i = Len(got) /\ Covered(spent.from, IF output.done THEN output.written ELSE leg.off, got, spent.skipped)
      BY DEF LegInv, TailInv
    <3> QED
      BY <2>3, <3>1 DEF Covered
  <2> QED
    BY <2>2, <2>4 DEF LegOutput
<1> QED
  BY <1>1, LegWriterStarts, WriterKeeps, PTL DEF TermLegSpec

-----------------------------------------------------------------------------
(* The four parts together *)

\* What no other part of the table's invariant speaks of.
RestTyped == refused \subseteq Table \X Host /\ asks \in 0 .. MaxWishes /\ view \subseteq Host

LEMMA RestBegins == HostTableInit => RestTyped
BY HostTableAssumption DEF HostTableInit, RestTyped

LEMMA RestStep == HostTableInv /\ RestTyped /\ [HostTableNext]_hostTableVars => RestTyped'
<1> SUFFICES ASSUME HostTableInv, RestTyped, [HostTableNext]_hostTableVars PROVE RestTyped'
  OBVIOUS
<1> USE DEF RestTyped
<1>1. ASSUME NEW q \in Requester, AskTable(q, "add") \/ AskTable(q, "remove") PROVE RestTyped'
  BY <1>1, HostTableAssumption DEF AskTable
<1>2. ASSUME NEW q \in Requester, Change(q) PROVE RestTyped'
  <2>1. wish[q].at # "none" => wish[q].table \in Table /\ wish[q].host \in Host
    BY WishFacts
  <2>2. CASE Refused(q) \/ Save(q) \/ StopDone(q)
    BY <2>2 DEF Refused, Save, StopDone
  <2>3. CASE AddNew(q)
    <3>1. wish[q].at = "change" /\ view' = view \cup {wish[q].host} /\ UNCHANGED <<refused, asks>>
      BY <2>3 DEF AddNew, At
    <3> QED BY <2>1, <3>1
  <2>4. CASE StopTimesOut(q)
    <3>1. /\ wish[q].at = "stop" /\ refused' = refused \cup {<<wish[q].table, wish[q].host>>}
          /\ UNCHANGED <<asks, view>>
      BY <2>4 DEF StopTimesOut
    <3> QED BY <2>1, <3>1
  <2>5. CASE Install(q)
    <3>1. view' \subseteq view /\ refused' \subseteq refused /\ asks' = asks
      BY <2>5 DEF Install
    <3> QED BY <3>1
  <2> QED BY <1>2, <2>2, <2>3, <2>4, <2>5 DEF Change
<1>3. CASE BeginAttach \/ BeginDetach \/ OpenTable \/ ListHosts
  BY <1>3 DEF BeginAttach, BeginDetach, OpenTable, ListHosts
<1>4. CASE CloseTable
  <2>1. view' \subseteq view /\ UNCHANGED <<refused, asks>>
    BY <1>4 DEF CloseTable
  <2> QED BY <2>1
<1>5. CASE TellHosts
  <2>1. attach.added \subseteq Host
    BY DEF HostTableInv, TablesTyped, Attaches
  <2> QED BY <1>5, <2>1 DEF TellHosts
<1>6. ASSUME NEW t \in Table, NEW h \in Host, SessionDies(t, h) PROVE RestTyped'
  BY <1>6 DEF SessionDies
<1>7. CASE ProcessDies
  BY <1>7 DEF ProcessDies
<1>8. CASE UNCHANGED hostTableVars
  BY <1>8 DEF hostTableVars
<1> QED BY <1>1, <1>2, <1>3, <1>4, <1>5, <1>6, <1>7, <1>8 DEF HostTableNext

LEMMA TableTypes == HostTableInv /\ RestTyped => HostTableTypeOK
<1> SUFFICES ASSUME HostTableInv, RestTyped PROVE HostTableTypeOK
  OBVIOUS
<1>1. TablesTyped
  BY DEF HostTableInv
<1>2. \A q \in Requester : wish[q] # Quiet =>
        wish[q].at \in {"change", "stop", "install"} /\ wish[q].table \in Table
  BY <1>1 DEF TablesTyped, Wishes
<1>3. /\ attach.at \in {"none", "close", "detach", "open", "list", "tell"}
      /\ attach.old \in 0 .. MaxTable /\ attach.added \subseteq Host
  BY <1>1 DEF TablesTyped, Attaches
<1> QED BY <1>1, <1>2, <1>3 DEF HostTableTypeOK, RestTyped, TablesTyped, Sessions

\* Every variable of the table of hosts, of the legs of a session, of the writer of a leg and
\* of the streams of a connection keeps its type in every interleaving, the bounds of the
\* code's queues, rings, windows and limits included (table.go, pkg/term/service.go,
\* internal/control/server.go). For any hosts, legs, streams and limits.
THEOREM TablesKeepTypes == MCSpec => []TablesTypeOK
<1> DEFINE All == /\ HostTableInv /\ RestTyped /\ LegsInv /\ LegInv /\ StreamInv /\ Limits
<1>1. MCInit => All
  BY HostTableBegins, RestBegins, LegsStart, LegWriterStarts, StreamInvInit, LimitsInit DEF MCInit, MCLegsInit
<1>2. All /\ [MCNext]_allVars => All'
  <2> SUFFICES ASSUME All, [MCNext]_allVars PROVE All'
    OBVIOUS
  <2>1. /\ [HostTableNext]_hostTableVars /\ [TermLegsNext]_termLegsVars
        /\ [TermLegNext]_termLegVars /\ [StreamNext]_streamVars
    BY DEF MCNext, allVars
  <2> QED BY <2>1, HostTableStep, RestStep, LegsStep, WriterKeeps, StreamInvStep, LimitsStep
<1>3. All => TablesTypeOK
  BY TableTypes, LegsTypes, WriterTypes, StreamTypes DEF TablesTypeOK
<1> QED BY <1>1, <1>2, <1>3, PTL DEF MCSpec
=============================================================================
