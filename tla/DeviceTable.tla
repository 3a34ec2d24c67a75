----------------------------- MODULE DeviceTable -----------------------------
(***************************************************************************)
(* The exit server's table of devices (pkg/servercore/peers.go) and the      *)
(* WireGuard device it configures through a queue with one consumer.        *)
(*                                                                         *)
(* The receive goroutine registers devices, a timer removes those not seen   *)
(* for long; both hold the table's mutex until their device operations are    *)
(* in the queue (or given up), so one table operation is in progress at a    *)
(* time. IpcSet needs a lock that device.Close holds while it waits for the  *)
(* receive goroutine: the device and its Close are external.                 *)
(*                                                                         *)
(* A registration proves the secret of a token; PSK and addresses are        *)
(* derived from secret and key on both sides, here by a constant function.   *)
(* A registration with an unknown or revoked secret changes nothing and is    *)
(* not modelled; rejection counters, logs and the counter of pending         *)
(* operations are left out.                                                 *)
(***************************************************************************)
EXTENDS Integers, Sequences, SequencesExt, FiniteSets

CONSTANTS
  Device, Pub, Secret, Addr,
  FirstKey,    \* the key each device starts with
  Keys,        \* the keys it may come to use
  Derived,     \* the two addresses of a secret and a key
  MaxDevices,
  QueueCap,    \* the queue and the operation that is being executed
  Grace, TTL,  \* ages
  MaxAge,      \* bound: ages are not told apart beyond it
  MaxNews,     \* bound: new keys and new tokens
  Absent

ASSUME DeviceKeysAssumption ==
  /\ FirstKey \in [Device -> Pub] /\ Keys \in [Device -> SUBSET Pub]
  /\ Derived \in [Secret \X Pub -> [ip : Addr, tunIP : Addr]]
  /\ Absent \notin Pub \cup [pub : Pub, sec : Secret, age : Nat]

\* A device draws its keys at random: no two have the same.
KeysOf(d) == Keys[d] \cup {FirstKey[d]}
ASSUME OwnKeysAssumption == \A d, e \in Device : d # e => KeysOf(d) \cap KeysOf(e) = {}

ASSUME DeviceBoundsAssumption ==
  /\ {MaxDevices, QueueCap, Grace, TTL, MaxAge, MaxNews} \subseteq Nat
  /\ 0 < MaxDevices /\ 0 < QueueCap /\ Grace <= TTL /\ TTL < MaxAge

VARIABLES
  entries,   \* the table
  peers,     \* the device's peers: the secret behind their PSK
  owner,     \* the device's allowed IPs
  opQueue,   \* opCh
  submit,    \* operations the holder of the mutex has yet to put into opCh
  waiting,   \* the holder waits for the operation it put there last
  closing,   \* device.Close: "no", "begun", "done"
  holds,     \* the key and the secret each device has
  regs,      \* registrations sent: any of them may arrive, now or later, again and again
  excused,   \* keys whose peer the code itself reports as out of step
  news

tableVars == <<entries, opQueue, submit, waiting, excused>>
deviceVars == <<peers, owner, closing>>
clientVars == <<holds, regs, news>>
deviceTableVars == <<tableVars, deviceVars, clientVars>>

AddPeer(p, s) == [do |-> "add", pub |-> p, sec |-> s, sync |-> FALSE]
RemovePeer(p, sync) == [do |-> "remove", pub |-> p, sec |-> Absent, sync |-> sync]

AddrsOf(s, p) == {Derived[s, p].ip, Derived[s, p].tunIP}
Entered == {d \in Device : entries[d] # Absent}
Unlocked == submit = <<>> /\ ~waiting

DeviceInit ==
  /\ entries = [d \in Device |-> Absent]
  /\ peers = [p \in Pub |-> Absent] /\ owner = [a \in Addr |-> Absent]
  /\ opQueue = <<>> /\ submit = <<>> /\ waiting = FALSE
  /\ closing = "no"
  /\ \E s \in Secret : holds = [d \in Device |-> [pub |-> FirstKey[d], sec |-> s]]
  /\ regs = {[dev |-> d, pub |-> holds[d].pub, sec |-> holds[d].sec] : d \in Device}
  /\ excused = {} /\ news = 0

-----------------------------------------------------------------------------
(* Clients. They and the clock stand still once the device closes.          *)

Reg(d, key) == [dev |-> d, pub |-> key.pub, sec |-> key.sec]

\* A new identity keeps the device's tag; a new token keeps the identity.
Renew(d, key) ==
  /\ closing = "no" /\ news < MaxNews /\ news' = news + 1
  /\ holds' = [holds EXCEPT ![d] = key]
  /\ regs' = regs \cup {Reg(d, key)}
  /\ UNCHANGED <<tableVars, deviceVars>>

NewKey(d) == \E p \in Keys[d] \ {holds[d].pub} : Renew(d, [holds[d] EXCEPT !.pub = p])
NewToken(d) == \E s \in Secret \ {holds[d].sec} : Renew(d, [holds[d] EXCEPT !.sec = s])

-----------------------------------------------------------------------------
(* Registration                                                            *)

\* Mutant: tunnel addresses are compared with tunnel addresses only.
ConflictSameKind(r, in) ==
  \E d \in in : /\ entries[d].pub # r.pub
                /\ Derived[entries[d].sec, entries[d].pub].ip = Derived[r.sec, r.pub].ip

\* assignIPLocked, assignTunIPLocked: an address is taken by entries none of
\* which has the same key.
Conflict(r, in) ==
  \E a \in AddrsOf(r.sec, r.pub) :
    LET holding == {d \in in : a \in AddrsOf(entries[d].sec, entries[d].pub)}
    IN  holding # {} /\ \A d \in holding : entries[d].pub # r.pub

NewEntry(r) == [pub |-> r.pub, sec |-> r.sec, age |-> 0]

Arrives(r) ==
  /\ Unlocked /\ closing = "no"

Refresh(r) ==
  /\ Arrives(r) /\ r.dev \in Entered /\ entries[r.dev].pub = r.pub
  /\ entries' = [entries EXCEPT ![r.dev].age = 0]
  /\ UNCHANGED <<opQueue, submit, waiting, excused, deviceVars, clientVars>>

\* The old peer is removed before the new addresses are known to be free.
Rotate(r) ==
  LET old == entries[r.dev].pub IN
  /\ Arrives(r) /\ r.dev \in Entered /\ old # r.pub
  /\ IF Conflict(r, Entered)
     THEN /\ submit' = <<RemovePeer(old, FALSE)>>
          /\ excused' = excused \cup {old}
          /\ UNCHANGED entries
     ELSE /\ submit' = <<RemovePeer(old, FALSE), AddPeer(r.pub, r.sec)>>
          /\ entries' = [entries EXCEPT ![r.dev] = NewEntry(r)]
          /\ excused' = excused \ {r.pub}
  /\ UNCHANGED <<opQueue, waiting, deviceVars, clientVars>>

\* Mutant: the oldest entry goes, seen lately or not.
EvictableAlways(d) == \A e \in Entered : entries[e].age <= entries[d].age

\* evictStaleLocked: the oldest of those out of the grace period.
Evictable(d) ==
  /\ entries[d].age > Grace
  /\ \A e \in Entered : entries[e].age <= entries[d].age

\* Mutant: a full table takes one more.
AddRoomOffByOne(r) ==
  /\ Arrives(r) /\ r.dev \notin Entered
  /\ Cardinality(Entered) <= MaxDevices /\ ~Conflict(r, Entered)
  /\ entries' = [entries EXCEPT ![r.dev] = NewEntry(r)]
  /\ submit' = <<AddPeer(r.pub, r.sec)>>
  /\ excused' = excused \ {r.pub}
  /\ UNCHANGED <<opQueue, waiting, deviceVars, clientVars>>

Add(r) ==
  /\ Arrives(r) /\ r.dev \notin Entered
  /\ Cardinality(Entered) < MaxDevices /\ ~Conflict(r, Entered)
  /\ entries' = [entries EXCEPT ![r.dev] = NewEntry(r)]
  /\ submit' = <<AddPeer(r.pub, r.sec)>>
  /\ excused' = excused \ {r.pub}
  /\ UNCHANGED <<opQueue, waiting, deviceVars, clientVars>>

\* The place is made before the addresses are looked at.
AddByEviction(r) ==
  /\ Arrives(r) /\ r.dev \notin Entered
  /\ Cardinality(Entered) >= MaxDevices
  /\ \E d \in Entered :
       LET refused == Conflict(r, Entered \ {d})
       IN  /\ Evictable(d)
           /\ entries' = [entries EXCEPT ![d] = Absent,
                                         ![r.dev] = IF refused THEN Absent ELSE NewEntry(r)]
           /\ submit' = <<RemovePeer(entries[d].pub, TRUE)>>
                          \o (IF refused THEN <<>> ELSE <<AddPeer(r.pub, r.sec)>>)
           /\ excused' = IF refused THEN excused ELSE excused \ {r.pub}
  /\ UNCHANGED <<opQueue, waiting, deviceVars, clientVars>>

Register(r) == Refresh(r) \/ Rotate(r) \/ Add(r) \/ AddByEviction(r)

-----------------------------------------------------------------------------
(* The timer                                                               *)

\* What an operation makes of the device: an added peer takes its addresses over.
Configure(dev, op) ==
  IF op.do = "add"
  THEN [peers |-> [dev.peers EXCEPT ![op.pub] = op.sec],
        owner |-> [a \in Addr |-> IF a \in AddrsOf(op.sec, op.pub) THEN op.pub
                                  ELSE dev.owner[a]]]
  ELSE [peers |-> [dev.peers EXCEPT ![op.pub] = Absent],
        owner |-> [a \in Addr |-> IF dev.owner[a] = op.pub THEN Absent ELSE dev.owner[a]]]

DeviceNow == [peers |-> peers, owner |-> owner]

TimePasses ==
  /\ closing = "no" /\ \E d \in Entered : entries[d].age < MaxAge
  /\ entries' = [d \in Device |->
       IF d \in Entered /\ entries[d].age < MaxAge
       THEN [entries[d] EXCEPT !.age = @ + 1] ELSE entries[d]]
  /\ UNCHANGED <<opQueue, submit, waiting, excused, deviceVars, clientVars>>

\* Mutant: the timer's goroutine removes peers itself.
GCDirect ==
  /\ Unlocked /\ closing # "done"
  /\ \E d \in Entered :
       /\ entries[d].age > TTL
       /\ entries' = [entries EXCEPT ![d] = Absent]
       /\ peers' = Configure(DeviceNow, RemovePeer(entries[d].pub, TRUE)).peers
       /\ owner' = Configure(DeviceNow, RemovePeer(entries[d].pub, TRUE)).owner
  /\ UNCHANGED <<opQueue, submit, waiting, excused, closing, clientVars>>

GC ==
  LET victims == {d \in Entered : entries[d].age > TTL} IN
  /\ Unlocked /\ closing # "done" /\ victims # {}
  /\ entries' = [d \in Device |-> IF d \in victims THEN Absent ELSE entries[d]]
  /\ submit' = [i \in 1 .. Cardinality(victims) |->
                  RemovePeer(entries[SetToSeq(victims)[i]].pub, TRUE)]
  /\ UNCHANGED <<opQueue, waiting, excused, deviceVars, clientVars>>

-----------------------------------------------------------------------------
(* The queue and the device                                                *)

Enqueue ==
  /\ submit # <<>> /\ ~waiting /\ Len(opQueue) < QueueCap
  /\ opQueue' = Append(opQueue, Head(submit))
  /\ submit' = Tail(submit) /\ waiting' = Head(submit).sync
  /\ UNCHANGED <<entries, excused, deviceVars, clientVars>>

\* devOpTimeout with the queue full: the operation is never executed.
EnqueueTimesOut ==
  /\ submit # <<>> /\ ~waiting /\ Len(opQueue) = QueueCap
  /\ submit' = Tail(submit)
  /\ excused' = excused \cup {Head(submit).pub}
  /\ UNCHANGED <<entries, opQueue, waiting, deviceVars, clientVars>>

Waited ==
  /\ waiting /\ opQueue = <<>>
  /\ waiting' = FALSE
  /\ UNCHANGED <<entries, opQueue, submit, excused, deviceVars, clientVars>>

\* Mutant: the wait has no end of its own.
WaitNeverTimesOut ==
  /\ waiting /\ opQueue = <<>>
  /\ waiting' = FALSE
  /\ UNCHANGED <<entries, opQueue, submit, excused, deviceVars, clientVars>>

\* devOpTimeout with the operation in the queue: it will be executed.
WaitTimesOut ==
  /\ waiting
  /\ waiting' = FALSE
  /\ UNCHANGED <<entries, opQueue, submit, excused, deviceVars, clientVars>>

\* The one consumer. IpcSet waits while the device closes.
Consume ==
  /\ closing = "no" /\ opQueue # <<>>
  /\ opQueue' = Tail(opQueue)
  /\ peers' = Configure(DeviceNow, Head(opQueue)).peers
  /\ owner' = Configure(DeviceNow, Head(opQueue)).owner
  /\ UNCHANGED <<entries, submit, waiting, excused, closing, clientVars>>

CloseDevice ==
  /\ closing = "no" /\ closing' = "begun"
  /\ UNCHANGED <<tableVars, peers, owner, clientVars>>

\* The receive goroutine has left Register and sees the closed socket. What is
\* left in the queue has no effect on a closed device.
DeviceClosed ==
  /\ closing = "begun" /\ Unlocked
  /\ closing' = "done"
  /\ UNCHANGED <<tableVars, peers, owner, clientVars>>

-----------------------------------------------------------------------------
QueueSteps == Enqueue \/ EnqueueTimesOut \/ Waited \/ WaitTimesOut
ClientSteps == \E d \in Device : NewKey(d) \/ NewToken(d)

DeviceNext ==
  \/ ClientSteps
  \/ \E r \in regs : Register(r)
  \/ TimePasses \/ GC \/ QueueSteps \/ Consume
  \/ CloseDevice \/ DeviceClosed

DeviceSpec == DeviceInit /\ [][DeviceNext]_deviceTableVars

\* Timers fire, the consumer runs, Close goes on once the receive goroutine has
\* left.
DeviceFairness ==
  /\ WF_deviceTableVars(QueueSteps) /\ WF_deviceTableVars(Consume)
  /\ WF_deviceTableVars(DeviceClosed)

\* A device repeats its registration with every handshake.
DevicesKeepRegistering ==
  \A d \in Device : SF_deviceTableVars(Register(Reg(d, holds[d])))

-----------------------------------------------------------------------------
(* Properties                                                              *)

\* Types, and the limit on devices.
DeviceTypeOK ==
  /\ entries \in [Device -> [pub : Pub, sec : Secret, age : 0 .. MaxAge] \cup {Absent}]
  /\ Cardinality(Entered) <= MaxDevices
  /\ peers \in [Pub -> Secret \cup {Absent}] /\ owner \in [Addr -> Pub \cup {Absent}]
  /\ Len(opQueue) <= QueueCap
  /\ waiting \in BOOLEAN /\ closing \in {"no", "begun", "done"}
  /\ holds \in [Device -> [pub : Pub, sec : Secret]]
  /\ regs \subseteq [dev : Device, pub : Pub, sec : Secret]
  /\ excused \subseteq Pub /\ news \in 0 .. MaxNews

\* No address belongs to two devices with different keys, be it as tunnel or
\* as application address: the device's allowed IPs are one table of prefixes,
\* and packets for one of the two would go to the other (ipTakenLocked).
OwnAddresses ==
  \A d, e \in Entered :
    entries[d].pub # entries[e].pub =>
      AddrsOf(entries[d].sec, entries[d].pub) \cap AddrsOf(entries[e].sec, entries[e].pub) = {}

\* What operations that are still to be executed, in this order, make of a peer with the
\* secret v: its last operation decides.
EndsAs(ops, v, p, s) ==
  \/ v = s /\ \A i \in 1 .. Len(ops) : ops[i].pub # p
  \/ \E i \in 1 .. Len(ops) :
       /\ ops[i].pub = p /\ s = (IF ops[i].do = "add" THEN ops[i].sec ELSE Absent)
       /\ \A j \in i + 1 .. Len(ops) : ops[j].pub # p

\* And of an address that o owns: p has it or takes it, and neither is p removed nor does
\* another peer take it after that.
TakesOver(op, a) == op.do = "add" /\ a \in AddrsOf(op.sec, op.pub)
Loses(op, a, p) == IF op.pub = p THEN op.do = "remove" ELSE TakesOver(op, a)
ComesTo(ops, o, a, p) ==
  \E i \in 0 .. Len(ops) :
    /\ IF i = 0 THEN o = p ELSE ops[i].pub = p /\ TakesOver(ops[i], a)
    /\ \A j \in i + 1 .. Len(ops) : ~Loses(ops[j], a, p)

\* Once what is queued has been executed, the device has exactly the peers of
\* the table, with their PSK and addresses; only keys the code has reported as out of
\* step are excepted (opCh: one consumer, 提交顺序=执行顺序).
Due == opQueue \o submit
PeersFollowTable == closing # "done" =>
  \A p \in Pub \ excused :
    LET with == {d \in Entered : entries[d].pub = p} IN
    IF with = {} THEN EndsAs(Due, peers[p], p, Absent)
    ELSE \A d \in with :
           /\ EndsAs(Due, peers[p], p, entries[d].sec)
           /\ \A a \in AddrsOf(entries[d].sec, p) : ComesTo(Due, owner[a], a, p)

\* The table gives every device addresses of its own, and the WireGuard device
\* comes to hold the peers of the table.
DevicesAgree == OwnAddresses /\ PeersFollowTable

\* A device that was seen within the grace period keeps its place, unless it
\* comes with another key itself (ErrTableFull: 绝不淘汰在线设备).
ActiveStays ==
  [][\A d \in Entered :
       /\ entries[d].age <= Grace
       /\ entries'[d] = Absent \/ entries'[d].pub # entries[d].pub
       => \E r \in regs : r.dev = d /\ entries'[d] = NewEntry(r)]_deviceTableVars

\* Closing the device ends although the consumer waits for the lock Close
\* holds, Close for the receive goroutine, and that for the consumer.
CloseReturns == []<>(closing # "begun")

\* What the code does not keep: a device that keeps registering with the key and the token it has gets a
\* peer with that PSK, a new token included (identity_store.go:35: 换 token 不换身份).
DeviceServed ==
  \A d \in Device, p \in Pub, s \in Secret :
    <>[](holds[d] = [pub |-> p, sec |-> s]) => []<>(peers[p] = s \/ closing # "no")
=============================================================================
