------------------------------ MODULE Identity ------------------------------
(* The device's identity (wtransport/identity_store.go): a master key and a tag,   *)
(* each in a file that the first process to need it creates. The tunnel's process  *)
(* and the service's start together; a lock on the directory puts one after the     *)
(* other, and a process that cannot have the lock relies on O_EXCL and on waiting.  *)
EXTENDS Integers, FiniteSets

CONSTANTS
  Process,
  MaxKeys   \* bound: keys ever generated, of either file

ASSUME IdentityAssumption == MaxKeys \in Nat \ {0}

VARIABLES
  file,     \* the contents of master.key and devtag: 0 absent, -1 incomplete, else a key
  dirLock,  \* who holds identity.lock
  loader,   \* a process in LoadOrCreateIdentity: its step, the file it is at, its key
  got,      \* the identities processes run with: [master, devtag], 0: one of the session only
  generated,     \* keys generated so far
  harmed    \* history: a process had no lock, a user reset the identity
identityVars == <<file, dirLock, loader, got, generated, harmed>>

File == {"master", "devtag"}
NoOne == "none"
ASSUME NoOneAssumption == NoOne \notin Process
Out == [at |-> "out", of |-> "master", key |-> 0, locked |-> FALSE]
IdentityInit ==
  /\ file = [f \in File |-> 0] /\ dirLock = NoOne
  /\ loader = [p \in Process |-> Out]
  /\ got = [p \in Process |-> [f \in File |-> 0]]
  /\ generated = 0 /\ harmed = {}

Step(p, where) == loader' = [loader EXCEPT ![p].at = where]
\* Mutant: the lock is a shared one.
LocksShared(p) ==
  /\ loader[p].at = "out" /\ dirLock' = p
  /\ loader' = [loader EXCEPT ![p] = [Out EXCEPT !.at = "reads", !.locked = TRUE]]
  /\ got' = [got EXCEPT ![p] = [f \in File |-> 0]] /\ UNCHANGED <<file, generated, harmed>>
\* The lock is waited for; a file system without it is gone without.
Locks(p) ==
  /\ loader[p].at = "out" /\ dirLock = NoOne /\ dirLock' = p
  /\ loader' = [loader EXCEPT ![p] = [Out EXCEPT !.at = "reads", !.locked = TRUE]]
  /\ got' = [got EXCEPT ![p] = [f \in File |-> 0]] /\ UNCHANGED <<file, generated, harmed>>
GoesWithout(p) ==
  /\ loader[p].at = "out"
  /\ loader' = [loader EXCEPT ![p] = [Out EXCEPT !.at = "reads"]] /\ harmed' = harmed \cup {"unlocked"}
  /\ got' = [got EXCEPT ![p] = [f \in File |-> 0]] /\ UNCHANGED <<file, dirLock, generated>>

\* A complete file is the key; an incomplete one may be another's that is being written.
Takes(p, key) ==
  /\ got' = [got EXCEPT ![p][loader[p].of] = key]
  /\ loader' = [loader EXCEPT ![p].at = IF @ # "out" /\ loader[p].of = "master" THEN "reads" ELSE "leaves",
                              ![p].of = "devtag", ![p].key = 0]
ReadsKey(p) ==
  /\ loader[p].at \in {"reads", "waits"} /\ file[loader[p].of] > 0 /\ Takes(p, file[loader[p].of])
  /\ UNCHANGED <<file, dirLock, generated, harmed>>
ReadsHalf(p) ==
  /\ loader[p].at = "reads" /\ file[loader[p].of] = -1
  /\ Step(p, IF loader[p].of = "master" THEN "waits" ELSE "archives")
  /\ UNCHANGED <<file, dirLock, got, generated, harmed>>
ReadsNothing(p) ==
  /\ loader[p].at = "reads" /\ file[loader[p].of] = 0 /\ Step(p, "creates")
  /\ UNCHANGED <<file, dirLock, got, generated, harmed>>
\* waitForCompleteFile: 200 ms, for the master key. Then the file is put aside and
\* created anew; here a file that another created in between is an error.
WaitEnds(p) ==
  /\ loader[p].at = "waits" /\ file[loader[p].of] <= 0 /\ Step(p, "archives")
  /\ UNCHANGED <<file, dirLock, got, generated, harmed>>
Archives(p) ==
  /\ loader[p].at = "archives" /\ file[loader[p].of] # 0
  /\ file' = [file EXCEPT ![loader[p].of] = 0] /\ Step(p, "recreates")
  /\ UNCHANGED <<dirLock, got, generated, harmed>>

\* The file is gone: the rename fails.
ArchiveFails(p) ==
  /\ loader[p].at = "archives" /\ file[loader[p].of] = 0 /\ Step(p, "leaves")
  /\ UNCHANGED <<file, dirLock, got, generated, harmed>>

\* O_EXCL: one creates; the others read what it writes.
Creates(p) ==
  /\ loader[p].at \in {"creates", "recreates"} /\ file[loader[p].of] = 0 /\ generated < MaxKeys
  /\ file' = [file EXCEPT ![loader[p].of] = -1] /\ generated' = generated + 1
  /\ loader' = [loader EXCEPT ![p].at = "writes", ![p].key = generated + 1]
  /\ UNCHANGED <<dirLock, got, harmed>>
CreateExists(p) ==
  /\ loader[p].at \in {"creates", "recreates"} /\ file[loader[p].of] # 0
  /\ Step(p, IF loader[p].at = "creates" THEN "loses" ELSE "leaves")
  /\ UNCHANGED <<file, dirLock, got, generated, harmed>>
LoserReads(p) ==
  /\ loader[p].at = "loses" /\ file[loader[p].of] > 0 /\ Takes(p, file[loader[p].of])
  /\ UNCHANGED <<file, dirLock, generated, harmed>>
\* The content is written and synced; the name may have been taken away meanwhile.
WritesKey(p) ==
  /\ loader[p].at = "writes"
  /\ file' = [file EXCEPT ![loader[p].of] = IF @ = -1 THEN loader[p].key ELSE @]
  /\ Takes(p, loader[p].key) /\ UNCHANGED <<dirLock, generated, harmed>>
\* The disk is full: the file is removed again. Without a master key the session gets a
\* key of its own; without a tag one that is derived from the master key.
WriteFailsKey(p) ==
  /\ loader[p].at \in {"writes", "loses"}
  /\ file' = IF loader[p].at = "writes" THEN [file EXCEPT ![loader[p].of] = 0] ELSE file
  /\ Step(p, "leaves") /\ UNCHANGED <<dirLock, got, generated, harmed>>

Leaves(p) ==
  /\ loader[p].at = "leaves" /\ Step(p, "out") /\ dirLock' = (IF dirLock = p THEN NoOne ELSE dirLock)
  /\ UNCHANGED <<file, got, generated, harmed>>
\* Mutant: the lock is a file that only its owner removes.
DiesHolding(p) ==
  /\ loader[p].at # "out" /\ loader' = [loader EXCEPT ![p] = Out]
  /\ got' = [got EXCEPT ![p] = [f \in File |-> 0]] /\ UNCHANGED <<file, dirLock, generated, harmed>>
\* A process is killed: the system frees its lock, a file it was writing stays as it is.
Dies(p) ==
  /\ loader[p].at # "out" /\ loader' = [loader EXCEPT ![p] = Out]
  /\ got' = [got EXCEPT ![p] = [f \in File |-> 0]]
  /\ dirLock' = (IF dirLock = p THEN NoOne ELSE dirLock) /\ UNCHANGED <<file, generated, harmed>>
\* Mutant: a reset empties the directory.
ResetsAll ==
  /\ file["master"] # 0 /\ file' = [f \in File |-> 0] /\ harmed' = harmed \cup {"reset"}
  /\ UNCHANGED <<dirLock, loader, got, generated>>
\* The user resets the identity: the master key's file is deleted.
Resets ==
  /\ file["master"] # 0 /\ file' = [file EXCEPT !["master"] = 0] /\ harmed' = harmed \cup {"reset"}
  /\ UNCHANGED <<dirLock, loader, got, generated>>

IdentityNext ==
  \/ Resets
  \/ \E p \in Process :
       \/ Locks(p) \/ GoesWithout(p) \/ ReadsKey(p) \/ ReadsHalf(p) \/ ReadsNothing(p)
       \/ WaitEnds(p) \/ Archives(p) \/ ArchiveFails(p) \/ Creates(p) \/ CreateExists(p) \/ LoserReads(p)
       \/ WritesKey(p) \/ WriteFailsKey(p) \/ Leaves(p) \/ Dies(p)
IdentitySpec == IdentityInit /\ [][IdentityNext]_identityVars
-----------------------------------------------------------------------------
\* What every variable may hold; the directory's lock is held by a process inside.
IdentityTypeOK ==
  /\ file \in [File -> -1..MaxKeys] /\ generated \in 0..MaxKeys
  /\ dirLock # NoOne => loader[dirLock].locked /\ loader[dirLock].at # "out"
  /\ got \in [Process -> [File -> 0..MaxKeys]]

\* Processes that take the lock run with one identity, the one in the files, whenever they
\* start and wherever one of them is killed: the exit would take two for two devices.
OneIdentity ==
  harmed = {} => \A p, q \in Process : \A f \in File :
    got[p][f] # 0 /\ got[q][f] # 0 => got[p][f] = got[q][f] /\ file[f] = got[p][f]

\* Where every process takes the lock a complete tag stays, through resets of the master
\* key and through crashes: the exit's device table knows the device by it.
TagOutlivesReset ==
  [][file["devtag"] > 0 /\ "unlocked" \notin harmed => file'["devtag"] = file["devtag"]]_identityVars
-----------------------------------------------------------------------------
(* What the code does not keep: a process without the lock that waits 200 ms for  *)
(* another's half-written key puts it aside and makes its own.                  *)
OneIdentityWithoutLock ==
  \A p, q \in Process : \A f \in File : got[p][f] # 0 /\ got[q][f] # 0 => got[p][f] = got[q][f]
=============================================================================
