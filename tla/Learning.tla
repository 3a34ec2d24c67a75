------------------------------ MODULE Learning ------------------------------
(* What a session learns about its exit's addresses (wgcore/transport.go,        *)
(* wtransport/endpointcache.go): hints and probe answers are observed in a cache,   *)
(* the bind is given the merged candidates, a goroutine writes the cache to the      *)
(* peer's one file. The tunnel and the service session have an instance each.    *)
EXTENDS Integers, FiniteSets

CONSTANTS
  Instance,   \* the caches of one exit, on one file
  Learnt,     \* addresses that hints and probes report
  MaxEra,     \* bound: lifetimes of an entry (LearnedEndpointTTL)
  MaxFailures \* bound: saves that fail

ASSUME LearningAssumption == MaxEra \in Nat \ {0} /\ MaxFailures \in Nat

VARIABLES
  mem,     \* the entries of an instance: the lifetime each was last refreshed in, 0: none
  disk,    \* the entries of the file
  lastRaw, \* what the instance wrote last
  era,     \* the present lifetime
  callback,  \* an instance's callbacks: one that has changed the cache and not yet asked to save
  sig,     \* saveSig
  saver,   \* saveLoop and the save of Close: where, what they read from the file
  closed,  \* saveDone
  lastMarked, \* the address whose round trip was marked last, and in this lifetime
  heard,   \* history: what the instance observed itself before it was closed
  failures \* history: its saves that failed
learningVars == <<mem, disk, lastRaw, era, callback, sig, saver, closed, lastMarked, heard, failures>>

NoEntries == [a \in Learnt |-> 0]
Valid(entries) == [a \in Learnt |-> IF entries[a] = era THEN era ELSE 0]
\* Entries of the file that memory does not have: for the others memory is believed.
MergeDisk(m, d) == [a \in Learnt |-> IF m[a] = 0 THEN d[a] ELSE m[a]]

LearningInit ==
  /\ mem = [i \in Instance |-> NoEntries] /\ disk = NoEntries
  /\ lastRaw = [i \in Instance |-> NoEntries]
  /\ era = 1
  /\ callback = [i \in Instance |-> FALSE] /\ sig = [i \in Instance |-> FALSE]
  /\ saver = [i \in Instance |-> [at |-> "waits", raw |-> NoEntries]]
  /\ closed = [i \in Instance |-> FALSE]
  /\ lastMarked = [i \in Instance |-> "none"] /\ heard = [i \in Instance |-> {}]
  /\ failures = [i \in Instance |-> 0]

EraPasses ==
  /\ era < MaxEra /\ era' = era + 1 /\ lastMarked' = [i \in Instance |-> "none"]
  /\ UNCHANGED <<mem, disk, lastRaw, callback, sig, saver, closed, heard, failures>>

\* The file is written under the instance's lock: the cache stands still meanwhile.
Saving(i) == saver[i].at \in {"writes", "closes"}

Learns(i, a) ==
  /\ ~callback[i] /\ ~Saving(i)
  /\ mem' = [mem EXCEPT ![i][a] = era] /\ callback' = [callback EXCEPT ![i] = TRUE]
  /\ heard' = [heard EXCEPT ![i] = IF closed[i] THEN @ \ {a} ELSE @ \cup {a}]
  /\ UNCHANGED <<disk, lastRaw, era, sig, saver, closed, failures>>
\* What the relay saw of the exit, what the exit says of itself.
Hint(i) == \E a \in Learnt : Learns(i, a) /\ UNCHANGED lastMarked
\* A dial or a probe went through: the path of the moment, once an hour.
MarkRoundTrip(i) ==
  \E a \in Learnt \ {lastMarked[i]} : Learns(i, a) /\ lastMarked' = [lastMarked EXCEPT ![i] = a]
ScheduleSave(i) ==
  /\ callback[i] /\ callback' = [callback EXCEPT ![i] = FALSE] /\ sig' = [sig EXCEPT ![i] = TRUE]
  /\ UNCHANGED <<mem, disk, lastRaw, era, saver, closed, lastMarked, heard, failures>>

SaverAt(i, where) == saver' = [saver EXCEPT ![i].at = where]
TakesSignal(i) ==
  /\ saver[i].at = "waits" /\ sig[i] /\ sig' = [sig EXCEPT ![i] = FALSE] /\ SaverAt(i, "window")
  /\ UNCHANGED <<mem, disk, lastRaw, era, callback, closed, lastMarked, heard, failures>>
MergesSignal(i) ==
  /\ saver[i].at = "window" /\ sig[i] /\ sig' = [sig EXCEPT ![i] = FALSE]
  /\ UNCHANGED <<mem, disk, lastRaw, era, callback, saver, closed, lastMarked, heard, failures>>

\* The window is over: the file is read and merged in; what was written last is not again.
ReadsFile(i, next) ==
  LET merged == MergeDisk(mem[i], disk) IN
  /\ mem' = [mem EXCEPT ![i] = merged]
  /\ saver' = [saver EXCEPT ![i] = [at |-> next, raw |-> Valid(merged)]]
  /\ UNCHANGED <<disk, lastRaw, era, callback, sig, lastMarked, heard, failures>>
\* Mutant: a signal starts the window again.
WindowEndsQuiet(i) == saver[i].at = "window" /\ ~sig[i] /\ ReadsFile(i, "writes") /\ UNCHANGED closed
WindowEnds(i) == saver[i].at = "window" /\ ReadsFile(i, "writes") /\ UNCHANGED closed
\* Mutant: Close leaves the last save to the loop.
CloseWithoutSave(i) ==
  /\ ~closed[i] /\ ~Saving(i) /\ closed' = [closed EXCEPT ![i] = TRUE] /\ SaverAt(i, "ended")
  /\ UNCHANGED <<mem, disk, lastRaw, era, callback, sig, lastMarked, heard, failures>>
\* Mutant: Close does not stop the loop.
CloseKeepsLoop(i) ==
  /\ ~closed[i] /\ ~Saving(i) /\ closed' = [closed EXCEPT ![i] = TRUE] /\ ReadsFile(i, "writes")
\* Close: the loop may be in its window, it ends; the last save is Close's own.
CloseTransport(i) ==
  /\ ~closed[i] /\ ~Saving(i) /\ closed' = [closed EXCEPT ![i] = TRUE] /\ ReadsFile(i, "closes")

Written(i) ==
  IF saver[i].raw = lastRaw[i] THEN UNCHANGED <<disk, lastRaw>>
  ELSE disk' = saver[i].raw /\ lastRaw' = [lastRaw EXCEPT ![i] = saver[i].raw]
WritesCache(i) ==
  /\ Saving(i) /\ Written(i) /\ SaverAt(i, IF saver[i].at = "closes" THEN "ended" ELSE "waits")
  /\ UNCHANGED <<mem, era, callback, sig, closed, lastMarked, heard, failures>>
CacheWriteFails(i) ==
  /\ Saving(i) /\ saver[i].raw # lastRaw[i] /\ failures[i] < MaxFailures
  /\ failures' = [failures EXCEPT ![i] = @ + 1]
  /\ SaverAt(i, IF saver[i].at = "closes" THEN "ended" ELSE "waits")
  /\ UNCHANGED <<mem, disk, lastRaw, era, callback, sig, closed, lastMarked, heard>>

\* The session is built again: a new instance reads the file.
OpenCache(i) ==
  /\ closed[i] /\ saver[i].at = "ended" /\ ~callback[i]
  /\ mem' = [mem EXCEPT ![i] = disk] /\ lastRaw' = [lastRaw EXCEPT ![i] = NoEntries]
  /\ closed' = [closed EXCEPT ![i] = FALSE] /\ sig' = [sig EXCEPT ![i] = FALSE]
  /\ saver' = [saver EXCEPT ![i] = [at |-> "waits", raw |-> NoEntries]]
  /\ failures' = [failures EXCEPT ![i] = 0] /\ heard' = [heard EXCEPT ![i] = {}]
  /\ lastMarked' = [lastMarked EXCEPT ![i] = "none"] /\ UNCHANGED <<disk, era, callback>>

SaverSteps(i) == TakesSignal(i) \/ MergesSignal(i) \/ WindowEnds(i) \/ WritesCache(i)
LearningNext ==
  \/ EraPasses
  \/ \E i \in Instance :
       \/ Hint(i) \/ MarkRoundTrip(i) \/ ScheduleSave(i) \/ SaverSteps(i) \/ CacheWriteFails(i)
       \/ CloseTransport(i) \/ OpenCache(i)
\* The callbacks end, the loop runs, its window passes.
LearningFairness ==
  \A i \in Instance :
    /\ WF_learningVars(ScheduleSave(i))
    /\ WF_learningVars(TakesSignal(i) \/ WritesCache(i)) /\ WF_learningVars(WindowEnds(i))
LearningSpec == LearningInit /\ [][LearningNext]_learningVars /\ LearningFairness
-----------------------------------------------------------------------------
\* What every variable may hold; the file and the instances know of no lifetime to come.
LearningTypeOK ==
  /\ mem \in [Instance -> [Learnt -> 0..era]] /\ disk \in [Learnt -> 0..era]
  /\ lastRaw \in [Instance -> [Learnt -> 0..era]]
  /\ \A i \in Instance : closed[i] => saver[i].at \in {"closes", "ended"}

\* An address that an instance learnt is in what it wrote last, or a save is still to come,
\* whichever signals were merged into one and whenever Close stops the loop; a save that
\* fails is not repeated by itself.
NoneForgotten ==
  \A i \in Instance : \A a \in heard[i] :
    mem[i][a] = era /\ lastRaw[i][a] # era /\ failures[i] = 0 =>
      callback[i] \/ Saving(i) \/ (~closed[i] /\ (sig[i] \/ saver[i].at = "window"))

\* What an instance learns is written before long, however often it learns something new
\* meanwhile, unless it goes stale or the disk refuses.
LearntIsWritten ==
  \A i \in Instance : \A a \in Learnt : \A e \in 1..MaxEra :
    []<>(a \in heard[i] /\ mem[i][a] = e => lastRaw[i][a] = e \/ era > e \/ failures[i] > 0 \/ closed[i])
-----------------------------------------------------------------------------
(* What the code does not keep. The file of one instance is read and written in   *)
(* two steps that another may come between; and the other's next save writes       *)
(* nothing, since it equals what it wrote before.                              *)
WrittenStays ==
  \A i \in Instance : \A a \in Learnt :
    ~closed[i] /\ saver[i].at = "waits" /\ lastRaw[i][a] = era /\ ~sig[i] /\ ~callback[i] =>
      disk[a] = era \/ \E j \in Instance : Saving(j) \/ sig[j] \/ callback[j] \/ saver[j].at = "window"
=============================================================================
