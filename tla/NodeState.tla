----------------------------- MODULE NodeState -----------------------------
(***************************************************************************)
(* The state directory of a node (internal/nodestate): the instance lock,  *)
(* the start of a process on the directory, and "import", which replaces   *)
(* the pieces of state (config.toml, serve/, relay/, client/) by those of  *)
(* an artifact: probe the lock, unpack beside the directory, move the old  *)
(* pieces away one by one, move the new ones in one by one, and roll back  *)
(* when a step fails.                                                      *)
(*                                                                         *)
(* A piece is known by where it comes from: 0 for the state found at       *)
(* first, n for what import n brought, FreshPiece for what a starting process   *)
(* makes of a piece that is missing.  Calls on the file system may fail    *)
(* and the import may be killed between any two of its steps.              *)
(***************************************************************************)
EXTENDS Naturals, Sequences, FiniteSets

CONSTANTS
    PieceCount,  \* the pieces are 1 .. PieceCount, in the order they are handled
    MaxImports,  \* bound: imports begun
    MaxStarts    \* bound: processes started

ASSUME PieceCountAssumption == PieceCount \in Nat \ {0}
ASSUME NodeBounds == MaxImports \in Nat /\ MaxStarts \in Nat

Piece == 1 .. PieceCount
Config == 1      \* config.toml, a file; the others are directories

NoPiece == <<"none">>
FreshPiece == <<"fresh">>
From(n) == <<"import", n>>
Origin == {NoPiece, FreshPiece} \cup {From(n) : n \in 0 .. MaxImports}
Nothing == [p \in Piece |-> NoPiece]
All(o) == [p \in Piece |-> o]

VARIABLES
    place,     \* place[p]: the piece in the state directory
    aside,     \* aside[n][p]: the piece in the .import-old of import n
    import,    \* the import: which one, where it is, the next piece of its loop,
               \* and the pieces it has moved away and placed
    process,   \* "none" | "running"
    starts,    \* processes started so far
    seen       \* history: what the import found, whether something else changed
               \* the directory meanwhile, how the last import ended

nodeVars == <<place, aside, import, process, starts, seen>>

Begun(n) == [n |-> n, at |-> "probing", next |-> 1, moved |-> {}, placed |-> {}]

NodeInit ==
    /\ place \in {All(From(0)), Nothing}
    /\ aside = [n \in 1 .. MaxImports |-> Nothing]
    /\ import = [Begun(0) EXCEPT !.at = "idle"]
    /\ process = "none"
    /\ starts = 0
    /\ seen = [before |-> place, disturbed |-> FALSE, last |-> "none"]

----------------------------------------------------------------------------
(* The process.                                                             *)

(* AcquireInstanceLock, then OpenNodeState and the keys the roles generate: *)
(* what is missing is made anew.  The lock is held while the process runs,  *)
(* and by an import only while it probes.                                   *)
ProcessStarts ==
    /\ process = "none" /\ starts < MaxStarts /\ import.at # "probing"
    /\ process' = "running"
    /\ starts' = starts + 1
    /\ place' = [p \in Piece |-> IF place[p] = NoPiece THEN FreshPiece ELSE place[p]]
    /\ seen' = [seen EXCEPT !.disturbed = TRUE]
    /\ UNCHANGED <<aside, import>>

(* The process ends or is killed: the kernel frees the lock.                *)
ProcessEnds ==
    /\ process = "running"
    /\ process' = "none"
    /\ UNCHANGED <<place, aside, import, starts, seen>>

----------------------------------------------------------------------------
(* The import.                                                              *)

Ends(how) ==
    /\ import' = [import EXCEPT !.at = "idle"]
    /\ seen' = [seen EXCEPT !.last = how]

(* The command tries the lock without waiting (lockHeld).                   *)
ImportBegins ==
    /\ import.at = "idle" /\ import.n < MaxImports
    /\ process = "none"
    /\ import' = Begun(import.n + 1)
    /\ seen' = [before |-> place, disturbed |-> FALSE, last |-> "running"]
    /\ UNCHANGED <<place, aside, process, starts>>

(* The probe has given the lock back: from here on nothing keeps a process  *)
(* from starting.  The artifact is read, validated and unpacked into        *)
(* .import-tmp; any of that may be refused, with nothing moved.             *)
ImportUnpacks ==
    /\ import.at = "probing"
    /\ \/ import' = [import EXCEPT !.at = "moving"] /\ UNCHANGED seen
       \/ Ends("failed")
    /\ UNCHANGED <<place, aside, process, starts>>

(* Mutant: the loop runs one step too far.                                  *)
AdvanceTooFar(moved, placed, at) ==
    import' = [import EXCEPT
        !.moved = moved, !.placed = placed,
        !.at   = IF import.next > PieceCount THEN at ELSE @,
        !.next = IF import.next > PieceCount THEN 1 ELSE @ + 1]

(* The loops of placePieces go through the pieces in order, then to at.     *)
Advance(moved, placed, at) ==
    import' = [import EXCEPT
        !.moved = moved, !.placed = placed,
        !.at   = IF import.next = PieceCount THEN at ELSE @,
        !.next = IF import.next = PieceCount THEN 1 ELSE @ + 1]

(* A step that fails starts the roll-back (the deferred function).          *)
Fails == import' = [import EXCEPT !.at = "removing", !.next = 1]

(* Mutant: the old piece is removed, and kept only once the new one is in.  *)
MoveOldAway ==
    LET p == import.next IN
    /\ import.at = "moving"
    /\ place' = [place EXCEPT ![p] = NoPiece]
    /\ Advance(import.moved \cup {p}, import.placed, "placing")
    /\ UNCHANGED <<aside, process, starts, seen>>

(* First loop: the old piece, if there is one, is renamed into .import-old. *)
MoveOldAside ==
    LET p == import.next IN
    /\ import.at = "moving"
    /\ \/ /\ place[p] = NoPiece
          /\ Advance(import.moved, import.placed, "placing")
          /\ UNCHANGED <<place, aside>>
       \/ /\ place[p] # NoPiece
          /\ aside' = [aside EXCEPT ![import.n][p] = place[p]]
          /\ place' = [place EXCEPT ![p] = NoPiece]
          /\ Advance(import.moved \cup {p}, import.placed, "placing")
       \/ place[p] # NoPiece /\ Fails /\ UNCHANGED <<place, aside>>
    /\ UNCHANGED <<process, starts, seen>>

(* rename(2) replaces a file, and a directory only when it is empty (what a *)
(* starting process made anew may still be).                                *)
CanReplace(p) == place[p] \in {NoPiece, FreshPiece} \/ p = Config

(* Second loop: the new piece is renamed into place; a valid artifact has   *)
(* all of them.                                                             *)
PlaceNew ==
    LET p == import.next IN
    /\ import.at = "placing"
    /\ \/ /\ CanReplace(p)
          /\ place' = [place EXCEPT ![p] = From(import.n)]
          /\ Advance(import.moved, import.placed \cup {p}, "clearing")
       \/ Fails /\ UNCHANGED place
    /\ UNCHANGED <<aside, process, starts, seen>>

(* Mutant: the roll-back leaves the pieces that were placed.                *)
RemoveNothing ==
    /\ import.at = "removing"
    /\ Advance(import.moved, import.placed, "restoring")
    /\ UNCHANGED <<place, aside, process, starts, seen>>

(* Roll-back, first loop: the pieces placed are removed.                    *)
RemovePlaced ==
    LET p == import.next IN
    /\ import.at = "removing"
    /\ place' = [place EXCEPT ![p] = IF p \in import.placed THEN NoPiece ELSE @]
    /\ Advance(import.moved, import.placed, "restoring")
    /\ UNCHANGED <<aside, process, starts, seen>>

(* Roll-back, second loop: the old pieces are renamed back.  The error of a *)
(* rename is ignored: the piece stays in .import-old.                       *)
RestoreOld ==
    LET p == import.next IN
    /\ import.at = "restoring"
    /\ Advance(import.moved, import.placed, "leaving")
    /\ \/ /\ p \in import.moved /\ CanReplace(p)
          /\ place' = [place EXCEPT ![p] = aside[import.n][p]]
          /\ aside' = [aside EXCEPT ![import.n][p] = NoPiece]
          /\ UNCHANGED seen
       \/ /\ p \in import.moved
          /\ seen' = [seen EXCEPT !.disturbed = TRUE]
          /\ UNCHANGED <<place, aside>>
       \/ p \notin import.moved /\ UNCHANGED <<place, aside, seen>>
    /\ UNCHANGED <<process, starts>>

(* The error goes to the user; .import-old stays unless it is empty.        *)
ImportFails ==
    /\ import.at = "leaving"
    /\ Ends("failed")
    /\ UNCHANGED <<place, aside, process, starts>>

(* All new pieces are in place: .import-old is removed, piece by piece.     *)
ImportClears ==
    /\ import.at = "clearing"
    /\ aside' = [aside EXCEPT ![import.n][import.next] = NoPiece]
    /\ IF import.next = PieceCount
         THEN Ends("done")
         ELSE Advance(import.moved, import.placed, "clearing") /\ UNCHANGED seen
    /\ UNCHANGED <<place, process, starts>>

(* The command is killed, or the machine goes down, at any step.            *)
ImportKilled ==
    /\ import.at # "idle"
    /\ Ends("killed")
    /\ UNCHANGED <<place, aside, process, starts>>

ImportStep ==
    \/ ImportBegins \/ ImportUnpacks
    \/ MoveOldAside \/ PlaceNew
    \/ RemovePlaced \/ RestoreOld \/ ImportFails
    \/ ImportClears \/ ImportKilled

NodeNext == ImportStep \/ ProcessStarts \/ ProcessEnds

NodeSpec == NodeInit /\ [][NodeNext]_nodeVars

----------------------------------------------------------------------------
(* Properties.                                                              *)

(* Type invariant: a piece comes from somewhere known, and the two loops of *)
(* an import stay within the pieces.                                        *)
NodeTypeOK ==
    /\ place \in [Piece -> Origin]
    /\ aside \in [1 .. MaxImports -> [Piece -> Origin]]
    /\ import \in [n : 0 .. MaxImports, next : Piece,
                   at : {"idle", "probing", "moving", "placing", "removing",
                         "restoring", "leaving", "clearing"},
                   moved : SUBSET Piece, placed : SUBSET Piece]
    /\ process \in {"none", "running"}
    /\ starts \in 0 .. MaxStarts
    /\ seen \in [before : [Piece -> Origin], disturbed : BOOLEAN,
                 last : {"none", "running", "failed", "done", "killed"}]

(* An import that ends and that nothing disturbed (no process started under *)
(* it, no rename of the roll-back failed) leaves the directory whole: all   *)
(* the pieces of the artifact, or, after a failure at any step, exactly the *)
(* pieces it found (artifact.go:420, "rollback on any failing step").       *)
AllOrNothing ==
    (import.at = "idle" /\ ~seen.disturbed) =>
        /\ seen.last = "done" => place = All(From(import.n))
        /\ seen.last = "failed" => place = seen.before

(* The one promise that survives a kill: a piece that the import found is   *)
(* in the directory or in .import-old until every new piece has been placed *)
(* (so the identity of the node can be got back by hand).                   *)
OldKeptUntilReplaced ==
    (seen.last \in {"running", "killed", "failed"} /\ import.at # "clearing") =>
        \A p \in Piece :
            \/ seen.before[p] \in {NoPiece, place[p]}
            \/ \E n \in 1 .. MaxImports : aside[n][p] = seen.before[p]
            \/ import.placed = Piece
=============================================================================
