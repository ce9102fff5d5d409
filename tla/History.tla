--------------------------------- MODULE History --------------------------------
(***************************************************************************)
(* The store of task histories (innen-core middleware/history/store.rs):   *)
(* the directory of one task.                                              *)
(*                                                                         *)
(* A save holds the exclusive lock of the directory while it checks that   *)
(* no earlier decision is removed or rewritten, writes the request to a    *)
(* snapshot file named by its hash, and appends the hash as a line to the  *)
(* index.  A load takes the shared lock and reads the last line and its    *)
(* snapshot.  Saves overlap and die at any step.                           *)
(*                                                                         *)
(* A request is the set of its decisions, valid and all of the task (see   *)
(* Decisions); the hash of a request is the request.                       *)
(***************************************************************************)
EXTENDS Naturals, Sequences, FiniteSets

CONSTANTS
    Proc,     \* processes that save
    Decision, \* decisions, records with an id
    None,
    MaxIndex, \* the admission bound of the index, in lines
    MaxCrash  \* bound: saves that die

VARIABLES
    snapshots, \* per request, its snapshot file: absent, part or whole
    index,     \* the complete lines of the index
    half,      \* the index exists and does not end in a newline
    lock,      \* the process that holds the exclusive lock
    at,        \* where each process is
    request,   \* what it saves
    told,      \* the requests whose saves were acknowledged (history)
    crashes

vars == <<snapshots, index, half, lock, at, request, told, crashes>>

Request == {S \in SUBSET Decision : \A d, e \in S : d.id = e.id => d = e}

-----------------------------------------------------------------------------
Init ==
    /\ snapshots = [r \in Request |-> "absent"]
    /\ index = << >> /\ half = FALSE
    /\ lock = None
    /\ at = [p \in Proc |-> "idle"]
    /\ request = [p \in Proc |-> None]
    /\ told = {}
    /\ crashes = 0

Goto(p, s) == at' = [at EXCEPT ![p] = s]

Exists == half \/ index # << >>

\* read_index and the prior snapshots that reject_immutable_changes reads.
IndexReads == ~half /\ \A n \in DOMAIN index : snapshots[index[n]] = "whole"

Prior == UNION {index[n] : n \in DOMAIN index}

\* Mutant of Immutable: a decision may be left out, not rewritten.
ImmutableIfNamed(r) == \A d \in Prior : \A e \in r : d.id = e.id => d = e

\* Every decision of the earlier snapshots is in the request as it was.
Immutable(r) == Prior \subseteq r

BeginSave(p, r) ==
    /\ at[p] = "idle"
    /\ request' = [request EXCEPT ![p] = r]
    /\ Goto(p, "lock")
    /\ UNCHANGED <<snapshots, index, half, lock, told, crashes>>

Acquire(p) ==
    /\ at[p] = "lock" /\ lock = None
    /\ lock' = p
    /\ Goto(p, "check")
    /\ UNCHANGED <<snapshots, index, half, request, told, crashes>>

\* The index reads, nothing is lost, and the index has room for a line.
Admitted(p) ==
    /\ ~Exists \/ IndexReads
    /\ Immutable(request[p])
    /\ Len(index) < MaxIndex

\* A snapshot of the request that a save left half written is a conflict: the
\* request cannot be saved any more.
Check(p) ==
    LET r == request[p]
    IN /\ at[p] = "check"
       /\ IF ~Admitted(p) \/ snapshots[r] = "part"
          THEN /\ Goto(p, "idle")
               /\ lock' = None
               /\ UNCHANGED snapshots
          ELSE /\ Goto(p, IF snapshots[r] = "whole" THEN "line" ELSE "fill")
               /\ snapshots' = [snapshots EXCEPT ![r] = IF @ = "whole" THEN @ ELSE "part"]
               /\ UNCHANGED lock
       /\ UNCHANGED <<index, half, request, told, crashes>>

Fill(p) ==
    /\ at[p] = "fill"
    /\ snapshots' = [snapshots EXCEPT ![request[p]] = "whole"]
    /\ Goto(p, "line")
    /\ UNCHANGED <<index, half, lock, request, told, crashes>>

\* The line, and then its newline, in two writes.
AppendLine(p) ==
    /\ at[p] = "line"
    /\ half' = TRUE
    /\ Goto(p, "newline")
    /\ UNCHANGED <<snapshots, index, lock, request, told, crashes>>

EndLine(p) ==
    /\ at[p] = "newline"
    /\ index' = Append(index, request[p])
    /\ half' = FALSE
    /\ Goto(p, "unlock")
    /\ UNCHANGED <<snapshots, lock, request, told, crashes>>

Release(p) ==
    /\ at[p] = "unlock"
    /\ lock' = None
    /\ told' = told \union {request[p]}
    /\ Goto(p, "idle")
    /\ UNCHANGED <<snapshots, index, half, request, crashes>>

\* Death releases the lock and leaves the files as they are.
Die(p) ==
    /\ at[p] # "idle" /\ crashes < MaxCrash
    /\ crashes' = crashes + 1
    /\ Goto(p, "idle")
    /\ lock' = IF lock = p THEN None ELSE lock
    /\ UNCHANGED <<snapshots, index, half, request, told>>

-----------------------------------------------------------------------------
LastEntry == index[Len(index)]

\* What a load returns that takes the shared lock now, which it can when no save
\* holds the exclusive one: the snapshot of the last line, None if it fails.  The
\* snapshots of the earlier lines are not read.
Loaded == IF half \/ index = << >> THEN None
          ELSE IF snapshots[LastEntry] = "whole" THEN LastEntry ELSE None

Next ==
    \E p \in Proc :
        \/ \E r \in Request : BeginSave(p, r)
        \/ Acquire(p) \/ Check(p) \/ Fill(p) \/ AppendLine(p) \/ EndLine(p) \/ Release(p) \/ Die(p)

Spec == Init /\ [][Next]_vars

-----------------------------------------------------------------------------
(***************************************************************************)
(* Properties.                                                             *)
(***************************************************************************)

\* A load returns every decision of every acknowledged save, as it was saved
\* (save rejects removed and rewritten decisions); it fails after one only if a
\* save died between its line and the newline.
LoadKeepsDecisions ==
    lock = None => IF Loaded = None THEN told = {} \/ half
                   ELSE \A r \in told : r \subseteq Loaded
================================================================================
