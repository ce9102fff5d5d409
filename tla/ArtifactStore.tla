----------------------------- MODULE ArtifactStore -----------------------------
(***************************************************************************)
(* `innen artifact add` (innen-core artifact.rs) of one content: its bytes *)
(* go to the directory named by their hash, then a provenance file beside  *)
(* them, then a node and perhaps an edge into the journal.                 *)
(*                                                                         *)
(* Adds of the same bytes under other file names may overlap and die.      *)
(* write_atomic writes `<target>.tmp`, one name per target, and renames    *)
(* it.  The two files of the directory that matter are those with the      *)
(* bytes, one per extension, and the provenance.                           *)
(***************************************************************************)
EXTENDS Naturals, FiniteSets

CONSTANTS
    Proc,        \* adds of the content
    Ext,         \* stored names, `artifact.<ext>` or `artifact`
    ExtOf,       \* the name that an add would give the bytes
    Project,     \* adds that name a project the graph knows
    Absent, Torn, Whole,
    MaxCrash     \* bound: adds that die or fail

Provenance == "provenance.json"
Target     == Ext \union {Provenance}

\* Each add has a name for the bytes, no such name is that of the provenance, and
\* the contents differ.
StoreAssumption ==
    /\ ExtOf \in [Proc -> Ext]
    /\ Provenance \notin Ext
    /\ Absent # Torn /\ Absent # Whole /\ Torn # Whole

VARIABLES
    dir,      \* what each target of the directory holds
    temp,     \* what its temporary file holds
    node,     \* adds that appended the artifact's node
    edge,     \* adds that appended its edge
    at,       \* where each add is
    target,   \* the target that it writes
    handle,   \* where the file is that it has open: temp, dir or gone
    torn,     \* an add died before it filled a file that others use (history)
    crashes

vars == <<dir, temp, node, edge, at, target, handle, torn, crashes>>

-----------------------------------------------------------------------------
Init ==
    /\ dir = [t \in Target |-> Absent]
    /\ temp = [t \in Target |-> Absent]
    /\ node = {} /\ edge = {}
    /\ at = [p \in Proc |-> "idle"]
    /\ target = [p \in Proc |-> ExtOf[p]]
    /\ handle = [p \in Proc |-> "gone"]
    /\ torn = FALSE
    /\ crashes = 0

Goto(p, s) == at' = [at EXCEPT ![p] = s]

\* Mutant of Begin: the node is appended before the bytes are stored.
BeginEager(p) ==
    /\ at[p] = "idle"
    /\ Goto(p, "store")
    /\ node' = node \union {p}
    /\ UNCHANGED <<dir, temp, edge, target, handle, torn, crashes>>

\* A project is resolved before anything is stored: an add that names an unknown
\* one ends there, changes nothing and is not represented.
Begin(p) ==
    /\ at[p] = "idle"
    /\ Goto(p, "store")
    /\ UNCHANGED <<dir, temp, node, edge, target, handle, torn, crashes>>

Reusable == {t \in Ext : dir[t] = Whole}

\* The bytes are there under the name this add would use, or that name is free
\* and they are there under another.
Reuses(p) == \/ dir[ExtOf[p]] = Whole
             \/ dir[ExtOf[p]] = Absent /\ Reusable # {}

Store(p) ==
    /\ at[p] = "store"
    /\ \/ Reuses(p) /\ target' = [target EXCEPT ![p] = Provenance]
       \/ ~Reuses(p) /\ UNCHANGED target
    /\ Goto(p, "create")
    /\ UNCHANGED <<dir, temp, node, edge, handle, torn, crashes>>

\* File::create truncates a temporary file that is there.
Create(p) ==
    /\ at[p] = "create"
    /\ temp' = [temp EXCEPT ![target[p]] = Torn]
    /\ handle' = [handle EXCEPT ![p] = "temp"]
    /\ Goto(p, "write")
    /\ UNCHANGED <<dir, node, edge, target, torn, crashes>>

\* The bytes are the same for every add; two provenance texts may differ in
\* length, and one written over the other does not parse.
Filled(p, old) == IF target[p] \in Ext \/ old = Torn THEN {Whole} ELSE {Whole, Torn}

Write(p) ==
    LET t == target[p]
    IN /\ at[p] = "write"
       /\ \/ /\ handle[p] = "temp"
             /\ \E c \in Filled(p, temp[t]) : temp' = [temp EXCEPT ![t] = c]
             /\ UNCHANGED dir
          \/ /\ handle[p] = "dir"
             /\ \E c \in Filled(p, dir[t]) : dir' = [dir EXCEPT ![t] = c]
             /\ UNCHANGED temp
          \/ handle[p] = "gone" /\ UNCHANGED <<dir, temp>>
       /\ Goto(p, "rename")
       /\ UNCHANGED <<node, edge, target, handle, torn, crashes>>

\* The rename takes along what another add has open.  It fails, and ends the
\* add, when another add has renamed the temporary file.
Rename(p) ==
    LET t == target[p]
        moved(q) == IF target[q] # t THEN handle[q]
                    ELSE IF handle[q] = "temp" THEN "dir" ELSE "gone"
    IN /\ at[p] = "rename"
       /\ \/ /\ temp[t] # Absent
             /\ dir' = [dir EXCEPT ![t] = temp[t]]
             /\ temp' = [temp EXCEPT ![t] = Absent]
             /\ handle' = [q \in Proc |-> IF q = p THEN "gone" ELSE moved(q)]
             /\ target' = [target EXCEPT ![p] = Provenance]
             /\ Goto(p, IF t \in Ext THEN "create" ELSE "node")
          \/ /\ temp[t] = Absent
             /\ Goto(p, "done")
             /\ handle' = [handle EXCEPT ![p] = "gone"]
             /\ UNCHANGED <<dir, temp, target>>
       /\ UNCHANGED <<node, edge, torn, crashes>>

AppendNode(p) ==
    /\ at[p] = "node"
    /\ node' = node \union {p}
    /\ Goto(p, IF p \in Project THEN "edge" ELSE "done")
    /\ UNCHANGED <<dir, temp, edge, target, handle, torn, crashes>>

AppendEdge(p) ==
    /\ at[p] = "edge"
    /\ edge' = edge \union {p}
    /\ Goto(p, "done")
    /\ UNCHANGED <<dir, temp, node, target, handle, torn, crashes>>

\* Another add has published the file that this one has open, or will rename
\* whatever is there under the temporary name that both use.
Shared(p) == \/ handle[p] = "dir"
             \/ \E q \in Proc \ {p} : at[q] \in {"write", "rename"} /\ target[q] = target[p]

Die(p) ==
    /\ at[p] \notin {"idle", "done"} /\ crashes < MaxCrash
    /\ crashes' = crashes + 1
    /\ torn' = (torn \/ (at[p] = "write" /\ Shared(p)))
    /\ handle' = [handle EXCEPT ![p] = "gone"]
    /\ Goto(p, "done")
    /\ UNCHANGED <<dir, temp, node, edge, target>>

Next == \E p \in Proc : \/ Begin(p) \/ Store(p) \/ Create(p) \/ Write(p) \/ Rename(p)
                        \/ AppendNode(p) \/ AppendEdge(p) \/ Die(p)

Spec == Init /\ [][Next]_vars

-----------------------------------------------------------------------------
(***************************************************************************)
(* Properties.                                                             *)
(***************************************************************************)

Writing(t) == \E p \in Proc : target[p] = t /\ handle[p] = "dir" /\ at[p] = "write"

\* write_atomic "avoids ... leaving half-written artifact" and add appends
\* last: an artifact with a node has its bytes stored under some name, unless
\* an add that shared the temporary file is still writing them or died at it.
NodeHasBytes ==
    node # {} => \/ Reusable # {}
                 \/ torn
                 \/ \E t \in Ext : Writing(t)
================================================================================
