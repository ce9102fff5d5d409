-------------------------------- MODULE Finalize -------------------------------
(***************************************************************************)
(* `innen artifact finalize` (innen-core artifact/finalize.rs): publish    *)
(* the final files of a plan as one collection and remove them, and a list *)
(* of drafts, from the output directory.                                   *)
(*                                                                         *)
(* A plan names every file with its hash.  All are verified first; the     *)
(* finals are copied to a staging directory that one rename publishes;     *)
(* then each file is hashed once more and removed; last, the collection    *)
(* becomes a node of the graph.  Files are edited, other plans applied and *)
(* runs killed at any moment.  The hash of a file is its content.          *)
(*                                                                         *)
(* Directories without files, and the staging directories that killed runs *)
(* leave behind under names of their own, are not represented.             *)
(***************************************************************************)
EXTENDS Naturals, Sequences, FiniteSets

CONSTANTS
    Proc,        \* runs of the command
    Path,        \* <<directory, name>> of the files outside the collections
    Collection,  \* names of collections
    Content,     \* what files can hold
    Absent,      \* there is no such file
    Reserved,    \* the name of the manifest
    Plan,        \* plans: [collection, finals, removals], see Entry
    None,
    MaxEdit, MaxCrash  \* bounds: edits, runs that are killed or fail

VARIABLES
    files,        \* the files outside the collections
    collections,  \* None, or the files of a published collection
    graph,        \* collections that have a node
    at,           \* where each run is
    plan,         \* the plan that it applies
    staged,       \* what it has copied so far
    i,            \* the position in the list of files it removes
    removed,      \* removals: what was there, what was planned (history)
    applied,      \* the plan that published a collection (history)
    edits, crashes

runVars == <<at, plan, staged, i>>
vars == <<files, collections, graph, runVars, removed, applied, edits, crashes>>

-----------------------------------------------------------------------------
\* An entry of a plan: a path, whose directory may be a collection, and a hash.
Entry(x, sha) == [path |-> x, sha |-> sha]

InCollection(x) == x \notin Path

At(x) == IF ~InCollection(x) THEN files[x]
         ELSE IF collections[x[1]] = None \/ x[2] \notin DOMAIN collections[x[1]] THEN Absent
         ELSE collections[x[1]][x[2]]

\* verified_path: a regular file with the planned hash, a final outside the
\* published collections.
Verified(e, inCollections) ==
    /\ At(e.path) = e.sha
    /\ InCollection(e.path) => inCollections

Entries(p) == p.finals \o p.removals

Distinct(s) == Cardinality({s[j] : j \in DOMAIN s}) = Len(s)

Names(p) == [j \in DOMAIN p.finals |-> p.finals[j].path[2]]

Paths(p) == [j \in DOMAIN Entries(p) |-> Entries(p)[j].path]

\* The names that files of a collection can have.
FileName == UNION {{q.finals[j].path[2] : j \in DOMAIN q.finals} : q \in Plan}

IsList(s) == s \in Seq({s[j] : j \in DOMAIN s})

\* What plans are: lists of entries, for collections, whose directories hold no
\* other files; a hash is a content; None is neither a plan nor a collection's files.
PlanAssumption ==
    /\ \A q \in Plan :
        /\ q.collection \in Collection
        /\ IsList(q.finals) /\ IsList(q.removals)
        /\ \A j \in DOMAIN q.finals : q.finals[j].sha \in Content
        /\ \A j \in DOMAIN Entries(q) :
              LET x == Entries(q)[j].path
              IN InCollection(x) => x[1] \in Collection /\ x = <<x[1], x[2]>>
    /\ \A x \in Path : x[1] \notin Collection
    /\ None \notin Plan /\ \A S \in SUBSET FileName : None \notin [S -> Content]

\* Everything that finalize checks before it writes anything.
Valid(p) ==
    /\ p.finals # << >>
    /\ collections[p.collection] = None
    /\ \A j \in DOMAIN p.finals : Verified(p.finals[j], FALSE)
    /\ \A j \in DOMAIN p.removals : Verified(p.removals[j], TRUE)
    /\ Distinct(Names(p)) /\ \A j \in DOMAIN p.finals : Names(p)[j] # Reserved
    /\ Distinct(Paths(p))

-----------------------------------------------------------------------------
Init ==
    /\ files \in [Path -> Content]
    /\ collections = [c \in Collection |-> None]
    /\ graph = {}
    /\ at = [p \in Proc |-> "idle"] /\ plan = [p \in Proc |-> None]
    /\ staged = [p \in Proc |-> << >>] /\ i = [p \in Proc |-> 0]
    /\ removed = {} /\ applied = [c \in Collection |-> None]
    /\ edits = 0 /\ crashes = 0

Goto(p, s) == at' = [at EXCEPT ![p] = s]

\* A run whose plan is refused, or that is not told to apply it, changes
\* nothing and is not represented.
Begin(p, q) ==
    /\ at[p] = "idle"
    /\ Valid(q)
    /\ Goto(p, "copy")
    /\ plan' = [plan EXCEPT ![p] = q]
    /\ UNCHANGED <<files, collections, graph, staged, i, removed, applied, edits, crashes>>

NextFinal(p) == plan[p].finals[Len(staged[p]) + 1]
AllStaged(p) == Len(staged[p]) = Len(plan[p].finals)

CopyIsGood(p) == At(NextFinal(p).path) = NextFinal(p).sha

Copy(p) ==
    /\ at[p] = "copy" /\ ~AllStaged(p)
    /\ CopyIsGood(p)
    /\ staged' = [staged EXCEPT ![p] = Append(@, At(NextFinal(p).path))]
    /\ UNCHANGED <<files, collections, graph, at, plan, i, removed, applied, edits, crashes>>

Cleared(p) ==
    /\ plan' = [plan EXCEPT ![p] = None]
    /\ staged' = [staged EXCEPT ![p] = << >>]
    /\ i' = [i EXCEPT ![p] = 0]

\* A source that is gone or has changed, or a collection that another run has
\* published by now, ends the run: its staging directory is removed.
GiveUp(p) ==
    /\ at[p] = "copy"
    /\ \/ ~AllStaged(p) /\ ~CopyIsGood(p)
       \/ AllStaged(p) /\ collections[plan[p].collection] # None
    /\ Goto(p, "done")
    /\ Cleared(p)
    /\ UNCHANGED <<files, collections, graph, removed, applied, edits, crashes>>

\* The staged files, and a manifest that says the same, appear at once.
Published(p) ==
    [n \in {Names(plan[p])[j] : j \in DOMAIN staged[p]} |->
        staged[p][CHOOSE j \in DOMAIN staged[p] : Names(plan[p])[j] = n]]

Publish(p) ==
    LET c == plan[p].collection
    IN /\ at[p] = "copy" /\ AllStaged(p) /\ collections[c] = None
       /\ collections' = [collections EXCEPT ![c] = Published(p)]
       /\ applied' = [applied EXCEPT ![c] = plan[p]]
       /\ i' = [i EXCEPT ![p] = 1]
       /\ Goto(p, "check")
       /\ UNCHANGED <<files, graph, plan, staged, removed, edits, crashes>>

Target(p) == Entries(plan[p])[i[p]]

\* Mutant of CheckSource: a changed file is passed over.
CheckSourceSkips(p) ==
    /\ at[p] = "check" /\ i[p] <= Len(Entries(plan[p]))
    /\ \/ /\ At(Target(p).path) = Target(p).sha
          /\ Goto(p, "remove")
          /\ UNCHANGED <<plan, staged, i>>
       \/ /\ At(Target(p).path) # Target(p).sha
          /\ i' = [i EXCEPT ![p] = @ + 1]
          /\ UNCHANGED <<at, plan, staged>>
    /\ UNCHANGED <<files, collections, graph, removed, applied, edits, crashes>>

\* Each file is hashed once more; one that has changed ends the run with an
\* error, and the collection stays without a node.
CheckSource(p) ==
    /\ at[p] = "check" /\ i[p] <= Len(Entries(plan[p]))
    /\ \/ /\ At(Target(p).path) = Target(p).sha
          /\ Goto(p, "remove")
          /\ UNCHANGED <<plan, staged, i>>
       \/ /\ At(Target(p).path) # Target(p).sha
          /\ Goto(p, "done")
          /\ Cleared(p)
    /\ UNCHANGED <<files, collections, graph, removed, applied, edits, crashes>>

Gone(x) ==
    IF InCollection(x)
    THEN /\ collections' = [collections EXCEPT ![x[1]] =
                               [n \in DOMAIN collections[x[1]] \ {x[2]} |-> collections[x[1]][n]]]
         /\ UNCHANGED files
    ELSE files' = [files EXCEPT ![x] = Absent] /\ UNCHANGED collections

Remove(p) ==
    LET e == Target(p)
    IN /\ at[p] = "remove"
       /\ \/ /\ At(e.path) # Absent
             /\ Gone(e.path)
             /\ removed' = removed \union {[path |-> e.path, was |-> At(e.path), planned |-> e.sha]}
             /\ i' = [i EXCEPT ![p] = @ + 1]
             /\ Goto(p, "check")
             /\ UNCHANGED <<plan, staged>>
          \/ /\ At(e.path) = Absent
             /\ Goto(p, "done")
             /\ Cleared(p)
             /\ UNCHANGED <<files, collections, removed>>
       /\ UNCHANGED <<graph, applied, edits, crashes>>

AppendNode(p) ==
    /\ at[p] = "check" /\ i[p] > Len(Entries(plan[p]))
    /\ graph' = graph \union {plan[p].collection}
    /\ Goto(p, "done")
    /\ Cleared(p)
    /\ UNCHANGED <<files, collections, removed, applied, edits, crashes>>

Die(p) ==
    /\ at[p] \notin {"idle", "done"} /\ crashes < MaxCrash
    /\ crashes' = crashes + 1
    /\ Goto(p, "done")
    /\ Cleared(p)
    /\ UNCHANGED <<files, collections, graph, removed, applied, edits>>

Edit(x) ==
    /\ edits < MaxEdit
    /\ edits' = edits + 1
    /\ files' \in {[files EXCEPT ![x] = c] : c \in Content \ {files[x]}}
    /\ UNCHANGED <<collections, graph, runVars, removed, applied, crashes>>

Next == \/ \E p \in Proc : \/ \E q \in Plan : Begin(p, q)
                           \/ Copy(p) \/ GiveUp(p) \/ Publish(p) \/ CheckSource(p) \/ Remove(p)
                           \/ AppendNode(p) \/ Die(p)
        \/ \E x \in Path : Edit(x)

Spec == Init /\ [][Next]_vars

-----------------------------------------------------------------------------
(***************************************************************************)
(* Properties.                                                             *)
(***************************************************************************)

Planned(c) == {Entry(<<c, Names(applied[c])[j]>>, applied[c].finals[j].sha) :
                  j \in DOMAIN applied[c].finals}

\* A published collection holds the planned bytes of all its finals, but for
\* files that a plan listed for removal, whatever is edited or dies meanwhile.
PublishedWhole ==
    \A c \in Collection : collections[c] # None =>
        \A e \in Planned(c) : At(e.path) = e.sha \/ \E r \in removed : r.path = e.path

\* A node stands for a release that went through: its collection was
\* published, and every file of its plan is out of the way or was put there
\* again by somebody else.
NodeIsReleased ==
    \A c \in graph : /\ collections[c] # None
                     /\ \A j \in DOMAIN Entries(applied[c]) :
                           \E r \in removed : r.path = Entries(applied[c])[j].path

\* finalize::apply: both, whatever the files of the plan meet while it runs.
ReleasedWhole == PublishedWhole /\ NodeIsReleased
================================================================================
