------------------------------- MODULE Decisions -------------------------------
(***************************************************************************)
(* Selecting decisions for a task (innen-core middleware/history: model,   *)
(* ancestry, prepare, expand).                                             *)
(*                                                                         *)
(* A request holds a task and the decisions taken so far, oldest first.  A *)
(* decision may supersede earlier ones and depend on earlier ones.  The    *)
(* packet that prepare builds quotes the statement of a decision only when *)
(* the task may rely on it; the other items are summaries.                 *)
(*                                                                         *)
(* A decision is a record of its id, task, actions, conditions (a function *)
(* from keys to values), supersedes and depends_on (lists of ids), and its *)
(* time; a task has an id, an action, a state and conditions.  The project *)
(* is part of the task id; texts and sources are left out.                 *)
(***************************************************************************)
EXTENDS Naturals, Sequences, FiniteSets

CONSTANT MaxDecisions   \* the bound on the number of decisions

-----------------------------------------------------------------------------
(***************************************************************************)
(* validate.                                                               *)
(***************************************************************************)
Indices(es) == 1 .. Len(es)

Position(es, id) == CHOOSE i \in Indices(es) : es[i].id = id

Chronological(es) == \A i \in 1 .. Len(es) - 1 : es[i].time <= es[i + 1].time

UniqueIds(es) == \A i, j \in Indices(es) : es[i].id = es[j].id => i = j

Ids(list) == {list[n] : n \in DOMAIN list}

\* References name, once per list, an earlier decision of the same task.
ReferencesHold(es) ==
    \A i \in Indices(es) : \A list \in {es[i].supersedes, es[i].depends_on} :
        /\ Cardinality(Ids(list)) = Len(list)
        /\ \A id \in Ids(list) : \E j \in 1 .. i - 1 : es[j].id = id /\ es[j].task = es[i].task

Valid(r) ==
    /\ Len(r.events) <= MaxDecisions
    /\ \A i \in Indices(r.events) : r.events[i].actions # {}
    /\ Chronological(r.events) /\ UniqueIds(r.events) /\ ReferencesHold(r.events)

\* The store takes requests whose decisions are all of their task.
InScope(r) == Valid(r) /\ \A i \in Indices(r.events) : r.events[i].task = r.task.id

-----------------------------------------------------------------------------
(***************************************************************************)
(* Which decisions are current, and which of them compete.                 *)
(***************************************************************************)
Superseded(r) == UNION {Ids(r.events[i].supersedes) : i \in Indices(r.events)}

Current(r) == {i \in Indices(r.events) : /\ r.events[i].task = r.task.id
                                         /\ r.events[i].id \notin Superseded(r)}

Matching(r) == {i \in Current(r) : r.task.action \in r.events[i].actions}

Mismatched(t, d) == {k \in DOMAIN d.conditions \intersect DOMAIN t.conditions :
                        d.conditions[k] # t.conditions[k]}
MissingKeys(t, d) == DOMAIN d.conditions \ DOMAIN t.conditions

Applicable(t, d) == Mismatched(t, d) = {} /\ MissingKeys(t, d) = {}

\* The decisions that a decision replaces, directly or not.
SupersessionAncestors(es) ==
    LET anc[i \in Indices(es)] ==
            LET direct == {Position(es, id) : id \in Ids(es[i].supersedes)}
            IN direct \union UNION {anc[j] : j \in direct}
    IN anc

\* Two current decisions on a common action that replace a common one.
Peers(r, i) ==
    {j \in Current(r) \ {i} :
        /\ r.events[i].actions \intersect r.events[j].actions # {}
        /\ SupersessionAncestors(r.events)[i] \intersect SupersessionAncestors(r.events)[j] # {}}

Competing(r) == {i \in Current(r) : Peers(r, i) # {}}

\* Mutant of DependencyGuards: only direct dependencies are looked at.
DependencyGuardsDirect(r) ==
    [i \in Indices(r.events) |->
        {j \in {Position(r.events, id) : id \in Ids(r.events[i].depends_on)} :
            \/ r.events[j].id \in Superseded(r)
            \/ ~Applicable(r.task, r.events[j])
            \/ j \in Competing(r)}]

\* The dependencies of a decision, direct or not, that are superseded, do not
\* apply to the task, or compete with another decision.
DependencyGuards(r) ==
    LET bad == {j \in Indices(r.events) : \/ r.events[j].id \in Superseded(r)
                                          \/ ~Applicable(r.task, r.events[j])
                                          \/ j \in Competing(r)}
        guards[i \in Indices(r.events)] ==
            LET direct == {Position(r.events, id) : id \in Ids(r.events[i].depends_on)}
            IN (direct \intersect bad) \union UNION {guards[j] : j \in direct}
    IN guards

-----------------------------------------------------------------------------
(***************************************************************************)
(* The packet.                                                             *)
(***************************************************************************)

\* The decisions that a decision refers to, with the relationship.
References(es, i) ==
    LET named(list, kind) == [n \in DOMAIN list |-> <<Position(es, list[n]), kind>>]
    IN named(es[i].depends_on, "dependency") \o named(es[i].supersedes, "superseded")

\* Decisions that the walk meets, each with the relationship it is met under.
Met(es) == Indices(es) \X {"current", "dependency", "superseded"}

Events(met) == {m[1] : m \in met}

\* The walk goes depth first through the references of a decision and calls each
\* decision by the first relationship that it is met under: after[i][n][met] is
\* what has been met after the first n references of i, of which `met` was before.
Walk(es) ==
    LET after[i \in Indices(es)] ==
            [n \in 0 .. Len(References(es, i)) |-> [met \in SUBSET Met(es) |->
                IF n = 0 THEN met
                ELSE LET before == after[i][n - 1][met]
                         ref == References(es, i)[n]
                     IN IF ref[1] \in Events(before) THEN before
                        ELSE after[ref[1]][Len(References(es, ref[1]))][before \union {ref}]]]
    IN after

Visit(es, i, met) == Walk(es)[i][Len(References(es, i))][met]

\* One matching decision after another: they are listed already and not visited
\* as ancestors.
Ancestors(r) ==
    LET roots == {<<i, "current">> : i \in Matching(r)}
        walk[n \in 0 .. Len(r.events)] ==
            IF n = 0 THEN roots
            ELSE IF n \in Matching(r) THEN Visit(r.events, n, walk[n - 1]) ELSE walk[n - 1]
    IN walk[Len(r.events)] \ roots

Guards(r, i) == DependencyGuards(r)[i] \union Peers(r, i)

\* The statement is in the item of a current decision, or of a dependency that
\* is not superseded, when it applies and nothing guards it.
Quoted(r, i, kind) ==
    /\ kind = "current" \/ (kind = "dependency" /\ r.events[i].id \notin Superseded(r))
    /\ Applicable(r.task, r.events[i])
    /\ Guards(r, i) = {}

Items(r) == {[event |-> m[1], kind |-> m[2], statement |-> Quoted(r, m[1], m[2])] :
                m \in Ancestors(r) \union {<<i, "current">> : i \in Matching(r)}}

Guarded(r) == {i \in Matching(r) : ~Applicable(r.task, r.events[i]) \/ Guards(r, i) # {}}

Resolution(r) == IF Matching(r) \intersect Competing(r) # {} THEN "unknown_conflict"
                 ELSE IF Guarded(r) # {} THEN "unknown" ELSE "prepared"

-----------------------------------------------------------------------------
(***************************************************************************)
(* What a packet promises, in terms of paths through the decisions.        *)
(***************************************************************************)

\* Reliable: the task satisfies the conditions, nothing supersedes the
\* decision, no rival of a common origin is current, and all that it depends
\* on is reliable.
Reliable(r) ==
    LET rel[i \in Indices(r.events)] ==
            /\ Applicable(r.task, r.events[i])
            /\ \A j \in Indices(r.events) : r.events[i].id \notin Ids(r.events[j].supersedes)
            /\ Peers(r, i) = {}
            /\ \A id \in Ids(r.events[i].depends_on) : rel[Position(r.events, id)]
    IN rel
================================================================================
