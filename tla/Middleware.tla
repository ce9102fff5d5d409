------------------------------- MODULE Middleware -------------------------------
(***************************************************************************)
(* The middleware commands (innen-core middleware and cli/middleware):     *)
(* packets of context within a token budget, of items that the caller      *)
(* ranks or of the decisions of a task, and the exact contents handed out  *)
(* later against the hash of the request that the packet was made from.    *)
(*                                                                         *)
(* Requests lie in a file that its owner rewrites between the commands.    *)
(* A hash of a request is the request.  The cost of a packet is what the   *)
(* tokenizer says of its JSON: a function of the chosen items that the     *)
(* request carries here, and that need not grow with them.                 *)
(***************************************************************************)
EXTENDS Decisions

CONSTANTS
    HistoryFile,   \* history requests: a task, its decisions and a budget
    ItemFile,      \* item requests: items, a budget and the cost of packets
    SessionEvent,  \* what a session may call the hook with
    Asked,         \* the sets of ids that may be asked for
    None

\* Requests hold lists; priorities, budgets and costs are counts.
MiddlewareAssumption ==
    /\ \A r \in HistoryFile :
          /\ "events" \in DOMAIN r /\ DOMAIN r.events = Indices(r.events) /\ Len(r.events) \in Nat
          /\ \A i \in Indices(r.events) : \A list \in {r.events[i].supersedes, r.events[i].depends_on} :
                DOMAIN list = 1 .. Len(list) /\ Len(list) \in Nat
    /\ \A r \in ItemFile :
          /\ "events" \notin DOMAIN r /\ DOMAIN r.items = 1 .. Len(r.items) /\ Len(r.items) \in Nat
          /\ \A i \in DOMAIN r.items : r.items[i].priority \in Nat \union {None}
          /\ r.budget \in Nat /\ \A s \in SUBSET DOMAIN r.items : r.cost[s] \in Nat

VARIABLES
    file,     \* the request in the file
    receipt,  \* the packet made from it, with the request as it was then
    answer    \* what a session was told or what was handed out

vars == <<file, receipt, answer>>

-----------------------------------------------------------------------------
(***************************************************************************)
(* middleware::prepare and expand.                                         *)
(***************************************************************************)
DistinctIds(list) == \A i, j \in DOMAIN list : list[i].id = list[j].id => i = j

RequiredItems(r) == {i \in DOMAIN r.items : r.items[i].required}

\* Optional items, the most important first; None counts as 0.
Importance(item) == IF item.priority = None THEN 0 ELSE item.priority

Ahead(r, i, j) ==
    \/ Importance(r.items[i]) > Importance(r.items[j])
    \/ Importance(r.items[i]) = Importance(r.items[j]) /\ i < j

Optional(r) ==
    LET rest == DOMAIN r.items \ RequiredItems(r)
    IN [k \in 1 .. Cardinality(rest) |->
           CHOOSE i \in rest : Cardinality({j \in rest : Ahead(r, j, i)}) = k - 1]

\* Each is kept when the whole packet still fits.
Selected(r) ==
    LET kept[k \in 0 .. Len(Optional(r))] ==
            IF k = 0 THEN RequiredItems(r)
            ELSE LET more == kept[k - 1] \union {Optional(r)[k]}
                 IN IF r.cost[more] <= r.budget THEN more ELSE kept[k - 1]
    IN kept[Len(Optional(r))]

PrepareItems(r) ==
    IF ~DistinctIds(r.items) THEN [resolution |-> "error", selected |-> {}]
    ELSE IF r.cost[RequiredItems(r)] > r.budget THEN [resolution |-> "unknown", selected |-> {}]
    ELSE [resolution |-> "prepared", selected |-> Selected(r)]

ExpandItems(r, expected, ids) ==
    IF ~DistinctIds(r.items) \/ r # expected \/ ~ids \subseteq {r.items[i].id : i \in DOMAIN r.items}
    THEN {} ELSE {r.items[i] : i \in {j \in DOMAIN r.items : r.items[j].id \in ids}}

-----------------------------------------------------------------------------
(***************************************************************************)
(* history::prepare and expand.  All items are required; a quoted          *)
(* statement makes an item dearer.                                         *)
(***************************************************************************)
Weight(its) == Cardinality(its) + Cardinality({i \in its : i.statement})

\* A task that is not active, one that nothing matches, and a packet that does
\* not fit are errors.
PrepareHistory(r) ==
    IF ~Valid(r) \/ r.task.state # "active" \/ Matching(r) = {} \/ Weight(Items(r)) > r.budget
    THEN [resolution |-> "error", items |-> {}]
    ELSE [resolution |-> Resolution(r), items |-> Items(r)]

ExpandHistory(r, expected, ids) ==
    IF ~Valid(r) \/ r # expected \/ ~ids \subseteq {r.events[i].id : i \in Indices(r.events)} THEN {}
    ELSE {r.events[i] : i \in {j \in Indices(r.events) : r.events[j].id \in ids}}

-----------------------------------------------------------------------------
Init == file \in HistoryFile \union ItemFile /\ receipt = None /\ answer = None

OfHistory == "events" \in DOMAIN file

\* The owner of the file writes another request of its kind, once.
Rewrite ==
    /\ receipt # None /\ answer = None /\ file = receipt.source
    /\ file' \in IF OfHistory THEN HistoryFile ELSE ItemFile
    /\ UNCHANGED <<receipt, answer>>

\* middleware history-prepare: exit code 0 for "prepared" only.
HistoryPrepare ==
    /\ OfHistory /\ receipt = None /\ answer = None
    /\ receipt' = [source |-> file, packet |-> PrepareHistory(file),
                   code |-> IF PrepareHistory(file).resolution = "prepared" THEN 0 ELSE 2]
    /\ UNCHANGED <<file, answer>>

\* middleware history-hook: a session that starts in the bound workspace is told
\* the packet, whatever its resolution, or that there is an error; another event
\* is told nothing.  The exit code is always 0: a hook never blocks a turn.
Hears(e) ==
    IF e.name # "SessionStart" \/ e.source = "other" THEN "nothing"
    ELSE IF e.cwd = "missing" THEN "unavailable"
    ELSE IF e.cwd = "elsewhere" THEN "nothing"
    ELSE IF ~e.identified \/ PrepareHistory(file).resolution = "error" THEN "unavailable"
    ELSE "context"

HistoryHook(e) ==
    /\ OfHistory /\ receipt = None /\ answer = None
    /\ answer' = [hears |-> Hears(e), source |-> file,
                  packet |-> IF Hears(e) = "context" THEN PrepareHistory(file) ELSE None]
    /\ UNCHANGED <<file, receipt>>

\* middleware history-expand, against the hash in the receipt.
HistoryExpand(ids) ==
    /\ OfHistory /\ receipt # None /\ answer = None
    /\ answer' = [contents |-> ExpandHistory(file, receipt.source, ids)]
    /\ UNCHANGED <<file, receipt>>

\* middleware prepare and expand.
Prepare ==
    /\ ~OfHistory /\ receipt = None
    /\ receipt' = [source |-> file, packet |-> PrepareItems(file)]
    /\ UNCHANGED <<file, answer>>

Expand(ids) ==
    /\ ~OfHistory /\ receipt # None /\ answer = None
    /\ answer' = [contents |-> ExpandItems(file, receipt.source, ids)]
    /\ UNCHANGED <<file, receipt>>

Next ==
    \/ Rewrite
    \/ HistoryPrepare
    \/ \E e \in SessionEvent : HistoryHook(e)
    \/ \E ids \in Asked : HistoryExpand(ids) \/ Expand(ids)
    \/ Prepare

Spec == Init /\ [][Next]_vars

-----------------------------------------------------------------------------
\* What a packet of decisions says it quotes, the task may rely on, and a packet
\* that is "prepared" quotes all that the task's action calls for and all that
\* these depend on.
Trustworthy(p) ==
    LET r == p.source
        quoted == {i.event : i \in {x \in p.packet.items : x.statement}}
    IN /\ \A i \in quoted : Reliable(r)[i]
       /\ p.packet.resolution = "prepared" =>
            /\ \A i \in Indices(r.events) :
                (/\ r.events[i].task = r.task.id /\ r.task.action \in r.events[i].actions
                 /\ \A j \in Indices(r.events) : r.events[i].id \notin Ids(r.events[j].supersedes))
                => i \in quoted
            /\ \A i \in quoted : \A id \in Ids(r.events[i].depends_on) :
                \E x \in p.packet.items : r.events[x.event].id = id

\* A packet never presents a decision that was replaced, that does not apply, that
\* competes with another one, or that rests on such a decision, as one to act on
\* (prepare.rs:51-53, 100-101); a packet of items holds all that is required, is
\* within its budget, and leaves an item out only for more important ones; and
\* what is handed out later is what the packet was made from (expand.rs:7-8).
PacketsAreTrue ==
    /\ receipt # None /\ "code" \in DOMAIN receipt =>
        Trustworthy(receipt) /\ (receipt.code = 0 <=> receipt.packet.resolution = "prepared")
    /\ answer # None /\ "hears" \in DOMAIN answer =>
        (answer.hears = "context" => Trustworthy(answer))
    /\ receipt # None /\ "code" \notin DOMAIN receipt /\ receipt.packet.resolution = "prepared" =>
        LET r == receipt.source
            kept == receipt.packet.selected
            Before(i) == {j \in kept : r.items[j].required \/ Ahead(r, j, i)}
        IN /\ RequiredItems(r) \subseteq kept /\ r.cost[kept] <= r.budget
           /\ \A i \in DOMAIN r.items \ kept : r.cost[{i} \union Before(i)] > r.budget
    /\ answer # None /\ "contents" \in DOMAIN answer =>
        answer.contents \subseteq
            Ids(IF "events" \in DOMAIN receipt.source THEN receipt.source.events ELSE receipt.source.items)
================================================================================
