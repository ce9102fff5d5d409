----------------------------- MODULE MCComponents -----------------------------
(***************************************************************************)
(* TLC instance of the stores (see Stores) and of the components that      *)
(* answer questions (see Answers).  A behaviour exercises one of them,     *)
(* chosen in AnyInit: `part` and `answering`.                              *)
(***************************************************************************)
EXTENDS Stores, Answers, TLC

CONSTANT Link

-----------------------------------------------------------------------------
(***************************************************************************)
(* Values of the constants of the stores.                                  *)
(***************************************************************************)

FileA == <<"out", "a">>
FileB == <<"out", "b">>

Paths == {FileA, FileB}

Final(x, c) == [path |-> x, sha |-> c]

\* Two plans for one collection, and one that removes a published file.
Plans == {[collection |-> "one", finals |-> <<Final(FileA, "x")>>, removals |-> <<Final(FileB, "x")>>],
          [collection |-> "one", finals |-> <<Final(FileA, "x"), Final(FileB, "y")>>, removals |-> << >>],
          [collection |-> "two", finals |-> <<Final(FileB, "x")>>,
           removals |-> <<Final(<<"one", "a">>, "x")>>]}

\* Adds of the same bytes under two names.
Extensions == [x \in {"p", "q", "r", "s"} |-> IF x = "s" THEN "txt" ELSE "md"]

\* Two forms of one decision, and another.
Decisions == {[id |-> 1, text |-> "x"], [id |-> 1, text |-> "y"], [id |-> 2, text |-> "x"]}

\* settings: with handlers of older roots among those of the user, with hooks
\* or an event of another type, and files that no install can read.
Handler(mark, root) == [mark |-> mark, kb |-> root]
Group(matcher, handlers) == [matcher |-> matcher, handlers |-> handlers]
Settings(keys, own, hooks) == [keys |-> keys, own |-> own, hooks |-> hooks]

Documents ==
    {Missing, Broken, Odd, Settings({"theme"}, "old", Odd),
     Settings({"theme"}, None,
        [SessionEnd |-> <<Group(None, <<Handler(None, "u"), Handler("run session-end", "old")>>),
                          Group(None, Odd)>>,
         SessionStart |-> <<Group("startup|resume", <<Handler("pending", "old"), Handler("pending", "older")>>),
                            Group(None, <<Handler(None, "v")>>)>>]),
     Settings({}, None, [Stop |-> Odd, PostToolUse |-> <<Group(None, <<Handler(None, "w")>>)>>])}

\* hook: a session that its agent names on stdin or with a flag, and one that
\* only its transcript identifies.
Fire(given, onStdin, transcript, event) ==
    [session |-> given, told |-> onStdin, transcript |-> transcript, event |-> event]

Firings == {Fire(None, "s", None, "stop"), Fire("s", None, "t", "end"), Fire(None, None, "t", "stop")}

\* graph: a node, an edge and a retraction as the commands append them.
Put(n, kind, from, label) ==
    [op |-> "node", id |-> n, kind |-> kind, provenance |-> from, label |-> label, body |-> None]
Join(m, kind, n, from, dangling) ==
    [op |-> "assert", from |-> m, kind |-> kind, to |-> n, since |-> None, until |-> None,
     provenance |-> from, dangling |-> dangling]
Cut(m, kind, n) == [op |-> "retract", from |-> m, kind |-> kind, to |-> n]

Cite == Join(1, "CITES", 2, "note", FALSE)
Follow == Join(2, "FOLLOWS_UP", 1, "note", FALSE)

\* A journal of kinds that relate would check, and one where both ends change.
Journals ==
    {<<Put(1, "Task", None, "x"), Put(2, "Wiki", "note", "y"), Put(3, "Artifact", None, "z"),
       Join(1, "FOLLOWS_UP", 3, None, FALSE)>>,
     <<Put(2, "Project", "note", "x"), Put(1, "Task", None, "y"),
       Join(1, "BELONGS_TO", 2, None, FALSE), Join(2, "CITES", 1, None, TRUE)>>}

Ask(text, limit, asOf, expired) == [text |-> text, limit |-> limit, asOf |-> asOf, expired |-> expired]

\* The lines of the commands, and what is asked.
Puts == {Put(2, "Decision", None, "x"), Put(1, "Wiki", "note", "y"),
         Put(2, "Wiki", "blank", "x"), Put(4, "Project", None, "y")}
Joins == {Cite, Follow, [Follow EXCEPT !.since = 2, !.until = 6], [Cite EXCEPT !.since = Odd],
          Join(1, "FOLLOWS_UP", 3, None, FALSE), Join(3, "LOCATED_AT", Link, None, FALSE),
          Join(4, "LOCATED_AT", Link, None, TRUE), Join(1, "BELONGS_TO", 4, None, TRUE),
          Join(3, "CONTAINS", 2, None, FALSE)}
Cuts == {Cut(1, "FOLLOWS_UP", 3), Cut(1, "CITES", 2)}
Questions == {Ask("x", 10, 5, FALSE), Ask("x", 10, 8, FALSE), Ask("y", 10, 8, TRUE),
              Ask("y", 1, 8, FALSE), Ask("z", 0, 8, TRUE), Ask(None, 101, 8, FALSE)}

-----------------------------------------------------------------------------
(***************************************************************************)
(* The components that answer questions.                                   *)
(***************************************************************************)

\* evidence: versions of three nodes, and links between them.
Version(n, value, sound, at) == [op |-> "node", id |-> n, body |-> value, sound |-> sound, at |-> at]
Row(op, kind, m, n, sound, until, at) ==
    [op |-> op, kind |-> kind, from |-> m, to |-> n, sound |-> sound, until |-> until, at |-> at]
Depends(m, n) == Row("assert", "DEPENDS_ON", m, n, TRUE, 0, 1)
Contradicts(m, n) == Row("assert", "CONTRADICTS", m, n, TRUE, 0, 1)
Undepend == Row("retract", "DEPENDS_ON", 1, 2, TRUE, 0, 2)

KnownNodes == <<Version(1, "text", TRUE, 1), Version(2, "text", TRUE, 1), Version(3, "control", TRUE, 1)>>
Links == {<<Depends(1, 2)>>, <<Depends(1, 2), Depends(2, 3)>>, <<Depends(1, 2), Undepend>>,
          <<Depends(1, 3), Depends(3, 2)>>, <<Contradicts(1, 2)>>, <<Depends(1, 3), Contradicts(3, 1)>>,
          <<Depends(1, 2), Row("assert", "depends_on", 2, 3, TRUE, 0, 1)>>,
          <<Row("assert", "DEPENDS_ON", 2, 1, FALSE, 0, 1)>>,
          <<Row("assert", "DEPENDS_ON", 3, 1, TRUE, 1, 1), Contradicts(3, 2)>>}

\* A cost that grows with the chosen roots, and one that does not.
Plain == [s \in SUBSET (1 .. 3) |-> Cardinality(s)]
Uneven == [s \in SUBSET (1 .. 3) |-> IF s = {1, 2} THEN 1 ELSE IF s = 1 .. 3 THEN 2 ELSE 3]
OneFact == << <<{1}, {3}>> >>
TwoFacts == << <<{1}, {2}>>, <<{2}, {3}>> >>
Contract(scope, facts, hops, budget, limit, cost) ==
    [scope |-> scope, facts |-> facts, hops |-> hops, budget |-> budget, limit |-> limit, cost |-> cost]

Premise(missing, supports, refutes) == [missing |-> missing, supports |-> supports, refutes |-> refutes]
Proposed(requirements, byId, disposition, review, premises) ==
    [requirements |-> requirements, byId |-> byId, disposition |-> disposition, review |-> review,
     premises |-> premises]
Premises == {{}, {Premise(FALSE, {1}, {})}, {Premise(FALSE, {1}, {2}), Premise(TRUE, {}, {})},
             {Premise(FALSE, {3}, {})}}
Drafts ==
    {Proposed(<<[cited |-> {1, 2}, alternatives |-> <<{1}, {2}>>]>>, FALSE, disposition, "accepted", premises) :
        disposition \in {"proceed_with_investigation", "needs_more_evidence", "conflicting_evidence"},
        premises \in Premises}
    \union {Proposed(<<[cited |-> {1}, alternatives |-> << >>]>>, TRUE, "proceed_with_investigation", review,
                     {Premise(FALSE, {1}, {})}) : review \in {None, "rejected", "accepted"}}

Inspections == {{1, 2}, {1, 2, 3}, {1, 3}}
Evidences == {KnownNodes \o links : links \in Links}
Growth == {Version(2, "new", TRUE, 2), Version(3, "text", FALSE, 3), Contradicts(2, 3),
           Depends(2, 3), Undepend}
Contracts ==
    {Contract(1 .. 3, OneFact, 1, 3, 10, Uneven), Contract({1, 2}, OneFact, 2, 2, 10, Plain),
     Contract(1 .. 3, TwoFacts, 2, 2, 10, Plain), Contract(1 .. 3, TwoFacts, 1, 2, 10, Uneven),
     Contract(1 .. 3, TwoFacts, 2, 3, 3, Plain)}

\* middleware: up to four decisions of one task, and items to choose from.
Choice(id, actions, conditions, supersedes, depends) ==
    [id |-> id, task |-> "t", actions |-> actions, conditions |-> conditions, supersedes |-> supersedes,
     depends_on |-> depends, time |-> id]
Postgres == [db |-> "pg"]
First == Choice(1, {"a"}, Postgres, << >>, << >>)
Second == {Choice(2, {"a"}, << >>, <<1>>, << >>), Choice(2, {"a", "b"}, << >>, << >>, <<1>>),
           Choice(2, {"b"}, Postgres, << >>, << >>)}
Third == {Choice(3, {"a"}, << >>, <<1>>, << >>), Choice(3, {"b"}, << >>, << >>, <<2>>),
          Choice(3, {"a"}, << >>, << >>, <<2, 1>>), Choice(3, {"b"}, << >>, <<2>>, <<1>>)}
Fourth == {Choice(4, {"b"}, << >>, <<1>>, <<3>>), Choice(4, {"a"}, << >>, << >>, <<3>>),
           Choice(4, {"b"}, << >>, << >>, <<4>>)}
Tasks == {[id |-> "t", action |-> action, state |-> "active", conditions |-> Postgres] : action \in {"a", "b"}}
         \union {[id |-> "t", action |-> "b", state |-> "active", conditions |-> [db |-> "my"]],
                 [id |-> "t", action |-> "b", state |-> "paused", conditions |-> Postgres]}
Item(id, required, priority) == [id |-> id, required |-> required, priority |-> priority]
Packets == [s \in SUBSET (1 .. 3) |-> IF s = {2, 3} THEN 3 ELSE Cardinality(s)]

Histories == {[task |-> task, events |-> events, budget |-> 5] :
                 task \in Tasks,
                 events \in {<<First, second>> : second \in Second}
                            \union {<<First, second, third, fourth>> :
                                      second \in Second, third \in Third, fourth \in Fourth}}
Selections == {[items |-> <<Item(1, FALSE, None), Item(2, FALSE, 2), Item(3, TRUE, None)>>,
                budget |-> budget, cost |-> Packets] : budget \in 0 .. 2}
Hooked == {[name |-> "SessionStart", source |-> source, cwd |-> cwd, identified |-> identified] :
              source \in {"startup", "other"}, cwd \in {"here", "missing", "elsewhere"},
              identified \in BOOLEAN}
AskedFor == {{1}, {1, 3}, {9}}

\* task: a brand with a logo in two formats, a second one, two projects, two
\* constraints and a deck that nothing else names.
Entry(id, kind, label, more, score, cost) ==
    [id |-> {id}, kind |-> kind, label |-> label, anchor |-> label, identity |-> label,
     searched |-> label \union more, pathLike |-> FALSE, stem |-> id, ext |-> None,
     approved |-> FALSE, editable |-> FALSE, located |-> FALSE, score |-> score, cost |-> cost]
Logo(id, stem, ext, approved, score, cost) ==
    [Entry(id, "Artifact", {"acme", "logo", stem}, {"mark"}, score, cost) EXCEPT
        !.stem = stem, !.ext = ext, !.approved = approved, !.editable = TRUE, !.located = TRUE]
Brand(second, cost) ==
    [nodes |-> <<Logo("a", "x", "svg", TRUE, 90, cost), Logo("b", "x", "ai", TRUE, 80, 2),
                 Logo("c", "y", "svg", second, 60, 3), Entry("d", "Project", {"acme"}, {}, 100, 4),
                 Entry("e", "Constraint", {"rule"}, {"mark", "logo"}, 5, 6),
                 Entry("f", "Constraint", {"rule"}, {"bold"}, 5, 3),
                 Entry("g", "Project", {"other"}, {"logo"}, 10, 2),
                 Entry("h", "Artifact", {"deck"}, {}, 10, 4)>>,
     edges |-> {<<1, 4>>, <<5, 4>>, <<6, 4>>, <<8, 4>>} \union IF second THEN {<<3, 7>>} ELSE {}]
Weights == [t \in {"acme", "logo", "mark", "deck", "rule", "bold", "what"} |-> IF t = "deck" THEN 5 ELSE 2]
Words == {<<{"acme", "logo"}, {"acme"}>>, <<{"logo", "mark"}, {}>>, <<{"deck", "what", "rule"}, {}>>,
          <<{"acme", "bold"}, {"acme"}>>, <<{"logo", "deck"}, {"deck", "logo"}>>}
Request(text, words, edit, limit, budget) ==
    [text |-> text, terms |-> words[1], identities |-> words[1] \ {"bold"}, entities |-> words[2],
     edit |-> edit, limit |-> limit, budget |-> budget, base |-> 4, short |-> 2, weight |-> Weights,
     local |-> "nothing"]
Nothing == Request("zzz", <<{"what"}, {}>>, TRUE, 1, None)

Brands == {Brand(second, cost) : second \in BOOLEAN, cost \in {2, 9}}
          \union {[Brand(TRUE, 3) EXCEPT !.edges = @ \union {<<2, 7>>}],
                  [Brand(FALSE, 3) EXCEPT !.nodes[1].pathLike = TRUE, !.nodes[2].ext = "svg"]}
Requests == {Request(text, words, edit, limit, budget) :
                text \in {"acme", "what"}, words \in Words, edit \in BOOLEAN,
                limit \in {1, 2, 10}, budget \in {None, 12, 16, 20}}
            \union {[Nothing EXCEPT !.local = local] : local \in {"found", "incomplete", "nothing"}}

\* trace: a page that its source is derived from, sessions of a project, a page
\* that is gone, and notes that harvest named without a directory, of which one may
\* be in the inbox; sources that match, that hold a secret and a broken one.
Source(kind, name) == [kind |-> kind, name |-> name]
Abbreviated(of) == [kind |-> "short", of |-> of]
Stop(score, locator) ==
    [wiki |-> FALSE, managed |-> FALSE, missing |-> FALSE, score |-> score, locator |-> locator]
Page(score) == [Stop(score, None) EXCEPT !.wiki = TRUE]
Route(kind, from, to, since, until) ==
    [kind |-> kind, from |-> from, to |-> to, since |-> since, until |-> until, sound |-> TRUE]
Told == [nodes |-> <<Page(900), [Stop(500, Source("file", "a")) EXCEPT !.managed = TRUE],
                     Stop(0, Source("native", "b"))>>,
         outside |-> << >>,
         links |-> {Route("DERIVED_FROM", 1, 2, 0, None), Route("FOLLOWS_UP", 2, 3, 0, 0)}]
Sessions == [nodes |-> <<Page(0), Stop(700, Abbreviated({"b"})), Stop(600, Source("document", "b"))>>,
             outside |-> 4 :> Source("file", "a"),
             links |-> {Route("BELONGS_TO", 2, 1, 0, None), Route("BELONGS_TO", 3, 1, 0, None),
                        Route("DERIVED_FROM", 3, 4, 1, None)}]
Gone == [nodes |-> <<Page(100), Stop(700, Abbreviated({"a", "b"})),
                     [Stop(600, Source("file", "a")) EXCEPT !.missing = TRUE]>>,
         outside |-> 4 :> Source("url", "web"),
         links |-> {Route("RELATED_TO", 3, 1, 0, None), Route("DELIVERED", 4, 1, 0, None),
                    Route("DESCRIBES", 2, 1, 0, None), Route("LOCATED_AT", 1, 4, 0, None)}]
Bare(first, second) == [kind |-> "bare", root |-> first, inbox |-> second]
Harvested == [nodes |-> <<Page(0), Stop(700, Bare("a", "b")), Stop(600, Bare("b", "gone"))>>,
              outside |-> << >>, links |-> {Route("FOLLOWS_UP", 3, 2, 0, None)}]
Said(text, hit, role, secret) == [text |-> text, hit |-> hit, role |-> role, secret |-> secret]
Holds(passages, sound, refs) == [passages |-> passages, sound |-> sound, refs |-> refs]
Search(seed, role, sourceCount, bytes, records, nodes, depth, limit, refresh) ==
    [seed |-> seed, role |-> role, maxSources |-> sourceCount, maxBytes |-> bytes, maxRecords |-> records,
     maxNodes |-> nodes, maxDepth |-> depth, limit |-> limit, refresh |-> refresh]

Journeys == {Told, Sessions, Gone, Harvested}
Texts == {Holds(<<Said("x", TRUE, "user", FALSE), Said("y", TRUE, "assistant", FALSE)>>, TRUE,
                {[locator |-> Source("native", "b"), id |-> 100]}),
          Holds(<<Said("w", FALSE, "user", FALSE), Said("k", TRUE, "user", TRUE),
                  Said("v", TRUE, "user", FALSE)>>, TRUE, {}),
          Holds(<<Said("x", TRUE, "user", FALSE)>>, FALSE, {})}
Searches == {Search(None, None, 8, 10, 10, 10, 3, 10, FALSE),
             Search(None, "user", 8, 4, 10, 2, 1, 2, FALSE),
             Search(3, None, 2, 3, 2, 2, 2, 10, TRUE)}
SquareRoots == <<100, 141, 173, 200, 223, 244, 264, 282>>

\* pickup: a session of each kind of source; two that keep a plan; one whose
\* project is unknown to the listing and one with a rival, both with checkpoints.
Marks == {[status |-> "active", next |-> "go on"], [status |-> "blocked", next |-> None],
          [status |-> "completed", next |-> "none"], Broken}
Talk(source, words, length) ==
    [source |-> source, words |-> words, plan |-> None, marks |-> {}, known |-> TRUE, rivals |-> 0, length |-> length]
AgentPlans ==
    {<<[text |-> "one", status |-> "completed"], [text |-> "two", status |-> "pending"]>>,
     <<[text |-> "one", status |-> "pending"], [text |-> "two", status |-> "in_progress"]>>}
WorkSessions ==
    {Talk("codex", {"user", "assistant", "task_complete", "turn_aborted", "exit_1", "exit_0"}, 3),
     Talk("claude", {"user", "end_turn", "tool_use", "api_error", "sidechain"}, 3),
     Talk("copilot", {"user", "assistant", "turn_start", "turn_end", "abort", "tool_error", "tool_success"}, 3),
     Talk("antigravity", {"input", "answer", "cancelled", "running"}, 4),
     Talk("grok", {"user", "assistant", "loop_started", "turn_success", "turn_error", "tool_error",
                   "tool_success"}, 3),
     Talk("opencode", {"succeeded", "failed", "interrupted", "none"}, 2),
     Talk("mcode", {"aborted", "error", "idle"}, 2),
     [Talk("other", {}, 3) EXCEPT !.plan = "any"],
     [Talk("other", {}, 4) EXCEPT !.plan = "paired"],
     [Talk("other", {"user", "assistant"}, 2) EXCEPT !.known = FALSE, !.marks = Marks],
     [Talk("other", {"user", "assistant"}, 2) EXCEPT !.rivals = 1, !.marks = Marks]}

-----------------------------------------------------------------------------
allVars == <<storeVars, answerVars>>

AnyInit ==
    /\ part \in StorePart \union {"answers"}
    /\ StoreStates
    /\ IF part = "answers" THEN AnswerInit ELSE ParkAnswers

AnyNext ==
    \/ StoreNext /\ UNCHANGED answerVars
    \/ part = "answers" /\ AnswerNext /\ UNCHANGED storeVars

AnySpec == AnyInit /\ [][AnyNext]_allVars
================================================================================
