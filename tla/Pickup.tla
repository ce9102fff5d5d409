-------------------------------- MODULE Pickup --------------------------------
(***************************************************************************)
(* innen unfinished and innen pickup (conversation/unfinished, pickup and  *)
(* task_state): what the transcript of a session tells of the work that is *)
(* still open in it, and the plan that its agent last wrote with a tool.   *)
(* The session goes on while the commands read its transcript.             *)
(*                                                                         *)
(* A record of a transcript is the word that its source has for it, or a   *)
(* call or a result of the tool that keeps the plan.  A transcript may be  *)
(* longer than the part that is inspected.                                 *)
(***************************************************************************)
EXTENDS Naturals, Sequences, SequencesExt, FiniteSetsExt

CONSTANTS
    Session,    \* sessions: source, words of its vocabulary, how its calls and results of a plan look
                \* ("paired" by an id and bare, "any", or None), checkpoints that may be recorded,
                \* whether its project is known, rivals, bound of its records
    Plan,       \* what a plan may hold: items with their status
    TailLines,  \* lines that are inspected
    Broken, None

VARIABLES
    session,    \* the session
    transcript, \* its records
    checkpoint, \* its last checkpoint, None, or Broken when no file can be read
    found,      \* a candidate that pickup will report
    output,     \* what a command reported of the session
    truth,      \* history: what is open in the session
    applied,    \* history: the plans that took effect, oldest first
    calls       \* history: calls of the tool without a result

vars == <<session, transcript, checkpoint, found, output, truth, applied, calls>>

-----------------------------------------------------------------------------
(***************************************************************************)
(* The words of the sources, and what they mean.                           *)
(***************************************************************************)
Signals(source, word) ==
    CASE word \in {"user", "input"} -> {"user"}
      [] word = "assistant" -> {"assistant"}
      [] source \in {"copilot", "grok"} /\ word \in {"turn_start", "loop_started"} -> {"start"}
      [] word \in {"task_complete", "turn_end", "turn_success"} -> {"end"}
      [] word \in {"turn_aborted", "abort", "cancelled"} -> {"abort"}
      [] word = "turn_error" -> {"failed"}
      [] word = "tool_error" -> {"fail"}
      [] word = "tool_success" -> {"ok"}
      [] word = "exit_1" -> {"exit"}
      [] word = "exit_0" -> {"exit_0"}
      [] word \in {"end_turn", "tool_use"} -> {"assistant", word}
      [] word = "api_error" -> {"assistant", "abort", "tool_use"}
      [] word = "answer" -> {"assistant"}
      [] OTHER -> {}

\* The words that each source has: Antigravity writes steps, OpenCode and Mcode
\* how the last message or the session ended.
Vocabulary(source) ==
    CASE source = "codex" -> {"user", "assistant", "task_complete", "turn_aborted", "exit_1", "exit_0"}
      [] source = "claude" -> {"user", "end_turn", "tool_use", "api_error", "sidechain"}
      [] source = "copilot" ->
            {"user", "assistant", "turn_start", "turn_end", "abort", "tool_error", "tool_success"}
      [] source = "antigravity" -> {"input", "answer", "cancelled", "running"}
      [] source = "grok" ->
            {"user", "assistant", "loop_started", "turn_success", "turn_error", "tool_error", "tool_success"}
      [] source \in {"opencode", "mcode"} ->
            {"succeeded", "failed", "error", "interrupted", "aborted", "none", "idle"}
      [] OTHER -> {"user", "assistant"}

\* A source has its words; a database has no lines that hold a plan.
PickupAssumption ==
    /\ TailLines \in Nat
    /\ None \notin Nat \union Plan \union {"completed", "stopped"}
    /\ \A p \in Plan : p \in Seq(ToSet(p))
    /\ \A s \in Session :
          /\ s.words \subseteq Vocabulary(s.source) /\ None \notin Vocabulary(s.source)
          /\ s.source \in {"opencode", "mcode"} => s.plan = None

\* The status that each record of Antigravity has.
StepStatus(word) ==
    CASE word \in {"input", "answer"} -> "DONE" [] word = "cancelled" -> "CANCELLED" [] OTHER -> "RUNNING"

\* The last line that says something, or 0.
LastOf(source, tail, signal) ==
    Max({0} \union {i \in DOMAIN tail : tail[i].word # None /\ signal \in Signals(source, tail[i].word)})

-----------------------------------------------------------------------------
(***************************************************************************)
(* The plan.                                                               *)
(***************************************************************************)
Written(line, items) == [line |-> line, items |-> items]
Without(f, key) == [k \in DOMAIN f \ {key} |-> f[k]]

ObserveCall(x, r, line) ==
    IF r.items = None THEN x
    ELSE IF r.id = None THEN [x EXCEPT !.unpaired = Append(@, Written(line, r.items))]
    ELSE [x EXCEPT !.pending = [id \in {r.id} \union DOMAIN @ |->
                                    IF id = r.id THEN Written(line, r.items) ELSE @[id]]]

\* A result with items is a write of its own, of the tool that it names or that
\* the call it answers names.
ObserveResult(x, r, line) ==
    LET paired == r.id \in DOMAIN x.pending
    IN IF r.items # None THEN
           IF r.failed \/ (~r.named /\ ~paired) THEN x
           ELSE [x EXCEPT !.confirmed = {Written(line, r.items)}, !.pending = Without(@, r.id)]
       ELSE IF ~paired THEN x
       ELSE [x EXCEPT !.confirmed = IF r.failed THEN @ ELSE {x.pending[r.id]}, !.pending = Without(@, r.id)]

\* Mutant of Observe: a call counts as soon as it is made.
ObserveAtOnce(x, r) ==
    LET line == x.lines + 1
        y == [x EXCEPT !.lines = line]
    IN CASE r.kind = "call" /\ r.items # None -> [y EXCEPT !.confirmed = {Written(line, r.items)}]
         [] r.kind = "result" -> ObserveResult(y, r, line)
         [] OTHER -> y

Observe(x, r) ==
    LET line == x.lines + 1
        y == [x EXCEPT !.lines = line]
    IN CASE r.kind = "call" -> ObserveCall(y, r, line)
         [] r.kind = "result" -> ObserveResult(y, r, line)
         [] OTHER -> y

\* `confirmed` is {} until a write is.
NoWrites == [confirmed |-> {}, pending |-> << >>, unpaired |-> << >>, lines |-> 0]

Extracted(records) ==
    LET after[n \in 0 .. Len(records)] ==
            IF n = 0 THEN NoWrites ELSE Observe(after[n - 1], records[n])
    IN after[Len(records)]

State(write, confirmed) == [items |-> write.items, confirmed |-> confirmed]

\* The last plan that was confirmed, else the newest that waits for its result.
TaskState(records) ==
    LET x == Extracted(records)
        waiting == {x.pending[id] : id \in DOMAIN x.pending} \union ToSet(x.unpaired)
    IN IF x.confirmed # {} THEN State(CHOOSE w \in x.confirmed : TRUE, TRUE)
       ELSE IF waiting = {} THEN None
       ELSE State(CHOOSE w \in waiting : \A v \in waiting : v.line <= w.line, FALSE)

-----------------------------------------------------------------------------
(***************************************************************************)
(* The evidence.                                                           *)
(***************************************************************************)

\* The last lines, of the part of the file that is read, without its first line
\* when that part begins in the file.
Tail200(records, start) ==
    LET read == SubSeq(records, start + 1, Len(records))
    IN SubSeq(read, Max({0, Len(read) - TailLines}) + 1, Len(read))

If(condition, code) == IF condition THEN {code} ELSE {}

Open(last, closed) == last > 0 /\ last > closed

\* inspect_structural_evidence, of a source with one stream of records.
StreamReasons(source, tail) ==
    LET At(signal) == LastOf(source, tail, signal)
        steps == {i \in DOMAIN tail : tail[i].word # None}
        stop == Max({At("end_turn"), At("tool_use")})
        completed ==
            CASE source = "antigravity" ->
                    IF steps # {} /\ StepStatus(tail[Max(steps)].word) = "DONE" THEN Max(steps) ELSE 0
              [] source = "claude" -> IF stop = At("end_turn") THEN stop ELSE 0
              [] OTHER -> At("end")
        started == IF At("start") > completed THEN At("start") ELSE 0
        stopped == IF source = "claude" /\ stop # At("end_turn") THEN stop ELSE 0
        negative == Max({At("abort"), started, stopped})
        exit == IF At("exit") > At("exit_0") THEN At("exit") ELSE 0
    IN If(completed > 0 /\ completed >= negative, "explicit_turn_completed")
       \union If(negative > completed, "interrupted_or_cancelled")
       \union If(Open(At("user"), At("assistant")), "trailing_user_request_unanswered")
       \union If(Open(exit, completed) \/ Open(At("fail"), At("ok")), "unresolved_tool_failure")

\* Grok keeps the conversation and the runtime in two streams.
GrokReasons(chat, runtime) ==
    LET At(signal) == LastOf("grok", runtime, signal)
        ended == Max({At("end"), At("failed")})
        running == At("start") > ended
    IN If(Open(LastOf("grok", chat, "user"), LastOf("grok", chat, "assistant")), "trailing_user_request_unanswered")
       \union If(running \/ (ended > 0 /\ ended = At("failed")), "interrupted_or_cancelled")
       \union If(~running /\ ended > 0 /\ ended = At("end"), "explicit_turn_completed")
       \union If(Open(At("fail"), At("ok")), "unresolved_tool_failure")

\* The stores that say themselves how the last message or the session ended.
OutcomeReasons(records) ==
    LET outcome == IF records = << >> THEN None ELSE Last(records).word
    IN If(outcome \in {"failed", "error"}, "unresolved_tool_failure")
       \union If(outcome \in {"interrupted", "aborted"}, "interrupted_or_cancelled")
       \union If(outcome = "succeeded", "explicit_turn_completed")

\* The records of one of the two streams of Grok.
Stream(records, chat) ==
    LET upto[n \in 0 .. Len(records)] ==
            IF n = 0 THEN << >>
            ELSE IF (records[n].word \in {"user", "assistant"}) = chat THEN Append(upto[n - 1], records[n])
            ELSE upto[n - 1]
    IN upto[Len(records)]

Chat(records) == Stream(records, TRUE)
Runtime(records) == Stream(records, FALSE)

Structural(start) ==
    LET cut == If(start > 0, "bounded_tail_incomplete")
    IN CASE session.source \in {"opencode", "mcode"} -> OutcomeReasons(transcript)
         [] session.source = "grok" ->
              GrokReasons(Tail200(Chat(transcript), start), Tail200(Runtime(transcript), start)) \union cut
         [] OTHER -> StreamReasons(session.source, Tail200(transcript, start)) \union cut

Outstanding(plan) == {i \in DOMAIN plan.items : plan.items[i].status \in {"in_progress", "pending"}}

Confidence(reasons) ==
    IF reasons \intersect {"checkpoint_active", "checkpoint_blocked", "interrupted_or_cancelled",
                           "trailing_user_request_unanswered", "task_state_outstanding"} # {}
    THEN "high"
    ELSE IF "unresolved_tool_failure" \in reasons THEN "medium" ELSE "low"

Inspected(cp, start) ==
    LET plan == TaskState(transcript)
        said == If(cp # None /\ cp.status = "active", "checkpoint_active")
                \union If(cp # None /\ cp.status = "blocked", "checkpoint_blocked")
                \union If(plan # None /\ Outstanding(plan) # {}, "task_state_outstanding")
                \union Structural(start)
        reasons == IF said = {} THEN {"recent_activity_uncheckpointed"} ELSE said
    IN [checkpoint |-> cp, reasons |-> reasons, confidence |-> Confidence(reasons), fresh |-> TRUE,
        cut |-> start > 0 \/ Len(transcript) > TailLines]

\* The checkpoint counts where the project is known: in the project's own
\* listing, or in one of all projects that knows its directory.
Known(scope) == IF scope = "project" \/ session.known THEN checkpoint ELSE None

Terminal(cp) == cp # None /\ cp.status \in {"completed", "superseded"}

-----------------------------------------------------------------------------
(***************************************************************************)
(* The session.                                                            *)
(***************************************************************************)
Word(word) == [kind |-> "word", word |-> word]
Call(id, items) == [kind |-> "call", word |-> None, id |-> id, items |-> items]
Result(id, items, failed, named) ==
    [kind |-> "result", word |-> None, id |-> id, items |-> items, failed |-> failed, named |-> named]
TornLine == [kind |-> "torn", word |-> None]

Init ==
    /\ session \in Session
    /\ transcript = << >> /\ checkpoint = None
    /\ found = None /\ output = None
    /\ truth = [asked |-> FALSE, ended |-> None, failing |-> FALSE]
    /\ applied = << >> /\ calls = << >>

Recorded(r) ==
    /\ Len(transcript) < session.length
    /\ transcript' = Append(transcript, r)
    /\ output' = None
    /\ found' = IF found = None THEN None ELSE [found EXCEPT !.fresh = FALSE]

\* What a record of the session means for the work in it.
Says(word) ==
    LET s == Signals(session.source, word)
        done == IF session.source = "antigravity" THEN StepStatus(word) = "DONE"
                ELSE s \intersect {"end", "end_turn"} # {} \/ word = "succeeded"
        halted == s \intersect {"abort", "start", "failed", "tool_use"} # {} \/ word \in {"interrupted", "aborted"}
    IN
    /\ Recorded(Word(word))
    /\ truth' = [asked |-> IF "user" \in s THEN TRUE ELSE IF "assistant" \in s THEN FALSE ELSE truth.asked,
                 ended |-> IF done THEN "completed" ELSE IF halted THEN "stopped"
                           ELSE IF session.source \in {"antigravity", "opencode", "mcode"} THEN None
                           ELSE truth.ended,
                 failing |->
                    IF session.source \in {"opencode", "mcode"} THEN word \in {"failed", "error"}
                    ELSE IF s \intersect {"fail", "exit"} # {} THEN TRUE
                    ELSE IF s \intersect {"ok", "exit_0"} # {} \/ (session.source = "codex" /\ done) THEN FALSE
                    ELSE truth.failing]
    /\ UNCHANGED <<session, checkpoint, applied, calls>>

\* The agent calls the tool that keeps the plan, and the tool answers: with a
\* bare status, or showing the plan that it took, with or without its own name.
Calls(id, items) ==
    /\ Recorded(Call(id, items))
    /\ calls' = Append(calls, [id |-> id, items |-> items])
    /\ UNCHANGED <<session, checkpoint, truth, applied>>

Answers(i, failed, shape) ==
    LET call == calls[i]
    IN /\ Recorded(Result(call.id, IF shape = "bare" THEN None ELSE call.items, failed, shape = "named"))
       /\ calls' = RemoveAt(calls, i)
       /\ applied' = IF failed THEN applied ELSE Append(applied, call.items)
       /\ UNCHANGED <<session, checkpoint, truth>>

\* A line is cut off by a death of the agent, or is not of its format; what it
\* would have said may have happened.
Breaks ==
    /\ Recorded(TornLine)
    /\ \/ UNCHANGED <<calls, applied>>
       \/ \E items \in Plan : calls' = Append(calls, [id |-> Len(transcript) + 1, items |-> items]) /\ UNCHANGED applied
       \/ \E i \in DOMAIN calls : calls' = RemoveAt(calls, i) /\ applied' = Append(applied, calls[i].items)
    /\ UNCHANGED <<session, checkpoint, truth>>

RecordCheckpoint(cp) ==
    /\ checkpoint = None /\ checkpoint' = cp
    /\ output' = None
    /\ UNCHANGED <<session, transcript, found, truth, applied, calls>>

-----------------------------------------------------------------------------
(***************************************************************************)
(* The commands.                                                           *)
(***************************************************************************)

\* What unfinished and pickup report of what was found.
Candidate(c) ==
    [kind |-> "candidate", checkpoint |-> c.checkpoint, reasons |-> c.reasons, confidence |-> c.confidence,
     fresh |-> c.fresh, cut |-> c.cut]
PickedUp(c, plan, next) ==
    [kind |-> "picked_up", checkpoint |-> c.checkpoint, reasons |-> c.reasons, confidence |-> c.confidence,
     fresh |-> c.fresh, cut |-> c.cut, plan |-> plan, next |-> next]

\* unfinished, of the project or of all projects: the session is a candidate
\* unless its checkpoint closes it.
Unfinished(scope, start) ==
    LET cp == Known(scope)
    IN /\ scope = "project" => session.known
       /\ output' = IF cp = Broken THEN [kind |-> "error"]
                    ELSE IF Terminal(cp) THEN [kind |-> "excluded", known |-> cp]
                    ELSE Candidate(Inspected(cp, start))
       /\ UNCHANGED <<session, transcript, checkpoint, found, truth, applied, calls>>

\* pickup looks for the only candidate.
Find(scope, start) ==
    LET cp == Known(scope)
        closed == Terminal(cp)
        count == session.rivals + IF closed THEN 0 ELSE 1
    IN /\ found = None /\ scope = "project" => session.known
       /\ IF cp = Broken THEN output' = [kind |-> "error"] /\ found' = None
          ELSE IF count # 1 \/ closed THEN
               /\ output' = [kind |-> IF count = 0 THEN "not_found" ELSE IF count = 1 THEN "other" ELSE "ambiguous",
                             known |-> cp]
               /\ found' = None
          ELSE found' = Inspected(cp, start) /\ output' = None
       /\ UNCHANGED <<session, transcript, checkpoint, truth, applied, calls>>

\* pickup of a session that the caller names, from its project or from another
\* directory: it is not asked whether it is open.
Resolve(scope) ==
    LET cp == Known(scope)
    IN /\ found = None
       /\ IF cp = Broken THEN output' = [kind |-> "error"] /\ found' = None
          ELSE /\ found' = [checkpoint |-> cp, confidence |-> "high", fresh |-> FALSE, cut |-> FALSE,
                            reasons |-> {IF cp = None THEN "explicit_session_selection"
                                         ELSE "checkpoint_" \o cp.status}]
               /\ output' = None
       /\ UNCHANGED <<session, transcript, checkpoint, truth, applied, calls>>

\* The next action: of the checkpoint, else the item in progress, else the first
\* that is pending.
NextAction(cp, plan) ==
    LET Of(status) == {i \in DOMAIN plan.items : plan.items[i].status = status}
        first == IF Of("in_progress") # {} THEN Of("in_progress") ELSE Of("pending")
    IN IF cp # None /\ cp.next # None THEN [basis |-> "checkpoint", text |-> cp.next]
       ELSE IF plan # None /\ first # {} THEN [basis |-> "task_state", text |-> plan.items[Min(first)].text]
       ELSE [basis |-> "placeholder", text |-> None]

\* build_pickup: the transcript is read again for the plan.
Build ==
    /\ found # None
    /\ output' = PickedUp(found, TaskState(transcript), NextAction(found.checkpoint, TaskState(transcript)))
    /\ found' = None
    /\ UNCHANGED <<session, transcript, checkpoint, truth, applied, calls>>

\* The file is read from its beginning or from within it, when it is larger than
\* the part that is read; a transcript without words has nothing to cut.
Starts == {0} \union IF session.words # {} /\ transcript # << >> THEN {1} ELSE {}

Next ==
    \/ \E word \in session.words : Says(word)
    \/ \E items \in Plan, id \in {Len(transcript) + 1} \union IF session.plan = "any" THEN {None} ELSE {} :
          session.plan # None /\ Calls(id, items)
    \/ \E i \in DOMAIN calls, failed \in BOOLEAN :
          \E shape \in {"bare"} \union IF session.plan = "any" THEN {"shown", "named"} ELSE {} : Answers(i, failed, shape)
    \/ session.plan # None /\ Breaks
    \/ \E cp \in session.marks : RecordCheckpoint(cp)
    \/ \E scope \in {"project", "all"} :
          \/ Resolve(scope)
          \/ \E start \in Starts : Unfinished(scope, start) \/ Find(scope, start)
    \/ Build

Spec == Init /\ [][Next]_vars

-----------------------------------------------------------------------------
Says_(code) == code \in output.reasons

\* What unfinished and pickup say of a session is so: a turn that they call
\* completed is, one that they call interrupted is not, an unanswered request
\* and a failure are open; and of a transcript that is inspected whole they say
\* all of it (inspect_structural_evidence, "reports what it saw").
ReasonsAreTrue ==
    (output # None /\ output.kind \in {"candidate", "picked_up"} /\ output.fresh) =>
        /\ Says_("explicit_turn_completed") => truth.ended = "completed"
        /\ Says_("interrupted_or_cancelled") => truth.ended # "completed"
        /\ Says_("trailing_user_request_unanswered") => truth.asked
        /\ Says_("unresolved_tool_failure") => truth.failing
        /\ ~output.cut =>
              /\ truth.ended = "completed" => Says_("explicit_turn_completed")
              /\ truth.ended = "stopped" => Says_("interrupted_or_cancelled")
              /\ truth.asked /\ session.source \notin {"opencode", "mcode"} =>
                    Says_("trailing_user_request_unanswered")
              /\ truth.failing => Says_("unresolved_tool_failure")

\* A plan that is reported as confirmed took effect, whatever lines are broken
\* or come out of order, and when all can be read and paired it is the one that
\* took effect last (task_state, "a write counts only once a successful tool
\* result confirms it").
PlanIsTrue ==
    (output # None /\ output.kind = "picked_up") =>
        /\ output.plan # None /\ output.plan.confirmed => output.plan.items \in ToSet(applied)
        /\ (applied # << >> /\ \A i \in DOMAIN transcript :
                transcript[i].kind # "torn" /\ (transcript[i].kind \in {"call", "result"} => transcript[i].id # None))
           => output.plan = [items |-> Last(applied), confirmed |-> TRUE]

\* A session that a checkpoint closes is not offered, one that none closes is,
\* and the action to take next is not one that is done.
OfferIsOpen ==
    output # None =>
        /\ output.kind = "candidate" /\ session.known /\ checkpoint # Broken => ~Terminal(checkpoint)
        /\ output.kind = "excluded" => Terminal(checkpoint)
        /\ output.kind = "picked_up" /\ output.next.basis = "task_state" =>
              \E item \in ToSet(output.plan.items) : item.text = output.next.text /\ item.status \in {"in_progress", "pending"}

PickupIsTrue == ReasonsAreTrue /\ PlanIsTrue /\ OfferIsOpen
================================================================================
