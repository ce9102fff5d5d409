------------------------------ MODULE Retention ------------------------------
(***************************************************************************)
(* `innen retention sweep --execute`, `purge --execute` and `attest`       *)
(* (innen-core session_retention) on one native store of a coding tool.    *)
(*                                                                         *)
(* A sweep lists the sessions of the store once, assesses them, and then   *)
(* takes one session after the other: it writes a compact transcript,      *)
(* records it with a proof in the journal, and deletes the native files    *)
(* through an adapter.  Meanwhile the coding tool writes its sessions,     *)
(* other sweeps and purges run, and any of them may die.                   *)
(*                                                                         *)
(* A version number stands for the bytes of a transcript, and a hash names *)
(* the version and the hashed files that exist.  Sizes, hard links, dry    *)
(* runs and --source-root are left out.  The journal appends one at a time *)
(* here; what concurrent appends do to each other is in module Journal.    *)
(***************************************************************************)
EXTENDS Naturals, FiniteSets

CONSTANTS
    Proc,       \* processes that run retention commands
    Session,
    Stores,     \* the native stores to consider, see StoreAssumption
    NoSession, NoProc,
    NoFile,     \* there is no such file; otherwise a file holds a version
    MaxDepth,   \* a sweep counts no more ancestors, 65 in the code
    MaxStart,   \* bounds: sweeps and purges,
    MaxEvent    \* what the tool, the clock, other commands and failures do

Kind == {"file", "codex", "opencode", "mcode", "copilot", "bundle"}

ASSUME StoreAssumption ==
    Stores \subseteq [kind     : Kind,      \* how the source keeps its sessions
                      parent   : [Session -> Session \union {NoSession}],
                      live     : SUBSET Session,  \* sessions at the beginning
                      recorded : SUBSET Session]  \* with linked knowledge

\* A parent is older than its subagent sessions, so that the parents form no circle,
\* and no session is too deep for the count (sweep.rs takes one that is for a malformed
\* circle, and its order as it comes).  In the stores of which a tool deletes a session
\* with those below it, none is left without its parent.
ASSUME ParentAssumption ==
    /\ MaxDepth \in Nat
    /\ \A st \in Stores :
           /\ \E age \in [Session -> 0 .. MaxDepth] :
                 \A s \in Session : st.parent[s] # NoSession => age[st.parent[s]] < age[s]
           /\ st.kind \in {"codex", "opencode"} =>
                 \A s \in st.live : st.parent[s] \in st.live \union {NoSession}

\* Names and versions are never taken for their absence.
ASSUME NoneAssumption == NoSession \notin Session /\ NoProc \notin Proc /\ NoFile \notin Nat

VARIABLES
    store,     \* the store, one of Stores
    native,    \* the files of each session, their version and last change
    opened,    \* sessions that the tool has an open handle on
    now,       \* retention windows that have passed
    partial,   \* <id>.jsonl.partial of each session
    final,     \* <id>.jsonl, the published compact transcript
    nodes,     \* conversation and knowledge nodes of the graph
    linked,    \* knowledge nodes with a live edge to their conversation
    proofs,    \* SessionRetentionReceipt nodes
    receipts,  \* SessionPurgeReceipt nodes
    sweep,     \* the local state of each process
    attesting, \* what `retention attest` has verified and not yet recorded
    deleted,   \* what the adapters deleted, on which hash (history)
    contended, \* sessions that two sweeps planned to compact at once, or that
               \* one compacts after another deleted them (history)
    raced,     \* processes whose session changed after the last check (history)
    retracted, \* knowledge nodes that `graph retract` unlinked (history)
    quiet,     \* the sweep that nothing else has interfered with (history)
    starts, events  \* counters behind the bounds

toolVars  == <<native, opened, now>>
graphVars == <<nodes, linked, proofs, receipts>>
fileVars  == <<partial, final>>
history   == <<deleted, contended, raced, retracted>>
counters  == <<starts, events>>
vars == <<store, toolVars, fileVars, graphVars, sweep, attesting, history, quiet, counters>>

-----------------------------------------------------------------------------
(***************************************************************************)
(* The native store.                                                       *)
(***************************************************************************)

\* "data" is the transcript, "row" the entry of a shared index or summary
\* database, "rest" what else belongs to the session.
PartsOf == [k \in Kind |-> IF k \in {"file", "codex", "opencode"} THEN {"data"}
                           ELSE {"row", "data", "rest"}]

\* The parts that the hash, the identity check and the handle check look at.
HashedOf == [k \in Kind |-> IF k = "bundle" THEN {"data", "rest"} ELSE {"data"}]

Has(s, part) == part \in native[s].parts
Targets(s)   == native[s].parts \intersect HashedOf[store.kind]

Hash(s) == [ver |-> IF Has(s, "data") THEN native[s].ver ELSE 0, parts |-> Targets(s)]
NoHash  == [ver |-> 0, parts |-> {}]

\* The shared database of OpenCode is readable and a target whatever became
\* of the session's rows.
Readable(s) == store.kind = "opencode" \/ Targets(s) # {}

\* Handles on a database that all sessions share say nothing of one session.
Idle(s) == store.kind = "opencode" \/ s \notin opened

Children(s) == {c \in Session : store.parent[c] = s /\ Has(c, "data")}

\* Mcode sessions are listed from the index, Antigravity's from the summary
\* rows and both directories, the others from their transcripts.
Listed == {s \in Session :
             CASE store.kind = "mcode"  -> Has(s, "row")
               [] store.kind = "bundle" -> native[s].parts # {}
               [] OTHER                 -> Has(s, "data")}

-----------------------------------------------------------------------------
(***************************************************************************)
(* The graph and the assessment of a session.                              *)
(***************************************************************************)

Conversation(s)  == [session |-> s, type |-> "conversation", ver |-> 0]
Manual(s)        == [session |-> s, type |-> "manual", ver |-> 0]
Transcript(s, v) == [session |-> s, type |-> "transcript", ver |-> v]

Proof(s, h, know, by) == [session |-> s, hash |-> h, know |-> know, by |-> by]

\* The id of a proof is made of the session and the hash, so that a later
\* proof of the same bytes replaces the earlier one.
Upsert(p) == {q \in proofs : q.session # p.session \/ q.hash # p.hash} \union {p}

ProofsOf(s)    == {p \in proofs : p.session = s}
ExactProofs(s) == {p \in ProofsOf(s) : p.hash = Hash(s)}

ProofBlockers(s) ==
    IF ExactProofs(s) = {} THEN {"attestation_missing"}
    ELSE IF \A p \in ExactProofs(s) : p.know \subseteq linked THEN {}
    ELSE {"knowledge_missing"}

ChildBlockers(s) ==
    IF store.kind = "opencode" /\ Children(s) # {} THEN {"child_sessions"} ELSE {}

\* assess_candidate_with_graph: `modified` is what the listing found.
Blockers(s, modified) ==
    IF store.kind # "opencode" /\ Targets(s) = {} THEN {"already_cleaned"}
    ELSE IF modified >= now THEN {"retention_window"}
    ELSE IF ProofsOf(s) = {} THEN {"attestation_missing"}
    ELSE IF ChildBlockers(s) \union ProofBlockers(s) # {}
         THEN ChildBlockers(s) \union ProofBlockers(s)
    ELSE IF Idle(s) THEN {} ELSE {"session_active"}

Eligible(s, modified)    == Blockers(s, modified) = {}
Compactable(s, modified) == Blockers(s, modified) = {"attestation_missing"}

-----------------------------------------------------------------------------
Labels ==
    {"idle", "plan", "next",
     "hash", "create", "write", "recheck", "rename",
     "conversation", "transcript", "edge", "proof",
     "guard", "attempt", "assess", "verify",
     "remove", "cli", "row", "directory", "data", "rest",
     "failed", "receipt"}

Deleting == {"remove", "cli", "row", "directory", "data", "rest"}
AfterAttempt == Deleting \union {"assess", "verify", "failed", "receipt"}

\* Where the file is that a process has open for writing.
Places == {"partial", "final", "gone"}

HashType == [ver : Nat, parts : SUBSET {"data", "rest"}]
Node == [session : Session, type : {"conversation", "manual", "transcript"}, ver : Nat]

ProofType == [session : Session, hash : HashType, know : SUBSET Node, by : {"sweep", "attest"}]
ReceiptType == [session : Session, hash : HashType]

\* The local state of a process: what it listed, the sessions it still has
\* to take and those of them to compact, and the session it works on.
Local == [pc : Labels, listed : SUBSET Session, modified : [Session -> Nat],
          work : SUBSET Session, compact : SUBSET Session, cur : Session \union {NoSession},
          hash : HashType, wrote : Nat, fd : Places, attempt : BOOLEAN]

\* A process that does nothing.
Fresh == [pc |-> "idle", listed |-> {}, modified |-> [s \in Session |-> 0],
          work |-> {}, compact |-> {}, cur |-> NoSession,
          hash |-> NoHash, wrote |-> 0, fd |-> "gone", attempt |-> FALSE]

Init ==
    /\ store \in Stores
    /\ native = [s \in Session |->
                   IF s \in store.live
                   THEN [parts |-> PartsOf[store.kind], ver |-> 1, stamp |-> 0]
                   ELSE [parts |-> {}, ver |-> 0, stamp |-> 0]]
    /\ opened = {}
    /\ now = 1
    /\ partial = [s \in Session |-> NoFile]
    /\ final = [s \in Session |-> NoFile]
    /\ nodes = {Conversation(s) : s \in store.recorded} \union {Manual(s) : s \in store.recorded}
    /\ linked = {Manual(s) : s \in store.recorded}
    /\ proofs = {}
    /\ receipts = {}
    /\ sweep = [p \in Proc |-> Fresh]
    /\ attesting = {}
    /\ deleted = {}
    /\ contended = {}
    /\ raced = {}
    /\ retracted = {}
    /\ quiet = NoProc
    /\ starts = 0 /\ events = 0

-----------------------------------------------------------------------------
(***************************************************************************)
(* The coding tool and the clock.                                          *)
(***************************************************************************)

Event == events < MaxEvent /\ events' = events + 1

Touch(s) ==
    raced' = raced \union {p \in Proc : sweep[p].cur = s /\ sweep[p].pc \in Deleting}

ToolOpen(s) ==
    /\ Event
    /\ Has(s, "data") /\ s \notin opened
    /\ opened' = opened \union {s}
    /\ UNCHANGED <<native, raced>>

ToolClose(s) ==
    /\ s \in opened
    /\ opened' = opened \ {s}
    /\ UNCHANGED <<native, raced, events>>

\* Through a handle that it keeps, or by opening and closing the file.
ToolWrite(s) ==
    /\ Event
    /\ Has(s, "data")
    /\ native' = [native EXCEPT ![s].ver = @ + 1, ![s].stamp = now]
    /\ Touch(s)
    /\ UNCHANGED opened

\* A session starts a subagent session.
ToolSpawn(c) ==
    /\ Event
    /\ native[c].ver = 0
    /\ store.parent[c] # NoSession /\ Has(store.parent[c], "data")
    /\ native' = [native EXCEPT ![c] = [parts |-> PartsOf[store.kind], ver |-> 1, stamp |-> now]]
    /\ UNCHANGED <<opened, raced>>

Tool ==
    /\ \E s \in Session : ToolOpen(s) \/ ToolClose(s) \/ ToolWrite(s) \/ ToolSpawn(s)
    /\ UNCHANGED <<store, now, fileVars, graphVars, sweep, attesting, deleted, contended,
                   retracted, starts>>

Tick ==
    /\ Event
    /\ now' = now + 1
    /\ UNCHANGED <<store, native, opened, fileVars, graphVars, sweep, attesting, history, starts>>

-----------------------------------------------------------------------------
(***************************************************************************)
(* The sweep: listing, plan and order.                                     *)
(***************************************************************************)

Goto(p, label) == sweep' = [sweep EXCEPT ![p].pc = label]

\* The item is over, with or without success, and the sweep goes on.
Item(p) == [sweep[p] EXCEPT !.pc = "next", !.cur = NoSession, !.hash = NoHash,
                            !.wrote = 0, !.fd = "gone", !.attempt = FALSE]

GiveUp(p) == sweep' = [sweep EXCEPT ![p] = Item(p)]

Listing(label, cur) ==
    [Fresh EXCEPT !.pc = label, !.listed = Listed, !.cur = cur,
                  !.modified = [s \in Session |-> native[s].stamp]]

Start(p) ==
    /\ sweep[p].pc = "idle"
    /\ starts < MaxStart /\ starts' = starts + 1
    /\ \/ /\ sweep' = [sweep EXCEPT ![p] = Listing("plan", NoSession)]
          /\ quiet' = IF \A q \in Proc \ {p} : sweep[q].pc = "idle" THEN p ELSE NoProc
       \/ /\ \E s \in Listed : sweep' = [sweep EXCEPT ![p] = Listing("guard", s)]
          /\ quiet' = NoProc
    /\ UNCHANGED <<store, toolVars, fileVars, graphVars, attesting, history, events>>

\* Both sweeps have the session before them and mean to compact it.
Planned(q, s) ==
    s \in sweep[q].compact /\ (s \in sweep[q].work \/ s = sweep[q].cur)

Plan(p) ==
    LET old     == sweep[p].modified
        compact == {s \in sweep[p].listed : Compactable(s, old[s])}
    IN
    /\ sweep[p].pc = "plan"
    /\ sweep' = [sweep EXCEPT
                   ![p].pc = "next", ![p].compact = compact,
                   ![p].work = {s \in sweep[p].listed : Eligible(s, old[s])} \union compact]
    /\ contended' = contended \union {s \in compact : \E q \in Proc \ {p} : Planned(q, s)}
    /\ UNCHANGED <<fileVars, graphVars, native, deleted, raced, retracted>>

\* The way from s over n parents, where only the sessions of the listing name one.
Line(listed, s, n) ==
    {f \in [0 .. n -> Session] :
        f[0] = s /\ \A i \in 0 .. n - 1 : f[i] \in listed /\ f[i + 1] = store.parent[f[i]]}

\* How many parents there are on the way from s.
Depth(listed, s) == Cardinality({n \in 1 .. MaxDepth : Line(listed, s, n) # {}})

\* Mutant of Deepest: parents come first.
DeepestLast(p) ==
    {s \in sweep[p].work : \A t \in sweep[p].work :
        Depth(sweep[p].listed, t) >= Depth(sweep[p].listed, s)}

Deepest(p) ==
    {s \in sweep[p].work : \A t \in sweep[p].work :
        Depth(sweep[p].listed, t) <= Depth(sweep[p].listed, s)}

\* Sessions of equal depth come in the order of the listing, which is left
\* open.
Take(p) ==
    /\ sweep[p].pc = "next"
    /\ \E s \in Deepest(p) :
          sweep' = [sweep EXCEPT
                      ![p].work = @ \ {s}, ![p].cur = s,
                      ![p].pc = IF s \in sweep[p].compact THEN "hash" ELSE "guard"]
    /\ UNCHANGED <<fileVars, graphVars, native, history>>

End(p) ==
    /\ sweep[p].pc = "next" /\ sweep[p].work = {}
    /\ sweep' = [sweep EXCEPT ![p] = Fresh]
    /\ UNCHANGED <<fileVars, graphVars, native, history>>

-----------------------------------------------------------------------------
(***************************************************************************)
(* Compaction (compact_and_attest).                                        *)
(***************************************************************************)

\* The sweeps after p's operation `moves` on the partial file of s: a
\* process in the middle of writing goes on with the file it has open.
WithFile(p, s, moves, item) ==
    [q \in Proc |-> IF q = p THEN item
                    ELSE IF sweep[q].pc = "write" /\ sweep[q].cur = s
                         THEN [sweep[q] EXCEPT !.fd = moves[@]]
                    ELSE sweep[q]]

Removal  == [f \in Places |-> IF f = "final" THEN "final" ELSE "gone"]
Renaming == [f \in Places |-> IF f = "partial" THEN "final" ELSE "gone"]

HashBefore(p) ==
    LET s == sweep[p].cur IN
    /\ sweep[p].pc = "hash"
    /\ IF Readable(s) /\ Idle(s)
       THEN sweep' = [sweep EXCEPT ![p].hash = Hash(s), ![p].pc = "create"]
       ELSE GiveUp(p)
    /\ contended' = IF Has(s, "data") THEN contended ELSE contended \union {s}
    /\ UNCHANGED <<fileVars, graphVars, native, deleted, raced, retracted>>

\* File::create empties the file if there is one, whoever is writing it.
Create(p) ==
    /\ sweep[p].pc = "create"
    /\ partial' = [partial EXCEPT ![sweep[p].cur] = 0]
    /\ sweep' = [sweep EXCEPT ![p].pc = "write", ![p].fd = "partial"]
    /\ UNCHANGED <<final, graphVars, native, history>>

\* The dialogue is streamed from the transcript.  A bundle whose transcript
\* is gone leaves a database that the reader does not parse (one that the
\* tool has emptied is left out); an OpenCode session without rows has no
\* dialogue and reads as an empty one.
HasDialogue(s) == store.kind = "opencode" \/ Has(s, "data")
Dialogue(s)    == IF Has(s, "data") THEN native[s].ver ELSE 0

Write(p) ==
    LET s == sweep[p].cur IN
    /\ sweep[p].pc = "write"
    /\ HasDialogue(s)
    /\ partial' = IF sweep[p].fd = "partial" THEN [partial EXCEPT ![s] = Dialogue(s)] ELSE partial
    /\ final'   = IF sweep[p].fd = "final" THEN [final EXCEPT ![s] = Dialogue(s)] ELSE final
    /\ sweep' = [sweep EXCEPT ![p].pc = "recheck", ![p].wrote = Dialogue(s), ![p].fd = "gone"]
    /\ UNCHANGED <<graphVars, native, history>>

WriteFails(p) ==
    LET s == sweep[p].cur IN
    /\ sweep[p].pc = "write"
    /\ ~HasDialogue(s)
    /\ partial' = [partial EXCEPT ![s] = NoFile]
    /\ sweep' = WithFile(p, s, Removal, Item(p))
    /\ UNCHANGED <<final, graphVars, native, history>>

\* A bundle that cannot be hashed any more leaves the partial file behind.
Recheck(p) ==
    LET s == sweep[p].cur IN
    /\ sweep[p].pc = "recheck"
    /\ \/ /\ Readable(s) /\ Hash(s) = sweep[p].hash
          /\ Goto(p, "rename")
          /\ UNCHANGED partial
       \/ /\ Readable(s) /\ Hash(s) # sweep[p].hash
          /\ partial' = [partial EXCEPT ![s] = NoFile]
          /\ sweep' = WithFile(p, s, Removal, Item(p))
       \/ /\ ~Readable(s)
          /\ GiveUp(p)
          /\ UNCHANGED partial
    /\ UNCHANGED <<final, graphVars, native, history>>

Rename(p) ==
    LET s == sweep[p].cur IN
    /\ sweep[p].pc = "rename"
    /\ IF partial[s] # NoFile
       THEN /\ final' = [final EXCEPT ![s] = partial[s]]
            /\ partial' = [partial EXCEPT ![s] = NoFile]
            /\ sweep' = WithFile(p, s, Renaming, [sweep[p] EXCEPT !.pc = "conversation"])
       ELSE GiveUp(p) /\ UNCHANGED fileVars
    /\ UNCHANGED <<graphVars, native, history>>

\* Mutant of AppendConversation: the transcript's node is never written.
AppendConversationOnly(p) ==
    /\ sweep[p].pc = "conversation"
    /\ nodes' = nodes \union {Conversation(sweep[p].cur)}
    /\ Goto(p, "edge")
    /\ UNCHANGED <<fileVars, linked, proofs, receipts, native, history>>

AppendConversation(p) ==
    /\ sweep[p].pc = "conversation"
    /\ nodes' = nodes \union {Conversation(sweep[p].cur)}
    /\ Goto(p, "transcript")
    /\ UNCHANGED <<fileVars, linked, proofs, receipts, native, history>>

AppendTranscript(p) ==
    /\ sweep[p].pc = "transcript"
    /\ nodes' = nodes \union {Transcript(sweep[p].cur, sweep[p].wrote)}
    /\ Goto(p, "edge")
    /\ UNCHANGED <<fileVars, linked, proofs, receipts, native, history>>

AppendEdge(p) ==
    /\ sweep[p].pc = "edge"
    /\ linked' = linked \union {Transcript(sweep[p].cur, sweep[p].wrote)}
    /\ Goto(p, "proof")
    /\ UNCHANGED <<fileVars, nodes, proofs, receipts, native, history>>

\* Mutant of AppendProof: the proof names the bytes as they are by then.
AppendProofLate(p) ==
    LET s == sweep[p].cur IN
    /\ sweep[p].pc = "proof"
    /\ proofs' = Upsert(Proof(s, Hash(s), {Transcript(s, sweep[p].wrote)}, "sweep"))
    /\ sweep' = [sweep EXCEPT ![p].pc = "guard", ![p].hash = NoHash]
    /\ UNCHANGED <<fileVars, nodes, linked, receipts, native, history>>

AppendProof(p) ==
    LET s == sweep[p].cur IN
    /\ sweep[p].pc = "proof"
    /\ proofs' = Upsert(Proof(s, sweep[p].hash, {Transcript(s, sweep[p].wrote)}, "sweep"))
    /\ sweep' = [sweep EXCEPT ![p].pc = "guard", ![p].hash = NoHash]
    /\ UNCHANGED <<fileVars, nodes, linked, receipts, native, history>>

-----------------------------------------------------------------------------
(***************************************************************************)
(* Deletion (purge_candidate and delete_candidate).                        *)
(***************************************************************************)

\* Mutant of Guard: the order of the sweep is trusted.
GuardNothing(p) ==
    /\ sweep[p].pc = "guard"
    /\ Goto(p, "attempt")
    /\ UNCHANGED <<fileVars, graphVars, native, history>>

\* `codex delete` also deletes subagent sessions; which ones there are is
\* known from the listing.
Guard(p) ==
    LET s == sweep[p].cur IN
    /\ sweep[p].pc = "guard"
    /\ IF store.kind = "codex" /\ Children(s) \intersect sweep[p].listed # {}
       THEN GiveUp(p)
       ELSE Goto(p, "attempt")
    /\ UNCHANGED <<fileVars, graphVars, native, history>>

AppendAttempt(p) ==
    /\ sweep[p].pc = "attempt"
    /\ sweep' = [sweep EXCEPT ![p].pc = "assess", ![p].attempt = TRUE]
    /\ UNCHANGED <<fileVars, graphVars, native, history>>

\* Mutant of Reassess: a refusal ends the item at once.
ReassessSilently(p) ==
    LET s == sweep[p].cur IN
    /\ sweep[p].pc = "assess"
    /\ sweep' = [sweep EXCEPT
                   ![p].pc = IF Eligible(s, sweep[p].modified[s]) THEN "verify" ELSE "next",
                   ![p].hash = Hash(s)]
    /\ UNCHANGED <<fileVars, graphVars, native, history>>

Reassess(p) ==
    LET s == sweep[p].cur IN
    /\ sweep[p].pc = "assess"
    /\ sweep' = IF Eligible(s, sweep[p].modified[s])
                THEN [sweep EXCEPT ![p].pc = "verify", ![p].hash = Hash(s)]
                ELSE [sweep EXCEPT ![p].pc = "failed"]
    /\ UNCHANGED <<fileVars, graphVars, native, history>>

AppendFailure(p) ==
    /\ sweep[p].pc = "failed"
    /\ GiveUp(p)
    /\ UNCHANGED <<fileVars, graphVars, native, history>>

Adapter == [k \in Kind |-> IF k = "file" THEN "remove"
                           ELSE IF k \in {"codex", "opencode"} THEN "cli" ELSE "row"]

\* Mutant of Verify: the bytes are not hashed again.
VerifyUnhashed(p) ==
    LET s == sweep[p].cur IN
    /\ sweep[p].pc = "verify"
    /\ Goto(p, IF Idle(s) THEN Adapter[store.kind] ELSE "failed")
    /\ raced' = raced \ {p}
    /\ UNCHANGED <<fileVars, graphVars, native, deleted, contended, retracted>>

\* Same targets, same bytes, and no handle, right before the deletion.
Verify(p) ==
    LET s == sweep[p].cur IN
    /\ sweep[p].pc = "verify"
    /\ Goto(p, IF Hash(s) = sweep[p].hash /\ Idle(s) THEN Adapter[store.kind] ELSE "failed")
    /\ raced' = raced \ {p}
    /\ UNCHANGED <<fileVars, graphVars, native, deleted, contended, retracted>>

\* The adapter deletes the transcript of p's session.
Deletes(p) ==
    LET s == sweep[p].cur IN
    deleted' = IF Has(s, "data") THEN deleted \union {[session |-> s, hash |-> sweep[p].hash]}
                                 ELSE deleted

Without(s, gone) == [native EXCEPT ![s].parts = @ \ gone]

RemoveFile(p) ==
    LET s == sweep[p].cur IN
    /\ sweep[p].pc = "remove"
    /\ native' = Without(s, {"data"})
    /\ Deletes(p)
    /\ Goto(p, IF Has(s, "data") THEN "receipt" ELSE "failed")
    /\ UNCHANGED <<fileVars, graphVars, contended, raced, retracted>>

\* s and the sessions below it; the tool's own command deletes them all.
Family(s) ==
    {c \in Session : \E n \in 0 .. MaxDepth : \E f \in Line(Session, c, n) : f[n] = s}

DeleteByCli(p) ==
    LET s == sweep[p].cur IN
    /\ sweep[p].pc = "cli"
    /\ native' = [c \in Session |-> IF c \in Family(s) THEN [native[c] EXCEPT !.parts = {}]
                                                       ELSE native[c]]
    /\ Deletes(p)
    /\ Goto(p, "receipt")
    /\ UNCHANGED <<fileVars, graphVars, contended, raced, retracted>>

\* The rows go first, so that no index names a session without files.
RemoveRow(p) ==
    LET s == sweep[p].cur IN
    /\ sweep[p].pc = "row"
    /\ native' = Without(s, {"row"})
    /\ Goto(p, IF store.kind = "bundle" THEN "data" ELSE "directory")
    /\ UNCHANGED <<fileVars, graphVars, history>>

RemoveDirectory(p) ==
    LET s == sweep[p].cur IN
    /\ sweep[p].pc = "directory"
    /\ native' = Without(s, {"data", "rest"})
    /\ Deletes(p)
    /\ Goto(p, "receipt")
    /\ UNCHANGED <<fileVars, graphVars, contended, raced, retracted>>

\* The targets of a bundle that were there when it was assessed; one that
\* is missing by now is an error.
RemoveTarget(p, part) ==
    LET s == sweep[p].cur IN
    /\ sweep[p].pc = part
    /\ IF part \in sweep[p].hash.parts /\ ~Has(s, part)
       THEN Goto(p, "failed")
       ELSE Goto(p, IF part = "data" THEN "rest" ELSE "receipt")
    /\ native' = Without(s, {part} \intersect sweep[p].hash.parts)
    /\ IF part = "data" THEN Deletes(p) ELSE UNCHANGED deleted
    /\ UNCHANGED <<fileVars, graphVars, contended, raced, retracted>>

AppendReceipt(p) ==
    /\ sweep[p].pc = "receipt"
    /\ receipts' = receipts \union {[session |-> sweep[p].cur, hash |-> sweep[p].hash]}
    /\ GiveUp(p)
    /\ UNCHANGED <<fileVars, nodes, linked, proofs, native, history>>

-----------------------------------------------------------------------------
(***************************************************************************)
(* Failures.                                                               *)
(***************************************************************************)

\* The tool's command, sqlite3 or the removal of a file reports a failure, or
\* a summary row says that the session is not fully idle.
AdapterFails(p) ==
    /\ sweep[p].pc \in Deleting
    /\ Goto(p, "failed")
    /\ UNCHANGED <<native, deleted>>

\* A directory is not removed at once: part of it is gone when the removal
\* fails or the process dies.
RemovePartly(p) ==
    LET s == sweep[p].cur IN
    /\ sweep[p].pc = "directory"
    /\ \/ native' = Without(s, {"data"}) /\ Deletes(p)
       \/ native' = Without(s, {"rest"}) /\ UNCHANGED deleted
    /\ Goto(p, "failed")

\* Mutant of CliKeeps: an exit code of zero is believed.
CliKeepsUnseen(p) ==
    /\ sweep[p].pc = "cli"
    /\ Goto(p, "receipt")
    /\ UNCHANGED <<native, deleted>>

\* The tool's command exits with zero and leaves the session.  What is left
\* is looked for among the targets, but not in a shared database.
CliKeeps(p) ==
    /\ sweep[p].pc = "cli"
    /\ Goto(p, IF store.kind = "codex" /\ Has(sweep[p].cur, "data") THEN "failed" ELSE "receipt")
    /\ UNCHANGED <<native, deleted>>

\* The disk refuses the transcript, or the journal an append: the item ends,
\* and when it had an attempt it ends without an outcome.
WriteRefused(p) ==
    /\ sweep[p].pc \in {"hash", "create", "write", "rename", "conversation", "transcript",
                       "edge", "proof", "attempt", "failed", "receipt"}
    /\ GiveUp(p)
    /\ UNCHANGED <<native, deleted>>

Die(p) ==
    /\ sweep[p].pc # "idle"
    /\ sweep' = [sweep EXCEPT ![p] = Fresh]
    /\ UNCHANGED <<native, deleted>>

Fault(p) ==
    /\ Event
    /\ AdapterFails(p) \/ RemovePartly(p) \/ CliKeeps(p) \/ WriteRefused(p) \/ Die(p)
    /\ UNCHANGED <<store, opened, now, fileVars, graphVars, attesting, contended, raced,
                   retracted, starts>>

-----------------------------------------------------------------------------
(***************************************************************************)
(* `retention attest` and `graph retract`.                                 *)
(***************************************************************************)

AttestCheck(s) ==
    /\ Event
    /\ attesting = {}
    /\ s \in Listed /\ Readable(s) /\ Idle(s)
    /\ Conversation(s) \in nodes
    /\ \E know \in SUBSET {n \in linked : n.session = s} :
          know # {} /\ attesting' = {Proof(s, Hash(s), know, "attest")}
    /\ UNCHANGED <<graphVars, retracted>>

AttestAppend ==
    /\ \E p \in attesting : proofs' = Upsert(p)
    /\ attesting' = {}
    /\ UNCHANGED <<nodes, linked, receipts, events, retracted>>

GraphRetract(n) ==
    /\ Event
    /\ n \in linked
    /\ linked' = linked \ {n}
    /\ retracted' = retracted \union {n}
    /\ UNCHANGED <<nodes, proofs, receipts, attesting>>

Command ==
    /\ \/ \E s \in Session : AttestCheck(s)
       \/ AttestAppend
       \/ \E n \in linked : GraphRetract(n)
    /\ UNCHANGED <<store, toolVars, fileVars, sweep, deleted, contended, raced, starts>>

-----------------------------------------------------------------------------

Compaction(p) ==
    \/ HashBefore(p) \/ Create(p) \/ Write(p) \/ WriteFails(p) \/ Recheck(p) \/ Rename(p)
    \/ AppendConversation(p) \/ AppendTranscript(p) \/ AppendEdge(p) \/ AppendProof(p)

Deletion(p) ==
    \/ Guard(p) \/ AppendAttempt(p) \/ Reassess(p) \/ AppendFailure(p) \/ Verify(p)
    \/ RemoveFile(p) \/ DeleteByCli(p) \/ RemoveRow(p) \/ RemoveDirectory(p)
    \/ RemoveTarget(p, "data") \/ RemoveTarget(p, "rest") \/ AppendReceipt(p)

SweepStep(p) ==
    /\ Plan(p) \/ Take(p) \/ End(p) \/ Compaction(p) \/ Deletion(p)
    /\ quiet' = IF quiet = p THEN p ELSE NoProc
    /\ UNCHANGED <<store, opened, now, attesting, counters>>

Others == Tool \/ Tick \/ Command \/ \E p \in Proc : Fault(p)

Next ==
    \/ \E p \in Proc : Start(p) \/ SweepStep(p)
    \/ Others /\ quiet' = NoProc

Spec == Init /\ [][Next]_vars
-----------------------------------------------------------------------------
(***************************************************************************)
(* What retention promises.                                                *)
(***************************************************************************)

\* Type invariant of the store, the knowledge base and the local state of
\* sweep, compact_and_attest and purge_candidate.
TypeOK ==
    /\ store \in Stores
    /\ native \in [Session -> [parts : SUBSET {"row", "data", "rest"}, ver : Nat, stamp : Nat]]
    /\ opened \subseteq Session
    /\ now \in Nat
    /\ partial \in [Session -> Nat \union {NoFile}]
    /\ final \in [Session -> Nat \union {NoFile}]
    /\ nodes \subseteq Node
    /\ linked \subseteq nodes
    /\ proofs \subseteq ProofType
    /\ attesting \subseteq ProofType
    /\ receipts \subseteq ReceiptType
    /\ deleted \subseteq ReceiptType
    /\ sweep \in [Proc -> Local]
    /\ quiet \in Proc \union {NoProc}

Removed(s) == Has(s, "data") /\ ~Has(s, "data")'

\* What an adapter deletes of its session are the bytes that it verified and
\* that a proof in the journal names, unless the tool changed them after the
\* last check; the session was outside the window when it was listed
\* (README: "revalidates every byte and graph gate before deletion";
\* policy.rs assess_candidate_with_graph, delete_adapter delete_candidate).
DeletesProven ==
    [][\A p \in Proc, s \in Session :
          sweep[p].pc \in Deleting /\ sweep[p].cur = s /\ Removed(s) /\ sweep[p] # sweep'[p] =>
              /\ \E q \in proofs : q.session = s /\ q.hash = sweep[p].hash
              /\ sweep[p].modified[s] < now
              /\ Hash(s) = sweep[p].hash \/ p \in raced]_vars

\* A session that was deleted on the proof of a sweep left its dialogue in
\* the published transcript, whatever died or was swept again since, unless
\* two sweeps got to compact it (compact.rs:6-8, "the compact transcript
\* becomes the knowledge node that authorizes purging the native bundle").
\* Of a session that the tool wrote after the last check, what is published
\* may be the transcript of a later version than the one that was proven.
TranscriptOf(d) ==
    (\E q \in proofs : q.session = d.session /\ q.hash = d.hash /\ q.by = "sweep")
        => final[d.session] \in d.hash.ver .. native[d.session].ver

TranscriptKept == \A d \in deleted : d.session \in contended \/ TranscriptOf(d)

\* Every recorded attempt gets a failure or a receipt unless its process
\* dies before or the journal refuses that append (README: "SessionPurgeAttempt before deletion and a
\* SessionPurgeFailure or SessionPurgeReceipt outcome"; purge.rs, receipt.rs).
AuditTrail ==
    \A p \in Proc : sweep[p].attempt <=> sweep[p].pc \in AfterAttempt

\* "A receipt may only claim what actually happened on disk": nothing of the
\* session is left, in all places where it is looked for
\* (delete_adapter/mod.rs:109, delete_candidate).
ReceiptTruthful ==
    \A r \in receipts : store.kind # "opencode" => native[r.session].parts = {}

\* A deletion takes no session with it that the sweep had listed
\* (purge.rs live_children, policy.rs child sessions).
ChildrenSpared ==
    [][\A p \in Proc, c \in Session :
          sweep[p].pc = "cli" /\ sweep'[p].pc = "receipt" /\ c # sweep[p].cur /\ Removed(c) =>
              c \notin sweep[p].listed]_vars

\* A sweep that nothing interferes with deletes every session that was
\* listed outside the window, closed, not blocked by a child and not robbed
\* of its knowledge, whatever earlier sweeps left behind when they died.
\* An OpenCode parent with a proof waits for the sweep after the one that
\* deletes its child (sweep.rs sweep, compact.rs:161-179 order of the appends).
Clearable(p, s) ==
    /\ s \in sweep[p].listed
    /\ sweep[p].modified[s] < now
    /\ Idle(s)
    /\ Children(s) = {}
    /\ store.kind = "opencode" => \A c \in sweep[p].listed : store.parent[c] # s
    /\ \A q \in ExactProofs(s) : q.know \intersect retracted = {}

SweepClears ==
    \A p \in Proc : quiet = p /\ sweep[p].pc = "next" /\ sweep[p].work = {} =>
        \A s \in sweep[p].listed : Clearable(p, s) => ~Has(s, "data")

\* "Hot-session window, kept before an attested session may be purged": the
\* window of a session that an adapter deletes has passed, unless the tool
\* wrote it after the last check (types.rs:102, support.rs:7-8, policy.rs).
WindowKept ==
    [][\A p \in Proc, s \in Session :
          sweep[p].pc \in Deleting /\ sweep[p].cur = s /\ Removed(s) /\ sweep[p] # sweep'[p] =>
              native[s].stamp < now \/ p \in raced]_vars

\* The dialogue of every session deleted on the proof of a sweep is in the
\* published transcript (compact.rs:3-8).
DialogueKept == \A d \in deleted : TranscriptOf(d)
=============================================================================
