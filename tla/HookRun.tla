-------------------------------- MODULE HookRun --------------------------------
(***************************************************************************)
(* innen hook run and hook pending (cli/hook/run, pending): a firing of a  *)
(* coding agent puts a receipt of the state of the worktree into the inbox *)
(* unless one is there for the same state, identity and event.  Hooks run  *)
(* at the same time, and an agent kills one that takes too long.  Another  *)
(* agent reads receipts and deletes them.                                  *)
(*                                                                         *)
(* A digest is what it is a digest of.  A receipt is named by the time and *)
(* its digest.                                                             *)
(***************************************************************************)
EXTENDS Naturals

CONSTANTS
    Status, Branch,   \* what git tells of a worktree
    Clean,            \* the status of a worktree without changes
    NonGit,           \* the branch of one without commits
    Firing,           \* firings, with what they say of their session
    Proc,             \* hooks that may run at the same time
    MaxRun, MaxChange, MaxKill, MaxNow,  \* bounds
    None, Empty

VARIABLES
    tree,       \* the worktree, or None outside a repository
    now,        \* the clock, in seconds
    inbox,      \* receipts by name
    hook,       \* per process: the hook that runs, or None
    told,       \* history: what hooks wrote or took to be there, and nobody deleted
    killed,     \* history: digests whose receipt a hook was killed over
    overlapped, \* history: digests that two hooks wrote at the same time
    runs, changes, kills

vars == <<tree, now, inbox, hook, told, killed, overlapped, runs, changes, kills>>

-----------------------------------------------------------------------------
Given(flag, stdin) == IF flag # None THEN flag ELSE stdin
Session(f) == Given(f.session, f.told)
Identity(f) == Given(Session(f), f.transcript)

\* Mutant of ReceiptDigest: the event and the state alone.
DigestOfState(state, f) == <<state, None, f.event>>
ReceiptDigest(state, f) == <<state, Identity(f), f.event>>

State == [status : Status \union {Clean}, branch : Branch \union {NonGit}]
Digest == {ReceiptDigest(state, f) : state \in State, f \in Firing}
Receipt == [state : State, f : Firing]
HookRecord == [f : Firing, status : Status \union {Clean}, digest : Digest \union {None},
               name : (Nat \X Digest) \union {None}, opened : BOOLEAN,
               branch : Branch \union {NonGit, None}]

HasDigest(digest) == \E name \in DOMAIN inbox : name[2] = digest

Writing(digest) == {p \in Proc : hook[p] # None /\ hook[p].digest = digest}

Init ==
    /\ tree \in {[status |-> s, branch |-> b] : s \in Status, b \in Branch} \union {None}
    /\ now = 0 /\ inbox = << >> /\ hook = [p \in Proc |-> None]
    /\ told = {} /\ killed = {} /\ overlapped = {}
    /\ runs = 0 /\ changes = 0 /\ kills = 0

\* The top level and the status of the worktree.  A status that git cannot tell
\* is that of a clean one.
Begin(p, f) ==
    /\ hook[p] = None /\ runs < MaxRun /\ runs' = runs + 1
    /\ IF tree = None THEN UNCHANGED hook
       ELSE \E status \in {tree.status, Clean} :
               hook' = [hook EXCEPT ![p] = [f |-> f, status |-> status, digest |-> None, name |-> None,
                                            opened |-> FALSE, branch |-> None]]
    /\ UNCHANGED <<tree, now, inbox, told, killed, overlapped, changes, kills>>

\* The branch, which git cannot tell when the worktree is gone by now, the
\* time, and whether the inbox has such a receipt.
Check(p) ==
    /\ hook[p] # None /\ hook[p].digest = None
    /\ LET branch == IF tree = None THEN NonGit ELSE tree.branch
           state == [status |-> hook[p].status, branch |-> branch]
           digest == ReceiptDigest(state, hook[p].f)
       IN IF HasDigest(digest) THEN
               /\ hook' = [hook EXCEPT ![p] = None]
               /\ told' = told \union {[state |-> state, f |-> hook[p].f]}
               /\ UNCHANGED overlapped
          ELSE /\ hook' = [hook EXCEPT ![p].digest = digest, ![p].name = <<now, digest>>,
                                       ![p].branch = branch]
               /\ overlapped' = overlapped \union {d \in {digest} : Writing(d) # {}}
               /\ UNCHANGED told
    /\ UNCHANGED <<tree, now, inbox, killed, runs, changes, kills>>

\* The receipt is opened for writing, which makes or empties it.
Open(p) ==
    /\ hook[p] # None /\ hook[p].digest # None /\ ~hook[p].opened
    /\ inbox' = [name \in DOMAIN inbox \union {hook[p].name} |->
                    IF name = hook[p].name THEN Empty ELSE inbox[name]]
    /\ hook' = [hook EXCEPT ![p].opened = TRUE]
    /\ UNCHANGED <<tree, now, told, killed, overlapped, runs, changes, kills>>

Fill(p) ==
    /\ hook[p] # None /\ hook[p].opened
    /\ LET body == [state |-> [status |-> hook[p].status, branch |-> hook[p].branch], f |-> hook[p].f]
       IN /\ inbox' = [name \in DOMAIN inbox |-> IF name = hook[p].name THEN body ELSE inbox[name]]
          /\ told' = IF hook[p].name \in DOMAIN inbox THEN told \union {body} ELSE told
    /\ hook' = [hook EXCEPT ![p] = None]
    /\ UNCHANGED <<tree, now, killed, overlapped, runs, changes, kills>>

\* The agent kills a hook that takes too long.
Kill(p) ==
    /\ hook[p] # None /\ kills < MaxKill /\ kills' = kills + 1
    /\ killed' = killed \union IF hook[p].opened THEN {hook[p].digest} ELSE {}
    /\ hook' = [hook EXCEPT ![p] = None]
    /\ UNCHANGED <<tree, now, inbox, told, overlapped, runs, changes>>

\* pending: every receipt, whatever it holds.
PendingFiles == DOMAIN inbox

\* An agent that pending told of a receipt has ingested and deletes it.  What is
\* still being written to it is lost.
Drain(name) ==
    /\ inbox' = [n \in DOMAIN inbox \ {name} |-> inbox[n]]
    /\ told' = {t \in told : ReceiptDigest(t.state, t.f) # name[2]}
    /\ hook' = [p \in Proc |-> IF hook[p] # None /\ hook[p].opened /\ hook[p].name = name
                               THEN [hook[p] EXCEPT !.name = None] ELSE hook[p]]
    /\ UNCHANGED <<tree, now, killed, overlapped, runs, changes, kills>>

\* Someone works in the worktree, or removes it.
Change ==
    /\ changes < MaxChange /\ changes' = changes + 1
    /\ tree' \in {[status |-> s, branch |-> b] : s \in Status, b \in Branch} \union {None}
    /\ UNCHANGED <<now, inbox, hook, told, killed, overlapped, runs, kills>>

Tick ==
    /\ now < MaxNow /\ now' = now + 1
    /\ UNCHANGED <<tree, inbox, hook, told, killed, overlapped, runs, changes, kills>>

Next ==
    \/ \E p \in Proc : Check(p) \/ Open(p) \/ Fill(p) \/ Kill(p) \/ \E f \in Firing : Begin(p, f)
    \/ \E name \in PendingFiles : Drain(name)
    \/ Change \/ Tick

Spec == Init /\ [][Next]_vars

-----------------------------------------------------------------------------
\* What a hook wrote or took to be there is in the inbox, with the identity and
\* the event of its firing, until someone deletes it, and it is there once
\* (hook_run_inner, "one pending receipt per session/event", "repeated firings
\* over an unchanged state deduplicate to one"): unless another hook is in the
\* middle of the same receipt or was killed over it, and, for the number,
\* unless two hooks wrote it at the same time.
ReceiptsKept ==
    /\ \A t \in told :
          LET digest == <<t.state, Identity(t.f), t.f.event>>
          IN Writing(digest) = {} /\ digest \notin killed =>
             \E name \in DOMAIN inbox :
                /\ name[2] = ReceiptDigest(t.state, t.f) /\ inbox[name] # Empty
                /\ inbox[name].state = t.state /\ inbox[name].f.event = t.f.event
                /\ Identity(inbox[name].f) = Identity(t.f)
    /\ \A m, n \in DOMAIN inbox : m[2] = n[2] => m = n \/ m[2] \in overlapped
================================================================================
