------------------------------- MODULE Checkpoint ------------------------------
(***************************************************************************)
(* Progress checkpoints of conversations (conversation/checkpoint.rs and   *)
(* the command in cli/checkpoint.rs): records appended as lines to         *)
(* .innen/checkpoints.jsonl.  One that is given by options inherits what   *)
(* they do not say from the latest record of its session; one that is      *)
(* given as JSON (--file) is appended as it stands, and what the JSON      *)
(* leaves out is empty.                                                    *)
(*                                                                         *)
(* Nothing locks the file.  writeln! hands the text of a line and its      *)
(* newline to the file in two writes, between which another record may be  *)
(* appended or the writer may die.                                         *)
(*                                                                         *)
(* `work` stands for the five fields with the same rule (completed work,   *)
(* evidence, blockers, next action, verification); only the first three    *)
(* may be left out of a JSON.                                              *)
(***************************************************************************)
EXTENDS Naturals, Sequences

CONSTANTS
    Proc,       \* commands that may record checkpoints at the same time
    Session,
    Objective, Work, \* what these fields can say
    Unsaid,     \* an option that is not given
    Project,    \* directories with an .innen of their own
    Cwd,        \* the one that the commands run in
    Option,     \* what --project may say before the subcommand
    NewLine,
    MaxRecord, MaxCrash  \* bounds: commands, and those that die

VARIABLES
    lines,      \* per project, the texts and newlines of the file
    at, record, \* where each command is, and what it will append
    dir,        \* the project whose file it uses
    overlapped, \* two commands worked on one project (history)
    torn,       \* a command died between its two writes (history)
    begun, crashes

vars == <<lines, at, record, dir, overlapped, torn, begun, crashes>>

-----------------------------------------------------------------------------
(***************************************************************************)
(* Reading the file.                                                       *)
(***************************************************************************)

\* A line holds what was written between two newlines: one text, none (blank
\* lines are skipped), or several texts run together.
Readable(f) == \A j \in 1 .. Len(f) - 1 : f[j] = NewLine \/ f[j + 1] = NewLine

Record == [session : Session, objective : Objective \union {Unsaid}, work : Work \union {Unsaid},
           said : SUBSET {"objective", "work"}]

\* The places of the records of a session.
HistoryOf(f, s) == {j \in DOMAIN f : f[j] # NewLine /\ f[j].session = s}

\* Mutant of Latest: the first record of the session.
LatestFirst(f, s) ==
    {f[j] : j \in {k \in HistoryOf(f, s) : Readable(f) /\ \A i \in HistoryOf(f, s) : k <= i}}

\* The latest record of a session, if there is one and the file can be read.
Latest(f, s) ==
    {f[j] : j \in {k \in HistoryOf(f, s) : Readable(f) /\ \A i \in HistoryOf(f, s) : i <= k}}

-----------------------------------------------------------------------------
(***************************************************************************)
(* Recording.                                                              *)
(***************************************************************************)
Init ==
    /\ lines = [d \in Project |-> << >>]
    /\ at = [p \in Proc |-> "idle"]
    /\ record = [p \in Proc |-> NewLine]
    /\ dir = [p \in Proc |-> Cwd]
    /\ overlapped = FALSE /\ torn = FALSE
    /\ begun = 0 /\ crashes = 0

Goto(p, s) == at' = [at EXCEPT ![p] = s]

Working(d) == {q \in Proc : at[q] \in {"text", "newline"} /\ dir[q] = d}

\* The project directory: --project given before the subcommand, or the
\* working directory.  The --project of `record` itself is never looked at.
ProjectDir(project) == IF project # Unsaid THEN project ELSE Cwd

\* What a record says: an option if it is given, the latest record of the
\* session otherwise; a file that cannot be read counts as no record.
Inherited(given, latest, field) ==
    IF given # Unsaid THEN given
    ELSE IF latest # {} THEN (CHOOSE r \in latest : TRUE)[field] ELSE Unsaid

Compose(s, objective, work, latest) ==
    [session |-> s, objective |-> Inherited(objective, latest, "objective"),
     work |-> Inherited(work, latest, "work"),
     said |-> {f \in {"objective", "work"} : (IF f = "work" THEN work ELSE objective) # Unsaid}]

\* The record of a JSON, which no other is read for: the fields that it leaves
\* out (serde's default) are said to be empty.
Verbatim(s, objective, work) ==
    [session |-> s, objective |-> objective, work |-> work, said |-> {"objective", "work"}]

\* A new session needs an objective; without one the command ends there.
Submit(p, d, new) ==
    /\ at[p] = "idle"
    /\ begun < MaxRecord /\ begun' = begun + 1
    /\ IF new.objective = Unsaid THEN UNCHANGED <<at, dir, record, overlapped>>
       ELSE /\ Goto(p, "text")
            /\ dir' = [dir EXCEPT ![p] = d]
            /\ record' = [record EXCEPT ![p] = new]
            /\ overlapped' = (overlapped \/ Working(d) # {})
    /\ UNCHANGED <<lines, torn, crashes>>

Begin(p, s, objective, work, project) ==
    LET d == ProjectDir(project)
    IN Submit(p, d, Compose(s, objective, work, Latest(lines[d], s)))

\* A JSON names its objective, and its own project is not looked at.  One that
\* is not a checkpoint ends the command.
BeginFile(p, s, objective, work, project) ==
    Submit(p, ProjectDir(project), Verbatim(s, objective, work))

WriteText(p) ==
    /\ at[p] = "text"
    /\ lines' = [lines EXCEPT ![dir[p]] = Append(@, record[p])]
    /\ record' = [record EXCEPT ![p] = NewLine]
    /\ Goto(p, "newline")
    /\ UNCHANGED <<dir, overlapped, torn, begun, crashes>>

WriteNewLine(p) ==
    /\ at[p] = "newline"
    /\ lines' = [lines EXCEPT ![dir[p]] = Append(@, NewLine)]
    /\ Goto(p, "idle") /\ dir' = [dir EXCEPT ![p] = Cwd]
    /\ UNCHANGED <<record, overlapped, torn, begun, crashes>>

Die(p) ==
    /\ at[p] \in {"text", "newline"} /\ crashes < MaxCrash
    /\ crashes' = crashes + 1
    /\ torn' = (torn \/ at[p] = "newline")
    /\ Goto(p, "idle") /\ dir' = [dir EXCEPT ![p] = Cwd]
    /\ record' = [record EXCEPT ![p] = NewLine]
    /\ UNCHANGED <<lines, overlapped, begun>>

Next ==
    \E p \in Proc :
        \/ \E s \in Session, objective \in Objective \union {Unsaid}, work \in Work \union {Unsaid},
              project \in Option \union {Unsaid} :
              \/ Begin(p, s, objective, work, project)
              \/ objective # Unsaid /\ BeginFile(p, s, objective, work, project)
        \/ WriteText(p) \/ WriteNewLine(p) \/ Die(p)

Spec == Init /\ [][Next]_vars

-----------------------------------------------------------------------------
(***************************************************************************)
(* Properties.                                                             *)
(***************************************************************************)

\* "updates append new records without rewriting prior evidence": what the
\* options of a record do not say it takes over from the session's record before
\* it, be that one given by options or as JSON, unless the file could not be
\* read or a command of the same project overlapped.  A JSON takes over nothing.
ProgressInherited ==
    \/ overlapped \/ torn
    \/ \A d \in Project, s \in Session :
          LET h == HistoryOf(lines[d], s)
          IN \A j, k \in h : k < j /\ (\A i \in h : i <= k \/ j <= i) =>
                \A f \in {"objective", "work"} \ lines[d][j].said : lines[d][j][f] = lines[d][k][f]
================================================================================
