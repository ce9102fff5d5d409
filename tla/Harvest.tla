-------------------------------- MODULE Harvest --------------------------------
(***************************************************************************)
(* The harvest tap (innen-core harvest, tap.rs): files dropped into        *)
(* 00-inbox/harvest become node.upsert events, except those that match a   *)
(* credential pattern, and a cursor file names the files already handled.  *)
(*                                                                         *)
(* Any number of `harvest --ingest` runs may overlap.  A run loads the     *)
(* cursor and lists the inbox, reads and appends one file after another,   *)
(* and stores a cursor: written to one fixed temporary name, then renamed. *)
(* Files are edited, and runs die, at any moment.                          *)
(*                                                                         *)
(* Each append is one step (it is made under the journal's lock, see       *)
(* Journal).  What a file says is reduced to what the scan makes of it.    *)
(***************************************************************************)
EXTENDS Naturals, FiniteSets, Sequences

CONSTANTS
    Run,         \* processes that run an ingest
    Name,        \* names of files below the inbox
    Clean,       \* contents without a credential
    Secret,      \* contents that match a credential pattern
    Absent,      \* there is no file of that name
    Unreadable,  \* reading the file fails
    Missing, Rebuilt, Torn,  \* cursor files that name nothing, see Known
    None,
    MaxRun, MaxEdit, MaxCrash  \* bounds: ingests, edits, deaths

Content == Clean \union Secret

VARIABLES
    inbox,     \* the file of each name
    log,       \* the appended events, oldest first
    cursor,    \* the cursor file: Missing, Rebuilt, Torn or a set of names
    temp,      \* the temporary cursor file: None, Torn or a set of names
    pc,        \* where each run is
    loaded,    \* the cursor that a run loaded
    pending,   \* the names that a run has still to read
    body,      \* what a run read of the first of them
    done,      \* the names that a run will record
    file,      \* the file that a run is writing its cursor to
    handled,   \* names appended or held back for a credential (history)
    disturbed, \* ingests overlapped or died (history)
    runs, edits, crashes

runVars == <<pc, loaded, pending, body, done, file>>
vars == <<inbox, log, cursor, temp, runVars, handled, disturbed, runs, edits, crashes>>

-----------------------------------------------------------------------------
(***************************************************************************)
(* The cursor.                                                             *)
(***************************************************************************)

\* Only a cursor of the current schema names what was consumed: a missing
\* file, a bare count and an unreadable file contribute the empty set.
Known(c) == IF c \in {Missing, Rebuilt, Torn} THEN {} ELSE c

\* Consumed names are never dropped, files that are gone included.
Advance(c, names) == Known(c) \union names

Listed(box) == {n \in Name : box[n] # Absent}

Unconsumed(box, c) == Listed(box) \ Known(c)

\* The orders in which a run may go through a set of names; the program takes
\* the sorted one, the same for all runs.
InOrder(S) == CHOOSE s \in [1 .. Cardinality(S) -> S] : {s[i] : i \in DOMAIN s} = S

-----------------------------------------------------------------------------
NodeUpsert(n, c) == [name |-> n, body |-> c]

Init ==
    /\ inbox \in [Name -> {Absent, Unreadable} \union Content]
    /\ log = << >>
    /\ cursor \in {Missing, Rebuilt}
    /\ temp = None
    /\ pc = [p \in Run |-> "idle"]
    /\ loaded = [p \in Run |-> Missing]
    /\ pending = [p \in Run |-> << >>]
    /\ body = [p \in Run |-> None]
    /\ done = [p \in Run |-> {}]
    /\ file = [p \in Run |-> "none"]
    /\ handled = {}
    /\ disturbed = FALSE
    /\ runs = 0 /\ edits = 0 /\ crashes = 0

Goto(p, s) == pc' = [pc EXCEPT ![p] = s]

\* A run loads the cursor and lists the inbox; with nothing pending it ends
\* there, and so it does when the journal cannot be opened.
StartRun(p) ==
    LET new == Unconsumed(inbox, cursor)
    IN /\ pc[p] = "idle" /\ runs < MaxRun
       /\ runs' = runs + 1
       /\ new # {}
       /\ \/ /\ Goto(p, "read")
             /\ loaded' = [loaded EXCEPT ![p] = cursor]
             /\ pending' = [pending EXCEPT ![p] = InOrder(new)]
             /\ disturbed' = (disturbed \/ \E q \in Run \ {p} : pc[q] # "idle")
          \/ UNCHANGED <<pc, loaded, pending, disturbed>>
       /\ UNCHANGED <<inbox, log, cursor, temp, body, done, file, handled, edits, crashes>>

Current(p) == Head(pending[p])
Drop(p)    == pending' = [pending EXCEPT ![p] = Tail(@)]

\* Mutant of PassOver: a file that cannot be read is recorded as handled.
PassOverRecords(p) ==
    /\ pc[p] = "read" /\ pending[p] # << >>
    /\ inbox[Current(p)] \in {Absent, Unreadable}
    /\ Drop(p)
    /\ done' = [done EXCEPT ![p] = @ \union {Current(p)}]
    /\ UNCHANGED <<inbox, log, cursor, temp, pc, loaded, body, file, handled, disturbed, runs,
                   edits, crashes>>

\* A file that cannot be read, gone since the listing included, is passed over.
PassOver(p) ==
    /\ pc[p] = "read" /\ pending[p] # << >>
    /\ inbox[Current(p)] \in {Absent, Unreadable}
    /\ Drop(p)
    /\ UNCHANGED <<inbox, log, cursor, temp, pc, loaded, body, done, file, handled, disturbed,
                   runs, edits, crashes>>

\* A file with a credential is recorded and not appended.
HoldBack(p) ==
    /\ pc[p] = "read" /\ pending[p] # << >>
    /\ inbox[Current(p)] \in Secret
    /\ Drop(p)
    /\ done' = [done EXCEPT ![p] = @ \union {Current(p)}]
    /\ handled' = handled \union {Current(p)}
    /\ UNCHANGED <<inbox, log, cursor, temp, pc, loaded, body, file, disturbed, runs, edits,
                   crashes>>

Read(p) ==
    /\ pc[p] = "read" /\ pending[p] # << >>
    /\ inbox[Current(p)] \in Clean
    /\ Goto(p, "append")
    /\ body' = [body EXCEPT ![p] = inbox[Current(p)]]
    /\ UNCHANGED <<inbox, log, cursor, temp, loaded, pending, done, file, handled, disturbed, runs,
                   edits, crashes>>

AppendBody(p) == log' = Append(log, NodeUpsert(Current(p), body[p]))

AppendEvent(p) ==
    /\ pc[p] = "append"
    /\ AppendBody(p)
    /\ handled' = handled \union {Current(p)}
    /\ done' = [done EXCEPT ![p] = @ \union {Current(p)}]
    /\ body' = [body EXCEPT ![p] = None]
    /\ Drop(p)
    /\ Goto(p, "read")
    /\ UNCHANGED <<inbox, cursor, temp, loaded, file, disturbed, runs, edits, crashes>>

\* A failed append ends the loop: the files before it are still recorded.
AppendFails(p) ==
    /\ pc[p] = "append" /\ crashes < MaxCrash
    /\ crashes' = crashes + 1
    /\ pending' = [pending EXCEPT ![p] = << >>]
    /\ body' = [body EXCEPT ![p] = None]
    /\ Goto(p, "read")
    /\ UNCHANGED <<inbox, log, cursor, temp, loaded, done, file, handled, disturbed, runs, edits>>

Rested(p) ==
    /\ loaded' = [loaded EXCEPT ![p] = Missing]
    /\ pending' = [pending EXCEPT ![p] = << >>]
    /\ body' = [body EXCEPT ![p] = None]
    /\ done' = [done EXCEPT ![p] = {}]
    /\ file' = [file EXCEPT ![p] = "none"]
    /\ Goto(p, "idle")

\* Nothing was handled: the cursor file is left alone.
EndWithoutStore(p) ==
    /\ pc[p] = "read" /\ pending[p] = << >> /\ done[p] = {}
    /\ Rested(p)
    /\ UNCHANGED <<inbox, log, cursor, temp, handled, disturbed, runs, edits, crashes>>

\* fs::write creates or truncates the temporary file ...
Truncate(p) ==
    /\ pc[p] = "read" /\ pending[p] = << >> /\ done[p] # {}
    /\ temp' = Torn
    /\ file' = [file EXCEPT ![p] = "temp"]
    /\ Goto(p, "write")
    /\ UNCHANGED <<inbox, log, cursor, loaded, pending, body, done, handled, disturbed, runs, edits,
                   crashes>>

\* ... and fills the file it opened, which another run may have renamed to
\* the cursor or replaced by then.  Over a longer text of another run, or by
\* the side of one, the result does not parse.
Written(p, old) ==
    IF old = Torn THEN {Advance(loaded[p], done[p])}
    ELSE {Advance(loaded[p], done[p]), Torn}

Write(p) ==
    /\ pc[p] = "write"
    /\ \/ /\ file[p] = "temp"
          /\ temp' \in Written(p, temp)
          /\ UNCHANGED cursor
       \/ /\ file[p] = "cursor"
          /\ cursor' \in Written(p, cursor)
          /\ UNCHANGED temp
       \/ /\ file[p] = "none"
          /\ UNCHANGED <<cursor, temp>>
    /\ Goto(p, "rename")
    /\ UNCHANGED <<inbox, log, loaded, pending, body, done, file, handled, disturbed, runs, edits,
                   crashes>>

\* The rename replaces the cursor; it fails, unnoticed, when another run has
\* renamed the file already.  Runs that are still writing keep their file.
Rename(p) ==
    /\ pc[p] = "rename"
    /\ IF temp = None THEN UNCHANGED <<cursor, temp>> ELSE cursor' = temp /\ temp' = None
    /\ file' = [q \in Run |-> IF q = p THEN "none"
                              ELSE IF temp = None THEN file[q]
                              ELSE IF file[q] = "temp" THEN "cursor" ELSE "none"]
    /\ loaded' = [loaded EXCEPT ![p] = Missing]
    /\ pending' = [pending EXCEPT ![p] = << >>]
    /\ body' = [body EXCEPT ![p] = None]
    /\ done' = [done EXCEPT ![p] = {}]
    /\ Goto(p, "idle")
    /\ UNCHANGED <<inbox, log, handled, disturbed, runs, edits, crashes>>

\* A run dies, or an error of store_cursor that nobody sees ends it.
Die(p) ==
    /\ pc[p] # "idle" /\ crashes < MaxCrash
    /\ crashes' = crashes + 1
    /\ disturbed' = TRUE
    /\ Rested(p)
    /\ UNCHANGED <<inbox, log, cursor, temp, handled, runs, edits>>

\* Files come, go and change under the runs.
Edit(n) ==
    /\ edits < MaxEdit
    /\ edits' = edits + 1
    /\ inbox' \in {[inbox EXCEPT ![n] = c] :
                      c \in ({Absent, Unreadable} \union Content) \ {inbox[n]}}
    /\ UNCHANGED <<log, cursor, temp, runVars, handled, disturbed, runs, crashes>>

RunNext(p) ==
    \/ StartRun(p) \/ PassOver(p) \/ HoldBack(p) \/ Read(p) \/ AppendEvent(p) \/ AppendFails(p)
    \/ EndWithoutStore(p) \/ Truncate(p) \/ Write(p) \/ Rename(p)

Next == \/ \E p \in Run : RunNext(p) \/ Die(p)
        \/ \E n \in Name : Edit(n)

Spec == Init /\ [][Next]_vars

-----------------------------------------------------------------------------
(***************************************************************************)
(* Properties.                                                             *)
(***************************************************************************)

\* ingest::run "a clean file is never skipped by a shifted cursor": every name
\* that the cursor file holds was appended or held back for a credential by
\* some run, whatever the runs interleave, fail at or leave half done.
ConsumedWasHandled == Known(cursor) \subseteq handled

Appends(n) == Cardinality({i \in DOMAIN log : log[i].name = n})

\* "must stay consumed rather than be appended twice" (scan.rs): a name is
\* appended a second time only after two ingests overlapped or one died.
AppendedOnce == \A n \in Name : Appends(n) > 1 => disturbed

\* ingest::run and the cursor it saves (tap.rs): nothing is consumed without
\* having been handled, and nothing is handled twice by undisturbed runs.
ConsumedExactly == ConsumedWasHandled /\ AppendedOnce
================================================================================
