----------------------------- MODULE ArchiveBook -----------------------------
(***************************************************************************)
(* What a project archive promises to those who file receipts in it:       *)
(* entries are numbered in order and never lost, what refers to a receipt  *)
(* refers to one that was filed before, the index and the timeline show    *)
(* what was entered, and a command reports success for an entry that both  *)
(* of them show.  Module Ledger implements it with files and a lock.       *)
(***************************************************************************)
EXTENDS Naturals, Sequences

VARIABLES
    receipts,  \* the receipts filed
    events,    \* what happened to them
    index,     \* how many of each the index shows
    timeline,  \* and the timeline
    answered   \* entries whose command reported success

vars == <<receipts, events, index, timeline, answered>>

Counts == [receipts |-> Len(receipts), events |-> Len(events)]

Filed(n) == n \in 1..Len(receipts)

\* Entries that the index and the timeline show.
Shown(counts) ==
    {receipts[n] : n \in 1..counts.receipts} \union {events[n] : n \in 1..counts.events}

Init ==
    /\ receipts = <<>> /\ events = <<>>
    /\ index = Counts /\ timeline = Counts
    /\ answered = {}

-----------------------------------------------------------------------------
\* What a new entry says is open but for its number and its references.
Extends(longer, shorter) ==
    /\ Len(longer) = Len(shorter) + 1
    /\ longer = Append(shorter, longer[Len(longer)])

FileReceipt ==
    /\ Extends(receipts', receipts)
    /\ receipts'[Len(receipts')].id = Len(receipts')
    /\ UNCHANGED <<events, index, timeline, answered>>

RecordEvent ==
    /\ Extends(events', events)
    /\ LET e == events'[Len(events')] IN
          /\ e.seq = Len(events')
          /\ Filed(e.receipt)
          /\ e.kind = "supersede" => Filed(e.old) /\ e.old # e.receipt
    /\ UNCHANGED <<receipts, index, timeline, answered>>

UpdateIndex    == index' = Counts /\ UNCHANGED <<receipts, events, timeline, answered>>
UpdateTimeline == timeline' = Counts /\ UNCHANGED <<receipts, events, index, answered>>

Answer ==
    /\ \E entry \in Shown(index) \intersect Shown(timeline) : answered' = answered \union {entry}
    /\ UNCHANGED <<receipts, events, index, timeline>>

Next == FileReceipt \/ RecordEvent \/ UpdateIndex \/ UpdateTimeline \/ Answer

Spec == Init /\ [][Next]_vars
=============================================================================
