------------------------------- MODULE MCLedger -------------------------------
(***************************************************************************)
(* TLC instance of Ledger: the archive of project own, receipts that       *)
(* belong to it or refer to project other, which the graph knows, or to    *)
(* ghost, which it does not, and two places for their files.               *)
(***************************************************************************)
EXTENDS Ledger, TLC

CONSTANTS own, other, ghost, shelf, inbox, kept, report

Line(op) ==
    [op |-> op, project |-> own, archive |-> None, receipt |-> 0, old |-> 0, path |-> None,
     sha |-> None, stage |-> "later", owner |-> None, relation |-> "belongs_to", document |-> None]

Added ==
    {[Line("add") EXCEPT !.path = shelf, !.owner = own, !.project = None, !.document = report],
     [Line("add") EXCEPT !.path = shelf, !.owner = other, !.relation = "reference", !.archive = own,
                         !.stage = "intake"]}

Happened ==
    {[Line("note") EXCEPT !.receipt = 1],
     [Line("supersede") EXCEPT !.receipt = 2, !.old = 1],
     [Line("relocate") EXCEPT !.receipt = 1, !.path = inbox, !.sha = kept, !.archive = other],
     [Line("reclassify") EXCEPT !.receipt = 1, !.owner = other, !.relation = "reference"],
     [Line("reclassify") EXCEPT !.receipt = 1, !.owner = ghost, !.relation = "reference"],
     [Line("reclassify") EXCEPT !.receipt = 1],
     [Line("reclassify") EXCEPT !.receipt = 1, !.relation = "reference"]}

MCCommands == {Line("init"), [Line("init") EXCEPT !.project = other], Line("check")} \union Added \union Happened

\* The inbox has a copy of the file on the shelf.
MCDisks == {[f \in Place |-> kept]}

Symmetry == Permutations(Proc)
===============================================================================
