------------------------------ MODULE MCEvidence ------------------------------
(***************************************************************************)
(* TLC instance of Evidence: one fact that node 1 or node 3 supports, where *)
(* node 1 depends on node 2, and links that contradict node 1.  The other   *)
(* questions that Evidence asks are those of MCComponents.                  *)
(***************************************************************************)
EXTENDS Naturals, FiniteSets

CONSTANT None

VARIABLES log, appends, pins, context, output

Version(n) == [op |-> "node", id |-> n, body |-> "text", sound |-> TRUE, at |-> 1]
Row(kind, m, n) ==
    [op |-> "assert", kind |-> kind, from |-> m, to |-> n, sound |-> TRUE, until |-> 0, at |-> 1]

Known == <<Version(1), Version(2), Version(3), Row("DEPENDS_ON", 1, 2)>>

Asking(scope) ==
    [scope |-> scope, facts |-> << <<{1}, {3}>> >>, hops |-> 2, budget |-> 3, limit |-> 10,
     cost |-> [s \in SUBSET (1 .. 3) |-> Cardinality(s)]]

INSTANCE Evidence WITH
    AsOf <- 2, MinObserved <- 1, MaxAppend <- 2, Node <- 1 .. 3,
    Inspected <- SUBSET (1 .. 3), Start <- {Known},
    Event <- {Row("CONTRADICTS", 1, 2), Row("CONTRADICTS", 2, 1), Row("CONTRADICTS", 2, 3)},
    Question <- {Asking(1 .. 3)}, Draft <- {}
================================================================================
