-------------------------------- MODULE Answers --------------------------------
(***************************************************************************)
(* The components that answer questions from the stores, and keep nothing  *)
(* but a cache: context for a task, the middleware commands, evidence      *)
(* closure, and the searches for unfinished work and for sources, see      *)
(* Searches.  A behaviour exercises one of them, `answering`, and the      *)
(* variables of the others are parked, as in Stores.                       *)
(***************************************************************************)
EXTENDS Searches

CONSTANTS
    TaskGraph, TaskRequest,
    FallbackLimit, NeighborhoodLimit, ConstraintLimit, MinKept,  \* TaskEntry
    HistoryFile, ItemFile, SessionEvent, Asked, MaxDecisions,  \* Middleware
    EvidenceNode, EvidenceStart, EvidenceEvent, EvidencePinned, Contracted, Draft,
    AsOf, MinObserved, MaxAppend  \* Evidence

VARIABLES
    answering,  \* the component of this behaviour
    taskGraph, question, found, offset, shown,  \* TaskEntry
    requestFile, receipt, answer,  \* Middleware
    evidenceLog, appends, pins, context, evidenceOutput  \* Evidence

-----------------------------------------------------------------------------
K == INSTANCE TaskEntry WITH
        graph <- taskGraph, Graph <- TaskGraph, Question <- TaskRequest, None <- Unset

M == INSTANCE Middleware WITH file <- requestFile, None <- Unset

E == INSTANCE Evidence WITH
        log <- evidenceLog, output <- evidenceOutput, Node <- EvidenceNode, Start <- EvidenceStart,
        Event <- EvidenceEvent, Inspected <- EvidencePinned, Question <- Contracted, None <- Unset

\* What the constants are: the graphs and requests of a task, see TaskEntry, the
\* requests of the middleware, see Middleware, and contracts, see Evidence.
ASSUME AnswersAssumption == K!TaskAssumption /\ M!MiddlewareAssumption /\ E!EvidenceAssumption

-----------------------------------------------------------------------------
taskEntryVars == <<taskGraph, question, found, offset, shown>>
middlewareVars == <<requestFile, receipt, answer>>
evidenceVars == <<evidenceLog, appends, pins, context, evidenceOutput>>

answerVars == <<answering, taskEntryVars, middlewareVars, evidenceVars, pickupVars, searchVars>>

\* The variables of a component that this behaviour is not about.
ParkTaskEntry ==
    /\ taskGraph = 0 /\ question = 0 /\ found = 0 /\ offset = 0 /\ shown = 0
ParkMiddleware ==
    /\ requestFile = 0 /\ receipt = 0 /\ answer = 0
ParkEvidence ==
    /\ evidenceLog = 0 /\ appends = 0 /\ pins = 0 /\ context = 0 /\ evidenceOutput = 0
ParkAnswers ==
    /\ answering = "none"
    /\ ParkTaskEntry /\ ParkMiddleware /\ ParkEvidence /\ ParkPickup /\ ParkTrace

AnswerPart == {"task", "middleware", "evidence", "pickup", "trace"}

\* The states that the component of this behaviour may begin in.
AnswerStates ==
    /\ IF answering = "task" THEN K!Init ELSE ParkTaskEntry
    /\ IF answering = "middleware" THEN M!Init ELSE ParkMiddleware
    /\ IF answering = "evidence" THEN E!Init ELSE ParkEvidence
    /\ IF answering = "pickup" THEN Pick!Init ELSE ParkPickup
    /\ IF answering = "trace" THEN Seek!Init ELSE ParkTrace

AnswerInit == answering \in AnswerPart /\ AnswerStates

AnswerNext ==
    \/ /\ answering = "task" /\ K!Next
       /\ UNCHANGED <<answering, middlewareVars, evidenceVars, pickupVars, searchVars>>
    \/ /\ answering = "middleware" /\ M!Next
       /\ UNCHANGED <<answering, taskEntryVars, evidenceVars, pickupVars, searchVars>>
    \/ /\ answering = "evidence" /\ E!Next
       /\ UNCHANGED <<answering, taskEntryVars, middlewareVars, pickupVars, searchVars>>
    \/ /\ answering = "pickup" /\ Pick!Next
       /\ UNCHANGED <<answering, taskEntryVars, middlewareVars, evidenceVars, searchVars>>
    \/ /\ answering = "trace" /\ Seek!Next
       /\ UNCHANGED <<answering, taskEntryVars, middlewareVars, evidenceVars, pickupVars>>

AnswerSpec == AnswerInit /\ [][AnswerNext]_answerVars

-----------------------------------------------------------------------------
\* query --q: the pages show every candidate once, in order.
PagesShowAll == answering = "task" => K!PagesShowAll

\* middleware: a packet quotes the decisions that hold and all they rest on.
PacketsAreTrue == answering = "middleware" => M!PacketsAreTrue

\* query --evidence-contract: a covered answer rests on all that it names, each as
\* it was pinned, and is the cheapest.
CoveredIsGrounded == answering = "evidence" => E!CoveredIsGrounded

\* unfinished and pickup: what they say of a session and its plan is so.
PickupIsTrue == answering = "pickup" => Pick!PickupIsTrue

\* trace: what a search calls complete is complete, within its budgets, and what
\* is fetched again is what was quoted.
TraceIsHonest == answering = "trace" => Seek!TraceIsHonest
================================================================================
