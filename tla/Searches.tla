-------------------------------- MODULE Searches --------------------------------
(***************************************************************************)
(* The two commands that search: unfinished and pickup look for work that  *)
(* was left, in the transcripts of sessions, and trace for the sources of  *)
(* what is known.  They share no state; Answers composes them with the     *)
(* other components that answer questions.                                 *)
(***************************************************************************)
CONSTANTS
    WorkSession, AgentPlan, TailLines, Damaged,  \* Pickup
    TraceJournal, SourceName, SourceContent, SearchFor, SeedLimit, FrontierLimit, SquareRoot,
    MaxWait, MaxSourceEdit, MaxSearch, Removed,  \* Trace
    Unset  \* no value

VARIABLES
    session, dialogue, lastCheckpoint, candidate, pickupOutput, truth, planned, calls,  \* Pickup
    traceGraph, traceNow, sourceFiles, replays, readings, heads, seeking, searchOutput, fetched,
    sourceHeld, restamped, sourceEdits, searches  \* Trace

-----------------------------------------------------------------------------
Pick == INSTANCE Pickup WITH
        transcript <- dialogue, checkpoint <- lastCheckpoint, found <- candidate, output <- pickupOutput,
        applied <- planned, Session <- WorkSession, Plan <- AgentPlan, Broken <- Damaged, None <- Unset

Seek == INSTANCE Trace WITH
        graph <- traceGraph, now <- traceNow, files <- sourceFiles, graphs <- replays, kept <- readings,
        run <- seeking, output <- searchOutput, expanded <- fetched, held <- sourceHeld,
        edits <- sourceEdits, Journal <- TraceJournal, Name <- SourceName, Content <- SourceContent,
        Question <- SearchFor, Root <- SquareRoot, MaxNow <- MaxWait, MaxEdit <- MaxSourceEdit,
        Missing <- Removed, None <- Unset

\* What the constants are: sessions, see Pickup, and the graphs, sources and
\* questions of a search, see Trace.
ASSUME SearchesAssumption == Pick!PickupAssumption /\ Seek!TraceAssumption

pickupVars == <<session, dialogue, lastCheckpoint, candidate, pickupOutput, truth, planned, calls>>
searchVars == <<traceGraph, traceNow, sourceFiles, replays, readings, heads, seeking, searchOutput, fetched,
                sourceHeld, restamped, sourceEdits, searches>>

\* The variables of a component that a behaviour is not about.
ParkPickup ==
    /\ session = 0 /\ dialogue = 0 /\ lastCheckpoint = 0 /\ candidate = 0
    /\ pickupOutput = 0 /\ truth = 0 /\ planned = 0 /\ calls = 0
ParkTrace ==
    /\ traceGraph = 0 /\ traceNow = 0 /\ sourceFiles = 0 /\ replays = 0 /\ readings = 0
    /\ heads = 0 /\ seeking = 0 /\ searchOutput = 0 /\ fetched = 0 /\ sourceHeld = 0
    /\ restamped = 0 /\ sourceEdits = 0 /\ searches = 0
================================================================================
