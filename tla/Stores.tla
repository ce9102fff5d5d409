-------------------------------- MODULE Stores ---------------------------------
(***************************************************************************)
(* The components that keep files of their own under the root and share    *)
(* nothing else: the harvest tap, the derived index with its doctor,       *)
(* artifact finalisation, the artifact store, the checkpoints of           *)
(* conversations, the history of a task, the receipts that hooks write,    *)
(* the settings that they are installed in, and the typed graph in its     *)
(* journal.  A behaviour exercises one of them, chosen in StoreInit:       *)
(* `part`.  The variables of the others are parked.  Harvest is extended,  *)
(* the others are instances.                                               *)
(***************************************************************************)
EXTENDS Harvest

CONSTANTS
    Proc, Whole, Empty, Unsaid, NewLine, Odd, Broken,
    NodeId, Text, Uri, MaxEvent, MaxDamage, MaxBuild, MaxDoctor,  \* Derived
    Path, Collection, Data, Reserved, Plan,  \* Finalize
    Adder, Ext, ExtOf, Named,  \* ArtifactStore
    Conversation, Objective, Work, Project, Cwd, Option, MaxRecord,  \* Checkpoint
    Decision, MaxIndex,  \* History
    Status, Branch, Untouched, NonGit, Firing,
    MaxHook, MaxChange, MaxKill, MaxNow,  \* HookRun
    Agent, Kb, SettingsFile, Key, HookEvent, Matcher, Root,
    MaxInstall, MaxSave,  \* HookInstall
    StartLog, NodeLine, RelateLine, RetractLine, Question, Address, MaxStep  \* Graph

VARIABLES
    part,  \* the component of this behaviour
    journal, damaged, quarantine, redb, fts, tapCursor, builder, entries,
    fresh, doctor, verdict, steady, next, damages, builds, doctors,  \* Derived
    files, collections, graph, finalizeAt, plan, staged, position, removed, applied,
    finalizeEdits,  \* Finalize
    artifactDir, artifactTemp, node, edge, artifactAt, target, handle,
    artifactTorn,  \* ArtifactStore
    lines, checkpointAt, record, dir, overlapped, torn, begun,  \* Checkpoint
    snapshots, index, half, lock, historyAt, request, told,  \* History
    tree, clock, receipts, hook, hookTold, killed, hookOverlapped, hookRuns,
    changes, kills,  \* HookRun
    agent, settings, install, user, installed, settingsDisturbed, installs,
    saves,  \* HookInstall
    graphLog, checked, acked, steps, queryOutput  \* Graph

-----------------------------------------------------------------------------
D == INSTANCE Derived WITH cursor <- tapCursor, Node <- NodeId

F == INSTANCE Finalize WITH
        at <- finalizeAt, i <- position, edits <- finalizeEdits, Content <- Data

A == INSTANCE ArtifactStore WITH
        dir <- artifactDir, temp <- artifactTemp, at <- artifactAt, torn <- artifactTorn,
        Proc <- Adder, Project <- Named

C == INSTANCE Checkpoint WITH at <- checkpointAt, Session <- Conversation

T == INSTANCE History WITH at <- historyAt

R == INSTANCE HookRun WITH
        now <- clock, inbox <- receipts, told <- hookTold, overlapped <- hookOverlapped,
        runs <- hookRuns, Clean <- Untouched, MaxRun <- MaxHook

I == INSTANCE HookInstall WITH
        file <- settings, done <- installed, disturbed <- settingsDisturbed,
        Document <- SettingsFile

G == INSTANCE Graph WITH
        log <- graphLog, output <- queryOutput, Uri <- Address, Start <- StartLog,
        NodeArgs <- NodeLine, RelateArgs <- RelateLine, RetractArgs <- RetractLine

\* What the constants are: the plans, the names of stored files, the settings and the
\* journals, see Finalize, ArtifactStore, HookInstall and Graph; the record of a
\* checkpoint is no newline, and its project is known; None is neither a process, a
\* request, a digest nor a receipt.
ASSUME StoresAssumption ==
    /\ F!PlanAssumption
    /\ A!StoreAssumption
    /\ I!DocumentAssumption
    /\ G!LogAssumption
    /\ NewLine \notin C!Record /\ Cwd \in Project /\ Option \subseteq Project
    /\ None \notin Proc /\ \A r \in T!Request : r # None
    /\ None \notin R!Digest /\ None \notin Nat \X R!Digest /\ None \notin R!HookRecord
    /\ Empty \notin R!Receipt

-----------------------------------------------------------------------------
harvestVars == <<
    inbox, log, cursor, temp, pc, loaded, pending, body, done, file, handled,
    disturbed, runs, edits>>
derivedVars == <<
    journal, damaged, quarantine, redb, fts, tapCursor, builder, entries,
    fresh, doctor, verdict, steady, next, damages, builds, doctors>>
finalizeVars == <<
    files, collections, graph, finalizeAt, plan, staged, position, removed, applied,
    finalizeEdits>>
artifactStoreVars == <<
    artifactDir, artifactTemp, node, edge, artifactAt, target, handle,
    artifactTorn>>
checkpointVars == <<lines, checkpointAt, record, dir, overlapped, torn, begun>>
historyVars == <<snapshots, index, half, lock, historyAt, request, told>>
hookInstallVars == <<
    agent, settings, install, user, installed, settingsDisturbed, installs,
    saves>>
hookRunVars == <<
    tree, clock, receipts, hook, hookTold, killed, hookOverlapped, hookRuns,
    changes, kills>>
graphVars == <<graphLog, checked, acked, steps, queryOutput>>

storeVars == <<part, crashes, harvestVars, derivedVars, finalizeVars, artifactStoreVars,
               checkpointVars, historyVars, hookRunVars, hookInstallVars, graphVars>>

\* The variables of a component that this behaviour is not about.
ParkHarvest ==
    /\ inbox = [n \in Name |-> Absent] /\ log = << >> /\ cursor = Missing
    /\ temp = None /\ pc = [p \in Run |-> "idle"]
    /\ loaded = [p \in Run |-> Missing] /\ pending = [p \in Run |-> << >>]
    /\ body = [p \in Run |-> None] /\ done = [p \in Run |-> {}]
    /\ file = [p \in Run |-> "none"] /\ handled = {} /\ disturbed = FALSE
    /\ runs = 0 /\ edits = 0
ParkDerived ==
    /\ journal = 0 /\ damaged = 0 /\ quarantine = 0 /\ redb = 0 /\ fts = 0 /\ tapCursor = 0
    /\ builder = 0 /\ entries = 0 /\ fresh = 0 /\ doctor = 0 /\ verdict = 0
    /\ steady = 0 /\ next = 0 /\ damages = 0 /\ builds = 0 /\ doctors = 0
ParkFinalize ==
    /\ files = 0 /\ collections = 0 /\ graph = 0 /\ finalizeAt = 0
    /\ plan = 0 /\ staged = 0 /\ position = 0 /\ removed = 0 /\ applied = 0
    /\ finalizeEdits = 0
ParkArtifactStore ==
    /\ artifactDir = 0 /\ artifactTemp = 0 /\ node = 0 /\ edge = 0
    /\ artifactAt = 0 /\ target = 0 /\ handle = 0 /\ artifactTorn = 0
ParkCheckpoint ==
    /\ lines = 0 /\ checkpointAt = 0 /\ record = 0 /\ dir = 0
    /\ overlapped = 0 /\ torn = 0 /\ begun = 0
ParkHistory ==
    /\ snapshots = 0 /\ index = 0 /\ half = 0 /\ lock = 0 /\ historyAt = 0
    /\ request = 0 /\ told = 0
ParkHookInstall ==
    /\ agent = 0 /\ settings = 0 /\ install = 0 /\ user = 0 /\ installed = 0
    /\ settingsDisturbed = 0 /\ installs = 0 /\ saves = 0
ParkHookRun ==
    /\ tree = 0 /\ clock = 0 /\ receipts = 0 /\ hook = 0 /\ hookTold = 0
    /\ killed = 0 /\ hookOverlapped = 0 /\ hookRuns = 0 /\ changes = 0
    /\ kills = 0
ParkGraph ==
    /\ graphLog = 0 /\ checked = 0 /\ acked = 0 /\ steps = 0
    /\ queryOutput = 0

StorePart == {"harvest", "derived", "finalize", "artifact", "checkpoint", "history", "hook",
              "settings", "graph"}

\* The states that the store of this behaviour may begin in.
StoreStates ==
    /\ IF part = "harvest" THEN Init ELSE ParkHarvest
    /\ IF part = "derived" THEN D!Init ELSE ParkDerived
    /\ IF part = "finalize" THEN F!Init ELSE ParkFinalize
    /\ IF part = "artifact" THEN A!Init ELSE ParkArtifactStore
    /\ IF part = "checkpoint" THEN C!Init ELSE ParkCheckpoint
    /\ IF part = "history" THEN T!Init ELSE ParkHistory
    /\ IF part = "hook" THEN R!Init ELSE ParkHookRun
    /\ IF part = "settings" THEN I!Init ELSE ParkHookInstall
    /\ IF part = "graph" THEN G!Init ELSE ParkGraph
    /\ part \notin StorePart \ {"hook", "graph"} => crashes = 0

StoreInit == part \in StorePart /\ StoreStates

StoreNext ==
    \/ /\ part = "harvest" /\ Next
       /\ UNCHANGED <<part, derivedVars, finalizeVars, artifactStoreVars,
                      checkpointVars, historyVars, hookRunVars, hookInstallVars, graphVars>>
    \/ /\ part = "derived" /\ D!Next
       /\ UNCHANGED <<part, harvestVars, finalizeVars, artifactStoreVars,
                      checkpointVars, historyVars, hookRunVars, hookInstallVars, graphVars>>
    \/ /\ part = "finalize" /\ F!Next
       /\ UNCHANGED <<part, harvestVars, derivedVars, artifactStoreVars,
                      checkpointVars, historyVars, hookRunVars, hookInstallVars, graphVars>>
    \/ /\ part = "artifact" /\ A!Next
       /\ UNCHANGED <<part, harvestVars, derivedVars, finalizeVars,
                      checkpointVars, historyVars, hookRunVars, hookInstallVars, graphVars>>
    \/ /\ part = "checkpoint" /\ C!Next
       /\ UNCHANGED <<part, harvestVars, derivedVars, finalizeVars,
                      artifactStoreVars, historyVars, hookRunVars,
                      hookInstallVars, graphVars>>
    \/ /\ part = "history" /\ T!Next
       /\ UNCHANGED <<part, harvestVars, derivedVars, finalizeVars,
                      artifactStoreVars, checkpointVars, hookRunVars,
                      hookInstallVars, graphVars>>
    \/ /\ part = "hook" /\ R!Next
       /\ UNCHANGED <<part, crashes, harvestVars, derivedVars, finalizeVars,
                      artifactStoreVars, checkpointVars, historyVars,
                      hookInstallVars, graphVars>>
    \/ /\ part = "settings" /\ I!Next
       /\ UNCHANGED <<part, harvestVars, derivedVars, finalizeVars,
                      artifactStoreVars, checkpointVars, historyVars,
                      hookRunVars, graphVars>>
    \/ /\ part = "graph" /\ G!Next
       /\ UNCHANGED <<part, crashes, harvestVars, derivedVars, finalizeVars,
                      artifactStoreVars, checkpointVars, historyVars,
                      hookRunVars, hookInstallVars>>

StoreSpec == StoreInit /\ [][StoreNext]_storeVars

-----------------------------------------------------------------------------
(***************************************************************************)
(* The properties of the stores, each for the behaviours of its part;      *)
(* ConsumedExactly, that of Harvest, holds when it is parked.              *)
(***************************************************************************)

\* index rebuild and doctor: both files show the journal until it changes, and
\* exit code 0 means that journal, edges and index agree.
IndexIsTrue == part = "derived" => D!IndexIsTrue

\* artifact finalize: a published collection holds the planned bytes, and a node
\* stands for a release that went through.
ReleasedWhole == part = "finalize" => F!ReleasedWhole

\* artifact add: an artifact with a node has its bytes stored.
NodeHasBytes == part = "artifact" => A!NodeHasBytes

\* checkpoint record: what is not said is taken over from the record before.
ProgressInherited == part = "checkpoint" => C!ProgressInherited

\* history save and load: no acknowledged decision is lost.
LoadKeepsDecisions == part = "history" => T!LoadKeepsDecisions

\* hook install: the user's settings stay, and each handler is there once.
SettingsKept == part = "settings" => I!SettingsKept

\* hook run: what a hook took to be recorded is recorded, and once.
ReceiptsKept == part = "hook" => R!ReceiptsKept

\* graph relate and query: what a query shows, the journal and its edges say.
QueryFollows == part = "graph" => G!QueryFollows
================================================================================
