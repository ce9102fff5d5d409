------------------------------ MODULE HookInstall ------------------------------
(***************************************************************************)
(* innen hook install (cli/hook/install and agents): the settings of a     *)
(* coding agent are read, what earlier installs wrote is taken out, the    *)
(* handlers of this root are put in, and the file is written in place.     *)
(* The agent and its user save the same file, and it may hold what innen   *)
(* would never write.  The plugin of opencode is a file of innen's own.    *)
(*                                                                         *)
(* A document is what the file holds: settings of the user, the entries of *)
(* each hook event, and the entry that innen alone uses.  A command is the *)
(* text by which an install finds it again, and the root it was made for.  *)
(***************************************************************************)
EXTENDS Naturals, Sequences, FiniteSets

CONSTANTS
    Agent, Kb,          \* agents, and roots to install for
    Document,           \* what the user and the agent may save
    Key, HookEvent, Matcher, Root,  \* what a document is made of
    Proc,               \* installs that may run at the same time
    MaxInstall, MaxSave, MaxCrash,  \* bounds
    Missing, Broken, Odd, None

VARIABLES
    agent,      \* whose settings
    file,       \* what the file holds
    install,    \* per process: the root and the document to write, or None
    user,       \* history: what of the file is the user's
    done,       \* history: the root of the last install since the last save
    disturbed,  \* history: overlapping writers, a death, or a file that does not parse
    installs, saves, crashes

vars == <<agent, file, install, user, done, disturbed, installs, saves, crashes>>

-----------------------------------------------------------------------------
Hook(event, matcher, mark) == [event |-> event, matcher |-> matcher, mark |-> mark]
EndHook == Hook("SessionEnd", None, "run session-end")
StartHook == Hook("SessionStart", "startup|resume", "pending")

\* The handlers that each agent gets.
Wiring == [claude |-> {EndHook, StartHook, Hook("PreCompact", None, "run compact")},
           codex |-> {EndHook, StartHook, Hook("Stop", None, "run stop")},
           grok |-> {EndHook, StartHook},
           antigravity |-> {}, opencode |-> {}]

Command(mark, kb) == [mark |-> mark, kb |-> kb]

\* What a document may hold, and what the marks for its oddities are not.
Handler == [mark : {w.mark : w \in UNION {Wiring[a] : a \in DOMAIN Wiring}} \union {None}, kb : Root]
Entry == [matcher : Matcher, handlers : Seq(Handler) \union {Odd}]
Table(events) == [events -> Seq(Entry) \union {Odd}]
Settings(events) == [keys : SUBSET Key, own : Root \union {None}, hooks : Table(events) \union {Odd}]

DocumentAssumption ==
    /\ Agent \subseteq DOMAIN Wiring /\ Kb \subseteq Root
    /\ \A a \in Agent : \A w \in Wiring[a] :
          w.event \in HookEvent /\ w.matcher \in Matcher /\ w.mark # None
    /\ \A d \in Document \ {Missing, Broken, Odd} :
          \E events \in SUBSET HookEvent : d \in Settings(events)
    /\ Odd \notin Seq(Handler) /\ Odd \notin Seq(Entry)
    /\ \A events \in SUBSET HookEvent :
          /\ Odd \notin Table(events)
          /\ \A d \in {Missing, Broken, Odd} : d \notin Settings(events)
          /\ None \notin [kb : Kb, doc : Settings(events), opened : BOOLEAN]

\* A list without some of its elements, in the order it had (Vec::retain).
Without(list, gone) ==
    LET kept[n \in 0 .. Len(list)] ==
            IF n = 0 THEN << >>
            ELSE IF list[n] \in gone THEN kept[n - 1] ELSE Append(kept[n - 1], list[n])
    IN kept[Len(list)]

Bearing(handlers, mark) == {h \in {handlers[i] : i \in DOMAIN handlers} : h.mark = mark}

\* Handlers that bear the mark go, and entries that hold no handler.
\* Mutant of RemoveHookCommands: an entry that holds one goes as a whole.
RemoveEntries(entries, mark) ==
    Without(entries, {e \in {entries[i] : i \in DOMAIN entries} :
                         e.handlers # Odd /\ Bearing(e.handlers, mark) # {}})
RemoveHookCommands(entries, mark) ==
    LET left == [i \in DOMAIN entries |->
            IF entries[i].handlers = Odd THEN entries[i]
            ELSE [entries[i] EXCEPT !.handlers = Without(@, Bearing(@, mark))]]
    IN Without(left, {e \in {left[i] : i \in DOMAIN left} : e.handlers = << >>})

MergeHookEntry(entries, matcher, handler) ==
    IF \E i \in DOMAIN entries :
          /\ entries[i].matcher = matcher /\ entries[i].handlers # Odd
          /\ \E j \in DOMAIN entries[i].handlers : entries[i].handlers[j] = handler
    THEN entries
    ELSE Append(entries, [matcher |-> matcher, handlers |-> <<handler>>])

\* A file that is missing or does not parse is like an empty one, and so is a
\* document or a table of hooks of another type.
Object(d) == IF d \in {Missing, Broken, Odd} THEN [keys |-> {}, own |-> None, hooks |-> << >>] ELSE d
Events(d) == IF Object(d).hooks = Odd THEN << >> ELSE Object(d).hooks

\* An event that holds no list stops the install before it writes.
Panics(a, d) == \E w \in Wiring[a] : w.event \in DOMAIN Events(d) /\ Events(d)[w.event] = Odd

Wired(a, kb, d) ==
    LET old == Events(d)
        Entries(event) == IF event \in DOMAIN old THEN old[event] ELSE << >>
        wired == {w.event : w \in Wiring[a]}
        Mine(event) == CHOOSE w \in Wiring[a] : w.event = event
    IN CASE a = "opencode" -> [Object(Missing) EXCEPT !.own = kb]
         [] a = "antigravity" -> [Object(d) EXCEPT !.own = kb]
         [] OTHER ->
              [Object(d) EXCEPT !.hooks = [event \in DOMAIN old \union wired |->
                  IF event \notin wired THEN old[event]
                  ELSE MergeHookEntry(RemoveHookCommands(Entries(event), Mine(event).mark),
                                      Mine(event).matcher, Command(Mine(event).mark, kb))]]

\* What of a document is the user's: not what bears a mark of innen.
UserHandlers(groups) ==
    UNION {{<<groups[g].matcher, groups[g].handlers[h]>> :
              h \in {j \in DOMAIN groups[g].handlers : groups[g].handlers[j].mark = None}} :
           g \in {j \in DOMAIN groups : groups[j].handlers # Odd}}

UserPart(d) ==
    [keys |-> Object(d).keys,
     handlers |-> UNION {{<<event, own>> : own \in UserHandlers(Events(d)[event])} :
                         event \in {e \in DOMAIN Events(d) : Events(d)[e] # Odd}}]

Idle == \A p \in Proc : install[p] = None

-----------------------------------------------------------------------------
Init ==
    /\ agent \in Agent
    /\ file \in IF agent = "opencode" THEN {Missing} ELSE Document
    /\ user = UserPart(file)
    /\ install = [p \in Proc |-> None] /\ done = None /\ disturbed = FALSE
    /\ installs = 0 /\ saves = 0 /\ crashes = 0

\* What is to be written is made from what the file holds now.
Begin(p, kb) ==
    /\ install[p] = None /\ installs < MaxInstall
    /\ installs' = installs + 1
    /\ IF Panics(agent, file) THEN UNCHANGED <<install, disturbed>>
       ELSE /\ install' = [install EXCEPT ![p] = [kb |-> kb, doc |-> Wired(agent, kb, file), opened |-> FALSE]]
            /\ disturbed' = (disturbed \/ ~Idle \/ file = Broken)
    /\ UNCHANGED <<agent, file, user, done, saves, crashes>>

\* The file is opened for writing, which empties it.
Open(p) ==
    /\ install[p] # None /\ ~install[p].opened
    /\ file' = Broken
    /\ install' = [install EXCEPT ![p].opened = TRUE]
    /\ UNCHANGED <<agent, user, done, disturbed, installs, saves, crashes>>

Fill(p) ==
    /\ install[p] # None /\ install[p].opened
    /\ file' = install[p].doc /\ done' = install[p].kb
    /\ install' = [install EXCEPT ![p] = None]
    /\ UNCHANGED <<agent, user, disturbed, installs, saves, crashes>>

\* The install is killed, or cannot open or write the file.
Die(p) ==
    /\ install[p] # None /\ crashes < MaxCrash
    /\ crashes' = crashes + 1
    /\ disturbed' = (disturbed \/ install[p].opened)
    /\ install' = [install EXCEPT ![p] = None]
    /\ UNCHANGED <<agent, file, user, done, installs, saves>>

\* The agent or its user saves other settings, or removes the file.
Save(d) ==
    /\ agent # "opencode" /\ saves < MaxSave
    /\ saves' = saves + 1
    /\ file' = d /\ user' = UserPart(d) /\ done' = None
    /\ disturbed' = (disturbed \/ ~Idle)
    /\ UNCHANGED <<agent, install, installs, crashes>>

Next ==
    \/ \E p \in Proc : Open(p) \/ Fill(p) \/ Die(p) \/ \E kb \in Kb : Begin(p, kb)
    \/ \E d \in Document : Save(d)

Spec == Init /\ [][Next]_vars

-----------------------------------------------------------------------------
\* Each event has one handler of innen, for the root, in an entry of its own matcher.
Installed(a, kb, d) ==
    IF Wiring[a] = {} THEN Object(d).own = kb
    ELSE \A w \in Wiring[a] :
        /\ w.event \in DOMAIN Events(d) /\ Events(d)[w.event] # Odd
        /\ LET entries == Events(d)[w.event]
           IN \E i \in DOMAIN entries :
                 /\ entries[i].matcher = w.matcher
                 /\ entries[i].handlers = <<Command(w.mark, kb)>>
                 /\ \A k \in DOMAIN entries \ {i} : entries[k].handlers # Odd =>
                       \A j \in DOMAIN entries[k].handlers : entries[k].handlers[j].mark # w.mark

\* After any sequence of installs and saves that do not overlap, the settings
\* and the handlers of the user are all there, and the root installed last has
\* each of its handlers once (hook install, "idempotent merge"), whatever roots
\* were installed before it.
SettingsKept ==
    (Idle /\ ~disturbed) =>
        /\ UserPart(file) = user
        /\ done # None => Installed(agent, done, file)
================================================================================
