------------------------------- MODULE Registry -------------------------------
(***************************************************************************)
(* The agent registry (src/registry.rs): an in-memory map backed by one    *)
(* TOML file per agent in agents.d.  Mutations run under one mutex and     *)
(* write the file (temp file, fsync, rename) before the map; reads take    *)
(* the map only.  An operator may edit the files by hand at any time, the  *)
(* process may be killed and the machine may lose power between any two    *)
(* steps.                                                                  *)
(***************************************************************************)
EXTENDS Changes

CONSTANTS
    Ops,     \* callers: control connections, the SIGHUP handler
    Bad,     \* a file load() rejects: malformed, invalid or misnamed
    Torn     \* a file whose data was lost in a power failure

ASSUME BadIsNoConfig == {Bad, Torn} \cap (Configs \cup {None}) = {} /\ Bad # Torn

Contents == Configs \cup {None, Bad, Torn}

\* None is the absence of a call.
Calls ==
    [kind : {"register", "update"}, agent : Agents, cfg : Configs]
        \cup [kind : {"enable", "disable", "unregister"}, agent : Agents]
        \cup [kind : {"reload"}]

ASSUME NoneIsNoCall == None \notin Calls /\ None \notin Ops

\* What a temp file holds, and whether it is synced.
TmpFiles == [cfg : Configs, synced : BOOLEAN]

ASSUME NoneIsNoFile == None \notin TmpFiles

VARIABLES
    up,         \* the daemon is running
    memory,     \* Registry.inner.agents (while down: as it last was)
    lock,       \* the holder of Registry.mutation, or None
    pc,         \* where each caller is
    call,       \* what each caller asked for
    tmp,        \* .{agent}.{pid}.tmp: its content and whether it is synced
    disk,       \* {agent}.toml as the file system shows it
    stable,     \* {agent}.toml as it would be found after a power loss
    dirty,      \* agents whose file was renamed ahead of its data
    edited,     \* history: files the operator changed since the last load
    cut         \* history: agents whose change a crash interrupted, or whose
                \* file was not yet stable when the power failed

diskVars    == <<tmp, disk, stable, dirty>>
historyVars == <<edited, cut>>
vars        == <<up, memory, lock, pc, call, diskVars, historyVars>>

PCs == {"idle", "called", "checked", "created", "synced", "renamed", "removed"}

Init ==
    /\ up = TRUE
    /\ memory \in Registries
    /\ lock = None
    /\ pc = [o \in Ops |-> "idle"]
    /\ call = [o \in Ops |-> None]
    /\ tmp = [a \in Agents |-> None]
    /\ disk = memory
    /\ stable = memory
    /\ dirty = {}
    /\ edited = {}
    /\ cut = {}

-----------------------------------------------------------------------------
(* Helpers.                                                                *)

Agent(o) == call[o].agent
Kind(o)  == call[o].kind

Goto(o, from, to) == pc[o] = from /\ pc' = [pc EXCEPT ![o] = to]

\* The call returns and the mutex guard is dropped.
Return(o) ==
    /\ pc' = [pc EXCEPT ![o] = "idle"]
    /\ call' = [call EXCEPT ![o] = None]
    /\ lock' = None

\* What persist() is to write.
NewConfig(o) ==
    CASE Kind(o) = "enable"  -> [memory[Agent(o)] EXCEPT !.enabled = TRUE]
      [] Kind(o) = "disable" -> [memory[Agent(o)] EXCEPT !.enabled = FALSE]
      [] OTHER               -> call[o].cfg

\* The existence check of each operation.
Precondition(o) ==
    IF Kind(o) = "register" THEN memory[Agent(o)] = None
                            ELSE memory[Agent(o)] # None

\* The operation goes on to the files: it passes the check, and it is not a
\* set_enabled with nothing to change.
Proceeds(o) ==
    /\ Precondition(o)
    /\ Kind(o) \in {"enable", "disable"} =>
           memory[Agent(o)].enabled # (Kind(o) = "enable")

-----------------------------------------------------------------------------
(* The operations.                                                         *)

\* An operation is called with a config that passes validate() (one that
\* does not is refused before anything is touched).
Call(o, c) ==
    /\ up
    /\ Goto(o, "idle", "called")
    /\ call' = [call EXCEPT ![o] = c]
    /\ UNCHANGED <<up, memory, lock, diskVars, historyVars>>

\* Mutant of Enter: the mutex is not taken first.
EnterUnlocked(o) ==
    /\ Goto(o, "called", "checked")
    /\ Kind(o) # "reload"
    /\ Proceeds(o)
    /\ lock' = o
    /\ UNCHANGED <<up, memory, call, diskVars, historyVars>>

\* Take the mutex and pass the existence check.
Enter(o) ==
    /\ Goto(o, "called", "checked")
    /\ lock = None
    /\ Kind(o) # "reload"
    /\ Proceeds(o)
    /\ lock' = o
    /\ UNCHANGED <<up, memory, call, diskVars, historyVars>>

\* Mutant of Refuse: the mutex is not released.
RefuseKeepsLock(o) ==
    /\ pc[o] = "called"
    /\ lock = None
    /\ Kind(o) # "reload"
    /\ ~Proceeds(o)
    /\ pc' = [pc EXCEPT ![o] = "idle"]
    /\ call' = [call EXCEPT ![o] = None]
    /\ lock' = o
    /\ UNCHANGED <<up, memory, diskVars, historyVars>>

\* Take the mutex, find nothing to do or an error, and return.
Refuse(o) ==
    /\ pc[o] = "called"
    /\ lock = None
    /\ Kind(o) # "reload"
    /\ ~Proceeds(o)
    /\ Return(o)
    /\ UNCHANGED <<up, memory, diskVars, historyVars>>

\* Mutant of WriteTmp: the map is changed before the file.
WriteTmpPublishes(o) ==
    /\ Goto(o, "checked", "created")
    /\ Kind(o) # "unregister"
    /\ memory' = [memory EXCEPT ![Agent(o)] = NewConfig(o)]
    /\ tmp' = [tmp EXCEPT ![Agent(o)] = [cfg |-> NewConfig(o), synced |-> FALSE]]
    /\ UNCHANGED <<up, lock, call, disk, stable, dirty, historyVars>>

\* persist: create and write the temp file, in one step: until sync_all its
\* content is not relied on, however much of it is there ...
WriteTmp(o) ==
    /\ Goto(o, "checked", "created")
    /\ Kind(o) # "unregister"
    /\ tmp' = [tmp EXCEPT ![Agent(o)] = [cfg |-> NewConfig(o), synced |-> FALSE]]
    /\ UNCHANGED <<up, memory, lock, call, disk, stable, dirty, historyVars>>

\* Mutant of SyncTmp: no fsync before the rename.
SyncTmpSkipped(o) ==
    /\ Goto(o, "created", "synced")
    /\ UNCHANGED <<up, memory, lock, call, diskVars, historyVars>>

\* ... sync_all ...
SyncTmp(o) ==
    /\ Goto(o, "created", "synced")
    /\ tmp' = [tmp EXCEPT ![Agent(o)].synced = TRUE]
    /\ UNCHANGED <<up, memory, lock, call, disk, stable, dirty, historyVars>>

\* ... rename over the agent's file.
Rename(o) ==
    LET a == Agent(o) IN
    /\ Goto(o, "synced", "renamed")
    /\ disk' = [disk EXCEPT ![a] = tmp[a].cfg]
    /\ dirty' = IF tmp[a].synced THEN dirty \ {a} ELSE dirty \cup {a}
    /\ tmp' = [tmp EXCEPT ![a] = None]
    /\ edited' = edited \ {a}
    /\ UNCHANGED <<up, memory, lock, call, stable, cut>>

\* A file operation of persist() fails: the temp file stays, memory is not
\* touched.
PersistError(o) ==
    /\ pc[o] \in {"checked", "created", "synced"}
    /\ Kind(o) # "unregister"
    /\ Return(o)
    /\ UNCHANGED <<up, memory, diskVars, historyVars>>

\* Best-effort fsync of the directory, insert into the map, return.
Publish(o) ==
    /\ pc[o] = "renamed"
    /\ stable' \in {stable, disk}
    /\ memory' = [memory EXCEPT ![Agent(o)] = NewConfig(o)]
    /\ Return(o)
    /\ UNCHANGED <<up, tmp, disk, dirty, historyVars>>

\* Mutant of RemoveFile: the file is left in place.
RemoveFileKept(o) ==
    /\ Goto(o, "checked", "removed")
    /\ Kind(o) = "unregister"
    /\ UNCHANGED <<up, memory, lock, call, diskVars, historyVars>>

\* unregister: remove_file ...
RemoveFile(o) ==
    LET a == Agent(o) IN
    /\ Goto(o, "checked", "removed")
    /\ Kind(o) = "unregister"
    /\ disk[a] # None
    /\ disk' = [disk EXCEPT ![a] = None]
    /\ dirty' = dirty \ {a}
    /\ edited' = edited \ {a}
    /\ UNCHANGED <<up, memory, lock, call, tmp, stable, cut>>

\* ... which fails when it finds no file, or for another reason ...
RemoveError(o) ==
    /\ pc[o] = "checked"
    /\ Kind(o) = "unregister"
    /\ Return(o)
    /\ UNCHANGED <<up, memory, diskVars, historyVars>>

\* ... then remove the agent from the map.
Forget(o) ==
    /\ pc[o] = "removed"
    /\ memory' = [memory EXCEPT ![Agent(o)] = None]
    /\ Return(o)
    /\ UNCHANGED <<up, diskVars, historyVars>>

\* Mutant of Loadable: files are not validated.
LoadableAlways == TRUE

Loadable == \A a \in Agents : disk[a] \notin {Bad, Torn}

\* Registry::load: every file read, stale temp files swept.  The code reads one
\* file after the other.  Each is read once, under the mutex that keeps every
\* other writer out, and an edit of one file commutes with the reading of
\* another: moving the edits of files already read behind the load, and those
\* of files not yet read before it, gives one step with the same outcome.
Load ==
    /\ memory' = disk
    /\ tmp' = [a \in Agents |-> None]
    /\ edited' = {}

\* Mutant of Reload: the mutex is not taken.
ReloadUnlocked(o) ==
    /\ pc[o] = "called"
    /\ Kind(o) = "reload"
    /\ Loadable
    /\ Load
    /\ pc' = [pc EXCEPT ![o] = "idle"]
    /\ call' = [call EXCEPT ![o] = None]
    /\ UNCHANGED <<up, lock, disk, stable, dirty, cut>>

Reload(o) ==
    /\ pc[o] = "called"
    /\ lock = None
    /\ Kind(o) = "reload"
    /\ Loadable
    /\ Load
    /\ Return(o)
    /\ UNCHANGED <<up, disk, stable, dirty, cut>>

\* A file does not load or cannot be read: the previous registry is kept.
\* Temp files met before it are gone, those after it are not.
ReloadError(o) ==
    /\ pc[o] = "called"
    /\ lock = None
    /\ Kind(o) = "reload"
    /\ \E swept \in SUBSET Agents :
           tmp' = [a \in Agents |-> IF a \in swept THEN None ELSE tmp[a]]
    /\ Return(o)
    /\ UNCHANGED <<up, memory, disk, stable, dirty, historyVars>>

-----------------------------------------------------------------------------
(* The environment.                                                        *)

\* The operator writes or removes an agent's file.
Edit(a, c) ==
    /\ disk[a] # c
    /\ disk' = [disk EXCEPT ![a] = c]
    /\ dirty' = dirty \ {a}
    /\ edited' = edited \cup {a}
    /\ UNCHANGED <<up, memory, lock, pc, call, tmp, stable, cut>>

\* The kernel writes back what it holds.
Writeback ==
    /\ dirty # {} \/ stable # disk
    /\ dirty' = {}
    /\ stable' = disk
    /\ UNCHANGED <<up, memory, lock, pc, call, tmp, disk, historyVars>>

\* Agents whose operation has touched their file but not the map.
HalfDone == {Agent(o) : o \in {p \in Ops : pc[p] \in {"renamed", "removed"}}}

Die ==
    /\ up' = FALSE
    /\ lock' = None
    /\ pc' = [o \in Ops |-> "idle"]
    /\ call' = [o \in Ops |-> None]
    /\ UNCHANGED memory

\* The process is killed: the file system keeps what it shows.
Kill ==
    /\ up
    /\ Die
    /\ cut' = HalfDone
    /\ UNCHANGED <<diskVars, edited>>

\* The machine loses power, with the daemon running or not: of a file replaced
\* or removed since it was last stable, either version may be found, also when
\* the call that replaced it has returned (the fsync of the directory is
\* best-effort, and unregister has none), and data never synced is lost.
PowerLoss ==
    /\ Die
    /\ \E old \in SUBSET {a \in Agents : stable[a] # disk[a]} :
           disk' = [a \in Agents |->
                       IF a \in old THEN stable[a]
                       ELSE IF a \in dirty THEN Torn
                       ELSE disk[a]]
    /\ cut' = cut \cup HalfDone \cup {a \in Agents : stable[a] # disk[a]}
    /\ stable' = disk'
    /\ dirty' = {}
    /\ UNCHANGED <<tmp, edited>>

\* The daemon starts; a file that does not load is a startup error.
Start ==
    /\ ~up
    /\ Loadable
    /\ up' = TRUE
    /\ Load
    /\ cut' = {}
    /\ UNCHANGED <<lock, pc, call, disk, stable, dirty>>

-----------------------------------------------------------------------------
Step(o) ==
    \/ Enter(o) \/ Refuse(o)
    \/ WriteTmp(o) \/ SyncTmp(o) \/ Rename(o) \/ PersistError(o) \/ Publish(o)
    \/ RemoveFile(o) \/ RemoveError(o) \/ Forget(o)
    \/ Reload(o) \/ ReloadError(o)

Environment ==
    \/ \E a \in Agents, c \in Contents \ {Torn} : Edit(a, c)
    \/ Writeback \/ Kill \/ PowerLoss \/ Start

Next ==
    \/ \E o \in Ops : (\E c \in Calls : Call(o, c)) \/ Step(o)
    \/ Environment

Spec == Init /\ [][Next]_vars

\* The threads of the daemon are scheduled, and the mutex is handed to every
\* waiter in the end.
Fairness == \A o \in Ops : SF_vars(Step(o))

FairSpec == Spec /\ Fairness

-----------------------------------------------------------------------------
(* Properties.                                                             *)

TypeOK ==
    /\ up \in BOOLEAN
    /\ memory \in Registries
    /\ lock \in Ops \cup {None}
    /\ pc \in [Ops -> PCs]
    /\ call \in [Ops -> Calls \cup {None}]
    /\ tmp \in [Agents -> TmpFiles \cup {None}]
    /\ disk \in [Agents -> Contents]
    /\ stable \in [Agents -> Contents]
    /\ dirty \subseteq Agents
    /\ edited \subseteq Agents
    /\ cut \subseteq Agents

\* "a concurrent same-id register must not leave disk and memory diverged":
\* whenever no mutation is in its critical section, every file the operator
\* has not touched says what the map says - after failed operations too.
DiskIsMemory ==
    up /\ lock = None => \A a \in Agents \ edited : disk[a] = memory[a]

\* No file is ever found torn, whatever the moment of a power loss: the
\* daemon can always start on the files it wrote.
NeverTorn == \A a \in Agents : disk[a] # Torn /\ stable[a] # Torn

\* The sweep of stale temp files never removes the one a persist() is about
\* to rename.
TmpSurvives ==
    \A o \in Ops : pc[o] \in {"created", "synced"} => tmp[Agent(o)] # None

\* A restart brings back the map the daemon had, but for the agents whose
\* change was cut short and the files the operator edited.
RestartRecovers ==
    [][Start => \A a \in Agents \ (edited \cup cut) : memory'[a] = memory[a]]_vars

\* A reload changes only agents whose file the operator edited: it does not
\* undo or repeat a change made through the control plane.
ReloadAppliesEdits ==
    [][\A o \in Ops : Reload(o) => Changed(memory, memory') \subseteq edited]_vars

\* The map as the store's promise sees it: an operation takes effect when its
\* file is renamed or removed, and a daemon that is down shows no agent.
Visible ==
    [a \in Agents |->
        CASE ~up                                                        -> None
          [] up /\ lock # None /\ pc[lock] = "renamed" /\ Agent(lock) = a -> NewConfig(lock)
          [] up /\ lock # None /\ pc[lock] = "removed" /\ Agent(lock) = a -> None
          [] OTHER                                                      -> memory[a]]

Store == INSTANCE AgentStore WITH
             reg <- Visible, file <- disk, safe <- stable, Unloadable <- {Bad}

\* The registry implements the store of module AgentStore: at the rename or the
\* removal of its file each operation takes effect as one step, for the map and
\* for what a restart finds; a failed operation, a sweep or a kill has no effect
\* of its own, and a power loss at most takes files back to complete versions
\* they had before.
ImplementsStore == Store!Spec

\* Every call returns unless the daemon dies: the mutex is always released.
EveryCallReturns == \A o \in Ops : pc[o] = "called" ~> pc[o] = "idle"
=============================================================================
