---------------------------- MODULE RegistryProofs ----------------------------
(***************************************************************************)
(* Proofs that the registry keeps its files and its map together, and that *)
(* it implements the atomic store of module AgentStore, for every          *)
(* set of agents, configurations and concurrent callers.                   *)
(***************************************************************************)
EXTENDS Registry, TLAPS

-----------------------------------------------------------------------------
(* The inductive invariant.                                                *)

\* What a caller has at each point of its operation; past "called" it holds
\* the mutex.
CallerShape ==
    \A o \in Ops :
        /\ pc[o] # "idle" => up /\ call[o] # None
        /\ pc[o] \notin {"idle", "called"} =>
               /\ lock = o
               /\ Kind(o) # "reload"
               /\ Kind(o) # "register" => memory[Agent(o)] # None
        /\ pc[o] \in {"created", "synced", "renamed"} => Kind(o) # "unregister"
        /\ pc[o] = "removed" => Kind(o) = "unregister"

\* A daemon that is down holds no mutex.
DownUnlocked == ~up => lock = None

TypeInv == TypeOK /\ CallerShape /\ DownUnlocked

\* The temp file of a persist() is its own until it is renamed, and is synced
\* by then.
TmpIsMine ==
    \A o \in Ops :
        /\ pc[o] \in {"created", "synced"} =>
               tmp[Agent(o)] # None /\ tmp[Agent(o)].cfg = NewConfig(o)
        /\ pc[o] = "synced" => tmp[Agent(o)].synced

\* No file is ever ahead of its data.
NothingTorn == dirty = {} /\ NeverTorn

\* A file the operator has not touched holds what the map shows, with an
\* operation counted from the moment its file is in place.
DiskIsVisible == up => \A a \in Agents \ edited : disk[a] = Visible[a]

\* While the daemon is down it holds the last map it had.
DiskIsLastMap == ~up => \A a \in Agents \ (edited \cup cut) : disk[a] = memory[a]

IInv ==
    /\ TypeInv
    /\ TmpIsMine
    /\ NothingTorn
    /\ DiskIsVisible
    /\ DiskIsLastMap

-----------------------------------------------------------------------------
(* Facts about the operators of the model.                                 *)

\* The fields of a call, by its kind.
LEMMA CallFields ==
  ASSUME NEW c \in Calls
  PROVE  /\ c.kind \in {"register", "update", "enable", "disable", "unregister", "reload"}
         /\ c.kind # "reload" => c.agent \in Agents
         /\ c.kind \in {"register", "update"} => c.cfg \in Configs
  BY DEF Calls

\* What persist() writes is a config.
LEMMA NewConfigType ==
  ASSUME TypeInv, NEW o \in Ops, pc[o] \notin {"idle", "called"}, Kind(o) # "unregister"
  PROVE  Agent(o) \in Agents /\ NewConfig(o) \in Configs
  <1>1. call[o] \in Calls
    BY DEF TypeInv, TypeOK, CallerShape
  <1>2. /\ Agent(o) \in Agents
        /\ Kind(o) \in {"register", "update", "enable", "disable"}
        /\ Kind(o) \in {"register", "update"} => call[o].cfg \in Configs
        /\ Kind(o) # "register" => memory[Agent(o)] \in Configs
    BY <1>1, CallFields DEF TypeInv, TypeOK, CallerShape, Agent, Kind, Registries
  <1>3. CASE Kind(o) \in {"register", "update"}
    BY <1>2, <1>3 DEF NewConfig
  <1>4. CASE Kind(o) \in {"enable", "disable"}
    BY <1>2, <1>4 DEF NewConfig, Configs
  <1> QED
    BY <1>2, <1>3, <1>4

\* The agent of an operation in its critical section.
LEMMA AgentType ==
  ASSUME TypeInv, NEW o \in Ops, pc[o] \notin {"idle", "called"}
  PROVE  Agent(o) \in Agents
  BY CallFields DEF TypeInv, TypeOK, CallerShape, Agent, Kind

\* The map that readers are promised, case by case: empty while the daemon is
\* down, the map in memory when no file is ahead of it, and otherwise that
\* map with the mutex holder's change.
VisibleCases ==
    /\ ~up => Visible = [a \in Agents |-> None]
    /\ up /\ lock = None => Visible = memory
    /\ \A o \in Ops : up /\ lock = o =>
           /\ pc[o] = "renamed" => Visible = [memory EXCEPT ![Agent(o)] = NewConfig(o)]
           /\ pc[o] = "removed" => Visible = [memory EXCEPT ![Agent(o)] = None]
           /\ pc[o] \notin {"renamed", "removed"} => Visible = memory

\* The definition of Visible comes down to those cases.
LEMMA VisibleFacts == TypeInv => VisibleCases
  BY NoneIsNoCall DEF TypeInv, TypeOK, VisibleCases, Visible, Registries

-----------------------------------------------------------------------------
(* Types, and who holds the mutex.                                         *)

\* Initially the files are the map and no call is under way.
LEMMA InitTypeInv == Init => TypeInv
  BY DEF Init, TypeInv, TypeOK, CallerShape, DownUnlocked, Registries, Contents, PCs

\* Every step keeps the types and the mutex discipline.
LEMMA NextTypeInv == ASSUME TypeInv, TmpIsMine, [Next]_vars PROVE TypeInv'
  <1> USE DEF TypeInv
  <1>1. ASSUME NEW o \in Ops, NEW c \in Calls, Call(o, c)
        PROVE  TypeInv'
    BY <1>1, NoneIsNoCall
    DEF Call, Goto, TypeOK, CallerShape, DownUnlocked, Kind, Agent, PCs, diskVars, historyVars
  <1>2. ASSUME NEW o \in Ops, Enter(o)
        PROVE  TypeInv'
    <2>1. TypeOK'
      BY <1>2 DEF Enter, Goto, TypeOK, PCs, diskVars, historyVars
    <2>2. CallerShape'
      BY <1>2, NoneIsNoCall
      DEF Enter, Goto, Proceeds, Precondition, TypeOK, CallerShape, Kind, Agent, PCs
    <2> QED
      BY <1>2, <2>1, <2>2 DEF Enter, DownUnlocked, CallerShape, Goto
  <1>3. ASSUME NEW o \in Ops, Refuse(o) \/ PersistError(o) \/ RemoveError(o)
        PROVE  TypeInv'
    <2>1. /\ Return(o) /\ UNCHANGED <<up, memory, diskVars, historyVars>>
          /\ \A p \in Ops \ {o} : pc[p] \in {"idle", "called"}
      BY <1>3, NoneIsNoCall DEF Refuse, PersistError, RemoveError, CallerShape, TypeOK, PCs
    <2> QED
      BY <2>1 DEF Return, TypeOK, CallerShape, DownUnlocked, Kind, Agent, PCs, diskVars, historyVars
  <1>4. ASSUME NEW o \in Ops, WriteTmp(o)
        PROVE  TypeInv'
    <2>1. Agent(o) \in Agents /\ NewConfig(o) \in Configs
      BY <1>4, NewConfigType DEF WriteTmp, Goto
    <2>2. tmp' \in [Agents -> TmpFiles \cup {None}]
      BY <1>4, <2>1 DEF WriteTmp, TypeOK, TmpFiles
    <2> QED
      BY <1>4, <2>2
      DEF WriteTmp, Goto, TypeOK, CallerShape, DownUnlocked, Kind, Agent, PCs, historyVars
  <1>5. ASSUME NEW o \in Ops, SyncTmp(o)
        PROVE  TypeInv'
    <2>1. Agent(o) \in Agents
      BY <1>5, AgentType DEF SyncTmp, Goto
    <2>2. tmp' \in [Agents -> TmpFiles \cup {None}]
      BY <1>5, <2>1 DEF SyncTmp, Goto, TmpIsMine, TypeOK, TmpFiles
    <2> QED
      BY <1>5, <2>2
      DEF SyncTmp, Goto, TypeOK, CallerShape, DownUnlocked, Kind, Agent, PCs, historyVars
  <1>6. ASSUME NEW o \in Ops, Rename(o)
        PROVE  TypeInv'
    <2>1. Agent(o) \in Agents
      BY <1>6, AgentType DEF Rename, Goto
    <2>2. tmp[Agent(o)] \in TmpFiles
      BY <1>6, <2>1 DEF Rename, Goto, TmpIsMine, TypeOK
    <2>3. disk' \in [Agents -> Contents] /\ tmp' \in [Agents -> TmpFiles \cup {None}]
      BY <1>6, <2>1, <2>2 DEF Rename, TypeOK, TmpFiles, Contents
    <2>4. dirty' \subseteq Agents /\ edited' \subseteq Agents
      BY <1>6, <2>1 DEF Rename, TypeOK
    <2> QED
      BY <1>6, <2>3, <2>4
      DEF Rename, Goto, TypeOK, CallerShape, DownUnlocked, Kind, Agent, PCs
  <1>7. ASSUME NEW o \in Ops, Publish(o)
        PROVE  TypeInv'
    <2>1. /\ Agent(o) \in Agents /\ NewConfig(o) \in Configs
          /\ \A p \in Ops \ {o} : pc[p] \in {"idle", "called"}
      BY <1>7, NewConfigType DEF Publish, CallerShape, TypeOK, PCs
    <2>2. memory' \in Registries /\ stable' \in [Agents -> Contents]
      BY <1>7, <2>1 DEF Publish, TypeOK, Registries
    <2> QED
      BY <1>7, <2>1, <2>2
      DEF Publish, Return, TypeOK, CallerShape, DownUnlocked, Kind, Agent, PCs, historyVars
  <1>8. ASSUME NEW o \in Ops, RemoveFile(o)
        PROVE  TypeInv'
    <2>1. Agent(o) \in Agents
      BY <1>8, AgentType DEF RemoveFile, Goto
    <2>2. disk' \in [Agents -> Contents] /\ dirty' \subseteq Agents /\ edited' \subseteq Agents
      BY <1>8, <2>1 DEF RemoveFile, TypeOK, Contents
    <2> QED
      BY <1>8, <2>2
      DEF RemoveFile, Goto, TypeOK, CallerShape, DownUnlocked, Kind, Agent, PCs
  <1>9. ASSUME NEW o \in Ops, Forget(o)
        PROVE  TypeInv'
    <2>1. Agent(o) \in Agents /\ \A p \in Ops \ {o} : pc[p] \in {"idle", "called"}
      BY <1>9, AgentType DEF Forget, CallerShape, TypeOK, PCs
    <2>2. memory' \in Registries
      BY <1>9, <2>1 DEF Forget, TypeOK, Registries
    <2> QED
      BY <1>9, <2>1, <2>2
      DEF Forget, Return, TypeOK, CallerShape, DownUnlocked, Kind, Agent, PCs, diskVars, historyVars
  <1>10. ASSUME NEW o \in Ops, Reload(o)
         PROVE  TypeInv'
    <2>1. \A p \in Ops : pc[p] \in {"idle", "called"}
      BY <1>10, NoneIsNoCall DEF Reload, CallerShape, TypeOK, PCs
    <2>2. memory' \in Registries
      BY <1>10 DEF Reload, Load, Loadable, TypeOK, Registries, Contents
    <2> QED
      BY <1>10, <2>1, <2>2
      DEF Reload, Load, Return, TypeOK, CallerShape, DownUnlocked, Kind, Agent, PCs
  <1>11. ASSUME NEW o \in Ops, ReloadError(o)
         PROVE  TypeInv'
    <2>1. \A p \in Ops : pc[p] \in {"idle", "called"}
      BY <1>11, NoneIsNoCall DEF ReloadError, CallerShape, TypeOK, PCs
    <2>2. tmp' \in [Agents -> TmpFiles \cup {None}]
      BY <1>11 DEF ReloadError, TypeOK
    <2> QED
      BY <1>11, <2>1, <2>2
      DEF ReloadError, Return, TypeOK, CallerShape, DownUnlocked, Kind, Agent, PCs, historyVars
  <1>12. ASSUME NEW a \in Agents, NEW c \in Contents \ {Torn}, Edit(a, c)
         PROVE  TypeInv'
    BY <1>12 DEF Edit, TypeOK, CallerShape, DownUnlocked, Kind, Agent
  <1>13. ASSUME Writeback
         PROVE  TypeInv'
    BY <1>13 DEF Writeback, TypeOK, CallerShape, DownUnlocked, Kind, Agent, historyVars
  <1>14. HalfDone \subseteq Agents
    BY AgentType DEF HalfDone
  <1>15. ASSUME Kill
         PROVE  TypeInv'
    BY <1>14, <1>15
    DEF Kill, Die, TypeOK, CallerShape, DownUnlocked, Kind, Agent, PCs, diskVars
  <1>16. ASSUME PowerLoss
         PROVE  TypeInv'
    <2>1. disk' \in [Agents -> Contents]
      BY <1>16 DEF PowerLoss, TypeOK, Contents
    <2> QED
      BY <1>14, <1>16, <2>1
      DEF PowerLoss, Die, TypeOK, CallerShape, DownUnlocked, Kind, Agent, PCs
  <1>17. ASSUME Start
         PROVE  TypeInv'
    <2>1. memory' \in Registries
      BY <1>17 DEF Start, Load, Loadable, TypeOK, Registries, Contents
    <2>2. \A o \in Ops : pc[o] = "idle"
      BY <1>17 DEF Start, CallerShape
    <2> QED
      BY <1>17, <2>1, <2>2
      DEF Start, Load, TypeOK, CallerShape, DownUnlocked, Kind, Agent, PCs
  <1>18. CASE UNCHANGED vars
    BY <1>18 DEF vars, diskVars, historyVars, TypeOK, CallerShape, DownUnlocked, Kind, Agent
  <1> QED
    BY <1>1, <1>2, <1>3, <1>4, <1>5, <1>6, <1>7, <1>8, <1>9, <1>10, <1>11, <1>12, <1>13,
       <1>15, <1>16, <1>17, <1>18
    DEF Next, Step, Environment

-----------------------------------------------------------------------------
(* Temp files and torn files.                                              *)

\* A caller in its critical section is the only one there.
LEMMA Alone ==
  ASSUME TypeInv, NEW o \in Ops, pc[o] \notin {"idle", "called"}
  PROVE  /\ up /\ lock = o
         /\ \A p \in Ops \ {o} : pc[p] \in {"idle", "called"}
  BY DEF TypeInv, CallerShape

\* With the mutex free nobody is in a critical section.
LEMMA NobodyInside ==
  ASSUME TypeInv, lock = None
  PROVE  \A p \in Ops : pc[p] \in {"idle", "called"}
  BY NoneIsNoCall DEF TypeInv, CallerShape

\* No step takes away or changes the temp file a persist() is about to rename.
LEMMA TmpStep == ASSUME TypeInv, TmpIsMine, [Next]_vars PROVE TmpIsMine'
  <1> USE DEF TmpIsMine
  <1>1. ASSUME NEW o \in Ops, WriteTmp(o)
        PROVE  TmpIsMine'
    <2>1. Agent(o) \in Agents /\ NewConfig(o) \in Configs
      BY <1>1, NewConfigType DEF WriteTmp, Goto
    <2>2. NewConfig(o)' = NewConfig(o) /\ Agent(o)' = Agent(o)
      BY <1>1 DEF WriteTmp, NewConfig, Kind, Agent
    <2>3. tmp'[Agent(o)] = [cfg |-> NewConfig(o), synced |-> FALSE]
      BY <1>1, <2>1 DEF WriteTmp, TypeInv, TypeOK
    <2>4. tmp'[Agent(o)] \in TmpFiles /\ tmp'[Agent(o)].cfg = NewConfig(o)
      BY <2>1, <2>3 DEF TmpFiles
    <2>5. \A p \in Ops \ {o} : pc'[p] \notin {"created", "synced"}
      BY <1>1, Alone DEF WriteTmp, Goto, TypeInv, TypeOK
    <2>6. pc'[o] = "created"
      BY <1>1 DEF WriteTmp, Goto, TypeInv, TypeOK
    <2> QED
      BY <2>2, <2>4, <2>5, <2>6, NoneIsNoFile
  <1>2. ASSUME NEW o \in Ops, SyncTmp(o)
        PROVE  TmpIsMine'
    <2>1. Agent(o) \in Agents /\ tmp[Agent(o)] \in TmpFiles
      BY <1>2, AgentType DEF SyncTmp, Goto, TypeInv, TypeOK
    <2>2. NewConfig(o)' = NewConfig(o) /\ Agent(o)' = Agent(o)
      BY <1>2 DEF SyncTmp, NewConfig, Kind, Agent
    <2>3. /\ tmp'[Agent(o)] \in TmpFiles
          /\ tmp'[Agent(o)].cfg = NewConfig(o)
          /\ tmp'[Agent(o)].synced
      BY <1>2, <2>1 DEF SyncTmp, Goto, TypeInv, TypeOK, TmpFiles
    <2>4. \A p \in Ops \ {o} : pc'[p] \notin {"created", "synced"}
      BY <1>2, Alone DEF SyncTmp, Goto, TypeInv, TypeOK
    <2> QED
      BY <2>2, <2>3, <2>4, NoneIsNoFile
  <1>3. ASSUME NEW o \in Ops, Rename(o) \/ PersistError(o) \/ Publish(o) \/ RemoveFile(o)
                              \/ RemoveError(o) \/ Forget(o)
        PROVE  TmpIsMine'
    <2>1. /\ pc[o] \notin {"idle", "called"}
          /\ pc' = [pc EXCEPT ![o] = "renamed"] \/ pc' = [pc EXCEPT ![o] = "removed"]
                \/ pc' = [pc EXCEPT ![o] = "idle"]
      BY <1>3 DEF Rename, PersistError, Publish, RemoveFile, RemoveError, Forget, Goto, Return
    <2>2. \A p \in Ops : pc'[p] \notin {"created", "synced"}
      BY <2>1, Alone DEF TypeInv, TypeOK
    <2> QED
      BY <2>2
  <1>4. ASSUME NEW o \in Ops, Reload(o) \/ ReloadError(o)
        PROVE  TmpIsMine'
    BY <1>4, NobodyInside DEF Reload, ReloadError, Return, TypeInv, TypeOK
  <1>5. ASSUME NEW o \in Ops, Enter(o) \/ Refuse(o) \/ \E c \in Calls : Call(o, c)
        PROVE  TmpIsMine'
    <2>1. \A p \in Ops : pc'[p] \in {"created", "synced"} => pc'[p] = pc[p] /\ call'[p] = call[p]
      BY <1>5 DEF Enter, Refuse, Call, Goto, Return, TypeInv, TypeOK
    <2>2. UNCHANGED <<memory, tmp>>
      BY <1>5 DEF Enter, Refuse, Call, diskVars
    <2> QED
      BY <2>1, <2>2 DEF NewConfig, Kind, Agent
  <1>6. CASE Kill \/ PowerLoss
    BY <1>6 DEF Kill, PowerLoss, Die
  <1>7. CASE Start
    BY <1>7 DEF Start, TypeInv, CallerShape
  <1>8. ASSUME UNCHANGED <<pc, call, memory, tmp>>
        PROVE  TmpIsMine'
    BY <1>8 DEF NewConfig, Kind, Agent
  <1>9. CASE (\E a \in Agents, c \in Contents \ {Torn} : Edit(a, c)) \/ Writeback \/ UNCHANGED vars
    BY <1>8, <1>9 DEF Edit, Writeback, vars, diskVars
  <1> QED
    BY <1>1, <1>2, <1>3, <1>4, <1>5, <1>6, <1>7, <1>9 DEF Next, Step, Environment

\* No step, and no power loss after it, leaves a file without its data: the
\* temp file is synced before it is renamed.
LEMMA TornStep ==
  ASSUME TypeInv, TmpIsMine, NothingTorn, [Next]_vars
  PROVE  NothingTorn'
  <1> USE DEF NothingTorn, NeverTorn
  <1>1. ASSUME NEW o \in Ops, Rename(o)
        PROVE  NothingTorn'
    <2>1. Agent(o) \in Agents /\ NewConfig(o) \in Configs
      BY <1>1, NewConfigType DEF Rename, Goto, TypeInv, CallerShape
    <2>2. tmp[Agent(o)].cfg = NewConfig(o) /\ tmp[Agent(o)].synced
      BY <1>1 DEF Rename, Goto, TmpIsMine
    <2> QED
      BY <1>1, <2>1, <2>2, BadIsNoConfig DEF Rename, TypeInv, TypeOK
  <1>2. ASSUME NEW o \in Ops, RemoveFile(o)
        PROVE  NothingTorn'
    BY <1>2, BadIsNoConfig, AgentType DEF RemoveFile, Goto, TypeInv, TypeOK
  <1>3. ASSUME NEW o \in Ops, Publish(o)
        PROVE  NothingTorn'
    BY <1>3 DEF Publish
  <1>4. ASSUME NEW a \in Agents, NEW c \in Contents \ {Torn}, Edit(a, c)
        PROVE  NothingTorn'
    BY <1>4 DEF Edit, TypeInv, TypeOK
  <1>5. CASE Writeback
    BY <1>5 DEF Writeback
  <1>6. CASE PowerLoss
    BY <1>6 DEF PowerLoss
  <1>7. ASSUME UNCHANGED <<disk, stable, dirty>>
        PROVE  NothingTorn'
    BY <1>7
  <1>8. ASSUME NEW o \in Ops,
               \/ \E c \in Calls : Call(o, c)
               \/ Enter(o) \/ Refuse(o) \/ WriteTmp(o) \/ SyncTmp(o) \/ PersistError(o)
               \/ RemoveError(o) \/ Forget(o) \/ Reload(o) \/ ReloadError(o)
        PROVE  NothingTorn'
    BY <1>7, <1>8 DEF Call, Enter, Refuse, WriteTmp, SyncTmp, PersistError, RemoveError,
                      Forget, Reload, ReloadError, diskVars
  <1>9. CASE Kill \/ Start \/ UNCHANGED vars
    BY <1>7, <1>9 DEF Kill, Start, vars, diskVars
  <1> QED
    BY <1>1, <1>2, <1>3, <1>4, <1>5, <1>6, <1>8, <1>9 DEF Next, Step, Environment

-----------------------------------------------------------------------------
(* The map that is promised, step by step.                                 *)

\* Only an operation whose file is put in place or removed, a load and the
\* daemon's end change the promised map; the insertion into the map in memory
\* comes after the fact.
LEMMA VisibleStep ==
  ASSUME TypeInv, TmpIsMine, [Next]_vars
  PROVE  /\ \A o \in Ops : Rename(o) =>
                /\ Agent(o) \in Agents /\ NewConfig(o) \in Configs
                /\ Visible' = [Visible EXCEPT ![Agent(o)] = NewConfig(o)]
                /\ disk' = [disk EXCEPT ![Agent(o)] = NewConfig(o)]
         /\ \A o \in Ops : RemoveFile(o) =>
                /\ Agent(o) \in Agents
                /\ Visible' = [Visible EXCEPT ![Agent(o)] = None]
         /\ Start \/ (\E o \in Ops : Reload(o)) => Visible' = disk
         /\ Kill \/ PowerLoss => Visible' = [a \in Agents |-> None]
         /\ \/ UNCHANGED <<Visible, up>>
            \/ \E o \in Ops : Rename(o) \/ RemoveFile(o) \/ Reload(o)
            \/ Start \/ Kill \/ PowerLoss
  <1>1. TypeInv'
    BY NextTypeInv
  <1>2. VisibleCases /\ VisibleCases'
    BY <1>1, VisibleFacts, PTL
  <1>3. ASSUME NEW o \in Ops, NEW c \in Calls, Call(o, c)
        PROVE  UNCHANGED <<Visible, up>>
    <2>1. \A p \in Ops \ {o} :
             pc'[p] = pc[p] /\ Agent(p)' = Agent(p) /\ NewConfig(p)' = NewConfig(p)
      BY <1>3 DEF Call, Goto, TypeInv, TypeOK, Agent, NewConfig, Kind
    <2>2. pc[o] = "idle" /\ pc'[o] = "called"
      BY <1>3 DEF Call, Goto, TypeInv, TypeOK
    <2>3. lock \in Ops \cup {None} /\ UNCHANGED <<up, lock, memory>>
      BY <1>3 DEF Call, TypeInv, TypeOK
    <2> QED
      BY <1>2, <2>1, <2>2, <2>3 DEF VisibleCases
  <1>4. ASSUME NEW o \in Ops, Enter(o) \/ Refuse(o)
        PROVE  UNCHANGED <<Visible, up>>
    <2>1. lock = None /\ UNCHANGED <<up, memory>> /\ up
      BY <1>4 DEF Enter, Refuse, Goto, TypeInv, CallerShape
    <2>2. lock' = None \/ (lock' = o /\ pc'[o] = "checked")
      BY <1>4 DEF Enter, Refuse, Goto, Return, TypeInv, TypeOK
    <2> QED
      BY <1>2, <2>1, <2>2 DEF VisibleCases
  <1>5. ASSUME NEW o \in Ops, WriteTmp(o) \/ SyncTmp(o)
        PROVE  UNCHANGED <<Visible, up>>
    <2>1. /\ up /\ lock = o /\ UNCHANGED <<up, lock, memory>>
          /\ {pc[o], pc'[o]} \cap {"renamed", "removed"} = {}
      BY <1>5, Alone DEF WriteTmp, SyncTmp, Goto, TypeInv, TypeOK
    <2> QED
      BY <1>2, <2>1 DEF VisibleCases
  <1>6. ASSUME NEW o \in Ops, Rename(o)
        PROVE  /\ Agent(o) \in Agents /\ NewConfig(o) \in Configs
               /\ Visible' = [Visible EXCEPT ![Agent(o)] = NewConfig(o)]
               /\ disk' = [disk EXCEPT ![Agent(o)] = NewConfig(o)]
    <2>1. Agent(o) \in Agents /\ NewConfig(o) \in Configs
      BY <1>6, NewConfigType DEF Rename, Goto, TypeInv, CallerShape
    <2>2. NewConfig(o)' = NewConfig(o) /\ Agent(o)' = Agent(o)
      BY <1>6 DEF Rename, NewConfig, Kind, Agent
    <2>3. /\ up /\ lock = o /\ UNCHANGED <<up, lock, memory>>
          /\ pc[o] = "synced" /\ pc'[o] = "renamed"
      BY <1>6, Alone DEF Rename, Goto, TypeInv, TypeOK
    <2>4. tmp[Agent(o)].cfg = NewConfig(o)
      BY <2>3 DEF TmpIsMine
    <2> QED
      BY <1>2, <1>6, <2>1, <2>2, <2>3, <2>4 DEF VisibleCases, Rename
  <1>7. ASSUME NEW o \in Ops, PersistError(o) \/ RemoveError(o)
        PROVE  UNCHANGED <<Visible, up>>
    <2>1. /\ up /\ lock = o /\ lock' = None /\ UNCHANGED <<up, memory>>
          /\ pc[o] \notin {"renamed", "removed"}
      BY <1>7, Alone DEF PersistError, RemoveError, Return
    <2> QED
      BY <1>2, <2>1 DEF VisibleCases
  <1>8. ASSUME NEW o \in Ops, Publish(o) \/ Forget(o)
        PROVE  UNCHANGED <<Visible, up>>
    <2>1. up /\ lock = o /\ lock' = None /\ UNCHANGED up
      BY <1>8, Alone DEF Publish, Forget, Return
    <2>2. Visible = memory'
      BY <1>2, <1>8, <2>1 DEF VisibleCases, Publish, Forget
    <2> QED
      BY <1>2, <2>1, <2>2 DEF VisibleCases
  <1>9. ASSUME NEW o \in Ops, RemoveFile(o)
        PROVE  Agent(o) \in Agents /\ Visible' = [Visible EXCEPT ![Agent(o)] = None]
    <2>1. /\ up /\ lock = o /\ UNCHANGED <<up, lock, memory>>
          /\ pc[o] = "checked" /\ pc'[o] = "removed"
          /\ Agent(o)' = Agent(o) /\ Agent(o) \in Agents
      BY <1>9, Alone, AgentType DEF RemoveFile, Goto, TypeInv, TypeOK, Agent
    <2> QED
      BY <1>2, <2>1 DEF VisibleCases
  <1>10. ASSUME NEW o \in Ops, Reload(o)
         PROVE  Visible' = disk
    <2>1. up /\ lock' = None /\ UNCHANGED up /\ memory' = disk
      BY <1>10 DEF Reload, Return, Load, TypeInv, CallerShape
    <2> QED
      BY <1>2, <2>1 DEF VisibleCases
  <1>11. ASSUME NEW o \in Ops, ReloadError(o)
         PROVE  UNCHANGED <<Visible, up>>
    <2>1. up /\ lock = None /\ lock' = None /\ UNCHANGED <<up, memory>>
      BY <1>11 DEF ReloadError, Return, TypeInv, CallerShape
    <2> QED
      BY <1>2, <2>1 DEF VisibleCases
  <1>12. ASSUME UNCHANGED <<up, lock, pc, call, memory>>
         PROVE  UNCHANGED <<Visible, up>>
    BY <1>12 DEF Visible, NewConfig, Agent, Kind
  <1>13. ASSUME \/ \E a \in Agents, c \in Contents \ {Torn} : Edit(a, c)
                \/ Writeback \/ UNCHANGED vars
         PROVE  UNCHANGED <<Visible, up>>
    BY <1>12, <1>13 DEF Edit, Writeback, vars
  <1>14. ASSUME Kill \/ PowerLoss
         PROVE  Visible' = [a \in Agents |-> None]
    BY <1>2, <1>14 DEF Kill, PowerLoss, Die, VisibleCases
  <1>15. ASSUME Start
         PROVE  Visible' = disk
    BY <1>2, <1>15 DEF Start, Load, VisibleCases, TypeInv, DownUnlocked
  <1>16. \/ UNCHANGED <<Visible, up>>
         \/ \E o \in Ops : Rename(o) \/ RemoveFile(o) \/ Reload(o)
         \/ Start \/ Kill \/ PowerLoss
    BY <1>3, <1>4, <1>5, <1>7, <1>8, <1>11, <1>13 DEF Next, Step, Environment
  <1> QED
    BY <1>6, <1>9, <1>10, <1>14, <1>15, <1>16

-----------------------------------------------------------------------------
(* Files and map.                                                          *)

\* While the daemon runs, a step that changes an agent's file and not its
\* place in the promised map is the operator's.
LEMMA DiskStep ==
  ASSUME TypeInv, TmpIsMine, DiskIsVisible, [Next]_vars
  PROVE  DiskIsVisible'
  <1> USE DEF DiskIsVisible
  <1>1. ASSUME NEW o \in Ops, Rename(o)
        PROVE  DiskIsVisible'
    <2>1. /\ Visible' = [Visible EXCEPT ![Agent(o)] = NewConfig(o)]
          /\ disk' = [disk EXCEPT ![Agent(o)] = NewConfig(o)]
          /\ Agent(o) \in Agents
      BY <1>1, VisibleStep
    <2>2. DOMAIN Visible = Agents /\ DOMAIN disk = Agents
      BY DEF Visible, TypeInv, TypeOK
    <2>3. up /\ edited' = edited \ {Agent(o)}
      BY <1>1, Alone DEF Rename, Goto
    <2> QED
      BY <2>1, <2>2, <2>3
  <1>2. ASSUME NEW o \in Ops, RemoveFile(o)
        PROVE  DiskIsVisible'
    <2>1. /\ Visible' = [Visible EXCEPT ![Agent(o)] = None]
          /\ disk' = [disk EXCEPT ![Agent(o)] = None]
          /\ Agent(o) \in Agents
      BY <1>2, VisibleStep DEF RemoveFile
    <2>2. DOMAIN Visible = Agents /\ DOMAIN disk = Agents
      BY DEF Visible, TypeInv, TypeOK
    <2>3. up /\ edited' = edited \ {Agent(o)}
      BY <1>2, Alone DEF RemoveFile, Goto
    <2> QED
      BY <2>1, <2>2, <2>3
  <1>3. CASE Start \/ \E o \in Ops : Reload(o)
    BY <1>3, VisibleStep DEF Start, Reload
  <1>4. CASE Kill \/ PowerLoss
    BY <1>4 DEF Kill, PowerLoss, Die
  <1>5. ASSUME NEW a \in Agents, NEW c \in Contents \ {Torn}, Edit(a, c),
               UNCHANGED <<Visible, up>>
        PROVE  DiskIsVisible'
    BY <1>5 DEF Edit, TypeInv, TypeOK
  <1>6. ASSUME UNCHANGED <<Visible, up, disk, edited>>
        PROVE  DiskIsVisible'
    BY <1>6
  <1>7. ASSUME NEW o \in Ops, UNCHANGED <<Visible, up>>,
               \/ \E c \in Calls : Call(o, c)
               \/ Enter(o) \/ Refuse(o) \/ WriteTmp(o) \/ SyncTmp(o) \/ PersistError(o)
               \/ Publish(o) \/ RemoveError(o) \/ Forget(o) \/ ReloadError(o)
        PROVE  DiskIsVisible'
    BY <1>6, <1>7 DEF Call, Enter, Refuse, WriteTmp, SyncTmp, PersistError, Publish,
                      RemoveError, Forget, ReloadError, diskVars, historyVars
  <1>8. ASSUME UNCHANGED <<Visible, up>>, Writeback \/ UNCHANGED vars
        PROVE  DiskIsVisible'
    BY <1>6, <1>8 DEF Writeback, vars, diskVars, historyVars
  <1> QED
    BY <1>1, <1>2, <1>3, <1>4, <1>5, <1>7, <1>8, VisibleStep DEF Next, Step, Environment

\* A kill or a power loss leaves the last map in the files, but for what it
\* cut short; nothing but the operator changes them until the next start.
LEMMA LastMapStep ==
  ASSUME TypeInv, NothingTorn, DiskIsVisible, DiskIsLastMap, [Next]_vars
  PROVE  DiskIsLastMap'
  <1> USE DEF DiskIsLastMap
  <1>1. ASSUME up, NEW a \in Agents \ (edited \cup HalfDone)
        PROVE  disk[a] = memory[a]
    <2>1. disk[a] = Visible[a]
      BY <1>1 DEF DiskIsVisible
    <2>2. CASE lock = None
      BY <1>1, <2>1, <2>2, VisibleFacts DEF VisibleCases
    <2>3. ASSUME NEW o \in Ops, lock = o, pc[o] \notin {"renamed", "removed"}
          PROVE  disk[a] = memory[a]
      BY <1>1, <2>1, <2>3, VisibleFacts DEF VisibleCases
    <2>4. ASSUME NEW o \in Ops, lock = o, pc[o] \in {"renamed", "removed"}
          PROVE  disk[a] = memory[a]
      <3>1. a # Agent(o) /\ memory \in Registries
        BY <1>1, <2>4 DEF HalfDone, TypeInv, TypeOK
      <3> QED
        BY <1>1, <2>1, <2>4, <3>1, VisibleFacts DEF VisibleCases, Registries
    <2> QED
      BY <2>2, <2>3, <2>4 DEF TypeInv, TypeOK
  <1>2. CASE Kill
    BY <1>1, <1>2 DEF Kill, Die, diskVars
  <1>3. CASE PowerLoss
    <2>1. \A a \in Agents : stable[a] = disk[a] => disk'[a] = disk[a]
      BY <1>3 DEF PowerLoss, NothingTorn
    <2> QED
      BY <1>1, <1>3, <2>1 DEF PowerLoss, Die
  <1>4. CASE Start
    BY <1>4 DEF Start
  <1>5. ASSUME NEW a \in Agents, NEW c \in Contents \ {Torn}, Edit(a, c)
        PROVE  DiskIsLastMap'
    BY <1>5 DEF Edit, TypeInv, TypeOK
  <1>6. CASE Writeback \/ UNCHANGED vars
    BY <1>6 DEF Writeback, vars, diskVars, historyVars
  <1>7. ASSUME NEW o \in Ops, pc[o] # "idle", UNCHANGED up
        PROVE  DiskIsLastMap'
    BY <1>7 DEF TypeInv, CallerShape
  <1>8. ASSUME NEW o \in Ops, Step(o)
        PROVE  DiskIsLastMap'
    BY <1>7, <1>8 DEF Step, Enter, Refuse, WriteTmp, SyncTmp, Rename, PersistError, Publish,
                      RemoveFile, RemoveError, Forget, Reload, ReloadError, Goto
  <1>9. ASSUME NEW o \in Ops, NEW c \in Calls, Call(o, c)
        PROVE  DiskIsLastMap'
    BY <1>9 DEF Call
  <1> QED
    BY <1>2, <1>3, <1>4, <1>5, <1>6, <1>8, <1>9 DEF Next, Environment

\* The parts hold together in every reachable state.
THEOREM Invariance == Spec => []IInv
  <1>1. Init => IInv
    <2> SUFFICES ASSUME Init PROVE IInv
      OBVIOUS
    <2>1. TypeInv
      BY InitTypeInv
    <2>2. TmpIsMine
      BY DEF Init, TmpIsMine
    <2>3. NothingTorn
      BY BadIsNoConfig DEF Init, NothingTorn, NeverTorn, Registries
    <2>4. DiskIsVisible /\ DiskIsLastMap
      BY <2>1, VisibleFacts DEF Init, DiskIsVisible, DiskIsLastMap, VisibleCases
    <2> QED
      BY <2>1, <2>2, <2>3, <2>4 DEF IInv
  <1>2. IInv /\ [Next]_vars => IInv'
    BY NextTypeInv, TmpStep, TornStep, DiskStep, LastMapStep DEF IInv
  <1> QED
    BY <1>1, <1>2, PTL DEF Spec

-----------------------------------------------------------------------------
(* What it means for the registry.                                         *)

\* The variables keep their types: in particular every temp file holds a whole
\* config and every call its fields.
THEOREM TypeCorrect == Spec => []TypeOK
  <1>1. IInv => TypeOK
    BY DEF IInv, TypeInv
  <1> QED
    BY <1>1, Invariance, PTL

\* However register, update, set_enabled, unregister and reload of any number
\* of callers interleave or fail, whenever the mutex is free the files and the
\* map agree but for the operator's edits.
THEOREM FilesFollowMap == Spec => []DiskIsMemory
  <1>1. IInv => DiskIsMemory
    BY VisibleFacts DEF IInv, DiskIsMemory, DiskIsVisible, VisibleCases
  <1> QED
    BY <1>1, Invariance, PTL

\* Whenever the power fails, no file of the registry is found torn.
THEOREM NoTornFile == Spec => []NeverTorn
  <1>1. IInv => NeverTorn
    BY DEF IInv, NothingTorn
  <1> QED
    BY <1>1, Invariance, PTL

\* The sweep of a reload never removes a temp file that is about to be
\* renamed.
THEOREM SweepSparesTmp == Spec => []TmpSurvives
  <1>1. IInv => TmpSurvives
    BY DEF IInv, TmpIsMine, TmpSurvives
  <1> QED
    BY <1>1, Invariance, PTL

\* A restart brings back the last map, but for changes that were cut short and
\* the operator's edits.
THEOREM RestartKeepsMap == Spec => RestartRecovers
  <1>1. IInv /\ [Next]_vars =>
            [Start => \A a \in Agents \ (edited \cup cut) : memory'[a] = memory[a]]_vars
    BY DEF IInv, DiskIsLastMap, Start, Load
  <1> QED
    BY <1>1, Invariance, PTL DEF Spec, RestartRecovers

\* A reload changes the map only where the operator changed a file.
THEOREM ReloadOnlyEdits == Spec => ReloadAppliesEdits
  <1>1. IInv /\ [Next]_vars =>
            [\A o \in Ops : Reload(o) => Changed(memory, memory') \subseteq edited]_vars
    <2> SUFFICES ASSUME IInv, NEW o \in Ops, Reload(o),
                        NEW a \in Changed(memory, memory')
                 PROVE  a \in edited
      BY DEF Changed
    <2>1. a \in Agents /\ memory'[a] # memory[a]
      BY DEF Changed, ChangeKind
    <2>2. memory' = disk /\ lock = None /\ up
      BY DEF Reload, Load, IInv, TypeInv, CallerShape
    <2> QED
      BY <2>1, <2>2, VisibleFacts DEF IInv, DiskIsVisible, VisibleCases
  <1> QED
    BY <1>1, Invariance, PTL DEF Spec, ReloadAppliesEdits

-----------------------------------------------------------------------------
(* The registry implements the atomic store.                               *)

\* Files that all load are a map of agents.
LEMMA LoadableIsMap == ASSUME TypeInv, Loadable PROVE disk \in Registries
  BY DEF TypeInv, TypeOK, Loadable, Contents, Registries

\* The store's configs and maps are the registry's.
LEMMA SameMaps == Store!Configs = Configs /\ Store!Registries = Registries
  BY DEF Store!Configs, Store!Registries, Configs, Registries

\* Every step of the registry is a step of the store, or none: an operation is
\* the store's Set at the rename or the removal of its file; the directory's
\* fsync and the kernel's writeback are its Flush.
LEMMA StoreStep ==
  ASSUME IInv, [Next]_vars
  PROVE  [Store!Next]_<<up, Visible, disk, stable>>
  <1> USE DEF IInv
  <1>1. ASSUME NEW o \in Ops, Rename(o)
        PROVE  Store!Next
    <2>1. /\ Agent(o) \in Agents /\ NewConfig(o) \in Configs
          /\ Visible' = [Visible EXCEPT ![Agent(o)] = NewConfig(o)]
          /\ disk' = [disk EXCEPT ![Agent(o)] = NewConfig(o)]
      BY <1>1, VisibleStep
    <2>2. up /\ UNCHANGED <<up, stable>>
      BY <1>1, Alone DEF Rename, Goto
    <2>3. Store!Set(Agent(o), NewConfig(o))
      BY <2>1, <2>2 DEF Store!Set
    <2> QED
      BY <2>1, <2>3, SameMaps DEF Store!Next
  <1>2. ASSUME NEW o \in Ops, RemoveFile(o)
        PROVE  Store!Next
    <2>1. /\ Agent(o) \in Agents
          /\ Visible' = [Visible EXCEPT ![Agent(o)] = None]
          /\ disk' = [disk EXCEPT ![Agent(o)] = None]
      BY <1>2, VisibleStep DEF RemoveFile
    <2>2. up /\ UNCHANGED <<up, stable>>
      BY <1>2, Alone DEF RemoveFile, Goto
    <2>3. Store!Set(Agent(o), None)
      BY <2>1, <2>2 DEF Store!Set
    <2> QED
      BY <2>1, <2>3 DEF Store!Next
  <1>3. ASSUME NEW o \in Ops, Reload(o)
        PROVE  Store!Next
    <2>1. Visible' = disk
      BY <1>3, VisibleStep
    <2>2. up /\ disk \in Registries /\ UNCHANGED <<up, disk, stable>>
      BY <1>3, LoadableIsMap DEF Reload, TypeInv, CallerShape
    <2>3. Store!Reload
      BY <2>1, <2>2, SameMaps DEF Store!Reload
    <2> QED
      BY <2>3 DEF Store!Next
  <1>4. ASSUME Start
        PROVE  Store!Next
    <2>1. Visible' = disk /\ disk \in Registries
      BY <1>4, VisibleStep, LoadableIsMap DEF Start
    <2>2. Store!Start
      BY <1>4, <2>1, SameMaps DEF Start, Store!Start
    <2> QED
      BY <2>2 DEF Store!Next
  <1>5. ASSUME Kill
        PROVE  Store!Next
    <2>1. Store!Kill
      BY <1>5, VisibleStep DEF Kill, Die, diskVars, Store!Kill, Store!Empty
    <2> QED
      BY <2>1 DEF Store!Next
  <1>6. ASSUME PowerLoss
        PROVE  Store!Next
    <2>1. PICK old \in SUBSET {a \in Agents : stable[a] # disk[a]} :
              disk' = [a \in Agents |-> IF a \in old THEN stable[a]
                                        ELSE IF a \in dirty THEN Torn
                                        ELSE disk[a]]
      BY <1>6 DEF PowerLoss
    <2>2. /\ old \in SUBSET Agents
          /\ disk' = [a \in Agents |-> IF a \in old THEN stable[a] ELSE disk[a]]
      BY <2>1 DEF NothingTorn
    <2>3. Store!PowerLoss
      BY <1>6, <2>2, VisibleStep DEF PowerLoss, Die, Store!PowerLoss, Store!Empty
    <2> QED
      BY <2>3 DEF Store!Next
  <1>7. ASSUME NEW a \in Agents, NEW c \in Contents \ {Torn}, Edit(a, c),
               UNCHANGED <<Visible, up>>
        PROVE  Store!Next
    <2>1. Store!Edit(a, c) /\ c \in Configs \cup {None} \cup {Bad}
      BY <1>7 DEF Edit, Store!Edit, Contents
    <2> QED
      BY <2>1, SameMaps DEF Store!Next
  <1>8. ASSUME UNCHANGED <<Visible, up, disk>>, stable' \in {stable, disk}
        PROVE  Store!Next \/ UNCHANGED <<up, Visible, disk, stable>>
    BY <1>8 DEF Store!Next, Store!Flush
  <1>9. ASSUME NEW o \in Ops, UNCHANGED <<Visible, up>>,
               \/ \E c \in Calls : Call(o, c)
               \/ Enter(o) \/ Refuse(o) \/ WriteTmp(o) \/ SyncTmp(o) \/ PersistError(o)
               \/ Publish(o) \/ RemoveError(o) \/ Forget(o) \/ ReloadError(o)
        PROVE  Store!Next \/ UNCHANGED <<up, Visible, disk, stable>>
    BY <1>8, <1>9 DEF Call, Enter, Refuse, WriteTmp, SyncTmp, PersistError, Publish,
                      RemoveError, Forget, ReloadError, diskVars, historyVars
  <1>10. ASSUME UNCHANGED <<Visible, up>>, Writeback \/ UNCHANGED vars
         PROVE  Store!Next \/ UNCHANGED <<up, Visible, disk, stable>>
    BY <1>8, <1>10 DEF Writeback, vars, diskVars
  <1> QED
    BY <1>1, <1>2, <1>3, <1>4, <1>5, <1>6, <1>7, <1>9, <1>10, VisibleStep
    DEF Next, Step, Environment

\* The registry implements the store of module AgentStore: each operation
\* takes effect as one step for the map and for what a restart finds, failed
\* operations, sweeps and kills have none, and a power loss at most takes files
\* back to complete versions they had before.
THEOREM RegistryIsStore == Spec => ImplementsStore
  <1>1. Init => Store!Init
    BY InitTypeInv, VisibleFacts, SameMaps DEF Init, Store!Init, VisibleCases
  <1>2. IInv /\ [Next]_vars => [Store!Next]_<<up, Visible, disk, stable>>
    BY StoreStep
  <1> QED
    BY <1>1, <1>2, Invariance, PTL DEF Spec, ImplementsStore, Store!Spec, Store!storeVars
=============================================================================
