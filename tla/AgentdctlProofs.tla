---------------------------- MODULE AgentdctlProofs ---------------------------
(***************************************************************************)
(* Proof that agentdctl's commands, taken in turn, are neither lost nor    *)
(* half done, for every set of agents, processes and flags.                *)
(***************************************************************************)
EXTENDS Agentdctl, TLAPS

-----------------------------------------------------------------------------
(* The inductive invariant.                                                *)

\* What a process has at each point of its command.
ClientShape ==
    \A c \in Clients :
        /\ pc[c] = "none" <=> cmd[c] = None
        /\ pc[c] \in {"list", "listing", "listed"} => cmd[c].op = "update"
        /\ pc[c] \in {"send", "sending"} /\ cmd[c].op = "update" => cfg[c] # None

TypeInv == TypeOK /\ ClientShape

\* While nobody edits an agent's file, a daemon that runs holds what it says.
FileIsMap == \A a \in DOMAIN ideal : up => reg[a] = file[a]

\* Commands on an agent are still taken in turn.
InTurn == \A a \in DOMAIN ideal : \A c, d \in Busy(a) : c = d

\* Between commands the file says what they mean so far ...
FileIsIdeal == \A a \in DOMAIN ideal : Busy(a) = {} => file[a] = ideal[a]

\* ... and during one it does until the daemon has performed it, after which
\* it says what the command means; an update is on its way to sending that.
ProgressOf(c) ==
    LET old == ideal[cmd[c].agent]
        now == file[cmd[c].agent]
    IN  /\ pc[c] \notin {"ok", "closed"} => now = old
        /\ pc[c] = "ok" => now = Meaning(cmd[c], old)
        /\ pc[c] = "listed" => cfg[c] = old
        /\ pc[c] \in {"send", "sending"} /\ cmd[c].op = "update" =>
               cfg[c] = Merge(old, cmd[c].flags)

Progress ==
    \A c \in Clients :
        pc[c] # "none" /\ cmd[c].agent \in DOMAIN ideal => ProgressOf(c)

Parts == FileIsMap /\ InTurn /\ FileIsIdeal /\ Progress

IInv == TypeInv /\ Parts

-----------------------------------------------------------------------------
(* Facts about the operators of the model.                                 *)

\* What the daemon's end does to a client.
CutOff(c) ==
    \/ pc'[c] = pc[c]
    \/ pc[c] # "none" /\ pc'[c] = "closed"
    \/ pc[c] = "listing" /\ pc'[c] = "unlisted"

\* The fields of a command.
LEMMA CommandFields ==
  ASSUME NEW k \in Commands
  PROVE  /\ k.op \in {"register", "update", "unregister", "reload"}
         /\ k.agent \in Agents
         /\ k.op = "register" => k.cfg \in Configs
         /\ k.op = "update" => k.flags \in FlagType
  BY FlagsAssumption DEF Commands

\* Flags merged over a config give a config.
LEMMA MergeType ==
  ASSUME NEW old \in Configs, NEW f \in FlagType
  PROVE  Merge(old, f) \in Configs
  BY DEF Merge, Configs, FlagType

\* What ideal is a function from, and to.
IdealType ==
    /\ DOMAIN ideal \subseteq Agents
    /\ ideal \in [DOMAIN ideal -> Configs \cup {None}]

\* The type invariant says no more of it.
LEMMA IdealTypeOK ==
    (\E D \in SUBSET Agents : ideal \in [D -> Configs \cup {None}]) <=> IdealType
  BY DEF IdealType

\* What is left of it once an agent's commands cannot be taken in turn.
LEMMA SpoilFacts ==
  ASSUME IdealType, NEW a
  PROVE  /\ DOMAIN Spoil(a) = DOMAIN ideal \ {a}
         /\ \A b \in DOMAIN ideal \ {a} : Spoil(a)[b] = ideal[b]
         /\ Spoil(a) \in [DOMAIN ideal \ {a} -> Configs \cup {None}]
  BY DEF Spoil, IdealType

-----------------------------------------------------------------------------
(* Types.                                                                  *)

\* Initially no process runs.
LEMMA InitTypeInv == Init => TypeInv
  <1> SUFFICES ASSUME Init PROVE TypeInv
    OBVIOUS
  <1>1. IdealType
    BY DEF Init, IdealType, Registries
  <1>2. TypeOK
    BY <1>1, IdealTypeOK DEF Init, TypeOK, PCs, Registries
  <1> QED
    BY <1>2 DEF Init, TypeInv, ClientShape

\* The type invariant, with ideal's part in the form the steps use.
OthersOK ==
    /\ up \in BOOLEAN
    /\ reg \in Registries
    /\ file \in Registries
    /\ socket \in {"absent", "live", "stale"}
    /\ pc \in [Clients -> PCs]
    /\ cmd \in [Clients -> Commands \cup {None}]
    /\ cfg \in [Clients -> Configs \cup {None}]

\* The two forms agree.
LEMMA TypeParts == TypeOK <=> OthersOK /\ IdealType
  BY IdealTypeOK DEF TypeOK, OthersOK

\* Performing a command changes the agent's config and file, and no other.
LEMMA PerformFacts ==
  ASSUME TypeInv, NEW c \in Clients, ServeOk(c)
  PROVE  /\ reg' \in Registries /\ file' \in Registries
         /\ up /\ up' = up
         /\ cmd[c] \in Commands
         /\ cmd[c].op = "reload" => reg' = file /\ file' = file
         /\ cmd[c].op # "reload" =>
                /\ reg'[cmd[c].agent] = file'[cmd[c].agent]
                /\ \A b \in Agents \ {cmd[c].agent} : reg'[b] = reg[b] /\ file'[b] = file[b]
         /\ cmd[c].op = "register" => file'[cmd[c].agent] = cmd[c].cfg
         /\ cmd[c].op = "update" => file'[cmd[c].agent] = cfg[c] /\ reg[cmd[c].agent] # None
         /\ cmd[c].op = "unregister" => file'[cmd[c].agent] = None
  <1> DEFINE k == cmd[c]
  <1>1. k \in Commands /\ reg \in Registries /\ file \in Registries /\ cfg[c] \in Configs \cup {None}
    BY DEF TypeInv, TypeOK, ClientShape, ServeOk, Goto
  <1>2. k.agent \in Agents /\ (k.op = "register" => k.cfg \in Configs)
    BY <1>1, CommandFields
  <1>3. ASSUME NEW v \in Configs \cup {None}, Store!Set(k.agent, v)
        PROVE  /\ reg' \in Registries /\ file' \in Registries /\ up /\ up' = up
               /\ reg'[k.agent] = v /\ file'[k.agent] = v
               /\ \A b \in Agents \ {k.agent} : reg'[b] = reg[b] /\ file'[b] = file[b]
    BY <1>1, <1>2, <1>3 DEF Store!Set, Registries
  <1>4. Perform(c)
    BY DEF ServeOk
  <1>5. CASE k.op = "register" /\ Store!Set(k.agent, k.cfg)
    BY <1>1, <1>2, <1>3, <1>5
  <1>6. CASE k.op = "update" /\ reg[k.agent] # None /\ Store!Set(k.agent, cfg[c])
    BY <1>1, <1>3, <1>6
  <1>7. CASE k.op = "unregister" /\ Store!Set(k.agent, None)
    BY <1>1, <1>3, <1>7
  <1>8. CASE k.op = "reload" /\ Store!Reload
    BY <1>1, <1>8 DEF Store!Reload
  <1> QED
    BY <1>4, <1>5, <1>6, <1>7, <1>8 DEF Perform

\* A command that succeeds means what the file already says.
LEMMA SucceedFacts ==
  ASSUME TypeInv, Progress, NEW c \in Clients, Succeed(c)
  PROVE  /\ DOMAIN ideal' = DOMAIN ideal
         /\ \A a \in DOMAIN ideal : a # cmd[c].agent => ideal'[a] = ideal[a]
         /\ cmd[c].agent \in DOMAIN ideal => ideal'[cmd[c].agent] = file[cmd[c].agent]
         /\ IdealType'
  <1>1. IdealType /\ file \in Registries
    BY TypeParts DEF TypeInv, OthersOK
  <1>2. /\ DOMAIN ideal' = DOMAIN ideal
        /\ \A a \in DOMAIN ideal : a # cmd[c].agent => ideal'[a] = ideal[a]
        /\ cmd[c].agent \in DOMAIN ideal =>
               ideal'[cmd[c].agent] = Meaning(cmd[c], ideal[cmd[c].agent])
        /\ ideal' = [a \in DOMAIN ideal |-> ideal'[a]]
    BY DEF Succeed
  <1>3. cmd[c].agent \in DOMAIN ideal => ideal'[cmd[c].agent] = file[cmd[c].agent]
    BY <1>2 DEF Succeed, Progress, ProgressOf
  <1>4. \A a \in DOMAIN ideal : ideal'[a] \in Configs \cup {None}
    BY <1>1, <1>2, <1>3 DEF IdealType, Registries
  <1> QED
    BY <1>1, <1>2, <1>3, <1>4 DEF IdealType

\* Every step keeps the types and the shape of the processes.
LEMMA NextTypeInv == ASSUME TypeInv, Progress, [Next]_vars PROVE TypeInv'
  <1>0. OthersOK /\ IdealType /\ ClientShape
    BY TypeParts DEF TypeInv
  <1> SUFFICES OthersOK' /\ IdealType' /\ ClientShape'
    BY TypeParts, PTL DEF TypeInv
  <1>1. ASSUME NEW a
        PROVE  Spoil(a) \in [DOMAIN ideal \ {a} -> Configs \cup {None}]
    BY <1>0, SpoilFacts
  <1>2. ASSUME NEW a, ideal' = Spoil(a) \/ ideal' = ideal
        PROVE  IdealType'
    BY <1>0, <1>1, <1>2 DEF IdealType
  <1>3. ASSUME NEW c \in Clients, NEW k \in Commands, Invoke(c, k)
        PROVE  OthersOK' /\ IdealType' /\ ClientShape'
    <2>1. IdealType'
      BY <1>2, <1>3 DEF Invoke
    <2>2. OthersOK'
      BY <1>0, <1>3 DEF Invoke, Goto, OthersOK, PCs, storeVars
    <2>3. ClientShape'
      BY <1>0, <1>3, NoneIsNoCommand DEF Invoke, Goto, OthersOK, ClientShape
    <2> QED
      BY <2>1, <2>2, <2>3
  <1>4. ASSUME NEW c \in Clients, Connect(c)
        PROVE  OthersOK' /\ IdealType' /\ ClientShape'
    BY <1>0, <1>4 DEF Connect, Goto, OthersOK, IdealType, ClientShape, PCs, storeVars
  <1>5. ASSUME NEW c \in Clients, MergeFlags(c)
        PROVE  OthersOK' /\ IdealType' /\ ClientShape'
    <2>1. cmd[c] \in Commands /\ cmd[c].op = "update" /\ cfg[c] \in Configs
      BY <1>0, <1>5 DEF MergeFlags, Goto, OthersOK, ClientShape
    <2>2. Merge(cfg[c], cmd[c].flags) \in Configs
      BY <2>1, CommandFields, MergeType
    <2> QED
      BY <1>0, <1>5, <2>1, <2>2, NoneIsNoConfig
      DEF MergeFlags, Goto, OthersOK, IdealType, ClientShape, PCs, storeVars
  <1>6. ASSUME NEW c \in Clients, End(c), IdealType'
        PROVE  OthersOK' /\ IdealType' /\ ClientShape'
    BY <1>0, <1>6 DEF End, OthersOK, ClientShape, PCs, storeVars
  <1>7. ASSUME NEW c \in Clients, Succeed(c)
        PROVE  OthersOK' /\ IdealType' /\ ClientShape'
    BY <1>6, <1>7, SucceedFacts DEF Succeed
  <1>8. ASSUME NEW c \in Clients, Fail(c)
        PROVE  OthersOK' /\ IdealType' /\ ClientShape'
    BY <1>2, <1>6, <1>8 DEF Fail
  <1>9. ASSUME NEW c \in Clients, ServeList(c)
        PROVE  OthersOK' /\ IdealType' /\ ClientShape'
    <2>1. cmd[c] \in Commands /\ cmd[c].op = "update"
      BY <1>0, <1>9 DEF ServeList, Goto, OthersOK, ClientShape
    <2>2. reg[cmd[c].agent] \in Configs \cup {None}
      BY <1>0, <2>1, CommandFields DEF OthersOK, Registries
    <2> QED
      BY <1>0, <1>9, <2>1, <2>2
      DEF ServeList, Goto, OthersOK, IdealType, ClientShape, PCs, storeVars
  <1>10. ASSUME NEW c \in Clients, ServeOk(c)
         PROVE  OthersOK' /\ IdealType' /\ ClientShape'
    <2>1. reg' \in Registries /\ file' \in Registries /\ up' = up
      BY <1>10, PerformFacts
    <2> QED
      BY <1>0, <1>10, <2>1 DEF ServeOk, Goto, OthersOK, IdealType, ClientShape, PCs
  <1>11. ASSUME NEW c \in Clients, ServeError(c)
         PROVE  OthersOK' /\ IdealType' /\ ClientShape'
    BY <1>0, <1>11 DEF ServeError, Goto, OthersOK, IdealType, ClientShape, PCs, storeVars
  <1>12. CASE Start
    BY <1>0, <1>12 DEF Start, Store!Start, OthersOK, IdealType, ClientShape, clientVars
  <1>13. CASE Bind
    BY <1>0, <1>13 DEF Bind, OthersOK, IdealType, ClientShape, clientVars, storeVars
  <1>14. ASSUME Die, socket' \in {"absent", "live", "stale"}
         PROVE  OthersOK' /\ IdealType' /\ ClientShape'
    <2>1. up' = FALSE /\ reg' \in Registries /\ file' = file
      BY <1>14 DEF Die, Store!Kill, Store!Empty, Registries
    <2>2. /\ pc' \in [Clients -> PCs]
          /\ \A c \in Clients : CutOff(c)
      BY <1>0, <1>14 DEF Die, OthersOK, PCs, CutOff
    <2>3. UNCHANGED <<cmd, cfg, ideal>>
      BY <1>14 DEF Die
    <2> QED
      BY <1>0, <1>14, <2>1, <2>2, <2>3 DEF OthersOK, IdealType, ClientShape, CutOff
  <1>15. CASE Exit \/ Kill
    BY <1>0, <1>14, <1>15 DEF Exit, Kill, OthersOK
  <1>16. ASSUME NEW a \in Agents, NEW f \in Configs \cup {None}, Edit(a, f)
         PROVE  OthersOK' /\ IdealType' /\ ClientShape'
    <2>1. file' \in Registries /\ UNCHANGED <<up, reg>>
      BY <1>0, <1>16 DEF Edit, Store!Edit, OthersOK, Registries
    <2> QED
      BY <1>0, <1>2, <1>16, <2>1 DEF Edit, OthersOK, ClientShape, clientVars
  <1>17. CASE UNCHANGED vars
    BY <1>0, <1>17 DEF vars, storeVars, clientVars, OthersOK, IdealType, ClientShape
  <1> QED
    BY <1>3, <1>4, <1>5, <1>7, <1>8, <1>9, <1>10, <1>11, <1>12, <1>13, <1>15, <1>16, <1>17
    DEF Next, Client, Serve

-----------------------------------------------------------------------------
(* Commands in turn.                                                       *)

\* A process that runs is busy with its command's agent.
LEMMA BusyFacts ==
  ASSUME TypeInv
  PROVE  \A c \in Clients : pc[c] # "none" =>
             /\ cmd[c] \in Commands
             /\ cmd[c].agent \in Agents
             /\ c \in Busy(cmd[c].agent)
  BY CommandFields DEF TypeInv, TypeOK, ClientShape, Busy

\* A process starts: on an agent that is busy, what is meant can no longer be
\* told.
LEMMA InvokeStep ==
  ASSUME IInv, NEW c \in Clients, NEW k \in Commands, Invoke(c, k)
  PROVE  Parts'
  <1> DEFINE a == k.agent
  <1>1. /\ IdealType /\ pc[c] = "none" /\ cmd[c] = None /\ a \in Agents
        /\ k.op \in {"register", "update", "unregister", "reload"}
    BY TypeParts, CommandFields DEF IInv, TypeInv, ClientShape, Invoke, Goto
  <1>2. /\ cmd'[c] = k /\ \A d \in Clients \ {c} : cmd'[d] = cmd[d] /\ pc'[d] = pc[d]
        /\ pc'[c] = (IF k.op = "update" THEN "list" ELSE "send")
        /\ UNCHANGED <<up, reg, file, cfg>>
    BY DEF Invoke, Goto, IInv, TypeInv, TypeOK, storeVars
  <1>3. \A b \in Agents \ {a} : Busy(b)' = Busy(b)
    BY <1>1, <1>2 DEF Busy
  <1>4. Busy(a)' = Busy(a) \cup {c}
    BY <1>1, <1>2, NoneIsNoCommand DEF Busy
  <1>5. \A b \in DOMAIN ideal' : /\ b \in DOMAIN ideal /\ b \in Agents /\ ideal'[b] = ideal[b]
                                 /\ b = a => Busy(a) = {}
    <2>1. CASE Busy(a) = {}
      BY <1>1, <2>1 DEF Invoke, IdealType
    <2>2. CASE Busy(a) # {}
      <3>1. ideal' = Spoil(a)
        BY <2>2 DEF Invoke
      <3>2. DOMAIN ideal' = DOMAIN ideal \ {a} /\ \A b \in DOMAIN ideal' : ideal'[b] = ideal[b]
        BY <1>1, <3>1, SpoilFacts
      <3> QED
        BY <1>1, <3>2 DEF IdealType
    <2> QED
      BY <2>1, <2>2
  <1> HIDE DEF a
  <1>6. FileIsMap'
    BY <1>2, <1>5 DEF IInv, Parts, FileIsMap
  <1>7. InTurn'
    BY <1>3, <1>4, <1>5 DEF IInv, Parts, InTurn
  <1>8. FileIsIdeal'
    BY <1>2, <1>3, <1>4, <1>5 DEF IInv, Parts, FileIsIdeal
  <1>9. Progress'
    <2> SUFFICES ASSUME NEW d \in Clients, pc'[d] # "none", cmd'[d].agent \in DOMAIN ideal'
                 PROVE  ProgressOf(d)'
      BY DEF Progress
    <2>1. CASE d # c
      BY <1>2, <1>5, <2>1 DEF IInv, Parts, Progress, ProgressOf
    <2>2. CASE d = c
      BY <1>2, <1>5, <2>2 DEF IInv, Parts, FileIsIdeal, ProgressOf, a
    <2> QED
      BY <2>1, <2>2
  <1> QED
    BY <1>6, <1>7, <1>8, <1>9 DEF Parts

\* A process ends, and ideal is what its command made of it.
LEMMA EndStep ==
  ASSUME IInv, NEW c \in Clients, pc[c] # "none", End(c),
         DOMAIN ideal' \subseteq DOMAIN ideal,
         \A b \in DOMAIN ideal' : b # cmd[c].agent => ideal'[b] = ideal[b],
         cmd[c].agent \in DOMAIN ideal' => ideal'[cmd[c].agent] = file[cmd[c].agent]
  PROVE  Parts'
  <1>1. PICK a \in Agents : IdealType /\ a = cmd[c].agent /\ c \in Busy(a)
    BY TypeParts, BusyFacts DEF IInv, TypeInv
  <1>2. /\ pc'[c] = "none" /\ cmd'[c] = None
        /\ \A d \in Clients \ {c} : cmd'[d] = cmd[d] /\ pc'[d] = pc[d] /\ cfg'[d] = cfg[d]
        /\ UNCHANGED <<up, reg, file>>
    BY DEF End, IInv, TypeInv, TypeOK, storeVars
  <1>3. \A b \in Agents \ {a} : Busy(b)' = Busy(b)
    BY <1>1, <1>2 DEF Busy
  <1>4. Busy(a)' = Busy(a) \ {c}
    BY <1>1, <1>2 DEF Busy
  <1>5. \A d \in Clients \ {c} : pc[d] # "none" /\ cmd[d].agent \in DOMAIN ideal => cmd[d].agent # a
    BY <1>1, BusyFacts DEF IInv, Parts, InTurn
  <1>6. FileIsMap'
    BY <1>2 DEF IInv, Parts, FileIsMap
  <1>7. InTurn'
    BY <1>1, <1>3, <1>4 DEF IInv, Parts, InTurn, IdealType
  <1>8. FileIsIdeal'
    BY <1>1, <1>2, <1>3 DEF IInv, Parts, FileIsIdeal, IdealType
  <1>9. Progress'
    <2> SUFFICES ASSUME NEW d \in Clients, pc'[d] # "none", cmd'[d].agent \in DOMAIN ideal'
                 PROVE  ProgressOf(d)'
      BY DEF Progress
    <2>1. d # c /\ ideal'[cmd[d].agent] = ideal[cmd[d].agent] /\ cmd[d].agent \in DOMAIN ideal
      BY <1>1, <1>2, <1>5
    <2> QED
      BY <1>2, <2>1 DEF IInv, Parts, Progress, ProgressOf
  <1> QED
    BY <1>6, <1>7, <1>8, <1>9 DEF Parts

\* A step of one process between its start and its end.
LEMMA ClientStep ==
  ASSUME IInv, NEW c \in Clients, pc[c] # "none",
         UNCHANGED <<cmd, ideal>>, FileIsMap',
         \A b \in DOMAIN ideal : b # cmd[c].agent => file'[b] = file[b],
         \A d \in Clients \ {c} : pc'[d] = pc[d] /\ cfg'[d] = cfg[d],
         cmd[c].agent \in DOMAIN ideal => ProgressOf(c)'
  PROVE  Parts'
  <1>1. \A a \in Agents : Busy(a)' = Busy(a)
    BY DEF Busy
  <1>2. IdealType /\ c \in Busy(cmd[c].agent)
    BY TypeParts, BusyFacts DEF IInv, TypeInv
  <1>3. InTurn'
    BY <1>1, <1>2 DEF IInv, Parts, InTurn, IdealType
  <1>4. FileIsIdeal'
    BY <1>1, <1>2 DEF IInv, Parts, FileIsIdeal, IdealType
  <1>5. Progress'
    <2> SUFFICES ASSUME NEW d \in Clients, pc'[d] # "none", cmd'[d].agent \in DOMAIN ideal'
                 PROVE  ProgressOf(d)'
      BY DEF Progress
    <2>1. CASE d = c
      BY <2>1
    <2>2. CASE d # c
      <3>1. pc[d] # "none" /\ cmd[d].agent \in DOMAIN ideal /\ ProgressOf(d)
        BY <2>2 DEF IInv, Parts, Progress
      <3>2. cmd[d].agent # cmd[c].agent
        BY <2>2, <3>1, BusyFacts DEF IInv, Parts, InTurn
      <3> QED
        BY <2>2, <3>1, <3>2 DEF ProgressOf
    <2> QED
      BY <2>1, <2>2
  <1> QED
    BY <1>3, <1>4, <1>5 DEF Parts

\* The requests and answers of a command keep to what it means.
LEMMA TalkStep ==
  ASSUME IInv, NEW c \in Clients,
         Connect(c) \/ MergeFlags(c) \/ ServeList(c) \/ ServeError(c)
  PROVE  Parts'
  <1>1. /\ pc[c] # "none" /\ cmd[c] \in Commands
        /\ cmd[c].agent \in DOMAIN ideal => ProgressOf(c)
    BY BusyFacts DEF Connect, MergeFlags, ServeList, ServeError, Goto, IInv, Parts, Progress
  <1>2. UNCHANGED <<up, reg, file, cmd, ideal>>
    BY DEF Connect, MergeFlags, ServeList, ServeError, storeVars
  <1>3. \A d \in Clients \ {c} : pc'[d] = pc[d] /\ cfg'[d] = cfg[d]
    BY DEF Connect, MergeFlags, ServeList, ServeError, Goto, IInv, TypeInv, TypeOK
  <1>4. FileIsMap'
    BY <1>2 DEF IInv, Parts, FileIsMap
  <1>5. ASSUME cmd[c].agent \in DOMAIN ideal
        PROVE  ProgressOf(c)'
    <2>1. CASE Connect(c)
      BY <1>1, <1>2, <1>5, <2>1 DEF Connect, Goto, ProgressOf, IInv, TypeInv, TypeOK, ClientShape
    <2>2. CASE MergeFlags(c)
      BY <1>1, <1>2, <1>5, <2>2 DEF MergeFlags, Goto, ProgressOf, IInv, TypeInv, TypeOK
    <2>3. CASE ServeList(c)
      <3>1. reg[cmd[c].agent] = file[cmd[c].agent]
        BY <1>5, <2>3 DEF ServeList, IInv, Parts, FileIsMap
      <3> QED
        BY <1>1, <1>2, <1>5, <2>3, <3>1 DEF ServeList, Goto, ProgressOf, IInv, TypeInv, TypeOK
    <2>4. CASE ServeError(c)
      BY <1>1, <1>2, <1>5, <2>4 DEF ServeError, Goto, ProgressOf, IInv, TypeInv, TypeOK
    <2> QED
      BY <2>1, <2>2, <2>3, <2>4
  <1> QED
    BY <1>1, <1>2, <1>3, <1>4, <1>5, ClientStep

\* The daemon performs a command: the file now says what it means.
LEMMA PerformStep ==
  ASSUME IInv, NEW c \in Clients, ServeOk(c)
  PROVE  Parts'
  <1>1. /\ pc[c] = "sending" /\ pc'[c] = "ok"
        /\ \A d \in Clients \ {c} : pc'[d] = pc[d]
        /\ UNCHANGED <<cmd, cfg, ideal>>
    BY DEF ServeOk, Goto, IInv, TypeInv, TypeOK
  <1>2. IdealType /\ TypeInv /\ cmd[c].agent \in Agents
    BY <1>1, TypeParts, BusyFacts DEF IInv, TypeInv
  <1>3. \A b \in DOMAIN ideal : b # cmd[c].agent => file'[b] = file[b]
    BY <1>2, PerformFacts DEF IdealType
  <1>4. FileIsMap'
    BY <1>1, <1>2, PerformFacts DEF IInv, Parts, FileIsMap, IdealType
  <1>5. ASSUME cmd[c].agent \in DOMAIN ideal
        PROVE  file'[cmd[c].agent] = Meaning(cmd[c], ideal[cmd[c].agent])
    <2>1. /\ file[cmd[c].agent] = ideal[cmd[c].agent]
          /\ cmd[c].op = "update" => cfg[c] = Merge(ideal[cmd[c].agent], cmd[c].flags)
      BY <1>1, <1>5 DEF IInv, Parts, Progress, ProgressOf
    <2>2. cmd[c].op \in {"register", "update", "unregister", "reload"}
      BY <1>2, PerformFacts, CommandFields
    <2> QED
      BY <1>2, <2>1, <2>2, PerformFacts DEF Meaning
  <1>6. cmd[c].agent \in DOMAIN ideal => ProgressOf(c)'
    BY <1>1, <1>5 DEF ProgressOf
  <1> QED
    BY <1>1, <1>3, <1>4, <1>6, ClientStep

\* A command reports its outcome: success is what the file says; a failure
\* other than a cut connection has changed nothing.
LEMMA OutcomeStep ==
  ASSUME IInv, NEW c \in Clients, Succeed(c) \/ Fail(c)
  PROVE  Parts'
  <1>1. pc[c] # "none" /\ End(c) /\ IdealType
    BY TypeParts DEF Succeed, Fail, IInv, TypeInv
  <1>2. CASE Succeed(c)
    BY <1>1, <1>2, SucceedFacts, EndStep DEF IInv, Parts
  <1>3. CASE Fail(c) /\ pc[c] = "closed"
    <2>1. ideal' = Spoil(cmd[c].agent)
      BY <1>3 DEF Fail
    <2>2. /\ DOMAIN ideal' = DOMAIN ideal \ {cmd[c].agent}
          /\ \A b \in DOMAIN ideal' : ideal'[b] = ideal[b]
      BY <1>1, <2>1, SpoilFacts
    <2> QED
      BY <1>1, <2>2, EndStep
  <1>4. CASE Fail(c) /\ pc[c] # "closed"
    <2>1. ideal' = ideal /\ pc[c] \notin {"ok", "closed"}
      BY <1>4 DEF Fail
    <2>2. cmd[c].agent \in DOMAIN ideal => ideal[cmd[c].agent] = file[cmd[c].agent]
      BY <1>1, <2>1 DEF IInv, Parts, Progress, ProgressOf
    <2> QED
      BY <1>1, <2>1, <2>2, EndStep
  <1> QED
    BY <1>2, <1>3, <1>4

\* Starts, ends and kills of the daemon leave the files and the commands'
\* meaning alone; an edit spoils its agent's.
LEMMA DaemonStep ==
  ASSUME IInv, \/ Start \/ Bind \/ Exit \/ Kill \/ UNCHANGED vars
               \/ \E a \in Agents, f \in Configs \cup {None} : Edit(a, f)
  PROVE  Parts'
  <1>1. IdealType /\ OthersOK
    BY TypeParts DEF IInv, TypeInv
  <1>2. ASSUME UNCHANGED <<cmd, cfg>>, FileIsMap',
               \A c \in Clients : CutOff(c),
               DOMAIN ideal' \subseteq DOMAIN ideal,
               \A b \in DOMAIN ideal' : ideal'[b] = ideal[b] /\ file'[b] = file[b]
        PROVE  Parts'
    <2>1. \A a \in Agents : Busy(a)' = Busy(a)
      BY <1>2 DEF Busy
    <2>2. InTurn' /\ FileIsIdeal'
      BY <1>1, <1>2, <2>1 DEF IInv, Parts, InTurn, FileIsIdeal, IdealType
    <2>3. Progress'
      BY <1>2 DEF IInv, Parts, Progress, ProgressOf, CutOff
    <2> QED
      BY <1>2, <2>2, <2>3 DEF Parts
  <1>3. CASE Start
    <2>1. UNCHANGED <<file, pc, cmd, cfg, ideal>> /\ reg' = file
      BY <1>3 DEF Start, Store!Start, clientVars
    <2> QED
      BY <1>2, <2>1 DEF FileIsMap, CutOff
  <1>4. CASE Bind \/ UNCHANGED vars
    <2>1. UNCHANGED <<up, reg, file, pc, cmd, cfg, ideal>>
      BY <1>4 DEF Bind, vars, storeVars, clientVars
    <2> QED
      BY <1>2, <2>1 DEF IInv, Parts, FileIsMap, CutOff
  <1>5. CASE Exit \/ Kill
    <2>1. up' = FALSE /\ UNCHANGED <<file, cmd, cfg, ideal>>
      BY <1>5 DEF Exit, Kill, Die, Store!Kill
    <2>2. \A c \in Clients : CutOff(c)
      BY <1>1, <1>5 DEF Exit, Kill, Die, OthersOK, CutOff
    <2> QED
      BY <1>2, <2>1, <2>2 DEF FileIsMap
  <1>6. ASSUME NEW a \in Agents, NEW f \in Configs \cup {None}, Edit(a, f)
        PROVE  Parts'
    <2>1. /\ DOMAIN ideal' = DOMAIN ideal \ {a}
          /\ \A b \in DOMAIN ideal' : ideal'[b] = ideal[b]
      BY <1>1, <1>6, SpoilFacts DEF Edit
    <2>2. /\ UNCHANGED <<up, reg, pc, cmd, cfg>>
          /\ \A b \in Agents \ {a} : file'[b] = file[b]
      BY <1>1, <1>6 DEF Edit, Store!Edit, clientVars, OthersOK, Registries
    <2>3. \A b \in DOMAIN ideal' : b \in DOMAIN ideal /\ file'[b] = file[b]
      BY <1>1, <2>1, <2>2 DEF IdealType
    <2>4. FileIsMap'
      BY <2>1, <2>2, <2>3 DEF IInv, Parts, FileIsMap
    <2> QED
      BY <1>2, <2>1, <2>2, <2>3, <2>4 DEF CutOff
  <1> QED
    BY <1>3, <1>4, <1>5, <1>6

\* The parts hold together in every reachable state.
THEOREM Invariance == Spec => []IInv
  <1>1. Init => IInv
    <2> SUFFICES ASSUME Init PROVE IInv
      OBVIOUS
    <2>1. TypeInv
      BY InitTypeInv
    <2>2. Parts
      BY DEF Init, Parts, FileIsMap, InTurn, FileIsIdeal, Progress, Busy
    <2> QED
      BY <2>1, <2>2 DEF IInv
  <1>2. IInv /\ [Next]_vars => IInv'
    <2> SUFFICES ASSUME IInv, [Next]_vars PROVE IInv'
      OBVIOUS
    <2>1. TypeInv'
      BY NextTypeInv DEF IInv, Parts
    <2>2. Parts'
      BY InvokeStep, TalkStep, PerformStep, OutcomeStep, DaemonStep DEF Next, Client, Serve
    <2> QED
      BY <2>1, <2>2 DEF IInv
  <1> QED
    BY <1>1, <1>2, PTL DEF Spec

\* The variables keep their types: in particular no process ever sends flags
\* where a whole config is due.
THEOREM TypeCorrect == Spec => []TypeOK
  <1>1. IInv => TypeOK
    BY DEF IInv, TypeInv
  <1> QED
    BY <1>1, Invariance, PTL

\* Commands on an agent that do not overlap are neither lost nor half done,
\* through any kills, exits and restarts of the daemon between their steps.
THEOREM CommandsInTurn == Spec => []InTurnNothingLost
  <1>1. IInv => InTurnNothingLost
    BY DEF IInv, Parts, FileIsMap, FileIsIdeal, InTurnNothingLost
  <1> QED
    BY <1>1, Invariance, PTL
=============================================================================
