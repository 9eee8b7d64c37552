-------------------------- MODULE AgentConfig_proofs --------------------------
(* Proofs about AgentConfig: the types, the consistency of the registry of *)
(* agents and connections, where deployment statuses come from, that the   *)
(* first answer to a version decides its status, and that nobody who is    *)
(* known is left with an old configuration.                                *)
EXTENDS AgentConfig, TLAPS

(* What the server sends is queued or lost. *)
LEMMA SendOnTypes ==
    ASSUME NEW queues \in [Conns -> Seq(Config)], NEW c, NEW config \in Config
    PROVE  SendOn(queues, c, config) \in [Conns -> Seq(Config)]
<1>1. CASE c \in Conns
    <2>1. Append(queues[c], config) \in Seq(Config)
        BY <1>1
    <2> QED
        BY <1>1, <2>1 DEF SendOn
<1>2. CASE c \notin Conns
    <2>1. [queues EXCEPT ![c] = Append(@, config)] = queues
        BY <1>2
    <2> QED
        BY <2>1 DEF SendOn
<1> QED
    BY <1>1, <1>2

(* A recommendation is a version of the table and contents. *)
LEMMA RecommendationTypes == ASSUME DbTypes PROVE Recommendation \in Config
<1>1. Latest \in 0 .. MaxVersion
    BY AgentConfigAssumption DEF DbTypes, Latest
<1>2. Latest # 0 => versions[Latest] \in Row
    BY DEF DbTypes, Latest
<1> QED
    BY <1>1, <1>2, AgentConfigAssumption DEF Recommendation, Config, Row

(* Starting a deployment changes no more than a status. *)
LEMMA InitiatedTypes ==
    ASSUME DbTypes
    PROVE  /\ Initiated \in Seq(Row)
           /\ Len(Initiated) = Len(versions)
           /\ \A v \in DOMAIN versions :
                Initiated[v].status \in {versions[v].status, "IN_PROGRESS"}
<1>1. CASE Latest = 0
    BY <1>1 DEF Initiated, DbTypes, Row
<1>2. CASE Latest # 0
    <2>1. /\ Latest \in DOMAIN versions
          /\ versions[Latest] \in Row
        BY <1>2 DEF DbTypes, Latest
    <2>2. [versions[Latest] EXCEPT !.status = "IN_PROGRESS"] \in Row
        BY <2>1 DEF Row
    <2>3. Initiated = [versions EXCEPT ![Latest] = [versions[Latest] EXCEPT !.status = "IN_PROGRESS"]]
        BY <1>2 DEF Initiated
    <2>4. /\ Initiated \in Seq(Row)
          /\ Len(Initiated) = Len(versions)
        BY <2>1, <2>2, <2>3 DEF DbTypes
    <2>5. ASSUME NEW v \in DOMAIN versions
          PROVE  Initiated[v].status \in {versions[v].status, "IN_PROGRESS"}
        <3>1. CASE v = Latest
            BY <2>1, <2>3, <3>1 DEF DbTypes, Row
        <3>2. CASE v # Latest
            BY <2>1, <2>3, <3>2 DEF DbTypes
        <3> QED
            BY <3>1, <3>2
    <2> QED
        BY <2>4, <2>5
<1> QED
    BY <1>1, <1>2

(* An answer changes no more than the status of its version. *)
LEMMA DeployedTypes ==
    ASSUME DbTypes, NEW answer \in Answer
    PROVE  /\ Deployed(answer) \in Seq(Row)
           /\ Len(Deployed(answer)) = Len(versions)
           /\ \A v \in DOMAIN versions :
                \/ Deployed(answer)[v].status = versions[v].status
                \/ /\ v = answer.version
                   /\ Deployed(answer)[v].status = IF answer.ok THEN "DEPLOYED" ELSE "FAILED"
<1>1. ASSUME NEW v \in DOMAIN versions
      PROVE  /\ Deployed(answer)[v] \in Row
             /\ \/ Deployed(answer)[v].status = versions[v].status
                \/ /\ v = answer.version
                   /\ Deployed(answer)[v].status = IF answer.ok THEN "DEPLOYED" ELSE "FAILED"
    <2>1. versions[v] \in Row
        BY DEF DbTypes
    <2> QED
        BY <2>1 DEF Deployed, Row
<1>2. DOMAIN versions = 1 .. Len(versions) /\ Len(versions) \in Nat
    BY DEF DbTypes
<1>3. Deployed(answer) = [v \in 1 .. Len(versions) |-> Deployed(answer)[v]]
    BY <1>2 DEF Deployed
<1>4. Deployed(answer) \in [1 .. Len(versions) -> Row]
    BY <1>1, <1>2, <1>3
<1> QED
    BY <1>1, <1>2, <1>4

LEMMA ReportedTypes ==
    ASSUME NEW object \in Object, NEW msg \in Message
    PROVE  Reported(object, msg) \in Object
BY AgentConfigAssumption DEF Reported, Object, Message

-----------------------------------------------------------------------------
(* Types. *)
LEMMA InitTypes == Init => TypeOK
<1> SUFFICES ASSUME Init PROVE TypeOK
    OBVIOUS
<1> USE AgentConfigAssumption
<1>1. DbTypes
    BY DEF Init, DbTypes, Latest
<1>2. RolloutTypes
    BY DEF Init, RolloutTypes, NoRollout
<1>3. RegistryTypes
    BY DEF Init, RegistryTypes, Object, NewObject
<1>4. HandlingTypes
    BY DEF Init, HandlingTypes, Handling, Idle
<1>5. NetTypes
    BY DEF Init, NetTypes
<1> QED
    BY <1>1, <1>2, <1>3, <1>4, <1>5 DEF TypeOK

(* A table of the same length with rows of the same kind. *)
LEMMA SameLengthTypes ==
    ASSUME DbTypes, versions' \in Seq(Row), Len(versions') = Len(versions),
           saving' = saving, waiting' \in Nat
    PROVE  DbTypes'
BY DEF DbTypes, Latest

LEMMA InsertVersionTypes ==
    ASSUME TypeOK, NEW content \in Contents, InsertVersion(content) PROVE TypeOK'
<1> USE AgentConfigAssumption DEF TypeOK
<1>1. [content |-> Base, status |-> "DIRTY"] \in Row
    BY DEF Row
<1>2. DbTypes'
    <2>1. versions' \in Seq(Row) /\ Latest' = Latest + 1 /\ Latest \in Nat
        BY <1>1 DEF InsertVersion, DbTypes, Latest
    <2>2. Latest' <= MaxVersion
        BY <2>1 DEF InsertVersion
    <2>3. saving' \subseteq [version : 1 .. Latest', content : Contents]
        BY <2>1 DEF InsertVersion, DbTypes
    <2> QED
        BY <2>1, <2>2, <2>3 DEF InsertVersion, DbTypes
<1>3. RolloutTypes' /\ RegistryTypes' /\ HandlingTypes' /\ NetTypes'
    BY DEF InsertVersion, RolloutTypes, RegistryTypes, HandlingTypes, NetTypes,
           registryVars, netVars
<1> QED
    BY <1>2, <1>3

LEMMA InsertElementsTypes ==
    ASSUME TypeOK, NEW s \in saving, InsertElements(s) PROVE TypeOK'
<1> USE AgentConfigAssumption DEF TypeOK
<1>1. DbTypes'
    <2>1. s.version \in DOMAIN versions /\ s.content \in Contents
        BY DEF DbTypes, Latest
    <2>2. versions[s.version] \in Row
        BY <2>1 DEF DbTypes
    <2>3. [versions[s.version] EXCEPT !.content = s.content] \in Row
        BY <2>1, <2>2 DEF Row
    <2>4. versions' = [versions EXCEPT ![s.version] = [versions[s.version] EXCEPT !.content = s.content]]
        BY DEF InsertElements
    <2>5. versions' \in Seq(Row) /\ Len(versions') = Len(versions)
        BY <2>1, <2>3, <2>4 DEF DbTypes
    <2> QED
        BY <2>5 DEF InsertElements, DbTypes, Latest, Notified
<1>2. RolloutTypes'
    BY DEF InsertElements, RolloutTypes, DbTypes, Notified
<1>3. RegistryTypes' /\ HandlingTypes' /\ NetTypes'
    BY DEF InsertElements, RegistryTypes, HandlingTypes, NetTypes, registryVars, netVars
<1> QED
    BY <1>1, <1>2, <1>3

(* The steps of a rollout but SendToAgent. *)
LEMMA RolloutStepTypes ==
    ASSUME TypeOK,
           \/ StartRollout \/ EndRollout \/ ListenToConfigUpdate
           \/ \E o \in Objects : FailRollout(o) \/ SameForAgent(o) \/ Recommend(o)
    PROVE  TypeOK'
<1> USE AgentConfigAssumption DEF TypeOK
<1> HandlingTypes' /\ NetTypes'
    BY DEF StartRollout, EndRollout, FailRollout, SameForAgent, Recommend, ListenToConfigUpdate,
           HandlingTypes, NetTypes, netVars
<1>1. CASE StartRollout
    <2>1. DbTypes' /\ RegistryTypes'
        BY <1>1 DEF StartRollout, DbTypes, dbVars, Latest, RegistryTypes, registryVars
    <2>2. RolloutTypes'
        BY <1>1 DEF StartRollout, RolloutTypes, NoRollout, Known, dbVars
    <2> QED
        BY <2>1, <2>2
<1>2. CASE EndRollout
    <2>1. waiting' \in Nat
        BY <1>2 DEF EndRollout, RolloutTypes, DbTypes
    <2>2. DbTypes'
        BY <1>2, <2>1 DEF EndRollout, DbTypes, Latest
    <2>3. RegistryTypes' /\ RolloutTypes'
        BY <1>2 DEF EndRollout, RegistryTypes, registryVars, RolloutTypes, NoRollout
    <2> QED
        BY <2>2, <2>3
<1>3. ASSUME NEW o \in Objects, FailRollout(o) PROVE TypeOK'
    <2>1. waiting' \in Nat
        BY <1>3 DEF FailRollout, RolloutTypes, DbTypes
    <2>2. DbTypes'
        BY <1>3, <2>1 DEF FailRollout, DbTypes, Latest
    <2>3. RegistryTypes' /\ RolloutTypes'
        BY <1>3 DEF FailRollout, RegistryTypes, registryVars, RolloutTypes, NoRollout
    <2> QED
        BY <2>2, <2>3
<1>4. ASSUME NEW o \in Objects, SameForAgent(o) PROVE TypeOK'
    <2>1. waiting' \in Nat
        BY <1>4 DEF SameForAgent, RolloutTypes, DbTypes
    <2>2. DbTypes'
        BY <1>4, <2>1, InitiatedTypes, SameLengthTypes DEF SameForAgent
    <2>3. RegistryTypes' /\ RolloutTypes'
        BY <1>4 DEF SameForAgent, RegistryTypes, registryVars, RolloutTypes, NoRollout
    <2> QED
        BY <2>2, <2>3
<1>5. ASSUME NEW o \in Objects, Recommend(o) PROVE TypeOK'
    <2>1. DbTypes'
        <3>1. waiting' \in Nat
            BY <1>5 DEF Recommend, DbTypes
        <3> QED
            BY <1>5, <3>1, InitiatedTypes, SameLengthTypes DEF Recommend
    <2>2. RolloutTypes'
        <3>1. o # None /\ Recommendation # None /\ Recommendation \in Config
            BY RecommendationTypes, NoneIsNothing
        <3> QED
            BY <1>5, <3>1 DEF Recommend, RolloutTypes
    <2>3. RegistryTypes'
        BY <1>5 DEF Recommend, RegistryTypes, registryVars
    <2> QED
        BY <2>1, <2>2, <2>3
<1>6. CASE ListenToConfigUpdate
    <2>1. rollout.config \in Config
        BY <1>6 DEF ListenToConfigUpdate, RolloutTypes
    <2>2. DbTypes' /\ RolloutTypes'
        BY <1>6 DEF ListenToConfigUpdate, DbTypes, dbVars, Latest, RolloutTypes
    <2>3. RegistryTypes'
        BY <1>6, <2>1 DEF ListenToConfigUpdate, RegistryTypes, registryVars, Config
    <2> QED
        BY <2>2, <2>3
<1> QED
    BY <1>1, <1>2, <1>3, <1>4, <1>5, <1>6

LEMMA SendToAgentTypes == ASSUME TypeOK, SendToAgent PROVE TypeOK'
<1> USE AgentConfigAssumption DEF TypeOK
<1>1. rollout.object \in Objects /\ rollout.config \in Config /\ rollout.config # None
    BY DEF SendToAgent, RolloutTypes
<1>2. DbTypes'
    BY DEF SendToAgent, DbTypes, dbVars, Latest
<1>3. RolloutTypes'
    BY <1>1 DEF SendToAgent, RolloutTypes, HeldOnSending, dbVars
<1>4. RegistryTypes'
    BY <1>1 DEF SendToAgent, RegistryTypes, registryVars, Object
<1>5. HandlingTypes'
    BY DEF SendToAgent, HandlingTypes
<1>6. NetTypes'
    BY <1>1, SendOnTypes DEF SendToAgent, NetTypes
<1> QED
    BY <1>2, <1>3, <1>4, <1>5, <1>6

(* One connection's handler moves on. *)
LEMMA HandlerMoves ==
    ASSUME HandlingTypes, NEW c \in Conns, NEW next \in Handling,
           handling' = [handling EXCEPT ![c] = next],
           next.pc \in {"arrived", "update"} => next.msg # None,
           next.pc \in {"update", "listen"} => next.object # None,
           next.pc = "listen" => next.config # None
    PROVE  HandlingTypes'
BY DEF HandlingTypes

LEMMA FindOrCreateAgentTypes ==
    ASSUME TypeOK, NEW c \in Conns, FindOrCreateAgent(c) PROVE TypeOK'
<1> USE AgentConfigAssumption DEF TypeOK
<1> DEFINE msg == handling[c].msg
           a == msg.agent
<1>1. msg \in Message /\ msg # None /\ a \in Agents
    BY DEF FindOrCreateAgent, HandlingTypes, Handling, Message
<1>2. DbTypes' /\ RolloutTypes' /\ NetTypes'
    BY DEF FindOrCreateAgent, DbTypes, dbVars, Latest, RolloutTypes, NetTypes, netVars
<1>3. agentsById' \in [Agents -> Conns \cup {None}] /\ agentsById'[a] \in Conns
    <2>1. agentsById' = IF agentsById[a] = None THEN [agentsById EXCEPT ![a] = c] ELSE agentsById
        BY DEF FindOrCreateAgent
    <2> QED
        BY <1>1, <2>1 DEF RegistryTypes
<1>4. NewObject \in Object
    BY DEF NewObject, Object
<1>5. RegistryTypes'
    BY <1>1, <1>3, <1>4 DEF FindOrCreateAgent, RegistryTypes, ConnectionsWith
<1>6. <<a, agentsById'[a]>> \in Objects /\ <<a, agentsById'[a]>> # None
    BY <1>1, <1>3, NoneIsNothing DEF Objects
<1>7. handling' = [handling EXCEPT ![c].pc = "update", ![c].object = <<a, agentsById'[a]>>]
    BY DEF FindOrCreateAgent
<1>8. HandlingTypes'
    <2> DEFINE next == [handling[c] EXCEPT !.pc = "update", !.object = <<a, agentsById'[a]>>]
    <2>1. handling[c] \in Handling
        BY DEF HandlingTypes
    <2>2. next \in Handling /\ next.msg # None /\ next.object # None /\ next.pc = "update"
        BY <1>1, <1>6, <2>1 DEF Handling
    <2>3. handling' = [handling EXCEPT ![c] = next]
        BY <1>7, <2>1 DEF HandlingTypes
    <2> QED
        BY <2>2, <2>3, HandlerMoves
<1> QED
    BY <1>2, <1>5, <1>8

LEMMA UpdateNewAgentTypes ==
    ASSUME TypeOK, NEW c \in Conns, UpdateNewAgent(c) PROVE TypeOK'
<1> USE AgentConfigAssumption DEF TypeOK
<1> DEFINE o == handling[c].object
           msg == handling[c].msg
<1>1. o \in Objects /\ msg \in Message /\ o[2] \in Conns
    BY DEF UpdateNewAgent, HandlingTypes, Handling, Objects
<1>2. Recommendation \in Config /\ Recommendation # None
    BY RecommendationTypes, NoneIsNothing
<1>3. DbTypes'
    <2>1. waiting' \in Nat
        BY DEF UpdateNewAgent, DbTypes
    <2>2. versions' = Initiated /\ saving' = saving
        BY DEF UpdateNewAgent
    <2> QED
        BY <2>1, <2>2, InitiatedTypes, SameLengthTypes
<1>4. RolloutTypes'
    BY DEF UpdateNewAgent, RolloutTypes
<1>5. RegistryTypes'
    <2>1. Reported(objects[o], msg) \in Object
        BY <1>1, ReportedTypes DEF RegistryTypes
    <2>2. [Reported(objects[o], msg) EXCEPT !.remote = Recommendation] \in Object
        BY <1>2, <2>1 DEF Object
    <2>3. objects' = [objects EXCEPT ![o] = [Reported(objects[o], msg) EXCEPT !.remote = Recommendation]]
        BY DEF UpdateNewAgent
    <2> QED
        BY <1>1, <2>2, <2>3 DEF UpdateNewAgent, RegistryTypes, registryVars
<1>6. HandlingTypes'
    <2> DEFINE next == [handling[c] EXCEPT !.pc = "listen", !.msg = None,
                                           !.config = Recommendation]
    <2>1. handling[c] \in Handling /\ handling[c].object # None
        BY DEF UpdateNewAgent, HandlingTypes
    <2>2. next \in Handling /\ next.object # None /\ next.config # None /\ next.pc = "listen"
        BY <1>2, <2>1 DEF Handling
    <2>3. handling' = [handling EXCEPT ![c] = next]
        BY <2>1 DEF UpdateNewAgent, HandlingTypes
    <2> QED
        BY <2>2, <2>3, HandlerMoves
<1>7. NetTypes'
    BY <1>1, <1>2, SendOnTypes DEF UpdateNewAgent, NetTypes
<1> QED
    BY <1>3, <1>4, <1>5, <1>6, <1>7

LEMMA UpdateStatusTypes ==
    ASSUME TypeOK, NEW c \in Conns, UpdateStatus(c) PROVE TypeOK'
<1> USE AgentConfigAssumption DEF TypeOK
<1> DEFINE o == handling[c].object
           msg == handling[c].msg
           object == Reported(objects[o], msg)
           again == /\ object.status # None
                    /\ object.remote # None
                    /\ object.status.version # object.remote.version
<1>1. o \in Objects /\ msg \in Message /\ o[2] \in Conns
    BY DEF UpdateStatus, HandlingTypes, Handling, Objects
<1>2. object \in Object
    BY <1>1, ReportedTypes DEF RegistryTypes
<1>3. again => object.remote \in Config
    BY <1>2 DEF Object
<1>4. AnswerIsNew(objects[o], msg) => msg.status \in Answer
    BY <1>1 DEF AnswerIsNew, Message
<1>5. DbTypes'
    <2>1. versions' \in Seq(Row) /\ Len(versions') = Len(versions)
        <3>1. versions' = Answered(objects[o], msg)
            BY DEF UpdateStatus
        <3> QED
            BY <1>4, <3>1, DeployedTypes DEF Answered, DbTypes
    <2>2. saving' = saving /\ waiting' \in Nat
        BY DEF UpdateStatus, DbTypes
    <2> QED
        BY <2>1, <2>2, SameLengthTypes
<1>6. RolloutTypes'
    BY DEF UpdateStatus, RolloutTypes
<1>7. RegistryTypes'
    <2>1. /\ objects' = [objects EXCEPT ![o] = object]
          /\ subscribers' \subseteq subscribers
          /\ heard' \subseteq heard \cup {msg.status}
          /\ AnswerIsNew(objects[o], msg) \/ heard' = heard
          /\ UNCHANGED <<agentsById, connections, skipped>>
        BY DEF UpdateStatus, registryVars
    <2> QED
        BY <1>1, <1>2, <1>4, <2>1 DEF RegistryTypes
<1>8. HandlingTypes'
    <2> DEFINE next == IF again
                       THEN [handling[c] EXCEPT !.pc = "listen", !.msg = None,
                                                !.config = object.remote]
                       ELSE Idle
    <2>1. handling[c] \in Handling /\ handling[c].object # None
        BY DEF UpdateStatus, HandlingTypes
    <2>2. /\ next \in Handling
          /\ next.pc \in {"listen", "idle"}
          /\ next.pc = "listen" => next.object # None /\ next.config # None
        BY <1>3, <2>1 DEF Handling, Idle
    <2>3. handling' = [handling EXCEPT ![c] = next]
        BY <2>1 DEF UpdateStatus, HandlingTypes
    <2> QED
        BY <2>2, <2>3, HandlerMoves
<1>9. NetTypes'
    <2>1. down' = IF again THEN SendOn(down, o[2], object.remote) ELSE down
        BY DEF UpdateStatus
    <2>2. down' \in [Conns -> Seq(Config)]
        BY <1>3, <2>1, SendOnTypes DEF NetTypes
    <2> QED
        BY <2>2 DEF UpdateStatus, NetTypes
<1> QED
    BY <1>5, <1>6, <1>7, <1>8, <1>9

LEMMA RespondTypes == ASSUME TypeOK, NEW c \in Conns, Respond(c) PROVE TypeOK'
<1> USE AgentConfigAssumption DEF TypeOK
<1>1. handling[c].config \in Config /\ handling[c].config.version \in 0 .. MaxVersion
    BY DEF Respond, HandlingTypes, Handling, Config
<1>2. DbTypes' /\ RolloutTypes'
    BY DEF Respond, DbTypes, dbVars, Latest, RolloutTypes
<1>3. RegistryTypes'
    BY <1>1 DEF Respond, RegistryTypes, registryVars
<1>4. HandlingTypes'
    <2>1. Idle \in Handling /\ Idle.pc = "idle"
        BY DEF Idle, Handling
    <2> QED
        BY <2>1, HandlerMoves DEF Respond
<1>5. NetTypes'
    BY <1>1, SendOnTypes DEF Respond, NetTypes
<1> QED
    BY <1>2, <1>3, <1>4, <1>5

LEMMA RemoveConnectionTypes ==
    ASSUME TypeOK, NEW c \in Conns, RemoveConnection(c) PROVE TypeOK'
<1> USE DEF TypeOK
<1>1. DbTypes' /\ RolloutTypes' /\ HandlingTypes'
    BY DEF RemoveConnection, DbTypes, dbVars, Latest, RolloutTypes, HandlingTypes
<1>2. RegistryTypes' /\ NetTypes'
    BY DEF RemoveConnection, RegistryTypes, NetTypes
<1> QED
    BY <1>1, <1>2

(* The agents. *)
LEMMA ArrivedTypes ==
    ASSUME NEW msg \in Message
    PROVE  Arrived(msg) \in Handling /\ Arrived(msg).pc = "arrived" /\ Arrived(msg).msg # None
BY NoneIsNothing DEF Arrived, Idle, Handling

LEMMA AgentTypes ==
    ASSUME TypeOK, NEW a \in Agents,
           \/ \E c \in Conns : Connect(a, c)
           \/ \E ok \in BOOLEAN : Apply(a, ok)
           \/ Leave(a)
    PROVE  TypeOK'
<1> USE AgentConfigAssumption DEF TypeOK
<1>1. ASSUME NEW c \in Conns, Connect(a, c) PROVE TypeOK'
    <2>1. Status(a) \in Message
        BY DEF Status, Message, NetTypes
    <2>2. DbTypes' /\ RolloutTypes' /\ RegistryTypes'
        BY <1>1 DEF Connect, DbTypes, dbVars, Latest, RolloutTypes, RegistryTypes, registryVars
    <2>3. HandlingTypes'
        BY <1>1, <2>1, ArrivedTypes, HandlerMoves DEF Connect
    <2>4. NetTypes'
        BY <1>1 DEF Connect, NetTypes
    <2> QED
        BY <2>2, <2>3, <2>4
<1>2. ASSUME NEW ok \in BOOLEAN, Apply(a, ok) PROVE TypeOK'
    <2> DEFINE c == agents[a].link
               config == Head(down[c])
    <2>1. c \in Conns
        BY <1>2 DEF Apply, NetTypes
    <2>2. config \in Config /\ Tail(down[c]) \in Seq(Config)
        <3>1. down[c] \in Seq(Config) /\ down[c] # <<>>
            BY <1>2, <2>1 DEF Apply, NetTypes
        <3> HIDE DEF c
        <3> QED
            BY <3>1
    <2>3. [version |-> config.version, ok |-> ok] \in Answer /\ config.content \in Contents
        BY <2>2 DEF Config, Answer
    <2>4. NetTypes'
        <3> DEFINE answer == [version |-> config.version, ok |-> ok]
                   effective == IF ok THEN config.content ELSE agents[a].effective
        <3>1. /\ agents' = [agents EXCEPT ![a].effective = effective, ![a].status = answer]
              /\ down' = [down EXCEPT ![c] = Tail(down[c])]
              /\ net' = net
            BY <1>2 DEF Apply
        <3>2. effective \in Contents
            BY <2>3 DEF NetTypes
        <3> HIDE DEF c, config, answer, effective
        <3>3. answer \in Answer
            BY <2>3 DEF answer
        <3> QED
            BY <2>1, <2>2, <3>1, <3>2, <3>3 DEF NetTypes
    <2>5. Status(a)' \in Message
        BY <2>4 DEF Status, Message, NetTypes
    <2>6. DbTypes' /\ RolloutTypes' /\ RegistryTypes'
        BY <1>2 DEF Apply, DbTypes, dbVars, Latest, RolloutTypes, RegistryTypes, registryVars
    <2>7. HandlingTypes'
        <3>1. handling' = [handling EXCEPT ![c] = Arrived(Status(a)')]
            BY <1>2 DEF Apply
        <3> QED
            BY <2>1, <2>5, <3>1, ArrivedTypes, HandlerMoves
    <2> QED
        BY <2>4, <2>6, <2>7
<1>3. CASE Leave(a)
    <2> DEFINE c == agents[a].link
    <2>1. c \in Conns
        BY <1>3 DEF Leave, NetTypes
    <2>2. DbTypes' /\ RolloutTypes' /\ RegistryTypes'
        BY <1>3 DEF Leave, DbTypes, dbVars, Latest, RolloutTypes, RegistryTypes, registryVars
    <2>3. HandlingTypes'
        <3>1. CASE UNCHANGED handling
            BY <3>1 DEF HandlingTypes
        <3>2. CASE handling' = [handling EXCEPT ![c] = Idle]
            <4>1. Idle \in Handling /\ Idle.pc = "idle"
                BY DEF Idle, Handling
            <4> QED
                BY <2>1, <3>2, <4>1, HandlerMoves
        <3> QED
            BY <1>3, <3>1, <3>2 DEF Leave
    <2>4. NetTypes'
        <3>1. /\ agents' = [agents EXCEPT ![a].link = None]
              /\ net' = [net EXCEPT ![c] = "left"]
              /\ down' = [down EXCEPT ![c] = <<>>]
            BY <1>3 DEF Leave
        <3> HIDE DEF c
        <3>2. down' \in [Conns -> Seq(Config)]
            BY <2>1, <3>1 DEF NetTypes
        <3>3. net' \in [Conns -> {"new", "open", "left", "closed"}]
            BY <2>1, <3>1 DEF NetTypes
        <3>4. agents' \in [Agents -> [link : Conns \cup {None}, effective : Contents,
                                      status : Answer \cup {None}]]
            BY <3>1 DEF NetTypes
        <3> QED
            BY <3>2, <3>3, <3>4 DEF NetTypes
    <2> QED
        BY <2>2, <2>3, <2>4
<1> QED
    BY <1>1, <1>2, <1>3

-----------------------------------------------------------------------------
LEMMA StutterTypes == ASSUME TypeOK, UNCHANGED vars PROVE TypeOK'
BY DEF vars, TypeOK, DbTypes, Latest, RolloutTypes, RegistryTypes, HandlingTypes, NetTypes

LEMMA ServerTypes == ASSUME TypeOK, Server PROVE TypeOK'
<1>1. CASE \E s \in saving : InsertElements(s)
    BY <1>1, InsertElementsTypes
<1>2. CASE StartRollout \/ EndRollout \/ ListenToConfigUpdate
           \/ \E o \in Objects : FailRollout(o) \/ SameForAgent(o) \/ Recommend(o)
    BY <1>2, RolloutStepTypes
<1>3. CASE SendToAgent
    BY <1>3, SendToAgentTypes
<1>4. ASSUME NEW c \in Conns,
             FindOrCreateAgent(c) \/ UpdateNewAgent(c) \/ UpdateStatus(c)
             \/ Respond(c) \/ RemoveConnection(c)
      PROVE  TypeOK'
    BY <1>4, FindOrCreateAgentTypes, UpdateNewAgentTypes, UpdateStatusTypes, RespondTypes,
       RemoveConnectionTypes
<1> QED
    BY <1>1, <1>2, <1>3, <1>4 DEF Server

LEMMA NextTypes == ASSUME TypeOK, [Next]_vars PROVE TypeOK'
<1>1. ASSUME NEW content \in Contents, InsertVersion(content) PROVE TypeOK'
    BY <1>1, InsertVersionTypes
<1>2. CASE Server
    BY <1>2, ServerTypes
<1>3. ASSUME NEW a \in Agents,
             \/ \E c \in Conns : Connect(a, c)
             \/ \E ok \in BOOLEAN : Apply(a, ok)
             \/ Leave(a)
      PROVE  TypeOK'
    BY <1>3, AgentTypes
<1>4. CASE UNCHANGED vars
    BY <1>4, StutterTypes
<1> QED
    BY <1>1, <1>2, <1>3, <1>4 DEF Next

(* Every state the rollout can reach is well typed: in particular a        *)
(* handler that updates an agent holds its object, and whoever listens     *)
(* knows what it has sent.                                                 *)
THEOREM TypeCorrect == Spec => []TypeOK
<1>1. Init => TypeOK
    BY InitTypes
<1>2. TypeOK /\ [Next]_vars => TypeOK'
    BY NextTypes
<1> QED
    BY <1>1, <1>2, PTL DEF Spec

-----------------------------------------------------------------------------
(* The two maps of the registry change together, in FindOrCreateAgent and  *)
(* in RemoveConnection.                                                    *)
LEMMA RegistryStep ==
    ASSUME TypeOK, RegistryConsistent, [Next]_vars PROVE RegistryConsistent'
<1> USE DEF RegistryConsistent
<1>1. ASSUME NEW c \in Conns, FindOrCreateAgent(c) PROVE RegistryConsistent'
    <2> DEFINE a == handling[c].msg.agent
    <2>1. a \in Agents
        BY <1>1 DEF FindOrCreateAgent, TypeOK, HandlingTypes, Handling, Message
    <2>2. /\ agentsById' = IF agentsById[a] = None THEN [agentsById EXCEPT ![a] = c]
                                                  ELSE agentsById
          /\ connections' = IF agentsById[a] = None
                            THEN [connections EXCEPT ![c] = connections[c] \cup {a}]
                            ELSE connections
        BY <1>1 DEF FindOrCreateAgent, ConnectionsWith
    <2>3. /\ agentsById \in [Agents -> Conns \cup {None}]
          /\ connections \in [Conns -> SUBSET Agents]
        BY DEF TypeOK, RegistryTypes
    <2>4. None \notin Conns
        BY AgentConfigAssumption
    <2> HIDE DEF a
    <2>5. CASE agentsById[a] = None
        BY <2>1, <2>2, <2>3, <2>4, <2>5
    <2>6. CASE agentsById[a] # None
        BY <2>2, <2>6
    <2> QED
        BY <2>5, <2>6
<1>2. ASSUME NEW c \in Conns, RemoveConnection(c) PROVE RegistryConsistent'
    <2>1. None \notin Conns
        BY AgentConfigAssumption
    <2> QED
        BY <1>2, <2>1 DEF RemoveConnection, TypeOK, RegistryTypes
<1>3. CASE UNCHANGED registryVars
    BY <1>3 DEF registryVars
<1>4. CASE UNCHANGED vars
    BY <1>4 DEF vars
<1>5. ASSUME NEW content \in Contents, InsertVersion(content) PROVE UNCHANGED registryVars
    BY <1>5 DEF InsertVersion
<1>6. ASSUME NEW a \in Agents,
             \/ \E c \in Conns : Connect(a, c)
             \/ \E ok \in BOOLEAN : Apply(a, ok)
             \/ Leave(a)
      PROVE  UNCHANGED registryVars
    BY <1>6 DEF Connect, Apply, Leave
<1>7. CASE Server
    <2>1. ASSUME NEW s \in saving, InsertElements(s) PROVE UNCHANGED registryVars
        BY <2>1 DEF InsertElements
    <2>2. ASSUME NEW o \in Objects, FailRollout(o) \/ SameForAgent(o) \/ Recommend(o)
          PROVE  UNCHANGED registryVars
        BY <2>2 DEF FailRollout, SameForAgent, Recommend
    <2>3. ASSUME StartRollout \/ EndRollout \/ SendToAgent \/ ListenToConfigUpdate
          PROVE  UNCHANGED registryVars
        BY <2>3 DEF StartRollout, EndRollout, SendToAgent, ListenToConfigUpdate
    <2>4. ASSUME NEW c \in Conns, UpdateNewAgent(c) \/ UpdateStatus(c) \/ Respond(c)
          PROVE  UNCHANGED registryVars
        BY <2>4 DEF UpdateNewAgent, UpdateStatus, Respond
    <2> QED
        BY <1>1, <1>2, <1>3, <1>7, <2>1, <2>2, <2>3, <2>4 DEF Server
<1> QED
    BY <1>3, <1>4, <1>5, <1>6, <1>7 DEF Next

(* The registry's two maps agree, for any number of agents and             *)
(* connections: RemoveConnection finds every agent it looks up, and leaves *)
(* none behind that no connection will remove.                             *)
THEOREM RegistryAlways == Spec => []RegistryConsistent
<1>1. Init => RegistryConsistent
    BY AgentConfigAssumption DEF Init, RegistryConsistent
<1>2. TypeOK /\ RegistryConsistent /\ [Next]_vars => RegistryConsistent'
    BY RegistryStep
<1> QED
    BY <1>1, <1>2, TypeCorrect, PTL DEF Spec

-----------------------------------------------------------------------------
(* A table whose rows keep their status, or start a deployment, with the   *)
(* answers handled before still on record.                                 *)
LEMMA StatusKept ==
    ASSUME StatusWasAnswered, heard \subseteq heard',
           \A v \in DOMAIN versions' :
              \/ versions'[v].status \in {"DIRTY", "IN_PROGRESS"}
              \/ v \in DOMAIN versions /\ versions'[v].status = versions[v].status
    PROVE  StatusWasAnswered'
BY DEF StatusWasAnswered

LEMMA StatusInitiated ==
    ASSUME TypeOK, StatusWasAnswered, versions' = Initiated, heard' = heard
    PROVE  StatusWasAnswered'
<1>1. DbTypes
    BY DEF TypeOK
<1>2. DOMAIN versions' = DOMAIN versions
    BY <1>1, InitiatedTypes DEF DbTypes
<1>3. \A v \in DOMAIN versions : versions'[v].status \in {versions[v].status, "IN_PROGRESS"}
    BY <1>1, InitiatedTypes
<1> QED
    BY <1>2, <1>3, StatusKept

(* An answer is on record before it decides a status. *)
LEMMA StatusAnswered ==
    ASSUME TypeOK, StatusWasAnswered, NEW c \in Conns, UpdateStatus(c)
    PROVE  StatusWasAnswered'
<1> DEFINE o == handling[c].object
           msg == handling[c].msg
           new == AnswerIsNew(objects[o], msg)
<1>1. /\ heard' = IF new /\ msg.status.version > 0 THEN heard \cup {msg.status} ELSE heard
      /\ versions' = IF new /\ msg.status.version \in subscribers THEN Deployed(msg.status)
                                                                  ELSE versions
    BY DEF UpdateStatus, Answered
<1>2. heard \subseteq heard'
    BY <1>1
<1>3. CASE ~ (new /\ msg.status.version \in subscribers)
    <2>1. versions' = versions
        BY <1>1, <1>3
    <2> QED
        BY <1>2, <2>1, StatusKept
<1>4. CASE new /\ msg.status.version \in subscribers
    <2>1. msg.status \in Answer
        BY <1>4 DEF AnswerIsNew, UpdateStatus, TypeOK, HandlingTypes, Handling, Message
    <2>2. versions' = Deployed(msg.status) /\ (msg.status.version > 0 => msg.status \in heard')
        BY <1>1, <1>4
    <2>3. DOMAIN versions' = DOMAIN versions /\ \A v \in DOMAIN versions : v > 0
        BY <2>1, <2>2, DeployedTypes DEF DbTypes, TypeOK
    <2>4. \A v \in DOMAIN versions :
             \/ versions'[v].status = versions[v].status
             \/ /\ v = msg.status.version
                /\ versions'[v].status = IF msg.status.ok THEN "DEPLOYED" ELSE "FAILED"
        BY <2>1, <2>2, DeployedTypes DEF TypeOK
    <2>5. msg.status = [version |-> msg.status.version, ok |-> msg.status.ok]
          /\ msg.status.ok \in BOOLEAN
        BY <2>1 DEF Answer
    <2> HIDE DEF msg
    <2> QED
        BY <1>2, <2>2, <2>3, <2>4, <2>5 DEF StatusWasAnswered
<1> QED
    BY <1>3, <1>4

LEMMA StatusInserted ==
    ASSUME TypeOK, StatusWasAnswered,
           \/ \E content \in Contents : InsertVersion(content)
           \/ \E s \in saving : InsertElements(s)
    PROVE  StatusWasAnswered'
<1>1. ASSUME NEW content \in Contents, InsertVersion(content) PROVE StatusWasAnswered'
    <2>1. \A v \in DOMAIN versions' :
             \/ versions'[v].status = "DIRTY"
             \/ v \in DOMAIN versions /\ versions'[v].status = versions[v].status
        BY <1>1 DEF InsertVersion, TypeOK, DbTypes
    <2> QED
        BY <1>1, <2>1, StatusKept DEF InsertVersion
<1>2. ASSUME NEW s \in saving, InsertElements(s) PROVE StatusWasAnswered'
    <2>1. DOMAIN versions' = DOMAIN versions
        BY <1>2 DEF InsertElements, TypeOK, DbTypes
    <2>2. \A v \in DOMAIN versions : versions'[v].status = versions[v].status
        BY <1>2 DEF InsertElements, TypeOK, DbTypes, Row
    <2> QED
        BY <1>2, <2>1, <2>2, StatusKept DEF InsertElements
<1> QED
    BY <1>1, <1>2

LEMMA StatusStep ==
    ASSUME TypeOK, StatusWasAnswered, [Next]_vars PROVE StatusWasAnswered'
<1>1. CASE versions' = versions /\ heard' = heard
    BY <1>1 DEF StatusWasAnswered
<1>2. CASE Server
    <2>1. ASSUME NEW o \in Objects, FailRollout(o) \/ SameForAgent(o) \/ Recommend(o)
          PROVE  versions' \in {versions, Initiated} /\ heard' = heard
        BY <2>1 DEF FailRollout, SameForAgent, Recommend
    <2>2. ASSUME StartRollout \/ EndRollout \/ SendToAgent \/ ListenToConfigUpdate
          PROVE  versions' = versions /\ heard' = heard
        BY <2>2 DEF StartRollout, EndRollout, SendToAgent, ListenToConfigUpdate, dbVars
    <2>3. ASSUME NEW c \in Conns, UpdateNewAgent(c) PROVE StatusWasAnswered'
        BY <2>3, StatusInitiated DEF UpdateNewAgent
    <2>4. ASSUME NEW c \in Conns, FindOrCreateAgent(c) \/ Respond(c) \/ RemoveConnection(c)
          PROVE  versions' = versions /\ heard' = heard
        BY <2>4 DEF FindOrCreateAgent, Respond, RemoveConnection, dbVars
    <2> QED
        BY <1>1, <1>2, <2>1, <2>2, <2>3, <2>4, StatusInitiated, StatusAnswered, StatusInserted
        DEF Server
<1>3. ASSUME NEW a \in Agents,
             \/ \E c \in Conns : Connect(a, c)
             \/ \E ok \in BOOLEAN : Apply(a, ok)
             \/ Leave(a)
      PROVE  versions' = versions /\ heard' = heard
    BY <1>3 DEF Connect, Apply, Leave, dbVars
<1>4. CASE UNCHANGED vars
    BY <1>1, <1>4 DEF vars
<1> QED
    BY <1>1, <1>2, <1>3, <1>4, StatusInserted DEF Next

(* A version is DEPLOYED, or FAILED, only when an agent has answered so    *)
(* for that version, whatever rollouts, leaving agents and versions saved  *)
(* meanwhile come between.                                                 *)
THEOREM StatusAlways == Spec => []StatusWasAnswered
<1>1. Init => StatusWasAnswered
    BY DEF Init, StatusWasAnswered
<1>2. TypeOK /\ StatusWasAnswered /\ [Next]_vars => StatusWasAnswered'
    BY StatusStep
<1> QED
    BY <1>1, <1>2, TypeCorrect, PTL DEF Spec

-----------------------------------------------------------------------------
(* Whose connection it is: no two agents are linked to it, known by it, or *)
(* have a message handled that came over it; and it is open as long as its *)
(* agent is there, and not closed while the server knows an agent by it or *)
(* handles a message.                                                      *)
Involved(a, c) ==
    \/ agents[a].link = c
    \/ agentsById[a] = c
    \/ handling[c].pc = "arrived" /\ handling[c].msg.agent = a
    \/ handling[c].pc \in {"update", "listen"} /\ handling[c].object[1] = a

Owned(c) ==
    /\ \A a, b \in Agents : Involved(a, c) /\ Involved(b, c) => a = b
    /\ \A a \in Agents : agentsById[a] = c => net[c] \in {"open", "left"}
    /\ handling[c].pc # "idle" => net[c] \in {"open", "left"}
    /\ net[c] = "open" <=> \E a \in Agents : agents[a].link = c

(* What a rollout or a handler still holds of an agent is its object,      *)
(* unless the connection of that has been closed.                          *)
Current(o) ==
    /\ net[o[2]] # "new"
    /\ net[o[2]] # "closed" => agentsById[o[1]] = o[2]

TargetsCurrent ==
    /\ \A o \in rollout.todo : Current(o)
    /\ rollout.pc \in {"recommended", "listen"} => Current(rollout.object)
    /\ rollout.pc = "listen" => rollout.object \in rollout.held
    /\ \A c \in Conns : handling[c].pc \in {"update", "listen"} =>
           /\ Current(handling[c].object)
           /\ handling[c].object[2] # c => agentsById[handling[c].object[1]] # c

LinkInv ==
    /\ \A c \in Conns : Owned(c)
    /\ TargetsCurrent

BaseInv == TypeOK /\ RegistryConsistent

(* The types the lemmas below use. *)
LEMMA BaseFacts ==
    ASSUME BaseInv
    PROVE  /\ agentsById \in [Agents -> Conns \cup {None}] /\ None \notin Conns
           /\ net \in [Conns -> {"new", "open", "left", "closed"}]
           /\ objects \in [Objects -> Object] /\ down \in [Conns -> Seq(Config)]
           /\ \A c \in Conns : handling[c].pc \in {"idle", "arrived", "update", "listen"}
           /\ \A c \in Conns : handling[c].pc \in {"arrived", "update"} =>
                 handling[c].msg \in Message /\ handling[c].msg.agent \in Agents
           /\ \A c \in Conns : handling[c].pc \in {"update", "listen"} =>
                 /\ handling[c].object \in Objects
                 /\ handling[c].object[1] \in Agents /\ handling[c].object[2] \in Conns
           /\ \A c \in Conns : handling[c].pc = "listen" => handling[c].config \in Config
           /\ rollout.todo \subseteq Objects /\ rollout.held \subseteq Objects
           /\ rollout.pc \in {"idle", "next", "recommended", "listen"}
           /\ rollout.pc \in {"recommended", "listen"} =>
                 /\ rollout.object \in Objects /\ rollout.config \in Config
                 /\ rollout.object[1] \in Agents /\ rollout.object[2] \in Conns
<1>1. TypeOK /\ None \notin Conns
    BY AgentConfigAssumption DEF BaseInv
<1>2. \A o \in Objects : o[1] \in Agents /\ o[2] \in Conns
    BY DEF Objects
<1>3. /\ agentsById \in [Agents -> Conns \cup {None}]
      /\ net \in [Conns -> {"new", "open", "left", "closed"}]
      /\ objects \in [Objects -> Object] /\ down \in [Conns -> Seq(Config)]
    BY <1>1 DEF TypeOK, RegistryTypes, NetTypes
<1>4. /\ handling \in [Conns -> Handling]
      /\ \A c \in Conns :
           /\ handling[c].pc \in {"arrived", "update"} => handling[c].msg # None
           /\ handling[c].pc \in {"update", "listen"} => handling[c].object # None
           /\ handling[c].pc = "listen" => handling[c].config # None
    BY <1>1 DEF TypeOK, HandlingTypes
<1>5. ASSUME NEW c \in Conns
      PROVE  /\ handling[c].pc \in {"idle", "arrived", "update", "listen"}
             /\ handling[c].pc \in {"arrived", "update"} =>
                   handling[c].msg \in Message /\ handling[c].msg.agent \in Agents
             /\ handling[c].pc \in {"update", "listen"} => handling[c].object \in Objects
             /\ handling[c].pc = "listen" => handling[c].config \in Config
    <2>1. /\ handling[c].pc \in {"idle", "arrived", "update", "listen"}
          /\ handling[c].object \in Objects \cup {None}
          /\ handling[c].msg \in Message \cup {None} /\ handling[c].config \in Config \cup {None}
        BY <1>4 DEF Handling
    <2> QED
        BY <1>4, <2>1 DEF Message
<1>6. /\ rollout.todo \subseteq Objects /\ rollout.held \subseteq Objects
      /\ rollout.pc \in {"idle", "next", "recommended", "listen"}
      /\ rollout.pc \in {"recommended", "listen"} =>
            rollout.object \in Objects /\ rollout.config \in Config
    BY <1>1 DEF TypeOK, RolloutTypes
<1> QED
    BY <1>1, <1>2, <1>3, <1>5, <1>6

(* What the handler of a connection is after each of its steps. *)
Found(a, c) ==
    /\ handling[c].pc = "arrived" /\ handling[c].msg.agent = a
    /\ handling'[c].pc = "update" /\ handling'[c].msg = handling[c].msg
    /\ handling'[c].object = <<a, agentsById'[a]>>
    /\ \A d \in Conns : d # c => handling'[d] = handling[d]
    /\ agentsById'[a] = IF agentsById[a] = None THEN c ELSE agentsById[a]
    /\ \A b \in Agents : b # a => agentsById'[b] = agentsById[b]
    /\ objects' = IF agentsById[a] = None
                  THEN [objects EXCEPT ![<<a, c>>] = NewObject] ELSE objects
    /\ <<a, c>> \in Objects

LEMMA FindEffect ==
    ASSUME BaseInv, NEW c \in Conns, FindOrCreateAgent(c)
    PROVE  \E a \in Agents : Found(a, c)
<1> DEFINE a == handling[c].msg.agent
<1>1. handling[c].pc = "arrived" /\ a \in Agents
    BY BaseFacts DEF FindOrCreateAgent
<1>2. handling' = [handling EXCEPT ![c].pc = "update", ![c].object = <<a, agentsById'[a]>>]
    BY DEF FindOrCreateAgent
<1>3. handling \in [Conns -> Handling] /\ handling[c] \in Handling
    BY DEF BaseInv, TypeOK, HandlingTypes
<1>4. agentsById' = IF agentsById[a] = None THEN [agentsById EXCEPT ![a] = c] ELSE agentsById
    BY DEF FindOrCreateAgent
<1>5. objects' = IF agentsById[a] = None THEN [objects EXCEPT ![<<a, c>>] = NewObject] ELSE objects
    BY DEF FindOrCreateAgent
<1>6. <<a, c>> \in Objects
    BY <1>1 DEF Objects
<1>7. /\ handling'[c].pc = "update" /\ handling'[c].msg = handling[c].msg
      /\ handling'[c].object = <<a, agentsById'[a]>>
    BY <1>2, <1>3 DEF Handling
<1>8. \A d \in Conns : d # c => handling'[d] = handling[d]
    BY <1>2, <1>3
<1>9. /\ agentsById'[a] = IF agentsById[a] = None THEN c ELSE agentsById[a]
      /\ \A b \in Agents : b # a => agentsById'[b] = agentsById[b]
    BY <1>1, <1>4, BaseFacts
<1> HIDE DEF a
<1>10. handling[c].msg.agent = a
    BY DEF a
<1> QED
    BY <1>1, <1>5, <1>6, <1>7, <1>8, <1>9, <1>10 DEF Found

LEMMA NewAgentEffect ==
    ASSUME BaseInv, NEW c \in Conns, UpdateNewAgent(c)
    PROVE  /\ handling[c].pc = "update"
           /\ handling'[c].pc = "listen" /\ handling'[c].object = handling[c].object
           /\ handling'[c].config = Recommendation
           /\ \A d \in Conns : d # c => handling'[d] = handling[d]
<1>1. handling \in [Conns -> Handling] /\ handling[c] \in Handling
    BY DEF BaseInv, TypeOK, HandlingTypes
<1>2. handling' = [handling EXCEPT ![c].pc = "listen", ![c].msg = None,
                                          ![c].config = Recommendation]
    BY DEF UpdateNewAgent
<1> QED
    BY <1>1, <1>2 DEF Handling, UpdateNewAgent

LEMMA StatusEffect ==
    ASSUME BaseInv, NEW c \in Conns, UpdateStatus(c)
    PROVE  LET o == handling[c].object IN
           /\ handling[c].pc = "update"
           /\ \/ handling'[c] = Idle /\ down' = down
              \/ /\ handling'[c].pc = "listen" /\ handling'[c].object = o
                 /\ handling'[c].config = objects[o].remote /\ objects[o].remote # None
                 /\ down' = SendOn(down, o[2], objects[o].remote)
           /\ \A d \in Conns : d # c => handling'[d] = handling[d]
           /\ objects'[o].remote = objects[o].remote /\ objects'[o].reported
           /\ \A p \in Objects : p # o => objects'[p] = objects[p]
<1> DEFINE o == handling[c].object
           msg == handling[c].msg
           object == Reported(objects[o], msg)
           again == /\ object.status # None
                    /\ object.remote # None
                    /\ object.status.version # object.remote.version
           next == [handling[c] EXCEPT !.pc = "listen", !.msg = None, !.config = object.remote]
<1>1. /\ handling \in [Conns -> Handling] /\ handling[c] \in Handling /\ o \in Objects
      /\ handling[c].pc = "update"
    BY BaseFacts DEF BaseInv, TypeOK, HandlingTypes, UpdateStatus
<1>2. objects \in [Objects -> Object] /\ objects[o] \in Object
    BY <1>1, BaseFacts
<1>3. object.remote = objects[o].remote /\ object.reported
    BY <1>2 DEF Reported, Object
<1>4. handling' = [handling EXCEPT ![c] = IF again THEN next ELSE Idle]
    BY DEF UpdateStatus
<1>5. objects' = [objects EXCEPT ![o] = object]
    BY DEF UpdateStatus
<1>6. down' = IF again THEN SendOn(down, o[2], object.remote) ELSE down
    BY DEF UpdateStatus
<1>7. next.pc = "listen" /\ next.object = o /\ next.config = object.remote
    BY <1>1 DEF Handling
<1>8. again => object.remote # None
    OBVIOUS
<1> HIDE DEF o, object, again, next
<1>9. /\ \/ handling'[c] = Idle /\ down' = down
         \/ /\ handling'[c].pc = "listen" /\ handling'[c].object = o
            /\ handling'[c].config = objects[o].remote /\ objects[o].remote # None
            /\ down' = SendOn(down, o[2], objects[o].remote)
      /\ \A d \in Conns : d # c => handling'[d] = handling[d]
    BY <1>1, <1>3, <1>4, <1>6, <1>7, <1>8
<1>10. /\ objects'[o].remote = objects[o].remote /\ objects'[o].reported
       /\ \A p \in Objects : p # o => objects'[p] = objects[p]
    BY <1>1, <1>2, <1>3, <1>5
<1> QED
    BY <1>1, <1>9, <1>10 DEF o

(* A step that moves no connection and lets handlers go on or end. *)
LEMMA LinkKept ==
    ASSUME BaseInv, LinkInv, UNCHANGED <<agentsById, net>>,
           \A a \in Agents : agents'[a].link = agents[a].link,
           \A c \in Conns :
              \/ handling'[c] = handling[c]
              \/ handling'[c].pc = "idle"
              \/ /\ handling[c].pc \in {"update", "listen"} /\ handling'[c].pc = "listen"
                 /\ handling'[c].object = handling[c].object,
           \A o \in rollout'.todo : Current(o),
           rollout'.pc \in {"recommended", "listen"} => Current(rollout'.object),
           rollout'.pc = "listen" => rollout'.object \in rollout'.held
    PROVE  LinkInv'
<1>1. ASSUME NEW c \in Conns PROVE Owned(c)'
    <2>1. Owned(c)
        BY DEF LinkInv
    <2>2. ASSUME NEW a \in Agents, Involved(a, c)' PROVE Involved(a, c)
        BY <2>2 DEF Involved
    <2> QED
        BY <2>1, <2>2 DEF Owned
<1>2. \A o : Current(o) => Current(o)'
    BY DEF Current
<1>3. ASSUME NEW c \in Conns, handling'[c].pc \in {"update", "listen"}
      PROVE  /\ Current(handling'[c].object)
             /\ handling'[c].object[2] # c => agentsById'[handling'[c].object[1]] # c
    BY <1>3 DEF LinkInv, TargetsCurrent
<1>4. TargetsCurrent'
    <2>1. ASSUME NEW o \in rollout'.todo PROVE Current(o)'
        BY <1>2
    <2>2. rollout'.pc \in {"recommended", "listen"} => Current(rollout.object)'
        BY DEF Current
    <2>3. ASSUME NEW c \in Conns, handling'[c].pc \in {"update", "listen"}
          PROVE  /\ Current(handling[c].object)'
                 /\ handling'[c].object[2] # c => agentsById'[handling'[c].object[1]] # c
        BY <1>3, <2>3 DEF Current
    <2> QED
        BY <2>1, <2>2, <2>3 DEF TargetsCurrent
<1> QED
    BY <1>1, <1>4 DEF LinkInv

LEMMA RolloutLink ==
    ASSUME BaseInv, LinkInv,
           \/ StartRollout \/ EndRollout \/ SendToAgent \/ ListenToConfigUpdate
           \/ \E o \in Objects : FailRollout(o) \/ SameForAgent(o) \/ Recommend(o)
    PROVE  LinkInv'
<1>1. UNCHANGED <<agentsById, net, agents, handling>>
    BY DEF StartRollout, EndRollout, SendToAgent, ListenToConfigUpdate, FailRollout,
           SameForAgent, Recommend, registryVars, netVars
<1>2. rollout \in [pc : {"idle", "next", "recommended", "listen"},
                   todo : SUBSET Objects, held : SUBSET Objects,
                   object : Objects \cup {None}, config : Config \cup {None}]
    BY DEF BaseInv, TypeOK, RolloutTypes
<1>3. /\ \A o \in rollout'.todo : Current(o)
      /\ rollout'.pc \in {"recommended", "listen"} => Current(rollout'.object)
      /\ rollout'.pc = "listen" => rollout'.object \in rollout'.held
    <2>1. CASE StartRollout
        <3>1. rollout'.pc = "next" /\ rollout'.todo = Known
            BY <2>1 DEF StartRollout, NoRollout
        <3>2. ASSUME NEW o \in Known PROVE Current(o)
            <4>1. o[1] \in Agents /\ o[2] \in Conns /\ agentsById[o[1]] = o[2]
                BY DEF Known, Objects
            <4> QED
                BY <4>1 DEF LinkInv, Owned, Current
        <3> QED
            BY <3>1, <3>2
    <2>2. CASE EndRollout \/ \E o \in Objects : FailRollout(o) \/ SameForAgent(o)
        BY <2>2 DEF EndRollout, FailRollout, SameForAgent, NoRollout
    <2>3. ASSUME NEW o \in Objects, Recommend(o)
          PROVE  /\ \A p \in rollout'.todo : Current(p)
                 /\ rollout'.pc \in {"recommended", "listen"} => Current(rollout'.object)
                 /\ rollout'.pc = "listen" => rollout'.object \in rollout'.held
        <3>1. rollout'.todo = rollout.todo \ {o} /\ rollout'.object = o /\ o \in rollout.todo
              /\ rollout'.pc = "recommended"
            BY <1>2, <2>3 DEF Recommend
        <3> QED
            BY <3>1 DEF LinkInv, TargetsCurrent
    <2>4. CASE SendToAgent
        <3>1. /\ rollout'.todo = rollout.todo /\ rollout'.object = rollout.object
              /\ rollout.pc = "recommended" /\ rollout'.held = rollout.held \cup {rollout.object}
            BY <1>2, <2>4 DEF SendToAgent, HeldOnSending
        <3> QED
            BY <3>1 DEF LinkInv, TargetsCurrent
    <2>5. CASE ListenToConfigUpdate
        <3>1. rollout'.todo = rollout.todo /\ rollout'.pc = "next"
            BY <1>2, <2>5 DEF ListenToConfigUpdate
        <3> QED
            BY <3>1 DEF LinkInv, TargetsCurrent
    <2> QED
        BY <2>1, <2>2, <2>3, <2>4, <2>5
<1> QED
    BY <1>1, <1>3, LinkKept

LEMMA HandlerLink ==
    ASSUME BaseInv, LinkInv, NEW c \in Conns,
           UpdateNewAgent(c) \/ UpdateStatus(c) \/ Respond(c)
    PROVE  LinkInv'
<1>1. UNCHANGED <<agentsById, net, agents, rollout>>
    BY DEF UpdateNewAgent, UpdateStatus, Respond, registryVars
<1>2. \A d \in Conns :
         \/ handling'[d] = handling[d]
         \/ handling'[d].pc = "idle"
         \/ /\ handling[d].pc \in {"update", "listen"} /\ handling'[d].pc = "listen"
            /\ handling'[d].object = handling[d].object
    <2>1. CASE UpdateNewAgent(c)
        BY <2>1, NewAgentEffect
    <2>2. CASE UpdateStatus(c)
        BY <2>2, StatusEffect DEF Idle
    <2>3. CASE Respond(c)
        BY <2>3 DEF Respond, Idle, BaseInv, TypeOK, HandlingTypes
    <2> QED
        BY <2>1, <2>2, <2>3
<1> QED
    BY <1>1, <1>2, LinkKept DEF LinkInv, TargetsCurrent

LEMMA FindLink ==
    ASSUME BaseInv, LinkInv, NEW c \in Conns, FindOrCreateAgent(c)
    PROVE  LinkInv'
<1>0. PICK a \in Agents : Found(a, c)
    BY FindEffect
<1>1. /\ handling[c].pc = "arrived" /\ handling[c].msg.agent = a
      /\ handling'[c].pc = "update" /\ handling'[c].msg = handling[c].msg
      /\ handling'[c].object = <<a, agentsById'[a]>>
      /\ \A d \in Conns : d # c => handling'[d] = handling[d]
      /\ agentsById'[a] = IF agentsById[a] = None THEN c ELSE agentsById[a]
      /\ \A b \in Agents : b # a => agentsById'[b] = agentsById[b]
    BY <1>0 DEF Found
<1>2. UNCHANGED <<net, agents, rollout>>
    BY DEF FindOrCreateAgent, netVars
<1>3. Involved(a, c) /\ net[c] \in {"open", "left"}
    BY <1>1 DEF Involved, LinkInv, Owned
<1>4. ASSUME NEW d \in Conns PROVE Owned(d)'
    <2>1. Owned(d)
        BY DEF LinkInv
    <2>2. ASSUME NEW b \in Agents, Involved(b, d)' PROVE Involved(b, d)
        <3>1. CASE d = c
            BY <1>1, <1>2, <1>3, <2>2, <3>1 DEF Involved
        <3>2. CASE d # c
            BY <1>1, <1>2, <2>2, <3>2 DEF Involved
        <3> QED
            BY <3>1, <3>2
    <2>3. \A b \in Agents : agentsById'[b] = d => net[d] \in {"open", "left"}
        BY <1>1, <1>3, <2>1 DEF Owned
    <2>4. handling'[d].pc # "idle" => net[d] \in {"open", "left"}
        BY <1>1, <1>3, <2>1 DEF Owned
    <2> QED
        BY <1>2, <2>1, <2>2, <2>3, <2>4 DEF Owned
<1>5. ASSUME NEW o, o[1] \in Agents, o[2] \in Conns, Current(o) PROVE Current(o)'
    BY <1>1, <1>2, <1>5, BaseFacts DEF Current
<1>6. \A o \in Objects : o[1] \in Agents /\ o[2] \in Conns
    BY DEF Objects
<1>7. TargetsCurrent'
    <2>1. \A o \in rollout.todo : Current(o)'
        BY <1>5, <1>6, BaseFacts DEF LinkInv, TargetsCurrent
    <2>2. rollout.pc \in {"recommended", "listen"} => Current(rollout.object)'
        <3>1. PICK o : o = rollout.object
            OBVIOUS
        <3>2. ASSUME rollout.pc \in {"recommended", "listen"} PROVE Current(o)'
            BY <1>5, <3>1, <3>2, BaseFacts DEF LinkInv, TargetsCurrent
        <3> QED
            BY <1>2, <3>1, <3>2 DEF Current
    <2>3. ASSUME NEW d \in Conns, handling'[d].pc \in {"update", "listen"}
          PROVE  /\ Current(handling[d].object)'
                 /\ handling'[d].object[2] # d => agentsById'[handling'[d].object[1]] # d
        <3>1. CASE d = c
            <4>1. agentsById'[a] \in Conns /\ net[agentsById'[a]] \in {"open", "left"}
                BY <1>1, <1>3, BaseFacts DEF LinkInv, Owned
            <4> QED
                BY <1>1, <1>2, <3>1, <4>1 DEF Current
        <3>2. CASE d # c
            <4>1. handling'[d] = handling[d] /\ Current(handling[d].object)
                BY <1>1, <2>3, <3>2 DEF LinkInv, TargetsCurrent
            <4>2. Current(handling[d].object)'
                <5>1. handling[d].object[1] \in Agents /\ handling[d].object[2] \in Conns
                    BY <2>3, <4>1, BaseFacts
                <5>2. PICK o : o = handling[d].object
                    OBVIOUS
                <5>3. Current(o)'
                    BY <1>5, <4>1, <5>1, <5>2
                <5> QED
                    BY <4>1, <5>2, <5>3 DEF Current
            <4>3. handling[d].object[2] # d => agentsById'[handling[d].object[1]] # d
                BY <1>1, <2>3, <3>2, <4>1, BaseFacts DEF LinkInv, TargetsCurrent
            <4> QED
                BY <4>1, <4>2, <4>3
        <3> QED
            BY <3>1, <3>2
    <2> QED
        BY <1>2, <2>1, <2>2, <2>3 DEF TargetsCurrent, Current, LinkInv
<1> QED
    BY <1>4, <1>7 DEF LinkInv

LEMMA RemoveLink ==
    ASSUME BaseInv, LinkInv, NEW c \in Conns, RemoveConnection(c)
    PROVE  LinkInv'
<1>1. /\ net[c] = "left" /\ handling[c].pc = "idle"
      /\ \A a \in Agents : agentsById'[a] = IF agentsById[a] = c THEN None ELSE agentsById[a]
      /\ net' = [net EXCEPT ![c] = "closed"]
      /\ UNCHANGED <<agents, handling, rollout>>
    BY DEF RemoveConnection, Idle, BaseInv, RegistryConsistent
<1>2. net'[c] = "closed" /\ \A d \in Conns : d # c => net'[d] = net[d]
    BY <1>1, BaseFacts
<1>3. ASSUME NEW d \in Conns PROVE Owned(d)'
    <2>1. Owned(d)
        BY DEF LinkInv
    <2>2. ASSUME NEW b \in Agents, Involved(b, d)' PROVE Involved(b, d)
        BY <1>1, <2>2, BaseFacts DEF Involved
    <2>3. ASSUME NEW b \in Agents, agentsById'[b] = d PROVE net'[d] \in {"open", "left"}
        BY <1>1, <1>2, <2>1, <2>3, BaseFacts DEF Owned
    <2>4. handling'[d].pc # "idle" => net'[d] \in {"open", "left"}
        BY <1>1, <1>2, <2>1 DEF Owned
    <2>5. net'[d] = "open" <=> \E a \in Agents : agents'[a].link = d
        BY <1>1, <1>2, <2>1 DEF Owned
    <2> QED
        BY <2>1, <2>2, <2>3, <2>4, <2>5 DEF Owned
<1>4. ASSUME NEW o, o[1] \in Agents, o[2] \in Conns, Current(o) PROVE Current(o)'
    BY <1>1, <1>2, <1>4, BaseFacts DEF Current
<1>5. \A o \in Objects : o[1] \in Agents /\ o[2] \in Conns
    BY DEF Objects
<1>6. TargetsCurrent'
    <2>1. \A o \in rollout.todo : Current(o)'
        BY <1>4, <1>5, BaseFacts DEF LinkInv, TargetsCurrent
    <2>2. rollout.pc \in {"recommended", "listen"} => Current(rollout.object)'
        <3>1. PICK o : o = rollout.object
            OBVIOUS
        <3>2. ASSUME rollout.pc \in {"recommended", "listen"} PROVE Current(o)'
            BY <1>4, <3>1, <3>2, BaseFacts DEF LinkInv, TargetsCurrent
        <3> QED
            BY <1>1, <3>1, <3>2 DEF Current
    <2>3. ASSUME NEW d \in Conns, handling[d].pc \in {"update", "listen"}
          PROVE  /\ Current(handling[d].object)'
                 /\ handling[d].object[2] # d => agentsById'[handling[d].object[1]] # d
        <3>1. PICK o : o = handling[d].object
            OBVIOUS
        <3>2. Current(o) /\ o[1] \in Agents /\ o[2] \in Conns /\ (o[2] # d => agentsById[o[1]] # d)
            BY <2>3, <3>1, BaseFacts DEF LinkInv, TargetsCurrent
        <3>3. Current(o)'
            BY <1>4, <3>2
        <3>4. o[2] # d => agentsById'[o[1]] # d
            BY <1>1, <3>2, BaseFacts
        <3> QED
            BY <1>1, <3>1, <3>3, <3>4 DEF Current
    <2> QED
        BY <1>1, <2>1, <2>2, <2>3 DEF TargetsCurrent, LinkInv
<1> QED
    BY <1>3, <1>6 DEF LinkInv

(* The steps of the agents. *)
LEMMA ConnectLink ==
    ASSUME BaseInv, LinkInv, NEW a \in Agents, NEW c \in Conns, Connect(a, c)
    PROVE  LinkInv'
<1>1. /\ net[c] = "new" /\ agents[a].link = None /\ net' = [net EXCEPT ![c] = "open"]
      /\ agents' = [agents EXCEPT ![a].link = c]
      /\ handling' = [handling EXCEPT ![c] = Arrived(Status(a))]
      /\ UNCHANGED <<agentsById, rollout>>
    BY DEF Connect, registryVars
<1>2. net'[c] = "open" /\ \A d \in Conns : d # c => net'[d] = net[d]
    BY <1>1, BaseFacts
<1>3. agents'[a].link = c /\ \A b \in Agents : b # a => agents'[b] = agents[b]
    BY <1>1 DEF BaseInv, TypeOK, NetTypes
<1>4. /\ handling'[c].pc = "arrived" /\ handling'[c].msg.agent = a
      /\ \A d \in Conns : d # c => handling'[d] = handling[d]
    <2>1. /\ Arrived(Status(a)).pc = "arrived" /\ Arrived(Status(a)).msg.agent = a
        BY DEF Arrived, Status, Idle
    <2> QED
        BY <1>1, <2>1 DEF BaseInv, TypeOK, HandlingTypes
<1>5. Owned(c) /\ handling[c].pc = "idle"
    BY <1>1 DEF LinkInv, Owned
<1>6. \A b \in Agents : ~ Involved(b, c)
    BY <1>1, <1>5 DEF Involved, Owned
<1>7. ASSUME NEW d \in Conns PROVE Owned(d)'
    <2>1. Owned(d)
        BY DEF LinkInv
    <2>2. CASE d = c
        <3>1. ASSUME NEW b \in Agents, Involved(b, c)' PROVE b = a
            BY <1>1, <1>3, <1>4, <1>6, <3>1 DEF Involved
        <3> QED
            BY <1>1, <1>2, <1>3, <1>4, <2>2, <3>1 DEF Owned
    <2>3. CASE d # c
        <3>1. \A b \in Agents : agents'[b].link = d <=> agents[b].link = d
            BY <1>1, <1>3, <2>3, BaseFacts
        <3>2. ASSUME NEW b \in Agents PROVE Involved(b, d)' <=> Involved(b, d)
            BY <1>1, <1>4, <2>3, <3>1 DEF Involved
        <3> QED
            BY <1>1, <1>2, <1>4, <2>1, <2>3, <3>1, <3>2 DEF Owned
    <2> QED
        BY <2>2, <2>3
<1>8. ASSUME NEW o, o[2] \in Conns, Current(o) PROVE Current(o)'
    BY <1>1, <1>2, <1>8 DEF Current
<1>9. TargetsCurrent'
    <2>1. \A o \in rollout.todo : Current(o)'
        <3>1. \A o \in Objects : o[2] \in Conns
            BY DEF Objects
        <3> QED
            BY <1>8, <3>1, BaseFacts DEF LinkInv, TargetsCurrent
    <2>2. rollout.pc \in {"recommended", "listen"} => Current(rollout.object)'
        <3>1. PICK o : o = rollout.object
            OBVIOUS
        <3>2. ASSUME rollout.pc \in {"recommended", "listen"} PROVE Current(o)'
            BY <1>8, <3>1, <3>2, BaseFacts DEF LinkInv, TargetsCurrent
        <3> QED
            BY <1>1, <3>1, <3>2 DEF Current
    <2>3. ASSUME NEW d \in Conns, handling'[d].pc \in {"update", "listen"}
          PROVE  /\ Current(handling[d].object)'
                 /\ handling'[d].object[2] # d => agentsById'[handling'[d].object[1]] # d
        <3>1. handling'[d] = handling[d]
            BY <1>4, <2>3
        <3>2. PICK o : o = handling[d].object
            OBVIOUS
        <3>3. Current(o) /\ o[2] \in Conns /\ (o[2] # d => agentsById[o[1]] # d)
            BY <2>3, <3>1, <3>2, BaseFacts DEF LinkInv, TargetsCurrent
        <3>4. Current(o)'
            BY <1>8, <3>3
        <3> QED
            BY <1>1, <3>1, <3>2, <3>3, <3>4 DEF Current
    <2> QED
        BY <1>1, <2>1, <2>2, <2>3 DEF TargetsCurrent, LinkInv
<1> QED
    BY <1>7, <1>9 DEF LinkInv

(* What an agent changes by applying a configuration, and by leaving. *)
Applied(a, c, config, ok) ==
    /\ agents[a].link = c /\ down[c] # <<>> /\ config = Head(down[c])
    /\ handling[c] = Idle
    /\ agents'[a].link = c
    /\ agents'[a].status = [version |-> config.version, ok |-> ok]
    /\ ok => agents'[a].effective = config.content
    /\ \A b \in Agents : b # a => agents'[b] = agents[b]
    /\ handling'[c].pc = "arrived" /\ handling'[c].msg.agent = a
    /\ handling'[c].msg.status = agents'[a].status
    /\ \A d \in Conns : d # c => handling'[d] = handling[d]
    /\ down' = [down EXCEPT ![c] = Tail(down[c])]
    /\ UNCHANGED <<dbVars, rollout, registryVars, objects, subscribers, net, skipped, heard>>

LEMMA ApplyEffect ==
    ASSUME BaseInv, NEW a \in Agents, NEW ok \in BOOLEAN, Apply(a, ok)
    PROVE  \E c \in Conns, config \in Config : Applied(a, c, config, ok)
<1>1. PICK c : c = agents[a].link
    OBVIOUS
<1>2. c \in Conns /\ down[c] # <<>> /\ down[c] \in Seq(Config)
    <2>1. agents[a].link \in Conns \cup {None} /\ agents[a].link # None
        BY DEF Apply, BaseInv, TypeOK, NetTypes
    <2>2. c \in Conns
        BY <1>1, <2>1
    <2> QED
        BY <1>1, <2>2, BaseFacts DEF Apply
<1>3. PICK config : config = Head(down[c])
    OBVIOUS
<1>4. config \in Config
    BY <1>2, <1>3
<1> DEFINE answer == [version |-> config.version, ok |-> ok]
           effective == IF ok THEN config.content ELSE agents[a].effective
<1>5. /\ agents' = [agents EXCEPT ![a].effective = effective, ![a].status = answer]
      /\ handling' = [handling EXCEPT ![c] = Arrived(Status(a)')]
      /\ down' = [down EXCEPT ![c] = Tail(down[c])]
      /\ handling[c] = Idle
      /\ UNCHANGED <<dbVars, rollout, registryVars, objects, subscribers, net, skipped, heard>>
    BY <1>1, <1>3 DEF Apply
<1> HIDE DEF answer, effective
<1>6. /\ agents'[a].link = c /\ agents'[a].status = answer /\ agents'[a].effective = effective
      /\ \A b \in Agents : b # a => agents'[b] = agents[b]
    BY <1>1, <1>5 DEF BaseInv, TypeOK, NetTypes
<1>7. /\ Arrived(Status(a)').pc = "arrived" /\ Arrived(Status(a)').msg.agent = a
      /\ Arrived(Status(a)').msg.status = agents'[a].status
    BY DEF Arrived, Status, Idle
<1>8. /\ handling'[c] = Arrived(Status(a)')
      /\ \A d \in Conns : d # c => handling'[d] = handling[d]
    BY <1>2, <1>5 DEF BaseInv, TypeOK, HandlingTypes
<1>9. Applied(a, c, config, ok)
    <2>1. ok => agents'[a].effective = config.content
        BY <1>6 DEF effective
    <2>2. agents'[a].status = [version |-> config.version, ok |-> ok]
        BY <1>6 DEF answer
    <2> QED
        BY <1>1, <1>2, <1>3, <1>5, <1>6, <1>7, <1>8, <2>1, <2>2 DEF Applied
<1> QED
    BY <1>2, <1>4, <1>9

Left(a, c) ==
    /\ agents[a].link = c
    /\ agents'[a].link = None
    /\ agents'[a].status = agents[a].status /\ agents'[a].effective = agents[a].effective
    /\ \A b \in Agents : b # a => agents'[b] = agents[b]
    /\ net'[c] = "left" /\ \A d \in Conns : d # c => net'[d] = net[d]
    /\ down'[c] = <<>> /\ \A d \in Conns : d # c => down'[d] = down[d]
    /\ \A d \in Conns : d # c => handling'[d] = handling[d]
    /\ \/ handling'[c] = handling[c]
       \/ handling[c].pc = "arrived" /\ handling'[c] = Idle
    /\ UNCHANGED <<dbVars, rollout, registryVars, objects, subscribers, skipped, heard>>

LEMMA LeaveEffect ==
    ASSUME BaseInv, NEW a \in Agents, Leave(a)
    PROVE  \E c \in Conns : Left(a, c)
<1>1. PICK c : c = agents[a].link
    OBVIOUS
<1>2. c \in Conns
    <2>1. agents[a].link \in Conns \cup {None} /\ agents[a].link # None
        BY DEF Leave, BaseInv, TypeOK, NetTypes
    <2> QED
        BY <1>1, <2>1
<1>3. /\ agents' = [agents EXCEPT ![a].link = None]
      /\ net' = [net EXCEPT ![c] = "left"]
      /\ down' = [down EXCEPT ![c] = <<>>]
      /\ \/ UNCHANGED handling
         \/ handling[c].pc = "arrived" /\ handling' = [handling EXCEPT ![c] = Idle]
      /\ UNCHANGED <<dbVars, rollout, registryVars, objects, subscribers, skipped, heard>>
    BY <1>1 DEF Leave
<1>4. /\ agents'[a].link = None
      /\ agents'[a].status = agents[a].status /\ agents'[a].effective = agents[a].effective
      /\ \A b \in Agents : b # a => agents'[b] = agents[b]
    BY <1>3 DEF BaseInv, TypeOK, NetTypes
<1>5. /\ net'[c] = "left" /\ \A d \in Conns : d # c => net'[d] = net[d]
      /\ down'[c] = <<>> /\ \A d \in Conns : d # c => down'[d] = down[d]
    BY <1>2, <1>3, BaseFacts
<1>6. /\ \A d \in Conns : d # c => handling'[d] = handling[d]
      /\ \/ handling'[c] = handling[c]
         \/ handling[c].pc = "arrived" /\ handling'[c] = Idle
    <2>1. CASE handling' = handling
        <3>1. \A d \in Conns : handling'[d] = handling[d]
            BY <2>1
        <3> QED
            BY <1>2, <3>1
    <2>2. CASE handling[c].pc = "arrived" /\ handling' = [handling EXCEPT ![c] = Idle]
        BY <1>2, <2>2 DEF BaseInv, TypeOK, HandlingTypes
    <2> QED
        BY <1>3, <2>1, <2>2
<1> QED
    BY <1>1, <1>2, <1>3, <1>4, <1>5, <1>6 DEF Left

LEMMA ApplyLink ==
    ASSUME BaseInv, LinkInv, NEW a \in Agents, NEW ok \in BOOLEAN, Apply(a, ok)
    PROVE  LinkInv'
<1>1. PICK c \in Conns, config \in Config : Applied(a, c, config, ok)
    BY ApplyEffect
<1>2. UNCHANGED <<net, agentsById, rollout>>
    BY <1>1 DEF Applied, registryVars
<1>3. \A b \in Agents : agents'[b].link = agents[b].link
    BY <1>1 DEF Applied
<1>4. Involved(a, c) /\ net[c] = "open"
    BY <1>1 DEF Applied, Involved, LinkInv, Owned
<1>5. ASSUME NEW d \in Conns PROVE Owned(d)'
    <2>1. Owned(d)
        BY DEF LinkInv
    <2>2. ASSUME NEW b \in Agents, Involved(b, d)' PROVE Involved(b, d)
        <3>1. CASE d = c
            BY <1>1, <1>2, <1>3, <1>4, <2>2, <3>1 DEF Involved, Applied
        <3>2. CASE d # c
            BY <1>1, <1>2, <1>3, <2>2, <3>2 DEF Involved, Applied
        <3> QED
            BY <3>1, <3>2
    <2>3. handling'[d].pc # "idle" => net[d] \in {"open", "left"}
        BY <1>1, <1>4, <2>1 DEF Owned, Applied
    <2> QED
        BY <1>2, <1>3, <2>1, <2>2, <2>3 DEF Owned
<1>6. TargetsCurrent'
    <2>1. ASSUME NEW d \in Conns, handling'[d].pc \in {"update", "listen"}
          PROVE  handling'[d] = handling[d]
        BY <1>1, <2>1 DEF Applied
    <2> QED
        BY <1>2, <2>1 DEF TargetsCurrent, Current, LinkInv
<1> QED
    BY <1>5, <1>6 DEF LinkInv

LEMMA LeaveLink ==
    ASSUME BaseInv, LinkInv, NEW a \in Agents, Leave(a)
    PROVE  LinkInv'
<1>1. PICK c \in Conns : Left(a, c)
    BY LeaveEffect
<1>2. UNCHANGED <<agentsById, rollout>>
    BY <1>1 DEF Left, registryVars
<1>3. net[c] = "open" /\ Owned(c) /\ Involved(a, c)
    BY <1>1 DEF Left, Involved, LinkInv, Owned
<1>4. ASSUME NEW d \in Conns PROVE Owned(d)'
    <2>1. Owned(d)
        BY DEF LinkInv
    <2>2. ASSUME NEW b \in Agents, Involved(b, d)' PROVE Involved(b, d)
        <3>1. agents'[b].link = d => agents[b].link = d
            <4>1. CASE b = a
                BY <1>1, <4>1, BaseFacts DEF Left
            <4>2. CASE b # a
                BY <1>1, <4>2 DEF Left
            <4> QED
                BY <4>1, <4>2
        <3>2. handling'[d] = handling[d] \/ handling'[d].pc = "idle"
            BY <1>1 DEF Left, Idle
        <3> QED
            BY <1>2, <2>2, <3>1, <3>2 DEF Involved
    <2>3. \A b \in Agents : agents'[b].link = d <=> (b # a /\ agents[b].link = d)
        BY <1>1, BaseFacts DEF Left
    <2>4. net'[d] = "open" <=> \E b \in Agents : agents'[b].link = d
        <3>1. CASE d = c
            <4>1. \A b \in Agents : agents[b].link = c => b = a
                BY <1>3 DEF Owned, Involved
            <4> QED
                BY <1>1, <2>3, <3>1, <4>1 DEF Left
        <3>2. CASE d # c
            BY <1>1, <2>1, <2>3, <3>2 DEF Left, Owned
        <3> QED
            BY <3>1, <3>2
    <2>5. \A b \in Agents : agentsById'[b] = d => net'[d] \in {"open", "left"}
        BY <1>1, <1>2, <2>1 DEF Left, Owned
    <2>6. handling'[d].pc # "idle" => net'[d] \in {"open", "left"}
        BY <1>1, <2>1 DEF Left, Owned, Idle
    <2> QED
        BY <2>1, <2>2, <2>4, <2>5, <2>6 DEF Owned
<1>5. ASSUME NEW o, o[2] \in Conns, Current(o) PROVE Current(o)'
    BY <1>1, <1>2, <1>3, <1>5 DEF Current, Left
<1>6. TargetsCurrent'
    <2>1. \A o \in rollout.todo : Current(o)'
        <3>1. \A o \in Objects : o[2] \in Conns
            BY DEF Objects
        <3> QED
            BY <1>5, <3>1, BaseFacts DEF LinkInv, TargetsCurrent
    <2>2. rollout.pc \in {"recommended", "listen"} => Current(rollout.object)'
        <3>1. PICK o : o = rollout.object
            OBVIOUS
        <3>2. ASSUME rollout.pc \in {"recommended", "listen"} PROVE Current(o)'
            BY <1>5, <3>1, <3>2, BaseFacts DEF LinkInv, TargetsCurrent
        <3> QED
            BY <1>2, <3>1, <3>2 DEF Current
    <2>3. ASSUME NEW d \in Conns, handling'[d].pc \in {"update", "listen"}
          PROVE  /\ Current(handling[d].object)'
                 /\ handling'[d].object[2] # d => agentsById'[handling'[d].object[1]] # d
        <3>1. handling'[d] = handling[d]
            BY <1>1, <2>3 DEF Left, Idle
        <3>2. PICK o : o = handling[d].object
            OBVIOUS
        <3>3. Current(o) /\ o[2] \in Conns /\ (o[2] # d => agentsById[o[1]] # d)
            BY <2>3, <3>1, <3>2, BaseFacts DEF LinkInv, TargetsCurrent
        <3>4. Current(o)'
            BY <1>5, <3>3
        <3> QED
            BY <1>2, <3>1, <3>2, <3>3, <3>4 DEF Current
    <2> QED
        BY <1>2, <2>1, <2>2, <2>3 DEF TargetsCurrent, LinkInv
<1> QED
    BY <1>4, <1>6 DEF LinkInv

(* The database steps move no connection, and neither does stuttering. *)
LEMMA DatabaseLink ==
    ASSUME BaseInv, LinkInv,
           \/ \E content \in Contents : InsertVersion(content)
           \/ \E s \in saving : InsertElements(s)
           \/ UNCHANGED vars
    PROVE  LinkInv'
<1>1. UNCHANGED <<agentsById, net, agents, handling, rollout>>
    BY DEF InsertVersion, InsertElements, registryVars, netVars, vars
<1> QED
    BY <1>1, LinkKept DEF LinkInv, TargetsCurrent

LEMMA LinkStep ==
    ASSUME BaseInv, LinkInv, [Next]_vars PROVE LinkInv'
<1>1. CASE \/ \E content \in Contents : InsertVersion(content)
           \/ \E s \in saving : InsertElements(s)
           \/ UNCHANGED vars
    BY <1>1, DatabaseLink
<1>2. CASE \/ StartRollout \/ EndRollout \/ SendToAgent \/ ListenToConfigUpdate
           \/ \E o \in Objects : FailRollout(o) \/ SameForAgent(o) \/ Recommend(o)
    BY <1>2, RolloutLink
<1>3. ASSUME NEW c \in Conns,
             \/ FindOrCreateAgent(c) \/ UpdateNewAgent(c) \/ UpdateStatus(c)
             \/ Respond(c) \/ RemoveConnection(c)
      PROVE  LinkInv'
    BY <1>3, FindLink, HandlerLink, RemoveLink
<1>4. ASSUME NEW a \in Agents,
             \/ \E c \in Conns : Connect(a, c)
             \/ \E ok \in BOOLEAN : Apply(a, ok)
             \/ Leave(a)
      PROVE  LinkInv'
    BY <1>4, ConnectLink, ApplyLink, LeaveLink
<1> QED
    BY <1>1, <1>2, <1>3, <1>4 DEF Next, Server

LEMMA LinkInit == Init => LinkInv
<1> SUFFICES ASSUME Init PROVE LinkInv
    OBVIOUS
<1>1. None \notin Conns
    BY AgentConfigAssumption
<1>2. \A c \in Conns : handling[c].pc = "idle" /\ net[c] = "new"
    BY DEF Init, Idle
<1>3. \A a \in Agents : agents[a].link = None /\ agentsById[a] = None
    BY DEF Init
<1>4. rollout.pc = "idle" /\ rollout.todo = {}
    BY DEF Init, NoRollout
<1> QED
    BY <1>1, <1>2, <1>3, <1>4 DEF LinkInv, Owned, Involved, TargetsCurrent

LEMMA LinkAlways == Spec => [](BaseInv /\ LinkInv)
<1>1. Init => LinkInv
    BY LinkInit
<1>2. BaseInv /\ LinkInv /\ [Next]_vars => LinkInv'
    BY LinkStep
<1>3. BaseInv <=> TypeOK /\ RegistryConsistent
    BY DEF BaseInv
<1> QED
    BY <1>1, <1>2, <1>3, TypeCorrect, RegistryAlways, PTL DEF Spec

-----------------------------------------------------------------------------
(* A version whose deployment has begun: it is stored, and its row takes   *)
(* the answers to it.  Version 0 has no row.                               *)
Begun(v) == v # 0 => v \in DOMAIN versions /\ versions[v].status # "DIRTY"

(* Only such a version is sent, listened for, or remembered as sent.       *)
AllBegun ==
    /\ \A v \in subscribers : Begun(v)
    /\ rollout.pc \in {"recommended", "listen"} => Begun(rollout.config.version)
    /\ \A c \in Conns : handling[c].pc = "listen" => Begun(handling[c].config.version)
    /\ \A o \in Objects : objects[o].remote # None => Begun(objects[o].remote.version)

(* Who has sent a version to an agent is about to listen for the answer,   *)
(* and has the agent's mutex.                                              *)
Pending(o, v) ==
    \/ rollout.pc = "listen" /\ rollout.object = o /\ rollout.config.version = v
    \/ \E c \in Conns : /\ handling[c].pc = "listen" /\ handling[c].object = o
                        /\ handling[c].config.version = v

(* A version somebody listens for, or that has been answered.              *)
Settled(v) == v = 0 \/ v \in subscribers \/ \E answer \in heard : answer.version = v

Due(a, c, v) == agentsById[a] = c /\ Pending(<<a, c>>, v)

(* A version an agent answers is settled, or its own object is held until  *)
(* it is.                                                                  *)
Promised(a, v) == Settled(v) \/ \E c \in Conns : Due(a, c, v)

(* So it is with whatever is on its way, to an agent and back.             *)
SentSettled ==
    \A o \in Objects : objects[o].remote # None =>
        LET v == objects[o].remote.version IN Settled(v) \/ Pending(o, v)

QueuedSettled ==
    \A c \in Conns : \A i \in 1 .. Len(down[c]) :
        LET v == down[c][i].version IN Settled(v) \/ \E a \in Agents : Due(a, c, v)

AnswersSettled ==
    /\ \A a \in Agents : agents[a].status # None => Promised(a, agents[a].status.version)
    /\ \A c \in Conns : handling[c].pc = "arrived" /\ handling[c].msg.status # None =>
          Promised(handling[c].msg.agent, handling[c].msg.status.version)
    /\ \A c \in Conns : handling[c].pc = "update" /\ handling[c].msg.status # None =>
          LET v == handling[c].msg.status.version
          IN  Settled(v) \/ Pending(handling[c].object, v)

FirstInv == AllBegun /\ SentSettled /\ QueuedSettled /\ AnswersSettled

(* A deployment that has begun is not undone by any step. *)
LEMMA BegunKept ==
    ASSUME TypeOK, [Next]_vars, NEW v, Begun(v)
    PROVE  Begun(v)'
<1>1. CASE versions' = versions
    BY <1>1 DEF Begun
<1>2. CASE versions' = Initiated
    <2>1. DOMAIN versions' = DOMAIN versions
        BY <1>2, InitiatedTypes DEF TypeOK, DbTypes
    <2>2. \A w \in DOMAIN versions : versions'[w].status \in {versions[w].status, "IN_PROGRESS"}
        BY <1>2, InitiatedTypes DEF TypeOK
    <2> QED
        BY <2>1, <2>2 DEF Begun
<1>3. ASSUME NEW answer \in Answer, versions' = Deployed(answer) PROVE Begun(v)'
    <2>1. DOMAIN versions' = DOMAIN versions
        BY <1>3, DeployedTypes DEF TypeOK, DbTypes
    <2>2. \A w \in DOMAIN versions :
             versions'[w].status \in {versions[w].status, "DEPLOYED", "FAILED"}
        BY <1>3, DeployedTypes DEF TypeOK
    <2> QED
        BY <2>1, <2>2 DEF Begun
<1>4. ASSUME NEW content \in Contents, InsertVersion(content) PROVE Begun(v)'
    BY <1>4 DEF InsertVersion, TypeOK, DbTypes, Begun
<1>5. ASSUME NEW s \in saving, InsertElements(s) PROVE Begun(v)'
    BY <1>5 DEF InsertElements, TypeOK, DbTypes, Row, Begun
<1>6. ASSUME NEW c \in Conns, UpdateStatus(c) PROVE Begun(v)'
    <2>1. PICK msg : msg = handling[c].msg
        OBVIOUS
    <2>2. versions' = Answered(objects[handling[c].object], msg)
        BY <1>6, <2>1 DEF UpdateStatus
    <2>3. CASE versions' = versions
        BY <1>1, <2>3
    <2>4. CASE versions' # versions
        <3>1. msg.status # None /\ versions' = Deployed(msg.status)
            BY <2>2, <2>4 DEF Answered, AnswerIsNew
        <3>2. msg \in Message
            BY <1>6, <2>1 DEF UpdateStatus, TypeOK, HandlingTypes, Handling
        <3>3. msg.status \in Answer
            BY <3>1, <3>2 DEF Message
        <3> QED
            BY <1>3, <3>1, <3>3
    <2> QED
        BY <2>3, <2>4
<1>7. CASE Server
    <2>1. ASSUME NEW o \in Objects, FailRollout(o) \/ SameForAgent(o) \/ Recommend(o)
          PROVE  versions' \in {versions, Initiated}
        BY <2>1 DEF FailRollout, SameForAgent, Recommend
    <2>2. ASSUME StartRollout \/ EndRollout \/ SendToAgent \/ ListenToConfigUpdate
          PROVE  versions' = versions
        BY <2>2 DEF StartRollout, EndRollout, SendToAgent, ListenToConfigUpdate, dbVars
    <2>3. ASSUME NEW c \in Conns, UpdateNewAgent(c) PROVE versions' = Initiated
        BY <2>3 DEF UpdateNewAgent
    <2>4. ASSUME NEW c \in Conns, FindOrCreateAgent(c) \/ Respond(c) \/ RemoveConnection(c)
          PROVE  versions' = versions
        BY <2>4 DEF FindOrCreateAgent, Respond, RemoveConnection, dbVars
    <2> QED
        BY <1>1, <1>2, <1>5, <1>6, <1>7, <2>1, <2>2, <2>3, <2>4 DEF Server
<1>8. ASSUME NEW a \in Agents,
             \/ \E c \in Conns : Connect(a, c)
             \/ \E ok \in BOOLEAN : Apply(a, ok)
             \/ Leave(a)
      PROVE  versions' = versions
    BY <1>8 DEF Connect, Apply, Leave, dbVars
<1>9. CASE UNCHANGED vars
    BY <1>1, <1>9 DEF vars
<1> QED
    BY <1>1, <1>4, <1>7, <1>8, <1>9 DEF Next

(* What is recommended has begun once its deployment is started. *)
LEMMA InitiatedBegun ==
    ASSUME TypeOK, versions' = Initiated, NEW v, v = Recommendation.version
    PROVE  Begun(v)'
<1>1. v = Latest
    BY DEF Recommendation
<1>2. Latest # 0 => /\ Latest \in DOMAIN versions'
                    /\ versions'[Latest].status = "IN_PROGRESS"
    BY DEF Initiated, TypeOK, DbTypes, Latest, Row
<1> QED
    BY <1>1, <1>2 DEF Begun

(* Which steps change what. *)
LEMMA WhoChanges ==
    ASSUME [Next]_vars
    PROVE  /\ \/ objects' = objects
              \/ SendToAgent
              \/ \E c \in Conns : FindOrCreateAgent(c) \/ UpdateNewAgent(c) \/ UpdateStatus(c)
           /\ \/ subscribers' = subscribers
              \/ ListenToConfigUpdate
              \/ \E c \in Conns : UpdateStatus(c) \/ Respond(c)
           /\ heard' = heard \/ \E c \in Conns : UpdateStatus(c)
           /\ \/ agentsById' = agentsById
              \/ \E c \in Conns : FindOrCreateAgent(c) \/ RemoveConnection(c)
           /\ \/ rollout' = rollout
              \/ StartRollout \/ EndRollout \/ SendToAgent \/ ListenToConfigUpdate
              \/ \E o \in Objects : FailRollout(o) \/ SameForAgent(o) \/ Recommend(o)
           /\ \/ handling' = handling
              \/ \E c \in Conns : \/ FindOrCreateAgent(c) \/ UpdateNewAgent(c)
                                  \/ UpdateStatus(c) \/ Respond(c)
              \/ \E a \in Agents : \/ \E c \in Conns : Connect(a, c)
                                   \/ \E ok \in BOOLEAN : Apply(a, ok)
                                   \/ Leave(a)
           /\ \/ down' = down
              \/ SendToAgent
              \/ \E c \in Conns : UpdateNewAgent(c) \/ UpdateStatus(c) \/ Respond(c)
              \/ \E a \in Agents : Leave(a) \/ \E ok \in BOOLEAN : Apply(a, ok)
           /\ \/ agents' = agents
              \/ \E a \in Agents : \/ \E c \in Conns : Connect(a, c)
                                   \/ \E ok \in BOOLEAN : Apply(a, ok)
                                   \/ Leave(a)
<1>1. CASE \/ \E content \in Contents : InsertVersion(content)
           \/ \E s \in saving : InsertElements(s)
           \/ UNCHANGED vars
    BY <1>1 DEF InsertVersion, InsertElements, registryVars, netVars, vars
<1>2. ASSUME NEW o \in Objects, FailRollout(o) \/ SameForAgent(o) \/ Recommend(o)
      PROVE  UNCHANGED <<objects, subscribers, heard, agentsById, handling, down, agents>>
    BY <1>2 DEF FailRollout, SameForAgent, Recommend, registryVars, netVars
<1>3. CASE StartRollout \/ EndRollout
    BY <1>3 DEF StartRollout, EndRollout, registryVars, netVars
<1>4. CASE SendToAgent
    BY <1>4 DEF SendToAgent, registryVars
<1>5. CASE ListenToConfigUpdate
    BY <1>5 DEF ListenToConfigUpdate, registryVars, netVars
<1>6. ASSUME NEW c \in Conns, UpdateNewAgent(c)
      PROVE  UNCHANGED <<subscribers, heard, agentsById, rollout, agents>>
    BY <1>6 DEF UpdateNewAgent, registryVars
<1>7. ASSUME NEW c \in Conns, UpdateStatus(c)
      PROVE  UNCHANGED <<agentsById, rollout, agents>>
    BY <1>7 DEF UpdateStatus, registryVars
<1>8. ASSUME NEW c \in Conns, Respond(c)
      PROVE  UNCHANGED <<objects, heard, agentsById, rollout, agents>>
    BY <1>8 DEF Respond, registryVars
<1>9. ASSUME NEW c \in Conns, FindOrCreateAgent(c)
      PROVE  UNCHANGED <<subscribers, heard, rollout, down, agents>>
    BY <1>9 DEF FindOrCreateAgent, netVars
<1>10. ASSUME NEW c \in Conns, RemoveConnection(c)
       PROVE  UNCHANGED <<objects, subscribers, heard, rollout, handling, down, agents>>
    BY <1>10 DEF RemoveConnection
<1>11. ASSUME NEW a \in Agents,
              \/ \E ok \in BOOLEAN : Apply(a, ok)
              \/ Leave(a)
       PROVE  UNCHANGED <<objects, subscribers, heard, agentsById, rollout>>
    BY <1>11 DEF Apply, Leave, registryVars
<1>12. ASSUME NEW a \in Agents, NEW c \in Conns, Connect(a, c)
       PROVE  UNCHANGED <<objects, subscribers, heard, agentsById, rollout, down>>
    BY <1>12 DEF Connect, registryVars
<1> QED
    BY <1>1, <1>2, <1>3, <1>4, <1>5, <1>6, <1>7, <1>8, <1>9, <1>10, <1>11, <1>12
    DEF Next, Server

(* What one may be sent last, and by whom. *)
LEMMA RemoteMoves ==
    ASSUME BaseInv, [Next]_vars, NEW o \in Objects
    PROVE  \/ objects'[o].remote = objects[o].remote
           \/ /\ objects'[o] = NewObject
              /\ agentsById[o[1]] = None /\ agentsById'[o[1]] = o[2]
              /\ handling[o[2]].pc = "arrived"
              /\ handling'[o[2]].pc = "update" /\ handling'[o[2]].object = o
           \/ SendToAgent /\ o = rollout.object /\ objects'[o].remote = rollout.config
           \/ \E c \in Conns : /\ UpdateNewAgent(c) /\ o = handling[c].object
                               /\ objects'[o].remote = Recommendation
<1>1. objects \in [Objects -> Object] /\ objects[o] \in Object
    BY BaseFacts
<1>2. CASE SendToAgent
    <2>1. objects' = [objects EXCEPT ![rollout.object].remote = rollout.config]
          /\ rollout.object \in Objects
        BY <1>2, BaseFacts DEF SendToAgent
    <2>2. CASE o = rollout.object
        BY <1>1, <1>2, <2>1, <2>2 DEF Object
    <2>3. CASE o # rollout.object
        BY <1>1, <2>1, <2>3
    <2> QED
        BY <2>2, <2>3
<1>3. ASSUME NEW c \in Conns, FindOrCreateAgent(c)
      PROVE  \/ objects'[o] = objects[o]
             \/ /\ objects'[o] = NewObject
                /\ agentsById[o[1]] = None /\ agentsById'[o[1]] = o[2]
                /\ handling[o[2]].pc = "arrived"
                /\ handling'[o[2]].pc = "update" /\ handling'[o[2]].object = o
    <2>1. PICK a \in Agents : Found(a, c)
        BY <1>3, FindEffect
    <2>2. CASE o = <<a, c>> /\ agentsById[a] = None
        BY <1>1, <2>1, <2>2 DEF Found
    <2>3. CASE o # <<a, c>> \/ agentsById[a] # None
        BY <1>1, <2>1, <2>3 DEF Found
    <2> QED
        BY <2>2, <2>3
<1>4. ASSUME NEW c \in Conns, UpdateNewAgent(c)
      PROVE  \/ objects'[o].remote = objects[o].remote
             \/ o = handling[c].object /\ objects'[o].remote = Recommendation
    <2>1. PICK p : p = handling[c].object
        OBVIOUS
    <2>2. PICK object : object = Reported(objects[p], handling[c].msg)
        OBVIOUS
    <2>3. p \in Objects /\ handling[c].msg \in Message
        BY <1>4, <2>1, BaseFacts DEF UpdateNewAgent
    <2>4. object \in Object
        BY <1>1, <2>2, <2>3, ReportedTypes
    <2>5. objects' = [objects EXCEPT ![p] = [object EXCEPT !.remote = Recommendation]]
        BY <1>4, <2>1, <2>2 DEF UpdateNewAgent
    <2> QED
        BY <1>1, <2>1, <2>3, <2>4, <2>5 DEF Object
<1>5. ASSUME NEW c \in Conns, UpdateStatus(c)
      PROVE  objects'[o].remote = objects[o].remote
    BY <1>5, StatusEffect
<1> QED
    BY <1>2, <1>3, <1>4, <1>5, WhoChanges

(* Who handles a message, and how it comes to listen and ends. *)
LEMMA HandlingMoves ==
    ASSUME BaseInv, LinkInv, [Next]_vars, NEW c \in Conns
    PROVE  \/ handling'[c] = handling[c]
           \/ FindOrCreateAgent(c) \/ UpdateNewAgent(c) \/ UpdateStatus(c)
           \/ Respond(c) /\ handling'[c] = Idle
           \/ \E a \in Agents : /\ handling[c].pc = "idle"
                                /\ handling'[c].pc = "arrived" /\ handling'[c].msg.agent = a
                                /\ handling'[c].msg.status = agents'[a].status
           \/ handling[c].pc = "arrived" /\ handling'[c] = Idle
<1>1. handling \in [Conns -> Handling] /\ handling[c] \in Handling
    BY DEF BaseInv, TypeOK, HandlingTypes
<1>2. ASSUME NEW d \in Conns, d # c, \/ FindOrCreateAgent(d) \/ UpdateNewAgent(d)
                                     \/ UpdateStatus(d) \/ Respond(d)
      PROVE  handling'[c] = handling[c]
    <2>1. FindOrCreateAgent(d) => \E a \in Agents : Found(a, d)
        BY FindEffect
    <2>2. Respond(d) => handling'[c] = handling[c]
        BY <1>1, <1>2 DEF Respond
    <2> QED
        BY <1>2, <2>1, <2>2, NewAgentEffect, StatusEffect DEF Found
<1>3. Respond(c) => handling'[c] = Idle
    BY <1>1 DEF Respond
<1>4. ASSUME NEW a \in Agents, NEW d \in Conns, Connect(a, d)
      PROVE  \/ handling'[c] = handling[c]
             \/ /\ handling[c].pc = "idle"
                /\ handling'[c].pc = "arrived" /\ handling'[c].msg.agent = a
                /\ handling'[c].msg.status = agents'[a].status
    <2>1. handling' = [handling EXCEPT ![d] = Arrived(Status(a))] /\ net[d] = "new"
          /\ agents' = [agents EXCEPT ![a].link = d]
        BY <1>4 DEF Connect
    <2>2. agents'[a].status = agents[a].status
        BY <2>1 DEF BaseInv, TypeOK, NetTypes
    <2>3. /\ Arrived(Status(a)).pc = "arrived" /\ Arrived(Status(a)).msg.agent = a
          /\ Arrived(Status(a)).msg.status = agents[a].status
        BY DEF Arrived, Status, Idle
    <2>4. handling[d].pc = "idle"
        BY <2>1, BaseFacts DEF LinkInv, Owned
    <2> QED
        BY <1>1, <2>1, <2>2, <2>3, <2>4
<1>5. ASSUME NEW a \in Agents, NEW ok \in BOOLEAN, Apply(a, ok)
      PROVE  \/ handling'[c] = handling[c]
             \/ /\ handling[c].pc = "idle"
                /\ handling'[c].pc = "arrived" /\ handling'[c].msg.agent = a
                /\ handling'[c].msg.status = agents'[a].status
    <2>1. PICK d \in Conns, config \in Config : Applied(a, d, config, ok)
        BY <1>5, ApplyEffect
    <2> QED
        BY <2>1 DEF Applied, Idle
<1>6. ASSUME NEW a \in Agents, Leave(a)
      PROVE  \/ handling'[c] = handling[c]
             \/ handling[c].pc = "arrived" /\ handling'[c] = Idle
    <2>1. PICK d \in Conns : Left(a, d)
        BY <1>6, LeaveEffect
    <2> QED
        BY <2>1 DEF Left
<1> QED
    BY <1>2, <1>3, <1>4, <1>5, <1>6, WhoChanges

(* How the rollout comes to recommend and listen, and ends. *)
LEMMA RolloutMoves ==
    ASSUME BaseInv, [Next]_vars
    PROVE  \/ rollout' = rollout
           \/ rollout.pc = "idle" /\ rollout'.pc = "next"
           \/ rollout.pc = "next" /\ rollout'.pc = "idle" /\ rollout'.todo = {}
           \/ \E o \in Objects : /\ Recommend(o) /\ rollout.pc = "next"
                                 /\ rollout'.pc = "recommended"
                                 /\ rollout'.object = o /\ rollout'.config = Recommendation
           \/ /\ SendToAgent /\ rollout.pc = "recommended" /\ rollout'.pc = "listen"
              /\ rollout'.object = rollout.object /\ rollout'.config = rollout.config
           \/ ListenToConfigUpdate /\ rollout.pc = "listen" /\ rollout'.pc = "next"
<1>1. rollout \in [pc : {"idle", "next", "recommended", "listen"},
                   todo : SUBSET Objects, held : SUBSET Objects,
                   object : Objects \cup {None}, config : Config \cup {None}]
    BY DEF BaseInv, TypeOK, RolloutTypes
<1>2. StartRollout => rollout.pc = "idle" /\ rollout'.pc = "next"
    BY DEF StartRollout, NoRollout
<1>3. ASSUME EndRollout \/ \E o \in Objects : FailRollout(o) \/ SameForAgent(o)
      PROVE  rollout.pc = "next" /\ rollout'.pc = "idle" /\ rollout'.todo = {}
    BY <1>3 DEF EndRollout, FailRollout, SameForAgent, NoRollout
<1>4. ASSUME NEW o \in Objects, Recommend(o)
      PROVE  /\ rollout.pc = "next" /\ rollout'.pc = "recommended"
             /\ rollout'.object = o /\ rollout'.config = Recommendation
    BY <1>1, <1>4 DEF Recommend
<1>5. ASSUME SendToAgent
      PROVE  /\ rollout.pc = "recommended" /\ rollout'.pc = "listen"
             /\ rollout'.object = rollout.object /\ rollout'.config = rollout.config
    BY <1>1, <1>5 DEF SendToAgent
<1>6. ASSUME ListenToConfigUpdate
      PROVE  rollout.pc = "listen" /\ rollout'.pc = "next"
    BY <1>1, <1>6 DEF ListenToConfigUpdate
<1> QED
    BY <1>2, <1>3, <1>4, <1>5, <1>6, WhoChanges

(* Nothing that is settled is unsettled, and what somebody is about to     *)
(* listen for is either still so or settled.                               *)
LEMMA SettledKept ==
    ASSUME TypeOK, [Next]_vars, NEW v, Settled(v)
    PROVE  Settled(v)'
<1>1. CASE subscribers \subseteq subscribers' /\ heard \subseteq heard'
    BY <1>1 DEF Settled
<1>2. ASSUME NEW c \in Conns, UpdateStatus(c) PROVE Settled(v)'
    <2> DEFINE msg == handling[c].msg
               new == AnswerIsNew(objects[handling[c].object], msg)
    <2>1. /\ subscribers' = IF new THEN subscribers \ {msg.status.version} ELSE subscribers
          /\ heard' = IF new /\ msg.status.version > 0 THEN heard \cup {msg.status} ELSE heard
        BY <1>2 DEF UpdateStatus
    <2>2. new => msg.status \in Answer
        BY <1>2 DEF AnswerIsNew, UpdateStatus, TypeOK, HandlingTypes, Handling, Message
    <2>3. new => msg.status.version \in Nat
        BY <2>2, AgentConfigAssumption DEF Answer
    <2> HIDE DEF msg, new
    <2> QED
        BY <2>1, <2>3 DEF Settled
<1>3. CASE heard' = heard /\ ListenToConfigUpdate
    BY <1>1, <1>3 DEF ListenToConfigUpdate
<1>4. ASSUME heard' = heard, NEW c \in Conns, Respond(c) PROVE Settled(v)'
    BY <1>1, <1>4 DEF Respond
<1> QED
    BY <1>1, <1>2, <1>3, <1>4, WhoChanges

LEMMA PendingKept ==
    ASSUME BaseInv, LinkInv, [Next]_vars, NEW o, NEW v, Pending(o, v)
    PROVE  Pending(o, v)' \/ Settled(v)'
<1>1. CASE rollout.pc = "listen" /\ rollout.object = o /\ rollout.config.version = v
    <2>1. CASE rollout' = rollout
        BY <1>1, <2>1 DEF Pending
    <2>2. CASE ListenToConfigUpdate
        BY <1>1, <2>2 DEF ListenToConfigUpdate, Settled
    <2> QED
        BY <1>1, <2>1, <2>2, RolloutMoves
<1>2. ASSUME NEW c \in Conns, handling[c].pc = "listen", handling[c].object = o,
             handling[c].config.version = v
      PROVE  Pending(o, v)' \/ Settled(v)'
    <2>1. CASE handling'[c] = handling[c]
        BY <1>2, <2>1 DEF Pending
    <2>2. CASE Respond(c)
        BY <1>2, <2>2 DEF Respond, Settled
    <2>3. ~ (FindOrCreateAgent(c) \/ UpdateNewAgent(c) \/ UpdateStatus(c))
        BY <1>2 DEF FindOrCreateAgent, UpdateNewAgent, UpdateStatus
    <2> QED
        BY <1>2, <2>1, <2>2, <2>3, HandlingMoves
<1> QED
    BY <1>1, <1>2 DEF Pending

(* Who waits for an agent's mutex finds nothing pending behind it. *)
LEMMA FreeNotPending ==
    ASSUME LinkInv, NEW o, NEW v, MuxFree(o)
    PROVE  ~ Pending(o, v)
BY DEF MuxFree, Pending, LinkInv, TargetsCurrent

(* An agent is not removed while something is pending for it. *)
LEMMA DueKept ==
    ASSUME BaseInv, LinkInv, [Next]_vars, NEW a \in Agents, NEW c \in Conns, NEW v, Due(a, c, v)
    PROVE  Due(a, c, v)' \/ Settled(v)'
<1>1. agentsById[a] = c /\ Pending(<<a, c>>, v)
    BY DEF Due
<1>2. agentsById'[a] = c
    <2>1. ASSUME NEW d \in Conns, FindOrCreateAgent(d) PROVE agentsById'[a] = c
        <3>1. PICK b \in Agents : Found(b, d)
            BY <2>1, FindEffect
        <3> QED
            BY <1>1, <3>1, BaseFacts DEF Found
    <2>2. ASSUME NEW d \in Conns, RemoveConnection(d) PROVE agentsById'[a] = c
        <3>1. a \notin connections[d]
            <4>1. SUFFICES ASSUME a \in connections[d] PROVE FALSE
                OBVIOUS
            <4>2. MuxFree(<<a, c>>)
                BY <1>1, <2>2, <4>1 DEF RemoveConnection
            <4> QED
                BY <1>1, <4>2, FreeNotPending
        <3> QED
            BY <1>1, <2>2, <3>1 DEF RemoveConnection
    <2> QED
        BY <1>1, <2>1, <2>2, WhoChanges
<1> QED
    BY <1>1, <1>2, PendingKept DEF Due

LEMMA PromisedKept ==
    ASSUME BaseInv, LinkInv, [Next]_vars, NEW a \in Agents, NEW v, Promised(a, v)
    PROVE  Promised(a, v)'
<1>1. CASE Settled(v)
    BY <1>1, SettledKept DEF BaseInv, Promised
<1>2. ASSUME NEW c \in Conns, Due(a, c, v) PROVE Promised(a, v)'
    BY <1>2, DueKept DEF Promised
<1> QED
    BY <1>1, <1>2 DEF Promised

(* What is on a queue was there, or is what is sent now. *)
LEMMA SendOnElements ==
    ASSUME NEW queues \in [Conns -> Seq(Config)], NEW d \in Conns, NEW config \in Config,
           NEW c \in Conns, NEW i \in 1 .. Len(SendOn(queues, d, config)[c])
    PROVE  \/ i \in 1 .. Len(queues[c]) /\ SendOn(queues, d, config)[c][i] = queues[c][i]
           \/ c = d /\ net[d] = "open" /\ SendOn(queues, d, config)[c][i] = config
<1>1. queues[c] \in Seq(Config) /\ queues[d] \in Seq(Config)
    OBVIOUS
<1>2. CASE SendOn(queues, d, config) = queues
    BY <1>2
<1>3. CASE net[d] = "open" /\ SendOn(queues, d, config) = [queues EXCEPT ![d] = Append(@, config)]
    <2>1. CASE c = d
        <3>1. SendOn(queues, d, config)[c] = Append(queues[d], config)
            BY <1>3, <2>1
        <3>2. i \in 1 .. Len(queues[d]) + 1
            BY <1>1, <3>1
        <3>3. i \in 1 .. Len(queues[d]) => Append(queues[d], config)[i] = queues[d][i]
            BY <1>1
        <3>4. i = Len(queues[d]) + 1 => Append(queues[d], config)[i] = config
            BY <1>1
        <3> QED
            BY <1>1, <1>3, <2>1, <3>1, <3>2, <3>3, <3>4
    <2>2. CASE c # d
        BY <1>3, <2>2
    <2> QED
        BY <2>1, <2>2
<1> QED
    BY <1>2, <1>3 DEF SendOn

LEMMA QueueMoves ==
    ASSUME BaseInv, [Next]_vars, NEW c \in Conns, NEW i \in 1 .. Len(down'[c])
    PROVE  \/ \E j \in 1 .. Len(down[c]) : down[c][j] = down'[c][i]
           \/ /\ SendToAgent /\ c = rollout.object[2] /\ net[c] = "open"
              /\ down'[c][i] = rollout.config
           \/ \E d \in Conns : /\ UpdateNewAgent(d) /\ c = handling[d].object[2] /\ net[c] = "open"
                               /\ down'[c][i] = Recommendation
           \/ \E d \in Conns, o \in Objects :
                 /\ UpdateStatus(d) /\ o = handling[d].object /\ c = o[2] /\ net[c] = "open"
                 /\ objects[o].remote # None /\ down'[c][i] = objects[o].remote
           \/ Respond(c) /\ down'[c][i] = handling[c].config
<1>1. down \in [Conns -> Seq(Config)] /\ down[c] \in Seq(Config)
    BY BaseFacts
<1>2. ASSUME NEW d \in Conns, NEW config \in Config, down' = SendOn(down, d, config)
      PROVE  \/ \E j \in 1 .. Len(down[c]) : down[c][j] = down'[c][i]
             \/ c = d /\ net[d] = "open" /\ down'[c][i] = config
    BY <1>1, <1>2, SendOnElements
<1>3. ASSUME SendToAgent
      PROVE  \/ \E j \in 1 .. Len(down[c]) : down[c][j] = down'[c][i]
             \/ c = rollout.object[2] /\ net[c] = "open" /\ down'[c][i] = rollout.config
    <2>1. /\ rollout.object[2] \in Conns /\ rollout.config \in Config
          /\ down' = SendOn(down, rollout.object[2], rollout.config)
        BY <1>3, BaseFacts DEF SendToAgent
    <2> QED
        BY <1>2, <2>1
<1>4. ASSUME NEW d \in Conns, UpdateNewAgent(d)
      PROVE  \/ \E j \in 1 .. Len(down[c]) : down[c][j] = down'[c][i]
             \/ c = handling[d].object[2] /\ net[c] = "open" /\ down'[c][i] = Recommendation
    <2>1. handling[d].object[2] \in Conns /\ down' = SendOn(down, handling[d].object[2], Recommendation)
        BY <1>4, BaseFacts DEF UpdateNewAgent
    <2>2. Recommendation \in Config
        BY RecommendationTypes DEF BaseInv, TypeOK
    <2> QED
        BY <1>2, <2>1, <2>2
<1>5. ASSUME NEW d \in Conns, UpdateStatus(d)
      PROVE  \/ \E j \in 1 .. Len(down[c]) : down[c][j] = down'[c][i]
             \/ \E o \in Objects :
                   /\ o = handling[d].object /\ c = o[2] /\ net[c] = "open"
                   /\ objects[o].remote # None /\ down'[c][i] = objects[o].remote
    <2>1. PICK o : o = handling[d].object
        OBVIOUS
    <2>2. o \in Objects /\ o[2] \in Conns /\ objects[o] \in Object
        BY <1>5, <2>1, BaseFacts DEF UpdateStatus
    <2>3. CASE down' = down
        BY <2>3
    <2>4. CASE objects[o].remote # None /\ down' = SendOn(down, o[2], objects[o].remote)
        <3>1. objects[o].remote \in Config
            BY <2>2, <2>4 DEF Object
        <3> QED
            BY <1>2, <2>1, <2>2, <2>4, <3>1
    <2> QED
        BY <1>5, <2>1, <2>3, <2>4, StatusEffect
<1>6. ASSUME NEW d \in Conns, Respond(d)
      PROVE  \/ \E j \in 1 .. Len(down[c]) : down[c][j] = down'[c][i]
             \/ c = d /\ down'[c][i] = handling[d].config
    <2>1. handling[d].config \in Config /\ down' = SendOn(down, d, handling[d].config)
        BY <1>6, BaseFacts DEF Respond
    <2> QED
        BY <1>2, <2>1
<1>7. ASSUME NEW a \in Agents, NEW ok \in BOOLEAN, Apply(a, ok)
      PROVE  \E j \in 1 .. Len(down[c]) : down[c][j] = down'[c][i]
    <2>1. PICK d \in Conns, config \in Config : Applied(a, d, config, ok)
        BY <1>7, ApplyEffect
    <2>2. down' = [down EXCEPT ![d] = Tail(down[d])] /\ down[d] # <<>>
        BY <2>1 DEF Applied
    <2>3. CASE c = d
        <3>1. down'[c] = Tail(down[c]) /\ down[c] # <<>>
            BY <1>1, <2>2, <2>3
        <3>2. i + 1 \in 1 .. Len(down[c]) /\ Tail(down[c])[i] = down[c][i + 1]
            BY <1>1, <3>1
        <3> QED
            BY <3>1, <3>2
    <2>4. CASE c # d
        BY <1>1, <2>2, <2>4
    <2> QED
        BY <2>3, <2>4
<1>8. ASSUME NEW a \in Agents, Leave(a)
      PROVE  \E j \in 1 .. Len(down[c]) : down[c][j] = down'[c][i]
    <2>1. PICK d \in Conns : Left(a, d)
        BY <1>8, LeaveEffect
    <2>2. down'[c] = <<>> \/ down'[c] = down[c]
        BY <2>1 DEF Left
    <2> QED
        BY <2>2
<1>9. down' = down => \E j \in 1 .. Len(down[c]) : down[c][j] = down'[c][i]
    OBVIOUS
<1> QED
    BY <1>3, <1>4, <1>5, <1>6, <1>7, <1>8, <1>9, WhoChanges

LEMMA BegunStep ==
    ASSUME BaseInv, LinkInv, AllBegun, [Next]_vars
    PROVE  AllBegun'
<1>1. \A v : Begun(v) => Begun(v)'
    BY BegunKept DEF BaseInv
<1>2. ASSUME NEW c \in Conns, UpdateNewAgent(c)
      PROVE  \A v : v = Recommendation.version => Begun(v)'
    BY <1>2, InitiatedBegun DEF UpdateNewAgent, BaseInv
<1>3. ASSUME NEW v \in subscribers' PROVE Begun(v)'
    <2>1. CASE v \in subscribers
        BY <1>1, <2>1 DEF AllBegun
    <2>2. CASE ListenToConfigUpdate
        BY <1>1, <1>3, <2>2 DEF ListenToConfigUpdate, AllBegun
    <2>3. ASSUME NEW c \in Conns, Respond(c) PROVE Begun(v)'
        BY <1>1, <1>3, <2>3 DEF Respond, AllBegun
    <2>4. ASSUME NEW c \in Conns, UpdateStatus(c) PROVE v \in subscribers
        BY <1>3, <2>4 DEF UpdateStatus
    <2> QED
        BY <1>3, <2>1, <2>2, <2>3, <2>4, WhoChanges
<1>4. ASSUME rollout'.pc \in {"recommended", "listen"}, NEW v, v = rollout'.config.version
      PROVE  Begun(v)'
    <2>1. ASSUME NEW o \in Objects, Recommend(o), rollout'.config = Recommendation
          PROVE  Begun(v)'
        BY <1>4, <2>1, InitiatedBegun DEF Recommend, BaseInv
    <2>2. CASE rollout.pc \in {"recommended", "listen"} /\ rollout'.config = rollout.config
        BY <1>1, <1>4, <2>2 DEF AllBegun
    <2> QED
        BY <1>4, <2>1, <2>2, RolloutMoves
<1>5. ASSUME NEW c \in Conns, handling'[c].pc = "listen", NEW v, v = handling'[c].config.version
      PROVE  Begun(v)'
    <2>1. CASE handling'[c] = handling[c]
        BY <1>1, <1>5, <2>1 DEF AllBegun
    <2>2. CASE UpdateNewAgent(c)
        BY <1>2, <1>5, <2>2, NewAgentEffect
    <2>3. CASE UpdateStatus(c)
        <3>1. PICK o : o = handling[c].object
            OBVIOUS
        <3>2. o \in Objects
            BY <2>3, <3>1, BaseFacts DEF UpdateStatus
        <3>3. handling'[c].config = objects[o].remote /\ objects[o].remote # None
            BY <1>5, <2>3, <3>1, StatusEffect DEF Idle
        <3> QED
            BY <1>1, <1>5, <3>2, <3>3 DEF AllBegun
    <2>4. ~ FindOrCreateAgent(c)
        BY <1>5, FindEffect DEF Found
    <2> QED
        BY <1>5, <2>1, <2>2, <2>3, <2>4, HandlingMoves DEF Idle
<1>6. ASSUME NEW o \in Objects, objects'[o].remote # None, NEW v, v = objects'[o].remote.version
      PROVE  Begun(v)'
    <2>1. CASE objects'[o].remote = objects[o].remote
        BY <1>1, <1>6, <2>1 DEF AllBegun
    <2>2. CASE SendToAgent /\ objects'[o].remote = rollout.config
        BY <1>1, <1>6, <2>2 DEF AllBegun, SendToAgent
    <2>3. ASSUME NEW c \in Conns, UpdateNewAgent(c), objects'[o].remote = Recommendation
          PROVE  Begun(v)'
        BY <1>2, <1>6, <2>3
    <2> QED
        BY <1>6, <2>1, <2>2, <2>3, RemoteMoves DEF NewObject
<1> QED
    BY <1>3, <1>4, <1>5, <1>6 DEF AllBegun

LEMMA SentStep ==
    ASSUME BaseInv, LinkInv, SentSettled, [Next]_vars
    PROVE  SentSettled'
<1>1. ASSUME NEW o \in Objects, objects'[o].remote # None, NEW v, v = objects'[o].remote.version
      PROVE  Settled(v)' \/ Pending(o, v)'
    <2>1. CASE objects'[o].remote = objects[o].remote
        <3>1. Settled(v) \/ Pending(o, v)
            BY <1>1, <2>1 DEF SentSettled
        <3> QED
            BY <3>1, SettledKept, PendingKept DEF BaseInv
    <2>2. CASE SendToAgent /\ o = rollout.object /\ objects'[o].remote = rollout.config
        <3>1. rollout.pc = "recommended"
            BY <2>2 DEF SendToAgent
        <3>2. rollout' # rollout
            BY <2>2, <3>1 DEF SendToAgent, BaseInv, TypeOK, RolloutTypes
        <3>3. /\ rollout'.pc = "listen" /\ rollout'.object = o
              /\ rollout'.config = rollout.config
            BY <2>2, <3>1, <3>2, RolloutMoves
        <3> QED
            BY <1>1, <2>2, <3>3 DEF Pending
    <2>3. ASSUME NEW c \in Conns, UpdateNewAgent(c), o = handling[c].object,
                 objects'[o].remote = Recommendation
          PROVE  Pending(o, v)'
        BY <1>1, <2>3, NewAgentEffect DEF Pending
    <2> QED
        BY <1>1, <2>1, <2>2, <2>3, RemoteMoves DEF NewObject
<1> QED
    BY <1>1 DEF SentSettled

LEMMA QueuedStep ==
    ASSUME BaseInv, LinkInv, SentSettled, QueuedSettled, [Next]_vars
    PROVE  QueuedSettled'
<1>1. ASSUME NEW c \in Conns, NEW v, Settled(v) \/ \E a \in Agents : Due(a, c, v)
      PROVE  Settled(v)' \/ \E a \in Agents : Due(a, c, v)'
    BY <1>1, SettledKept, DueKept DEF BaseInv
<1>2. ASSUME NEW o \in Objects, Current(o), net[o[2]] = "open"
      PROVE  o[1] \in Agents /\ o = <<o[1], o[2]>> /\ agentsById[o[1]] = o[2]
    BY <1>2 DEF Current, Objects
<1>3. ASSUME NEW c \in Conns, NEW i \in 1 .. Len(down'[c]), NEW v, v = down'[c][i].version
      PROVE  Settled(v)' \/ \E a \in Agents : Due(a, c, v)'
    <2>1. ASSUME NEW j \in 1 .. Len(down[c]), down[c][j] = down'[c][i]
          PROVE  Settled(v)' \/ \E a \in Agents : Due(a, c, v)'
        BY <1>1, <1>3, <2>1 DEF QueuedSettled
    <2>2. ASSUME SendToAgent, c = rollout.object[2], net[c] = "open",
                 down'[c][i] = rollout.config
          PROVE  \E a \in Agents : Due(a, c, v)'
        <3>1. PICK o : o = rollout.object
            OBVIOUS
        <3>2. rollout.pc = "recommended" /\ o \in Objects /\ Current(o)
            BY <2>2, <3>1, BaseFacts DEF SendToAgent, LinkInv, TargetsCurrent
        <3>3. rollout' # rollout
            BY <2>2, <3>2 DEF SendToAgent, BaseInv, TypeOK, RolloutTypes
        <3>4. rollout'.pc = "listen" /\ rollout'.object = o /\ rollout'.config = rollout.config
            BY <3>1, <3>2, <3>3, RolloutMoves
        <3>5. agentsById' = agentsById
            BY <2>2 DEF SendToAgent, registryVars
        <3>6. o[1] \in Agents /\ o = <<o[1], c>> /\ agentsById[o[1]] = c
            BY <1>2, <2>2, <3>1, <3>2
        <3>7. Pending(<<o[1], c>>, v)'
            BY <1>3, <2>2, <3>4, <3>6 DEF Pending
        <3> QED
            BY <3>5, <3>6, <3>7 DEF Due
    <2>3. ASSUME NEW d \in Conns, UpdateNewAgent(d), c = handling[d].object[2], net[c] = "open",
                 down'[c][i] = Recommendation
          PROVE  \E a \in Agents : Due(a, c, v)'
        <3>1. PICK o : o = handling[d].object
            OBVIOUS
        <3>2. o \in Objects /\ Current(o)
            BY <2>3, <3>1, BaseFacts DEF UpdateNewAgent, LinkInv, TargetsCurrent
        <3>3. handling'[d].pc = "listen" /\ handling'[d].object = o
              /\ handling'[d].config = Recommendation
            BY <2>3, <3>1, NewAgentEffect
        <3>4. agentsById' = agentsById
            BY <2>3 DEF UpdateNewAgent, registryVars
        <3>5. o[1] \in Agents /\ o = <<o[1], c>> /\ agentsById[o[1]] = c
            BY <1>2, <2>3, <3>1, <3>2
        <3>6. Pending(<<o[1], c>>, v)'
            BY <1>3, <2>3, <3>3, <3>5 DEF Pending
        <3> QED
            BY <3>4, <3>5, <3>6 DEF Due
    <2>4. ASSUME NEW d \in Conns, NEW o \in Objects, UpdateStatus(d), o = handling[d].object,
                 c = o[2], net[c] = "open", objects[o].remote # None,
                 down'[c][i] = objects[o].remote
          PROVE  Settled(v)' \/ \E a \in Agents : Due(a, c, v)'
        <3>1. Current(o)
            BY <2>4 DEF UpdateStatus, LinkInv, TargetsCurrent
        <3>2. o[1] \in Agents /\ o = <<o[1], c>> /\ agentsById[o[1]] = c
            BY <1>2, <2>4, <3>1
        <3>3. Settled(v) \/ Pending(o, v)
            BY <1>3, <2>4 DEF SentSettled
        <3>4. Settled(v) \/ Due(o[1], c, v)
            BY <3>2, <3>3 DEF Due
        <3> QED
            BY <1>1, <3>2, <3>4
    <2>5. ASSUME Respond(c), down'[c][i] = handling[c].config
          PROVE  Settled(v)'
        BY <1>3, <2>5 DEF Respond, Settled
    <2> QED
        BY <2>1, <2>2, <2>3, <2>4, <2>5, QueueMoves
<1> QED
    BY <1>3 DEF QueuedSettled

LEMMA AnswersStep ==
    ASSUME BaseInv, LinkInv, QueuedSettled, AnswersSettled, [Next]_vars
    PROVE  AnswersSettled'
<1>1. ASSUME NEW a \in Agents, agents'[a].status # None, NEW v, v = agents'[a].status.version
      PROVE  Promised(a, v)'
    <2>1. CASE agents'[a].status = agents[a].status
        BY <1>1, <2>1, PromisedKept DEF AnswersSettled
    <2>2. ASSUME NEW ok \in BOOLEAN, Apply(a, ok) PROVE Promised(a, v)'
        <3>1. PICK c \in Conns, config \in Config : Applied(a, c, config, ok)
            BY <2>2, ApplyEffect
        <3>2. config = Head(down[c]) /\ down[c] # <<>> /\ agents[a].link = c /\ v = config.version
            BY <1>1, <3>1 DEF Applied
        <3>3. 1 \in 1 .. Len(down[c]) /\ down[c][1] = config
            BY <3>2, BaseFacts
        <3>4. Settled(v) \/ \E b \in Agents : Due(b, c, v)
            BY <3>2, <3>3 DEF QueuedSettled
        <3>5. ASSUME NEW b \in Agents, Due(b, c, v) PROVE b = a
            <4>1. Involved(b, c) /\ Involved(a, c)
                BY <3>2, <3>5 DEF Due, Involved
            <4> QED
                BY <4>1 DEF LinkInv, Owned
        <3>6. Promised(a, v)
            BY <3>4, <3>5 DEF Promised
        <3> QED
            BY <3>6, PromisedKept
    <2>3. ASSUME NEW b \in Agents, NEW ok \in BOOLEAN, Apply(b, ok), b # a
          PROVE  agents'[a] = agents[a]
        <3>1. PICK c \in Conns, config \in Config : Applied(b, c, config, ok)
            BY <2>3, ApplyEffect
        <3> QED
            BY <2>3, <3>1 DEF Applied
    <2>4. ASSUME NEW b \in Agents, Leave(b) \/ \E c \in Conns : Connect(b, c)
          PROVE  agents'[a].status = agents[a].status
        <3>1. PICK link : agents' = [agents EXCEPT ![b].link = link]
            BY <2>4 DEF Leave, Connect
        <3> QED
            BY <3>1 DEF BaseInv, TypeOK, NetTypes
    <2> QED
        BY <2>1, <2>2, <2>3, <2>4, WhoChanges
<1>2. ASSUME NEW c \in Conns, handling'[c].pc = "arrived", handling'[c].msg.status # None,
             NEW a, a = handling'[c].msg.agent, NEW v, v = handling'[c].msg.status.version
      PROVE  Promised(a, v)'
    <2>1. CASE handling'[c] = handling[c]
        <3>1. Promised(a, v) /\ a \in Agents
            BY <1>2, <2>1, BaseFacts DEF AnswersSettled
        <3> QED
            BY <3>1, PromisedKept
    <2>2. ASSUME NEW b \in Agents, handling'[c].msg.agent = b,
                 handling'[c].msg.status = agents'[b].status
          PROVE  Promised(a, v)'
        BY <1>1, <1>2, <2>2
    <2>3. ~ FindOrCreateAgent(c)
        BY <1>2, FindEffect DEF Found
    <2> QED
        BY <1>2, <2>1, <2>2, <2>3, HandlingMoves, NewAgentEffect, StatusEffect DEF Idle
<1>3. ASSUME NEW c \in Conns, handling'[c].pc = "update", handling'[c].msg.status # None,
             NEW o, o = handling'[c].object, NEW v, v = handling'[c].msg.status.version
      PROVE  Settled(v)' \/ Pending(o, v)'
    <2>1. CASE handling'[c] = handling[c]
        <3>1. Settled(v) \/ Pending(o, v)
            BY <1>3, <2>1 DEF AnswersSettled
        <3> QED
            BY <3>1, SettledKept, PendingKept DEF BaseInv
    <2>2. CASE FindOrCreateAgent(c)
        <3>1. PICK a \in Agents : Found(a, c)
            BY <2>2, FindEffect
        <3>2. Promised(a, v)
            BY <1>3, <3>1 DEF Found, AnswersSettled
        <3>3. ASSUME NEW d \in Conns, Due(a, d, v) PROVE Pending(o, v)
            BY <1>3, <3>1, <3>3, BaseFacts DEF Due, Found
        <3> QED
            BY <3>2, <3>3, SettledKept, PendingKept DEF Promised, BaseInv
    <2> QED
        BY <1>3, <2>1, <2>2, HandlingMoves, NewAgentEffect, StatusEffect DEF Idle
<1> QED
    BY <1>1, <1>2, <1>3 DEF AnswersSettled

LEMMA FirstAlways == Spec => [](BaseInv /\ LinkInv /\ FirstInv)
<1>1. Init => FirstInv
    <2> SUFFICES ASSUME Init PROVE FirstInv
        OBVIOUS
    <2>1. /\ subscribers = {} /\ rollout.pc = "idle"
          /\ \A c \in Conns : handling[c].pc = "idle" /\ down[c] = <<>>
          /\ \A o \in Objects : objects[o].remote = None
          /\ \A a \in Agents : agents[a].status = None
        BY DEF Init, NoRollout, Idle, NewObject
    <2> QED
        BY <2>1 DEF FirstInv, AllBegun, SentSettled, QueuedSettled, AnswersSettled
<1>2. BaseInv /\ LinkInv /\ FirstInv /\ [Next]_vars => FirstInv'
    BY BegunStep, SentStep, QueuedStep, AnswersStep DEF FirstInv
<1> QED
    BY <1>1, <1>2, LinkAlways, PTL DEF Spec

(* The first answer to a version that is handled decides its status: by    *)
(* then the server listens, for it held the agent's mutex from sending on. *)
THEOREM FirstAnswerCountsHolds == Spec => FirstAnswerCounts
<1> DEFINE Decides ==
        \A answer \in heard' \ heard :
            (\A other \in heard : other.version # answer.version)
            => versions'[answer.version].status = IF answer.ok THEN "DEPLOYED" ELSE "FAILED"
<1>1. ASSUME BaseInv, LinkInv, FirstInv, [Next]_vars PROVE [Decides]_vars
    <2>1. ASSUME NEW answer \in heard' \ heard,
                 \A other \in heard : other.version # answer.version
          PROVE  versions'[answer.version].status = IF answer.ok THEN "DEPLOYED" ELSE "FAILED"
        <3>1. PICK c \in Conns : UpdateStatus(c)
            BY <1>1, <2>1, WhoChanges
        <3>2. PICK o, msg : o = handling[c].object /\ msg = handling[c].msg
            OBVIOUS
        <3>3. /\ AnswerIsNew(objects[o], msg) /\ answer = msg.status /\ answer.version > 0
              /\ versions' = Answered(objects[o], msg) /\ MuxFree(o)
              /\ handling[c].pc = "update"
            BY <2>1, <3>1, <3>2 DEF UpdateStatus
        <3>4. msg.status # None
            BY <3>3 DEF AnswerIsNew
        <3>5. Settled(answer.version)
            <4>1. PICK v : v = answer.version
                OBVIOUS
            <4>2. Settled(v) \/ Pending(o, v)
                BY <1>1, <3>2, <3>3, <3>4, <4>1 DEF FirstInv, AnswersSettled
            <4> QED
                BY <1>1, <3>3, <4>1, <4>2, FreeNotPending
        <3>6. answer.version \in subscribers
            BY <2>1, <3>3, <3>5 DEF Settled
        <3>7. versions' = Deployed(answer)
            BY <3>3, <3>6 DEF Answered
        <3>8. /\ answer.version \in DOMAIN versions
              /\ versions[answer.version].status # "DIRTY"
            BY <1>1, <3>3, <3>6 DEF FirstInv, AllBegun, Begun
        <3>9. versions[answer.version] \in Row
            BY <1>1, <3>8 DEF BaseInv, TypeOK, DbTypes
        <3> QED
            BY <3>7, <3>8, <3>9 DEF Deployed, Row
    <2> QED
        BY <2>1
<1>2. FirstAnswerCounts <=> [][Decides]_vars
    BY DEF FirstAnswerCounts
<1> QED
    BY <1>1, <1>2, FirstAlways, PTL DEF Spec

-----------------------------------------------------------------------------
(* A rollout has yet to start that will recommend what is stored by then.  *)
ToCome == saving # {} \/ waiting > (IF rollout.pc = "idle" THEN 0 ELSE 1)

(* A known agent has been left out, is to be sent the recommendation, or   *)
(* has been.                                                               *)
Reached(o) ==
    \/ o \in skipped
    \/ ToCome
    \/ o \in rollout.todo
    \/ rollout.pc = "recommended" /\ rollout.object = o /\ rollout.config = Recommendation
    \/ objects[o].remote = Recommendation

(* What an agent was sent last is last on its queue, or what it answered.  *)
Delivered(a, c) ==
    LET config == objects[<<a, c>>].remote
    IN  /\ down[c] # <<>> => down[c][Len(down[c])] = config
        /\ down[c] = <<>> => /\ agents[a].status # None
                             /\ agents[a].status.version = config.version
                             /\ agents[a].status.ok => agents[a].effective = config.content

AllReached ==
    /\ \A o \in Known : objects[o].reported => Reached(o)
    /\ rollout.pc = "recommended" => rollout.config = Recommendation \/ ToCome
    /\ rollout.pc = "idle" => rollout.todo = {}

(* An agent that has not reported is about to. *)
AllReporting ==
    \A o \in Known : ~ objects[o].reported =>
        \E c \in Conns : handling[c].pc = "update" /\ handling[c].object = o

AllDelivered ==
    /\ \A a \in Agents, c \in Conns :
          agentsById[a] = c /\ net[c] = "open" /\ objects[<<a, c>>].remote # None
          => Delivered(a, c)
    /\ \A c \in Conns : handling[c].pc = "listen" =>
          objects[handling[c].object].remote = handling[c].config

DeliveryInv == AllReached /\ AllReporting /\ AllDelivered

(* What is recommended changes only when more is to come; and more remains *)
(* to come until a rollout starts.                                         *)
LEMMA ContentKept ==
    ASSUME DbTypes, versions' = versions \/ versions' = Initiated
                    \/ \E answer \in Answer : versions' = Deployed(answer)
    PROVE  Recommendation' = Recommendation
<1>1. Len(versions') = Len(versions)
    BY InitiatedTypes, DeployedTypes
<1>2. ASSUME NEW v \in DOMAIN versions PROVE versions'[v].content = versions[v].content
    <2>1. versions[v] \in Row
        BY DEF DbTypes
    <2>2. CASE versions' = Initiated
        BY <2>1, <2>2 DEF Initiated, DbTypes, Latest, Row
    <2>3. ASSUME NEW answer \in Answer, versions' = Deployed(answer)
          PROVE  versions'[v].content = versions[v].content
        BY <2>1, <2>3 DEF Deployed, Row
    <2> QED
        BY <2>2, <2>3
<1>3. Latest # 0 => Latest \in DOMAIN versions
    BY DEF Latest, DbTypes
<1>4. Latest' = Latest
    BY <1>1 DEF Latest
<1> QED
    BY <1>2, <1>3, <1>4 DEF Recommendation

LEMMA ComingMoves ==
    ASSUME BaseInv, [Next]_vars
    PROVE  /\ ToCome => ToCome' \/ StartRollout
           /\ Recommendation' = Recommendation \/ ToCome'
<1>1. /\ waiting \in Nat /\ (rollout.pc # "idle" => waiting > 0) /\ DbTypes
      /\ rollout \in [pc : {"idle", "next", "recommended", "listen"},
                      todo : SUBSET Objects, held : SUBSET Objects,
                      object : Objects \cup {None}, config : Config \cup {None}]
    BY DEF BaseInv, TypeOK, DbTypes, RolloutTypes
<1>2. CASE versions' = versions /\ UNCHANGED <<saving, waiting, rollout>>
    BY <1>1, <1>2, ContentKept DEF ToCome
<1>3. ASSUME NEW content \in Contents, InsertVersion(content) PROVE ToCome'
    BY <1>3 DEF InsertVersion, ToCome
<1>4. ASSUME NEW s \in saving, InsertElements(s) PROVE ToCome'
    <2>1. waiting' = waiting + 1 /\ rollout' = rollout
        BY <1>4 DEF InsertElements, Notified
    <2> QED
        BY <1>1, <2>1 DEF ToCome
<1>5. ASSUME StartRollout PROVE Recommendation' = Recommendation
    BY <1>1, <1>5, ContentKept DEF StartRollout, dbVars
<1>6. ASSUME EndRollout \/ \E o \in Objects : FailRollout(o) \/ SameForAgent(o)
      PROVE  /\ ToCome => ToCome'
             /\ Recommendation' = Recommendation
    <2>1. /\ saving' = saving /\ waiting' = waiting - 1 /\ rollout.pc = "next"
          /\ rollout'.pc = "idle" /\ versions' \in {versions, Initiated}
        BY <1>6 DEF EndRollout, FailRollout, SameForAgent, NoRollout
    <2> QED
        BY <1>1, <2>1, ContentKept DEF ToCome
<1>7. ASSUME SendToAgent \/ ListenToConfigUpdate \/ \E o \in Objects : Recommend(o)
      PROVE  /\ ToCome => ToCome'
             /\ Recommendation' = Recommendation
    <2>1. /\ saving' = saving /\ waiting' = waiting /\ versions' \in {versions, Initiated}
          /\ rollout.pc # "idle"
        BY <1>7 DEF SendToAgent, ListenToConfigUpdate, Recommend, dbVars
    <2>2. rollout'.pc # "idle"
        BY <1>1, <1>7 DEF SendToAgent, ListenToConfigUpdate, Recommend
    <2> QED
        BY <1>1, <2>1, <2>2, ContentKept DEF ToCome
<1>8. ASSUME NEW c \in Conns, UpdateNewAgent(c) \/ UpdateStatus(c)
      PROVE  /\ ToCome => ToCome'
             /\ Recommendation' = Recommendation
    <2>1. UNCHANGED <<saving, waiting, rollout>>
        BY <1>8 DEF UpdateNewAgent, UpdateStatus
    <2>2. UpdateNewAgent(c) => versions' = Initiated
        BY DEF UpdateNewAgent
    <2>3. ASSUME UpdateStatus(c)
          PROVE  versions' = versions \/ \E answer \in Answer : versions' = Deployed(answer)
        <3>1. PICK msg : msg = handling[c].msg
            OBVIOUS
        <3>2. msg \in Message
            BY <2>3, <3>1, BaseFacts DEF UpdateStatus
        <3>3. \/ versions' = versions
              \/ msg.status # None /\ versions' = Deployed(msg.status)
            BY <2>3, <3>1 DEF UpdateStatus, Answered, AnswerIsNew
        <3>4. msg.status # None => msg.status \in Answer
            BY <3>2 DEF Message
        <3> QED
            BY <3>3, <3>4
    <2>4. Recommendation' = Recommendation
        BY <1>1, <1>8, <2>2, <2>3, ContentKept
    <2> QED
        BY <2>1, <2>4 DEF ToCome
<1>9. ASSUME NEW c \in Conns, FindOrCreateAgent(c) \/ Respond(c) \/ RemoveConnection(c)
      PROVE  versions' = versions /\ UNCHANGED <<saving, waiting, rollout>>
    BY <1>9 DEF FindOrCreateAgent, Respond, RemoveConnection, dbVars
<1>10. ASSUME NEW a \in Agents,
              \/ \E c \in Conns : Connect(a, c)
              \/ \E ok \in BOOLEAN : Apply(a, ok)
              \/ Leave(a)
       PROVE  versions' = versions /\ UNCHANGED <<saving, waiting, rollout>>
    BY <1>10 DEF Connect, Apply, Leave, dbVars
<1>11. UNCHANGED vars => versions' = versions /\ UNCHANGED <<saving, waiting, rollout>>
    BY DEF vars
<1> QED
    BY <1>2, <1>3, <1>4, <1>5, <1>6, <1>7, <1>8, <1>9, <1>10, <1>11 DEF Next, Server

(* What a new agent's report changes in its object, and what a rollout     *)
(* does.                                                                   *)
LEMMA NewAgentObject ==
    ASSUME BaseInv, NEW c \in Conns, UpdateNewAgent(c), NEW o, o = handling[c].object
    PROVE  /\ o \in Objects /\ MuxFree(o) /\ ~ objects[o].reported
           /\ objects'[o].reported /\ objects'[o].remote = Recommendation
           /\ \A p \in Objects : p # o => objects'[p] = objects[p]
           /\ down' = SendOn(down, o[2], Recommendation)
           /\ skipped' = skipped \ {o}
<1>1. PICK object : object = Reported(objects[o], handling[c].msg)
    OBVIOUS
<1>2. o \in Objects /\ handling[c].msg \in Message /\ objects \in [Objects -> Object]
    BY BaseFacts DEF UpdateNewAgent
<1>3. object \in Object
    BY <1>1, <1>2, ReportedTypes
<1>4. object.reported
    BY <1>1, <1>2 DEF Reported, Object
<1>5. objects' = [objects EXCEPT ![o] = [object EXCEPT !.remote = Recommendation]]
    BY <1>1 DEF UpdateNewAgent
<1>6. objects'[o].reported /\ objects'[o].remote = Recommendation
    BY <1>2, <1>3, <1>4, <1>5 DEF Object
<1>7. \A p \in Objects : p # o => objects'[p] = objects[p]
    BY <1>2, <1>5
<1> QED
    BY <1>2, <1>6, <1>7 DEF UpdateNewAgent

LEMMA SendEffect ==
    ASSUME BaseInv, SendToAgent, NEW o, o = rollout.object
    PROVE  /\ o \in Objects /\ MuxFree(o)
           /\ objects'[o].reported = objects[o].reported /\ objects'[o].remote = rollout.config
           /\ \A p \in Objects : p # o => objects'[p] = objects[p]
           /\ rollout.config \in Config /\ down' = SendOn(down, o[2], rollout.config)
           /\ skipped' = skipped \ {o}
<1>1. objects' = [objects EXCEPT ![o].remote = rollout.config]
    BY DEF SendToAgent
<1>2. o \in Objects /\ objects \in [Objects -> Object] /\ rollout.config \in Config
    BY BaseFacts DEF SendToAgent
<1> QED
    BY <1>1, <1>2 DEF SendToAgent, Object

LEMMA ReportedMoves ==
    ASSUME BaseInv, [Next]_vars, NEW o \in Objects
    PROVE  \/ objects'[o].reported = objects[o].reported
           \/ /\ objects'[o] = NewObject /\ agentsById[o[1]] = None
           \/ \E c \in Conns : UpdateNewAgent(c) /\ o = handling[c].object
<1>1. ASSUME NEW c \in Conns, UpdateStatus(c)
      PROVE  objects'[o].reported = objects[o].reported
    <2>1. PICK p : p = handling[c].object
        OBVIOUS
    <2>2. objects[p].reported /\ objects'[p].reported /\ p \in Objects
          /\ objects[p].reported \in BOOLEAN
        BY <1>1, <2>1, StatusEffect, BaseFacts DEF UpdateStatus, Object
    <2>3. p # o => objects'[o] = objects[o]
        BY <1>1, <2>1, StatusEffect
    <2>4. objects' = [objects EXCEPT ![p] = Reported(objects[p], handling[c].msg)]
        BY <1>1, <2>1 DEF UpdateStatus
    <2>5. objects'[p].reported = TRUE
        BY <2>2, <2>4, BaseFacts DEF Reported, Object
    <2>6. objects[p].reported = TRUE
        BY <2>2
    <2> QED
        BY <2>3, <2>5, <2>6
<1>2. ASSUME NEW c \in Conns, UpdateNewAgent(c), o # handling[c].object
      PROVE  objects'[o].reported = objects[o].reported
    BY <1>2, NewAgentObject
<1>3. ASSUME SendToAgent
      PROVE  objects'[o].reported = objects[o].reported
    BY <1>3, SendEffect
<1>4. ASSUME NEW c \in Conns, FindOrCreateAgent(c)
      PROVE  \/ objects'[o] = objects[o]
             \/ objects'[o] = NewObject /\ agentsById[o[1]] = None
    <2>1. PICK a \in Agents : Found(a, c)
        BY <1>4, FindEffect
    <2>2. CASE o = <<a, c>> /\ agentsById[a] = None
        BY <2>1, <2>2, BaseFacts DEF Found
    <2>3. CASE o # <<a, c>> \/ agentsById[a] # None
        BY <2>1, <2>3, BaseFacts DEF Found
    <2> QED
        BY <2>2, <2>3
<1> QED
    BY <1>1, <1>2, <1>3, <1>4, WhoChanges

LEMMA ReachedStep ==
    ASSUME BaseInv, LinkInv, AllReached, [Next]_vars
    PROVE  AllReached'
<1>1. /\ ToCome => ToCome' \/ StartRollout
      /\ Recommendation' = Recommendation \/ ToCome'
    BY ComingMoves
<1>2. ASSUME NEW o \in Objects, agentsById'[o[1]] = o[2], objects'[o].reported
      PROVE  agentsById[o[1]] = o[2] /\ objects'[o] # NewObject
    <2>1. objects'[o] # NewObject /\ o[1] \in Agents /\ o[2] \in Conns
        BY <1>2 DEF NewObject, Objects
    <2>2. ASSUME NEW c \in Conns, FindOrCreateAgent(c), agentsById[o[1]] # o[2] PROVE FALSE
        <3>1. PICK a \in Agents : Found(a, c)
            BY <2>2, FindEffect
        <3>2. a = o[1] /\ c = o[2] /\ agentsById[a] = None
            BY <1>2, <2>1, <2>2, <3>1 DEF Found
        <3>3. o = <<a, c>>
            BY <3>2 DEF Objects
        <3>4. objects'[o] = NewObject
            BY <3>1, <3>2, <3>3, BaseFacts DEF Found
        <3> QED
            BY <2>1, <3>4
    <2>3. ASSUME NEW c \in Conns, RemoveConnection(c) PROVE agentsById[o[1]] = o[2]
        BY <1>2, <2>1, <2>3, BaseFacts DEF RemoveConnection
    <2> QED
        BY <1>2, <2>1, <2>2, <2>3, WhoChanges
<1>3. ASSUME NEW o \in Objects, agentsById'[o[1]] = o[2], objects'[o].reported
      PROVE  Reached(o)'
    <2>1. CASE ToCome'
        BY <2>1 DEF Reached
    <2>2. CASE StartRollout
        <3>1. o \in Known /\ rollout'.todo = Known
            BY <1>2, <1>3, <2>2 DEF Known, StartRollout, NoRollout
        <3> QED
            BY <3>1 DEF Reached
    <2>3. CASE ~ ToCome' /\ ~ StartRollout
        <3>1. Recommendation' = Recommendation /\ ~ ToCome
            BY <1>1, <2>3
        <3>2. (SendToAgent /\ o = rollout.object) => Reached(o)'
            <4>1. SUFFICES ASSUME SendToAgent, o = rollout.object PROVE Reached(o)'
                OBVIOUS
            <4>2. rollout.config = Recommendation
                BY <3>1, <4>1 DEF AllReached, SendToAgent
            <4>3. objects'[o].remote = Recommendation
                BY <4>1, <4>2, SendEffect
            <4> QED
                BY <3>1, <4>3 DEF Reached
        <3>3. ASSUME NEW c \in Conns, UpdateNewAgent(c), o = handling[c].object
              PROVE  Reached(o)'
            BY <3>1, <3>3, NewAgentObject DEF Reached
        <3>4. ASSUME ~ (SendToAgent /\ o = rollout.object),
                     \A c \in Conns : ~ (UpdateNewAgent(c) /\ o = handling[c].object)
              PROVE  Reached(o)'
            <4>1. objects[o].reported
                BY <1>2, <1>3, <3>4, ReportedMoves
            <4>2. Reached(o)
                BY <1>2, <1>3, <4>1 DEF AllReached, Known
            <4>3. ASSUME o \in skipped PROVE o \in skipped'
                <5>1. ASSUME NEW c \in Conns, UpdateNewAgent(c) PROVE o \in skipped'
                    BY <3>4, <4>3, <5>1, NewAgentObject
                <5>2. SendToAgent => o \in skipped'
                    BY <3>4, <4>3, SendEffect
                <5>3. ASSUME NEW p \in Objects, FailRollout(p) \/ SameForAgent(p) \/ Recommend(p)
                      PROVE  o \in skipped'
                    BY <4>3, <5>3 DEF FailRollout, SameForAgent, Recommend
                <5>4. StartRollout \/ EndRollout \/ ListenToConfigUpdate => skipped' = skipped
                    BY DEF StartRollout, EndRollout, ListenToConfigUpdate
                <5>5. ASSUME NEW c \in Conns, \/ FindOrCreateAgent(c) \/ UpdateStatus(c)
                                              \/ Respond(c) \/ RemoveConnection(c)
                      PROVE  skipped' = skipped
                    BY <5>5 DEF FindOrCreateAgent, UpdateStatus, Respond, RemoveConnection
                <5>6. ASSUME NEW a \in Agents, \/ \E c \in Conns : Connect(a, c)
                                               \/ \E ok \in BOOLEAN : Apply(a, ok)
                                               \/ Leave(a)
                      PROVE  skipped' = skipped
                    BY <5>6 DEF Connect, Apply, Leave
                <5>7. CASE \/ \E content \in Contents : InsertVersion(content)
                           \/ \E s \in saving : InsertElements(s)
                           \/ UNCHANGED vars
                    BY <4>3, <5>7 DEF InsertVersion, InsertElements, vars
                <5> QED
                    BY <4>3, <5>1, <5>2, <5>3, <5>4, <5>5, <5>6, <5>7 DEF Next, Server
            <4>4. ASSUME o \in rollout.todo PROVE Reached(o)'
                <5>1. rollout \in [pc : {"idle", "next", "recommended", "listen"},
                                   todo : SUBSET Objects, held : SUBSET Objects,
                                   object : Objects \cup {None}, config : Config \cup {None}]
                    BY DEF BaseInv, TypeOK, RolloutTypes
                <5>2. ASSUME NEW p \in Objects, FailRollout(p) \/ SameForAgent(p)
                      PROVE  o \in skipped'
                    BY <4>4, <5>2 DEF FailRollout, SameForAgent
                <5>3. ASSUME NEW p \in Objects, Recommend(p)
                      PROVE  \/ o \in rollout'.todo
                             \/ /\ rollout'.pc = "recommended" /\ rollout'.object = o
                                /\ rollout'.config = Recommendation
                    BY <4>4, <5>1, <5>3 DEF Recommend
                <5>4. SendToAgent \/ ListenToConfigUpdate => rollout'.todo = rollout.todo
                    BY <5>1 DEF SendToAgent, ListenToConfigUpdate
                <5>5. ~ EndRollout
                    BY <4>4 DEF EndRollout
                <5> QED
                    BY <2>3, <3>1, <4>4, <5>2, <5>3, <5>4, <5>5, WhoChanges DEF Reached
            <4>5. ASSUME rollout.pc = "recommended", rollout.object = o,
                         rollout.config = Recommendation
                  PROVE  Reached(o)'
                <5>1. rollout' = rollout \/ SendToAgent
                    BY <4>5, RolloutMoves
                <5> QED
                    BY <3>1, <3>4, <4>5, <5>1 DEF Reached
            <4>6. ASSUME objects[o].remote = Recommendation PROVE Reached(o)'
                BY <1>2, <1>3, <3>1, <3>4, <4>6, RemoteMoves DEF Reached
            <4> QED
                BY <3>1, <4>2, <4>3, <4>4, <4>5, <4>6 DEF Reached
        <3> QED
            BY <3>2, <3>3, <3>4
    <2> QED
        BY <2>1, <2>2, <2>3
<1>4. ASSUME rollout'.pc = "recommended"
      PROVE  rollout'.config = Recommendation' \/ ToCome'
    <2>1. CASE rollout' = rollout
        <3>1. ~ StartRollout
            BY <1>4, <2>1 DEF StartRollout
        <3> QED
            BY <1>1, <1>4, <2>1, <3>1 DEF AllReached
    <2>2. CASE rollout'.config = Recommendation
        BY <1>1, <2>2
    <2> QED
        BY <1>4, <2>1, <2>2, RolloutMoves
<1>5. rollout'.pc = "idle" => rollout'.todo = {}
    BY RolloutMoves DEF AllReached
<1>6. (\A o \in Known : objects[o].reported => Reached(o))'
    BY <1>3 DEF Known
<1> QED
    BY <1>4, <1>5, <1>6 DEF AllReached

LEMMA ReportingStep ==
    ASSUME BaseInv, LinkInv, AllReporting, [Next]_vars
    PROVE  AllReporting'
<1>1. ASSUME NEW o \in Objects, agentsById'[o[1]] = o[2], ~ objects'[o].reported
      PROVE  \E c \in Conns : handling'[c].pc = "update" /\ handling'[c].object = o
    <2>1. o[1] \in Agents /\ o[2] \in Conns /\ o = <<o[1], o[2]>>
        BY DEF Objects
    <2>2. CASE agentsById[o[1]] = o[2]
        <3>1. agentsById[o[1]] # None
            BY <2>1, <2>2, BaseFacts
        <3>2. ASSUME NEW c \in Conns, UpdateNewAgent(c) PROVE handling[c].object # o
            BY <1>1, <3>2, NewAgentObject
        <3>3. ~ objects[o].reported
            <4>1. objects'[o].reported = objects[o].reported
                BY <3>1, <3>2, ReportedMoves
            <4> QED
                BY <1>1, <4>1
        <3>4. PICK c \in Conns : handling[c].pc = "update" /\ handling[c].object = o
            BY <2>2, <3>3 DEF AllReporting, Known
        <3>5. ~ UpdateNewAgent(c) /\ ~ UpdateStatus(c)
            BY <3>2, <3>3, <3>4 DEF UpdateStatus
        <3>6. handling'[c] = handling[c]
            BY <3>4, <3>5, HandlingMoves DEF FindOrCreateAgent, Respond
        <3> QED
            BY <3>4, <3>6
    <2>3. CASE agentsById[o[1]] # o[2]
        <3>1. ASSUME NEW c \in Conns, RemoveConnection(c) PROVE FALSE
            BY <1>1, <2>1, <2>3, <3>1, BaseFacts DEF RemoveConnection
        <3>2. PICK c \in Conns : FindOrCreateAgent(c)
            BY <1>1, <2>3, <3>1, WhoChanges
        <3>3. PICK a \in Agents : Found(a, c)
            BY <3>2, FindEffect
        <3>4. a = o[1] /\ handling'[c].pc = "update" /\ handling'[c].object = o
            BY <1>1, <2>1, <2>3, <3>3 DEF Found
        <3> QED
            BY <3>4
    <2> QED
        BY <2>2, <2>3
<1> QED
    BY <1>1 DEF AllReporting, Known

(* What is sent over an open connection is last on its queue. *)
LEMMA SendOnLast ==
    ASSUME NEW queues \in [Conns -> Seq(Config)], NEW d \in Conns, NEW config \in Config
    PROVE  /\ net[d] = "open" => LET q == SendOn(queues, d, config)[d]
                                 IN  q # <<>> /\ q[Len(q)] = config
           /\ \A c \in Conns : c # d => SendOn(queues, d, config)[c] = queues[c]
<1>1. queues[d] \in Seq(Config)
    OBVIOUS
<1>2. CASE net[d] = "open" /\ (queues[d] = <<>> \/ queues[d][Len(queues[d])] # config)
    <2>1. SendOn(queues, d, config) = [queues EXCEPT ![d] = Append(@, config)]
        BY <1>2 DEF SendOn
    <2>2. SendOn(queues, d, config)[d] = Append(queues[d], config)
        BY <2>1
    <2>3. /\ Append(queues[d], config) # <<>>
          /\ Append(queues[d], config)[Len(Append(queues[d], config))] = config
        BY <1>1
    <2> QED
        BY <2>1, <2>2, <2>3
<1>3. CASE ~ (net[d] = "open" /\ (queues[d] = <<>> \/ queues[d][Len(queues[d])] # config))
    BY <1>3 DEF SendOn
<1> QED
    BY <1>2, <1>3

LEMMA TailLast ==
    ASSUME NEW q \in Seq(Config), q # <<>>
    PROVE  /\ Tail(q) # <<>> => Tail(q)[Len(Tail(q))] = q[Len(q)]
           /\ Tail(q) = <<>> => Head(q) = q[Len(q)]
<1>1. Len(q) \in Nat /\ Len(q) > 0 /\ Len(Tail(q)) = Len(q) - 1 /\ Tail(q) \in Seq(Config)
    OBVIOUS
<1>2. CASE Tail(q) # <<>>
    <2>1. Len(Tail(q)) > 0
        BY <1>1, <1>2
    <2>2. Tail(q)[Len(q) - 1] = q[Len(q)]
        BY <1>1, <2>1
    <2> QED
        BY <1>1, <1>2, <2>2
<1>3. CASE Tail(q) = <<>>
    BY <1>1, <1>3
<1> QED
    BY <1>2, <1>3

LEMMA DeliveredKept ==
    ASSUME NEW a, NEW c, Delivered(a, c), down'[c] = down[c],
           objects'[<<a, c>>].remote = objects[<<a, c>>].remote,
           agents'[a].status = agents[a].status, agents'[a].effective = agents[a].effective
    PROVE  Delivered(a, c)'
BY DEF Delivered

LEMMA DeliveredSent ==
    ASSUME BaseInv, NEW a, NEW c \in Conns, NEW config \in Config, net[c] = "open",
           down' = SendOn(down, c, config), objects'[<<a, c>>].remote = config
    PROVE  Delivered(a, c)'
<1>1. down \in [Conns -> Seq(Config)]
    BY BaseFacts
<1>2. LET q == SendOn(down, c, config)[c] IN q # <<>> /\ q[Len(q)] = config
    BY <1>1, SendOnLast
<1> QED
    BY <1>2 DEF Delivered

LEMMA DeliveredStep ==
    ASSUME BaseInv, LinkInv, AllDelivered, [Next]_vars, NEW a \in Agents, NEW c \in Conns,
           agentsById'[a] = c, net'[c] = "open", objects'[<<a, c>>].remote # None
    PROVE  Delivered(a, c)'
<1>1. PICK o : o = <<a, c>>
    OBVIOUS
<1>2. o \in Objects /\ o[1] = a /\ o[2] = c
    BY <1>1 DEF Objects
<1>3. agentsById[a] = c
    <2>1. ASSUME NEW d \in Conns, RemoveConnection(d) PROVE agentsById[a] = c
        BY <2>1, BaseFacts DEF RemoveConnection
    <2>2. ASSUME NEW d \in Conns, FindOrCreateAgent(d), agentsById[a] # c PROVE FALSE
        <3>1. PICK b \in Agents : Found(b, d)
            BY <2>2, FindEffect
        <3>2. a = b /\ d = c /\ agentsById[a] = None
            BY <2>2, <3>1 DEF Found
        <3>3. objects'[o] = NewObject
            BY <1>1, <3>1, <3>2, BaseFacts DEF Found
        <3> QED
            BY <1>1, <3>3 DEF NewObject
    <2> QED
        BY <2>1, <2>2, WhoChanges
<1>4. net[c] = "open"
    <2>1. net[c] \in {"open", "left"}
        BY <1>3 DEF LinkInv, Owned
    <2>2. ASSUME NEW b \in Agents, Leave(b) PROVE net[c] = "open"
        <3>1. PICK d \in Conns : Left(b, d)
            BY <2>2, LeaveEffect
        <3> QED
            BY <3>1 DEF Left
    <2>3. ASSUME NEW d \in Conns, RemoveConnection(d) PROVE net[c] = "open"
        BY <2>3, BaseFacts DEF RemoveConnection
    <2>4. ASSUME NEW b \in Agents, NEW d \in Conns, Connect(b, d) PROVE net[c] = "open"
        BY <2>1, <2>4, BaseFacts DEF Connect
    <2>5. CASE net' = net
        BY <2>5
    <2>6. ASSUME StartRollout \/ EndRollout \/ SendToAgent \/ ListenToConfigUpdate
          PROVE  net' = net
        BY <2>6 DEF StartRollout, EndRollout, SendToAgent, ListenToConfigUpdate, netVars
    <2>7. ASSUME NEW p \in Objects, FailRollout(p) \/ SameForAgent(p) \/ Recommend(p)
          PROVE  net' = net
        BY <2>7 DEF FailRollout, SameForAgent, Recommend, netVars
    <2>8. ASSUME NEW d \in Conns, \/ FindOrCreateAgent(d) \/ UpdateNewAgent(d)
                                  \/ UpdateStatus(d) \/ Respond(d)
          PROVE  net' = net
        BY <2>8 DEF FindOrCreateAgent, UpdateNewAgent, UpdateStatus, Respond, netVars
    <2>9. ASSUME NEW b \in Agents, NEW ok \in BOOLEAN, Apply(b, ok) PROVE net' = net
        BY <2>9 DEF Apply
    <2>10. ASSUME \/ \E content \in Contents : InsertVersion(content)
                  \/ \E s \in saving : InsertElements(s)
                  \/ UNCHANGED vars
           PROVE  net' = net
        BY <2>10 DEF InsertVersion, InsertElements, netVars, vars
    <2> QED
        BY <2>2, <2>3, <2>4, <2>5, <2>6, <2>7, <2>8, <2>9, <2>10 DEF Next, Server
<1>5. agents[a].link = c
    <2>1. PICK b \in Agents : agents[b].link = c
        BY <1>4 DEF LinkInv, Owned
    <2>2. Involved(a, c) /\ Involved(b, c)
        BY <1>3, <2>1 DEF Involved
    <2> QED
        BY <2>1, <2>2 DEF LinkInv, Owned
<1>6. ASSUME NEW p \in Objects, Current(p), p[2] = c PROVE p = o
    <2>1. agentsById[p[1]] = c /\ p[1] \in Agents /\ p = <<p[1], c>>
        BY <1>4, <1>6 DEF Current, Objects
    <2>2. Involved(p[1], c) /\ Involved(a, c)
        BY <1>3, <2>1 DEF Involved
    <2>3. p[1] = a
        BY <2>1, <2>2 DEF LinkInv, Owned
    <2> QED
        BY <1>1, <2>1, <2>3
<1>7. objects[o].remote # None /\ objects'[o].remote = objects[o].remote => Delivered(a, c)
    BY <1>1, <1>3, <1>4 DEF AllDelivered
<1>8. objects'[o].remote # None
    BY <1>1
<1>9. CASE SendToAgent
    <2>1. PICK p : p = rollout.object
        OBVIOUS
    <2>2. /\ p \in Objects /\ Current(p) /\ p[2] \in Conns /\ rollout.config \in Config
          /\ objects'[p].remote = rollout.config /\ down' = SendOn(down, p[2], rollout.config)
          /\ \A q \in Objects : q # p => objects'[q] = objects[q]
        BY <1>9, <2>1, SendEffect, BaseFacts DEF SendToAgent, LinkInv, TargetsCurrent
    <2>3. agents' = agents
        BY <1>9 DEF SendToAgent
    <2>4. CASE p[2] = c
        BY <1>1, <1>4, <1>6, <2>2, <2>4, DeliveredSent
    <2>5. CASE p[2] # c
        <3>1. down'[c] = down[c] /\ objects'[o] = objects[o]
            BY <1>2, <2>2, <2>5, SendOnLast, BaseFacts
        <3> QED
            BY <1>1, <1>7, <1>8, <2>3, <3>1, DeliveredKept
    <2> QED
        BY <2>4, <2>5
<1>10. ASSUME NEW d \in Conns, UpdateNewAgent(d) PROVE Delivered(a, c)'
    <2>1. PICK p : p = handling[d].object
        OBVIOUS
    <2>2. /\ p \in Objects /\ Current(p) /\ p[2] \in Conns
          /\ objects'[p].remote = Recommendation /\ down' = SendOn(down, p[2], Recommendation)
          /\ \A q \in Objects : q # p => objects'[q] = objects[q]
        BY <1>10, <2>1, NewAgentObject, BaseFacts DEF UpdateNewAgent, LinkInv, TargetsCurrent
    <2>3. agents' = agents
        BY <1>10 DEF UpdateNewAgent
    <2>4. Recommendation \in Config
        BY RecommendationTypes DEF BaseInv, TypeOK
    <2>5. CASE p[2] = c
        BY <1>1, <1>4, <1>6, <2>2, <2>4, <2>5, DeliveredSent
    <2>6. CASE p[2] # c
        <3>1. down'[c] = down[c] /\ objects'[o] = objects[o]
            BY <1>2, <2>2, <2>4, <2>6, SendOnLast, BaseFacts
        <3> QED
            BY <1>1, <1>7, <1>8, <2>3, <3>1, DeliveredKept
    <2> QED
        BY <2>5, <2>6
<1>11. ASSUME NEW d \in Conns, UpdateStatus(d) PROVE Delivered(a, c)'
    <2>1. PICK p : p = handling[d].object
        OBVIOUS
    <2>2. p \in Objects /\ Current(p) /\ p[2] \in Conns /\ objects[p] \in Object
        BY <1>11, <2>1, BaseFacts DEF UpdateStatus, LinkInv, TargetsCurrent
    <2>3. /\ objects'[o].remote = objects[o].remote
          /\ \/ down' = down
             \/ objects[p].remote # None /\ down' = SendOn(down, p[2], objects[p].remote)
        BY <1>2, <1>11, <2>1, StatusEffect
    <2>4. agents' = agents
        BY <1>11 DEF UpdateStatus
    <2>5. CASE down'[c] = down[c]
        BY <1>1, <1>7, <1>8, <2>3, <2>4, <2>5, DeliveredKept
    <2>6. CASE down'[c] # down[c]
        <3>1. objects[p].remote \in Config /\ down' = SendOn(down, p[2], objects[p].remote)
            BY <2>2, <2>3, <2>6 DEF Object
        <3>2. p[2] = c
            BY <2>2, <2>6, <3>1, SendOnLast, BaseFacts
        <3>3. p = o
            BY <1>6, <2>2, <3>2
        <3> QED
            BY <1>1, <1>4, <2>3, <3>1, <3>2, <3>3, DeliveredSent
    <2> QED
        BY <2>5, <2>6
<1>12. ASSUME NEW d \in Conns, Respond(d) PROVE Delivered(a, c)'
    <2>1. PICK p : p = handling[d].object
        OBVIOUS
    <2>2. /\ p \in Objects /\ Current(p) /\ handling[d].config \in Config
          /\ down' = SendOn(down, d, handling[d].config) /\ objects' = objects /\ agents' = agents
          /\ objects[p].remote = handling[d].config /\ p[1] \in Agents /\ p[2] \in Conns
          /\ p[2] # d => agentsById[p[1]] # d
        BY <1>12, <2>1, BaseFacts DEF Respond, LinkInv, TargetsCurrent, AllDelivered
    <2>3. CASE d = c
        <3>1. Involved(p[1], c) /\ Involved(a, c)
            BY <1>3, <1>12, <2>1, <2>3 DEF Respond, Involved
        <3>2. p[1] = a
            BY <2>2, <3>1 DEF LinkInv, Owned
        <3>3. p = o
            BY <1>3, <1>6, <2>2, <2>3, <3>2
        <3> QED
            BY <1>1, <1>4, <2>2, <2>3, <3>3, DeliveredSent
    <2>4. CASE d # c
        <3>1. down'[c] = down[c]
            BY <2>2, <2>4, SendOnLast, BaseFacts
        <3> QED
            BY <1>1, <1>7, <1>8, <2>2, <3>1, DeliveredKept
    <2> QED
        BY <2>3, <2>4
<1>13. ASSUME NEW b \in Agents, NEW ok \in BOOLEAN, Apply(b, ok) PROVE Delivered(a, c)'
    <2>1. PICK d \in Conns, config \in Config : Applied(b, d, config, ok)
        BY <1>13, ApplyEffect
    <2>2. /\ down' = [down EXCEPT ![d] = Tail(down[d])] /\ down[d] # <<>> /\ objects' = objects
          /\ config = Head(down[d]) /\ agents[b].link = d
          /\ agents'[b].status = [version |-> config.version, ok |-> ok]
          /\ ok => agents'[b].effective = config.content
          /\ b # a => agents'[a] = agents[a]
        BY <2>1 DEF Applied
    <2>3. Delivered(a, c)
        BY <1>7, <1>8, <2>2
    <2>4. CASE d = c
        <3>1. a = b
            <4>1. Involved(a, c) /\ Involved(b, c)
                BY <1>3, <2>2, <2>4 DEF Involved
            <4> QED
                BY <4>1 DEF LinkInv, Owned
        <3>2. down[c] \in Seq(Config) /\ down[c] # <<>> /\ down'[c] = Tail(down[c])
            BY <2>2, <2>4, BaseFacts
        <3>3. down[c][Len(down[c])] = objects[o].remote
            BY <1>1, <2>3, <3>2 DEF Delivered
        <3>4. CASE Tail(down[c]) # <<>>
            BY <1>1, <2>2, <3>2, <3>3, <3>4, TailLast DEF Delivered
        <3>5. CASE Tail(down[c]) = <<>>
            <4>1. config = objects[o].remote
                BY <2>2, <2>4, <3>2, <3>3, <3>5, TailLast
            <4>2. agents'[a].status # None
                <5>1. [version |-> config.version, ok |-> ok] \in Answer
                    BY <2>1 DEF Answer, Config
                <5> QED
                    BY <2>2, <3>1, <5>1, NoneIsNothing
            <4>3. /\ agents'[a].status.version = objects[o].remote.version
                  /\ agents'[a].status.ok => agents'[a].effective = objects[o].remote.content
                BY <2>2, <3>1, <4>1
            <4>4. objects'[<<a, c>>].remote = objects[o].remote /\ down'[c] = <<>>
                BY <1>1, <2>2, <3>2, <3>5
            <4> QED
                BY <4>2, <4>3, <4>4 DEF Delivered
        <3> QED
            BY <3>4, <3>5
    <2>5. CASE d # c
        <3>1. b # a
            BY <1>5, <2>2, <2>5
        <3>2. down'[c] = down[c]
            BY <2>2, <2>5, BaseFacts
        <3> QED
            BY <2>2, <2>3, <3>1, <3>2, DeliveredKept
    <2> QED
        BY <2>4, <2>5
<1>14. CASE /\ ~ SendToAgent
            /\ \A d \in Conns : ~ (UpdateNewAgent(d) \/ UpdateStatus(d) \/ Respond(d))
            /\ \A b \in Agents, ok \in BOOLEAN : ~ Apply(b, ok)
    <2>1. objects'[o].remote = objects[o].remote
        BY <1>2, <1>8, <1>14, RemoteMoves DEF NewObject
    <2>2. ASSUME NEW b \in Agents, Leave(b)
          PROVE  down'[c] = down[c] /\ agents'[a] = agents[a]
        <3>1. PICK d \in Conns : Left(b, d)
            BY <2>2, LeaveEffect
        <3>2. d # c
            BY <3>1 DEF Left
        <3>3. b # a
            BY <1>5, <3>1, <3>2 DEF Left
        <3> QED
            BY <3>1, <3>2, <3>3 DEF Left
    <2>3. ASSUME NEW b \in Agents, NEW d \in Conns, Connect(b, d)
          PROVE  /\ agents'[a].status = agents[a].status
                 /\ agents'[a].effective = agents[a].effective
        BY <2>3 DEF Connect, BaseInv, TypeOK, NetTypes
    <2>4. down'[c] = down[c]
        BY <1>14, <2>2, WhoChanges
    <2>5. agents'[a].status = agents[a].status /\ agents'[a].effective = agents[a].effective
        BY <1>14, <2>2, <2>3, WhoChanges
    <2> QED
        BY <1>1, <1>7, <1>8, <2>1, <2>4, <2>5, DeliveredKept
<1> QED
    BY <1>9, <1>10, <1>11, <1>12, <1>13, <1>14

LEMMA ListenedStep ==
    ASSUME BaseInv, LinkInv, AllDelivered, [Next]_vars, NEW c \in Conns,
           handling'[c].pc = "listen"
    PROVE  objects'[handling'[c].object].remote = handling'[c].config
<1>1. PICK o : o = handling'[c].object
    OBVIOUS
<1>2. CASE handling'[c] = handling[c]
    <2>1. /\ o \in Objects /\ o[1] \in Agents /\ o[2] \in Conns /\ Current(o)
          /\ handling[c].pc = "listen" /\ handling[c].object = o
          /\ objects[o].remote = handling[c].config
        BY <1>1, <1>2, BaseFacts DEF LinkInv, TargetsCurrent, AllDelivered
    <2>2. ~ MuxFree(o)
        BY <2>1 DEF MuxFree
    <2>3. ~ (SendToAgent /\ o = rollout.object)
        BY <2>2, SendEffect
    <2>4. ASSUME NEW d \in Conns, UpdateNewAgent(d) PROVE o # handling[d].object
        BY <2>2, <2>4, NewAgentObject
    <2>5. ~ (agentsById[o[1]] = None /\ handling[o[2]].pc = "arrived")
        <3>1. Owned(o[2])
            BY <2>1 DEF LinkInv
        <3> QED
            BY <2>1, <3>1, BaseFacts DEF Owned, Current
    <2> QED
        BY <1>1, <1>2, <2>1, <2>3, <2>4, <2>5, RemoteMoves
<1>3. CASE UpdateNewAgent(c)
    BY <1>3, NewAgentEffect, NewAgentObject
<1>4. CASE UpdateStatus(c)
    BY <1>4, StatusEffect DEF Idle
<1>5. ~ FindOrCreateAgent(c)
    BY FindEffect DEF Found
<1> QED
    BY <1>2, <1>3, <1>4, <1>5, HandlingMoves DEF Idle

LEMMA DeliveryAlways == Spec => [](BaseInv /\ LinkInv /\ DeliveryInv)
<1>1. Init => DeliveryInv
    <2> SUFFICES ASSUME Init PROVE DeliveryInv
        OBVIOUS
    <2>1. /\ rollout.pc = "idle" /\ rollout.todo = {}
          /\ \A c \in Conns : handling[c].pc = "idle"
          /\ \A a \in Agents : agentsById[a] = None
        BY DEF Init, NoRollout, Idle
    <2>2. Known = {}
        BY <2>1, AgentConfigAssumption DEF Known, Objects
    <2>3. AllReached /\ AllReporting
        BY <2>1, <2>2 DEF AllReached, AllReporting
    <2>4. AllDelivered
        BY <2>1, AgentConfigAssumption DEF AllDelivered
    <2> QED
        BY <2>3, <2>4 DEF DeliveryInv
<1>2. ASSUME BaseInv, LinkInv, DeliveryInv, [Next]_vars PROVE DeliveryInv'
    <2>1. AllDelivered'
        BY <1>2, DeliveredStep, ListenedStep DEF DeliveryInv, AllDelivered
    <2> QED
        BY <1>2, <2>1, ReachedStep, ReportingStep DEF DeliveryInv
<1> QED
    BY <1>1, <1>2, LinkAlways, PTL DEF Spec

(* When nothing is under way every known agent runs the latest version or  *)
(* has failed to, but for those that a rollout left out when it ended      *)
(* early: what was sent last to an agent, by a rollout or on connecting,   *)
(* is the latest version, and it has answered.                             *)
THEOREM AgentsUpToDateHolds == Spec => []AgentsUpToDate
<1>1. ASSUME BaseInv, LinkInv, DeliveryInv PROVE AgentsUpToDate
    <2>1. ASSUME Quiet, NEW o \in Known \ skipped
          PROVE  \/ agents[o[1]].effective = Recommendation.content
                 \/ agents[o[1]].status = [version |-> Latest, ok |-> FALSE]
        <3>1. PICK a \in Agents, c \in Conns : o = <<a, c>> /\ agentsById[a] = c
            BY <2>1 DEF Known, Objects
        <3>2. /\ saving = {} /\ waiting = 0 /\ down[c] = <<>> /\ net[c] # "left"
              /\ \A d \in Conns : handling[d].pc = "idle"
            BY <2>1 DEF Quiet, Idle
        <3>3. rollout.pc = "idle" /\ rollout.todo = {} /\ ~ ToCome
            BY <1>1, <3>2 DEF BaseInv, TypeOK, RolloutTypes, DeliveryInv, AllReached, ToCome
        <3>4. net[c] = "open"
            BY <1>1, <3>1, <3>2 DEF LinkInv, Owned
        <3>5. objects[o].reported
            BY <1>1, <2>1, <3>2 DEF DeliveryInv, AllReporting
        <3>6. objects[o].remote = Recommendation
            BY <1>1, <2>1, <3>3, <3>5 DEF DeliveryInv, AllReached, Reached
        <3>7. Recommendation \in Config
            BY <1>1, RecommendationTypes DEF BaseInv, TypeOK
        <3>8. Delivered(a, c)
            BY <1>1, <3>1, <3>4, <3>6, <3>7, NoneIsNothing DEF DeliveryInv, AllDelivered
        <3>9. /\ agents[a].status # None /\ agents[a].status.version = Recommendation.version
              /\ agents[a].status.ok => agents[a].effective = Recommendation.content
            BY <3>1, <3>2, <3>6, <3>8 DEF Delivered
        <3>10. agents[a].status \in Answer
            BY <1>1, <3>9 DEF BaseInv, TypeOK, NetTypes
        <3>11. ~ agents[a].status.ok => agents[a].status = [version |-> Latest, ok |-> FALSE]
            BY <3>9, <3>10 DEF Answer, Recommendation
        <3> QED
            BY <3>1, <3>9, <3>11
    <2> QED
        BY <2>1 DEF AgentsUpToDate
<1> QED
    BY <1>1, DeliveryAlways, PTL
=============================================================================
