----------------------------- MODULE AgentConfig -----------------------------
(***************************************************************************)
(* The rollout of collector configurations (agentConf, app/opamp): a new   *)
(* version of the log pipelines is stored and recommended to all connected *)
(* agents; an agent that connects is recommended the latest version; what  *)
(* an agent answers becomes the version's deployment status.               *)
(*                                                                         *)
(* A configuration is a version, by which the answer is told apart (the    *)
(* config hash), and its contents.  There is one feature, log pipelines.   *)
(* An Agent object of the server is the pair of the agent's id and the     *)
(* connection it was created for.                                          *)
(***************************************************************************)
EXTENDS Integers, Sequences

CONSTANTS
    Agents,         \* agent ids
    Conns,          \* connections: one agent each, for as long as it lasts
    Contents,       \* what a collector configuration may contain
    Base,           \* the contents without pipelines of the user
    Fallible,       \* contents that an agent may fail to apply
    None,           \* nothing
    MaxVersion      \* bound: versions saved

ASSUME AgentConfigAssumption ==
    /\ Base \in Contents
    /\ Fallible \subseteq Contents
    /\ None \notin Conns \cup Contents
    /\ MaxVersion \in Nat

VARIABLES
    versions,     \* the table agent_config_versions, by version
    saving,       \* versions whose elements are yet to be inserted, and their contents
    waiting,      \* how many requests are to notify the subscriber of config updates
    rollout,      \* RecommendLatestConfigToAll, which runs under configSubscribersLock
    agentsById,   \* Agents.agentsById: the connection whose object an id stands for
    connections,  \* Agents.connections
    objects,      \* the Agent objects, by id and connection
    handling,     \* per connection, the message to the server and its OnMessage
    subscribers,  \* Coordinator.subscribers: hashes with a subscriber
    agents,       \* the agents themselves
    net,          \* the state of each connection
    down,         \* per connection, messages to the agent
    skipped,      \* history: objects that a rollout that ended early left out
    heard         \* history: answers to saved versions that the server has handled

dbVars == <<versions, saving, waiting>>
registryVars == <<agentsById, connections>>
netVars == <<agents, net, down>>
vars == <<versions, saving, waiting, rollout, agentsById, connections, objects,
          handling, subscribers, agents, net, down, skipped, heard>>

-----------------------------------------------------------------------------
Objects == Agents \X Conns

Config == [version : 0 .. MaxVersion, content : Contents]

Answer == [version : 0 .. MaxVersion, ok : BOOLEAN]

Message == [agent : Agents, effective : Contents, status : Answer \cup {None}]

ASSUME NoneIsNothing == None \notin Objects \cup Config \cup Answer \cup Message

Idle == [pc |-> "idle", object |-> None, msg |-> None, config |-> None]

NoRollout == [pc |-> "idle", todo |-> {}, held |-> {}, object |-> None, config |-> None]

NewObject == [reported |-> FALSE, effective |-> None, status |-> None, remote |-> None]

Known == {o \in Objects : agentsById[o[1]] = o[2]}

(* agent.mux: the rollout keeps the ones it took until it ends, a handler  *)
(* its own until it has subscribed.                                        *)
MuxFree(o) ==
    /\ o \notin rollout.held
    /\ \A c \in Conns : handling[c].pc = "listen" => handling[c].object # o

(* What the server sends is lost when the agent has left; the same config  *)
(* twice in a row is received once.                                        *)
SendOn(queues, c, config) ==
    IF net[c] = "open" /\ (queues[c] = <<>> \/ queues[c][Len(queues[c])] # config)
    THEN [queues EXCEPT ![c] = Append(@, config)]
    ELSE queues

-----------------------------------------------------------------------------
(* The table of versions. *)
Latest == Len(versions)

(* RecommendAgentConfig: the pipelines of the latest version, or those     *)
(* that are there without any. *)
Recommendation ==
    [version |-> Latest, content |-> IF Latest = 0 THEN Base ELSE versions[Latest].content]

(* updateDeployStatus, for the version that is recommended. *)
Initiated ==
    IF Latest = 0 THEN versions ELSE [versions EXCEPT ![Latest].status = "IN_PROGRESS"]

(* updateDeployStatusByHash: a row has a hash once it was recommended. *)
Deployed(answer) ==
    [v \in DOMAIN versions |->
        IF v = answer.version /\ versions[v].status # "DIRTY"
        THEN [versions[v] EXCEPT !.status = IF answer.ok THEN "DEPLOYED" ELSE "FAILED"]
        ELSE versions[v]]

-----------------------------------------------------------------------------
Init ==
    /\ versions = <<>>
    /\ saving = {}
    /\ waiting = 0
    /\ rollout = NoRollout
    /\ agentsById = [a \in Agents |-> None]
    /\ connections = [c \in Conns |-> {}]
    /\ objects = [o \in Objects |-> NewObject]
    /\ handling = [c \in Conns |-> Idle]
    /\ subscribers = {}
    /\ agents = [a \in Agents |-> [link |-> None, effective |-> Base, status |-> None]]
    /\ net = [c \in Conns |-> "new"]
    /\ down = [c \in Conns |-> <<>>]
    /\ skipped = {}
    /\ heard = {}

-----------------------------------------------------------------------------
(* StartNewVersion: insertConfig writes the row of the next version; of    *)
(* two that take the same number one is refused and leaves nothing.        *)
InsertVersion(content) ==
    /\ Latest < MaxVersion
    /\ versions' = Append(versions, [content |-> Base, status |-> "DIRTY"])
    /\ saving' = saving \cup {[version |-> Latest + 1, content |-> content]}
    /\ UNCHANGED <<waiting, rollout, registryVars, objects, handling, subscribers, netVars,
                   skipped, heard>>

(* Mutant: a request that finds another one notifying leaves it to that.   *)
NotifiedOnce == IF waiting = 0 THEN 1 ELSE waiting

Notified == waiting + 1

(* ... then its elements; the subscriber is to be notified. *)
InsertElements(s) ==
    /\ s \in saving
    /\ versions' = [versions EXCEPT ![s.version].content = s.content]
    /\ saving' = saving \ {s}
    /\ waiting' = Notified
    /\ UNCHANGED <<rollout, registryVars, objects, handling, subscribers, netVars,
                   skipped, heard>>

-----------------------------------------------------------------------------
(* Mutant: nobody has to have asked for it. *)
StartRolloutUnasked ==
    /\ rollout.pc = "idle"
    /\ rollout' = [NoRollout EXCEPT !.pc = "next", !.todo = Known]
    /\ UNCHANGED <<dbVars, registryVars, objects, handling, subscribers, netVars,
                   skipped, heard>>

(* RecommendLatestConfigToAll takes the agents that are known now. *)
StartRollout ==
    /\ waiting > 0
    /\ rollout.pc = "idle"
    /\ rollout' = [NoRollout EXCEPT !.pc = "next", !.todo = Known]
    /\ UNCHANGED <<dbVars, registryVars, objects, handling, subscribers, netVars,
                   skipped, heard>>

EndRollout ==
    /\ rollout.pc = "next"
    /\ rollout.todo = {}
    /\ rollout' = NoRollout
    /\ waiting' = waiting - 1
    /\ UNCHANGED <<versions, saving, registryVars, objects, handling, subscribers, netVars,
                   skipped, heard>>

(* The next agent has not reported its configuration: no recommendation    *)
(* can be made, which is an error and the end.                             *)
FailRollout(o) ==
    /\ rollout.pc = "next"
    /\ o \in rollout.todo
    /\ objects[o].effective = None
    /\ rollout' = NoRollout
    /\ waiting' = waiting - 1
    /\ skipped' = skipped \cup rollout.todo
    /\ UNCHANGED <<versions, saving, registryVars, objects, handling, subscribers, netVars,
                   heard>>

(* The recommendation is what the next agent has: the end, too. *)
SameForAgent(o) ==
    /\ rollout.pc = "next"
    /\ o \in rollout.todo
    /\ objects[o].effective = Recommendation.content
    /\ versions' = Initiated
    /\ rollout' = NoRollout
    /\ waiting' = waiting - 1
    /\ skipped' = skipped \cup rollout.todo
    /\ UNCHANGED <<saving, registryVars, objects, handling, subscribers, netVars,
                   heard>>

(* The recommendation is made before agent.mux is taken. *)
Recommend(o) ==
    /\ rollout.pc = "next"
    /\ o \in rollout.todo
    /\ objects[o].effective \notin {None, Recommendation.content}
    /\ versions' = Initiated
    /\ rollout' = [rollout EXCEPT !.pc = "recommended", !.todo = @ \ {o},
                                  !.object = o, !.config = Recommendation]
    /\ UNCHANGED <<saving, waiting, registryVars, objects, handling, subscribers, netVars,
                   skipped, heard>>

(* Mutant: agent.mux is given back before the server listens. *)
HeldForSendingOnly == rollout.held

(* agent.mux is kept until the rollout ends. *)
HeldOnSending == rollout.held \cup {rollout.object}

SendToAgent ==
    /\ rollout.pc = "recommended"
    /\ MuxFree(rollout.object)
    /\ objects' = [objects EXCEPT ![rollout.object].remote = rollout.config]
    /\ down' = SendOn(down, rollout.object[2], rollout.config)
    /\ rollout' = [rollout EXCEPT !.pc = "listen", !.held = HeldOnSending]
    /\ skipped' = skipped \ {rollout.object}
    /\ UNCHANGED <<dbVars, registryVars, handling, subscribers, agents, net,
                   heard>>

ListenToConfigUpdate ==
    /\ rollout.pc = "listen"
    /\ subscribers' = subscribers \cup {rollout.config.version}
    /\ rollout' = [rollout EXCEPT !.pc = "next", !.object = None, !.config = None]
    /\ UNCHANGED <<dbVars, registryVars, objects, handling, netVars, skipped, heard>>

-----------------------------------------------------------------------------
(* Mutant: a known agent is put under its new connection, too. *)
ConnectionsForAll(a, c) == [connections EXCEPT ![c] = @ \cup {a}]

(* Only an agent that is not known is put under the connection. *)
ConnectionsWith(a, c) ==
    IF agentsById[a] = None THEN [connections EXCEPT ![c] = @ \cup {a}] ELSE connections

(* OnMessage: FindOrCreateAgent, under Agents.mux. *)
FindOrCreateAgent(c) ==
    /\ handling[c].pc = "arrived"
    /\ LET msg == handling[c].msg
           a == msg.agent
           new == agentsById[a] = None
       IN /\ agentsById' = IF new THEN [agentsById EXCEPT ![a] = c] ELSE agentsById
          /\ connections' = ConnectionsWith(a, c)
          /\ objects' = IF new THEN [objects EXCEPT ![<<a, c>>] = NewObject] ELSE objects
          /\ handling' = [handling EXCEPT ![c].pc = "update",
                                                 ![c].object = <<a, agentsById'[a]>>]
    /\ UNCHANGED <<dbVars, rollout, subscribers, netVars, skipped, heard>>

(* agent.updateStatusField: the first report is remembered as it is; a     *)
(* later one that answers differently than the last is passed on to        *)
(* whoever listens for its hash.                                           *)
AnswerIsNew(object, msg) ==
    /\ object.reported
    /\ msg.status # None
    /\ msg.status # object.status

Reported(object, msg) ==
    [object EXCEPT !.reported = TRUE,
                   !.effective = msg.effective,
                   !.status = IF msg.status = None THEN @ ELSE msg.status]

(* Mutant: the status goes to the version that was sent last. *)
AnsweredLastSent(object, msg) ==
    IF AnswerIsNew(object, msg) /\ msg.status.version \in subscribers
    THEN Deployed([msg.status EXCEPT !.version = object.remote.version])
    ELSE versions

(* notifySubscribers: the first answer releases all subscribers of a hash. *)
Answered(object, msg) ==
    IF AnswerIsNew(object, msg) /\ msg.status.version \in subscribers
    THEN Deployed(msg.status)
    ELSE versions

(* UpdateStatus for an agent whose description is new: the latest config   *)
(* is recommended and, since the object has none, sent.                    *)
UpdateNewAgent(c) ==
    /\ handling[c].pc = "update"
    /\ LET o == handling[c].object
           msg == handling[c].msg
       IN /\ ~ objects[o].reported
          /\ MuxFree(o)
          /\ versions' = Initiated
          /\ objects' = [objects EXCEPT ![o] = [Reported(@, msg) EXCEPT !.remote = Recommendation]]
          /\ down' = SendOn(down, o[2], Recommendation)
          /\ handling' = [handling EXCEPT ![c].pc = "listen", ![c].msg = None,
                                                 ![c].config = Recommendation]
          /\ skipped' = skipped \ {o}
    /\ UNCHANGED <<saving, waiting, rollout, registryVars, subscribers, agents, net,
                   heard>>

(* UpdateStatus for one that has reported before: what was sent last is    *)
(* sent again if the agent's answer is to another config.                  *)
UpdateStatus(c) ==
    /\ handling[c].pc = "update"
    /\ LET o == handling[c].object
           msg == handling[c].msg
           object == Reported(objects[o], msg)
           again == /\ object.status # None
                    /\ object.remote # None
                    /\ object.status.version # object.remote.version
       IN /\ objects[o].reported
          /\ MuxFree(o)
          /\ versions' = Answered(objects[o], msg)
          /\ subscribers' = IF AnswerIsNew(objects[o], msg)
                            THEN subscribers \ {msg.status.version}
                            ELSE subscribers
          /\ heard' = IF AnswerIsNew(objects[o], msg) /\ msg.status.version > 0
                      THEN heard \cup {msg.status}
                      ELSE heard
          /\ objects' = [objects EXCEPT ![o] = object]
          /\ down' = IF again THEN SendOn(down, o[2], object.remote) ELSE down
          /\ handling' = [handling EXCEPT ![c] = IF again
                                                 THEN [@ EXCEPT !.pc = "listen", !.msg = None,
                                                                !.config = object.remote]
                                                 ELSE Idle]
    /\ UNCHANGED <<saving, waiting, rollout, registryVars, agents, net, skipped>>

(* It listens for the answer, gives agent.mux back, and what was sent is   *)
(* the response on this connection, too.                                   *)
Respond(c) ==
    /\ handling[c].pc = "listen"
    /\ subscribers' = subscribers \cup {handling[c].config.version}
    /\ down' = SendOn(down, c, handling[c].config)
    /\ handling' = [handling EXCEPT ![c] = Idle]
    /\ UNCHANGED <<dbVars, rollout, registryVars, objects, agents, net,
                   skipped, heard>>

(* RemoveConnection, when the server notices that an agent has left. *)
RemoveConnection(c) ==
    /\ net[c] = "left"
    /\ handling[c] = Idle
    /\ \A a \in connections[c] : MuxFree(<<a, agentsById[a]>>)
    /\ agentsById' = [a \in Agents |-> IF a \in connections[c] THEN None ELSE agentsById[a]]
    /\ connections' = [connections EXCEPT ![c] = {}]
    /\ net' = [net EXCEPT ![c] = "closed"]
    /\ UNCHANGED <<dbVars, rollout, objects, handling, subscribers, agents, down,
                   skipped, heard>>

-----------------------------------------------------------------------------
(* The agents.  One connects and reports what it runs and what it last     *)
(* answered ... *)
Status(a) ==
    [agent |-> a, effective |-> agents[a].effective, status |-> agents[a].status]

Arrived(msg) == [Idle EXCEPT !.pc = "arrived", !.msg = msg]

Connect(a, c) ==
    /\ agents[a].link = None
    /\ net[c] = "new"
    /\ agents' = [agents EXCEPT ![a].link = c]
    /\ net' = [net EXCEPT ![c] = "open"]
    /\ handling' = [handling EXCEPT ![c] = Arrived(Status(a))]
    /\ UNCHANGED <<dbVars, rollout, registryVars, objects, subscribers, down,
                   skipped, heard>>

(* ... applies what it is sent, or fails to, and answers ... *)
Apply(a, ok) ==
    LET c == agents[a].link
        config == Head(down[c])
        answer == [version |-> config.version, ok |-> ok]
    IN /\ c # None
       /\ down[c] # <<>>
       /\ ok \/ config.content \in Fallible
       /\ handling[c] = Idle
       /\ agents' = [agents EXCEPT ![a].effective = IF ok THEN config.content ELSE @,
                                   ![a].status = answer]
       /\ handling' = [handling EXCEPT ![c] = Arrived(Status(a)')]
       /\ down' = [down EXCEPT ![c] = Tail(@)]
       /\ UNCHANGED <<dbVars, rollout, registryVars, objects, subscribers, net, skipped, heard>>

(* ... and leaves, while there is a connection left to come back on (a     *)
(* bound); what it last sent may be lost. *)
Leave(a) ==
    LET c == agents[a].link
    IN /\ c # None
       /\ \E d \in Conns : net[d] = "new"
       /\ agents' = [agents EXCEPT ![a].link = None]
       /\ net' = [net EXCEPT ![c] = "left"]
       /\ down' = [down EXCEPT ![c] = <<>>]
       /\ \/ UNCHANGED handling
          \/ handling[c].pc = "arrived" /\ handling' = [handling EXCEPT ![c] = Idle]
       /\ UNCHANGED <<dbVars, rollout, registryVars, objects, subscribers, skipped, heard>>

Server ==
    \/ \E s \in saving : InsertElements(s)
    \/ StartRollout
    \/ EndRollout
    \/ \E o \in Objects : FailRollout(o) \/ SameForAgent(o) \/ Recommend(o)
    \/ SendToAgent
    \/ ListenToConfigUpdate
    \/ \E c \in Conns :
         \/ FindOrCreateAgent(c)
         \/ UpdateNewAgent(c)
         \/ UpdateStatus(c)
         \/ Respond(c)
         \/ RemoveConnection(c)

Next ==
    \/ \E content \in Contents : InsertVersion(content)
    \/ Server
    \/ \E a \in Agents :
         \/ \E c \in Conns : Connect(a, c)
         \/ \E ok \in BOOLEAN : Apply(a, ok)
         \/ Leave(a)

Spec == Init /\ [][Next]_vars

-----------------------------------------------------------------------------
Row == [content : Contents, status : {"DIRTY", "IN_PROGRESS", "DEPLOYED", "FAILED"}]

DbTypes ==
    /\ versions \in Seq(Row)
    /\ Latest <= MaxVersion
    /\ saving \subseteq [version : 1 .. Latest, content : Contents]
    /\ waiting \in Nat

RolloutTypes ==
    /\ rollout \in [pc : {"idle", "next", "recommended", "listen"},
                    todo : SUBSET Objects, held : SUBSET Objects,
                    object : Objects \cup {None}, config : Config \cup {None}]
    /\ rollout.pc # "idle" => waiting > 0
    /\ rollout.pc \in {"recommended", "listen"} => rollout.object # None /\ rollout.config # None

Object == [reported : BOOLEAN, effective : Contents \cup {None},
           status : Answer \cup {None}, remote : Config \cup {None}]

RegistryTypes ==
    /\ agentsById \in [Agents -> Conns \cup {None}]
    /\ connections \in [Conns -> SUBSET Agents]
    /\ objects \in [Objects -> Object]
    /\ subscribers \subseteq 0 .. MaxVersion
    /\ skipped \subseteq Objects
    /\ heard \subseteq Answer

Handling ==
    [pc : {"idle", "arrived", "update", "listen"}, object : Objects \cup {None},
     msg : Message \cup {None}, config : Config \cup {None}]

HandlingTypes ==
    /\ handling \in [Conns -> Handling]
    /\ \A c \in Conns :
         /\ handling[c].pc \in {"arrived", "update"} => handling[c].msg # None
         /\ handling[c].pc \in {"update", "listen"} => handling[c].object # None
         /\ handling[c].pc = "listen" => handling[c].config # None

NetTypes ==
    /\ agents \in [Agents -> [link : Conns \cup {None}, effective : Contents,
                              status : Answer \cup {None}]]
    /\ net \in [Conns -> {"new", "open", "left", "closed"}]
    /\ down \in [Conns -> Seq(Config)]

TypeOK ==
    /\ DbTypes
    /\ RolloutTypes
    /\ RegistryTypes
    /\ HandlingTypes
    /\ NetTypes

(* Every agent under a connection is known by it, and the other way round: *)
(* RemoveConnection, which looks up each agent of the connection, finds    *)
(* it, and leaves no agent behind that no connection will remove.          *)
RegistryConsistent ==
    \A a \in Agents, c \in Conns : a \in connections[c] <=> agentsById[a] = c

(* A deployment status says what an agent has answered for that version.   *)
StatusWasAnswered ==
    \A v \in DOMAIN versions :
        /\ versions[v].status = "DEPLOYED" => [version |-> v, ok |-> TRUE] \in heard
        /\ versions[v].status = "FAILED" => [version |-> v, ok |-> FALSE] \in heard

(* The first answer to a version decides its status: it is never handled   *)
(* between the sending of the configuration and the subscription.          *)
FirstAnswerCounts ==
    [][\A answer \in heard' \ heard :
         (\A other \in heard : other.version # answer.version)
         => versions'[answer.version].status = IF answer.ok THEN "DEPLOYED" ELSE "FAILED"]_vars

Quiet ==
    /\ saving = {} /\ waiting = 0
    /\ \A c \in Conns : down[c] = <<>> /\ handling[c] = Idle /\ net[c] # "left"

(* When nothing is under way, a known agent runs the latest version or has *)
(* failed to, unless a rollout that ended early left it out: no agent      *)
(* slips between a rollout and its own connecting, and no older            *)
(* recommendation reaches it last.                                         *)
AgentsUpToDate ==
    Quiet => \A o \in Known \ skipped :
        \/ agents[o[1]].effective = Recommendation.content
        \/ agents[o[1]].status = [version |-> Latest, ok |-> FALSE]
=============================================================================
