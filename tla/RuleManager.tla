----------------------------- MODULE RuleManager -----------------------------
(***************************************************************************)
(* The rule manager (rules/manager.go) and the rules table (rules/db.go):  *)
(* API requests create, edit, patch and delete alert rules, each of which  *)
(* is a row in SQLite, an entry of Manager.tasks and of Manager.rules, and *)
(* a task whose goroutine evaluates the rule.                              *)
(*                                                                         *)
(* Requests run concurrently.  Manager.mtx is held by addTask, editTask    *)
(* and deleteTask, the last two while they wait for a task to stop;        *)
(* syncRuleStateWithTask looks at Manager.tasks without it.                *)
(***************************************************************************)
EXTENDS Integers, Sequences, FiniteSets

CONSTANTS
    Clients,       \* whoever sends API requests, each one at a time
    Conditions,    \* PostableRule.RuleCondition, what the rule evaluates
    Loadable,      \* the conditions prepareTaskFunc accepts
    MaxRules,      \* bound: rule ids
    MaxRequests,   \* bound: requests in all
    DisableRules,  \* ManagerOptions.DisableRules
    Trouble,       \* bound: what else may happen, see TroubleKinds
    None           \* no row, no client

(* Requests that overlap on one rule, requests for ids that are not stored, *)
(* patches of the condition, new rules that are disabled, and failing      *)
(* database calls (a locked database is one reason).                       *)
TroubleKinds ==
    {"overlap", "unknown id", "patch condition", "create disabled",
     "insert fails", "commit fails", "update fails", "delete fails", "load fails"}

ASSUME RuleManagerAssumption ==
    /\ Loadable \subseteq Conditions
    /\ MaxRules \in Nat \ {0}
    /\ MaxRequests \in Nat
    /\ DisableRules \in BOOLEAN
    /\ Trouble \subseteq TroubleKinds
    /\ None \notin Clients
    /\ "Stop" \notin Clients \cup {None}
    /\ None \notin [cond : Conditions, disabled : BOOLEAN]

VARIABLES
    stored,    \* table rules: the rule under each id, or None
    lastId,    \* SQLite's AUTOINCREMENT counter of the table
    tx,        \* the client whose CreateRuleTx transaction is open
    mtx,       \* who holds Manager.mtx
    made,      \* per rule id, the tasks prepareTaskFunc made, oldest first
    tasks,     \* Manager.tasks: which of them it holds, 0 for none
    rules,     \* Manager.rules, the same way
    req,       \* per client, the request under way
    stopping,  \* Manager.Stop has been called
    requests   \* how many requests there have been

vars == <<stored, lastId, tx, mtx, made, tasks, rules, req, stopping, requests>>

RuleIds == 1 .. MaxRules

Rules == [cond : Conditions, disabled : BOOLEAN]

(* A task: what it evaluates, where its goroutine is, and whether its      *)
(* channel done is closed.                                                 *)
NewTask(rule) == [rule |-> rule, at |-> "made", done |-> FALSE]

(* The goroutine waits for Manager.block before Run. *)
Started(task) == [task EXCEPT !.at = IF DisableRules THEN "blocked" ELSE "idle"]

Alive(task) == task.at \in {"blocked", "idle", "evaluating"}

NoRequest ==
    [op |-> "none", pc |-> "idle", id |-> 0, rule |-> None, old |-> None, stop |-> 0]

Quiet == \A c \in Clients : req[c] = NoRequest

-----------------------------------------------------------------------------
(* Mutant: the rules that are disabled are started too. *)
LoadsDisabled(loaded, id) ==
    /\ loaded
    /\ ~ DisableRules
    /\ stored[id] # None
    /\ stored[id].cond \in Loadable

(* The rules that initiate starts a task for. *)
Loads(loaded, id) ==
    /\ loaded
    /\ ~ DisableRules
    /\ stored[id] # None
    /\ ~ stored[id].disabled
    /\ stored[id].cond \in Loadable

(* NewManager, initiate and run: all of it before the API is served. *)
LoadedTasks(loaded) ==
    [id \in RuleIds |-> IF Loads(loaded, id) THEN <<Started(NewTask(stored[id]))>> ELSE <<>>]

LoadedMap(loaded) == [id \in RuleIds |-> IF Loads(loaded, id) THEN 1 ELSE 0]

Init ==
    /\ stored \in [RuleIds -> Rules \cup {None}]
    /\ lastId \in {0} \cup RuleIds
    /\ \A id \in RuleIds : id > lastId => stored[id] = None
    /\ made = LoadedTasks(TRUE)
    /\ tasks = LoadedMap(TRUE)
    /\ rules = LoadedMap(TRUE)
    /\ tx = None
    /\ mtx = None
    /\ req = [c \in Clients |-> NoRequest]
    /\ stopping = FALSE
    /\ requests = 0

(* The process ends, by a crash or after Stop, and starts again. *)
Restart(loaded) ==
    /\ ~ loaded => "load fails" \in Trouble
    /\ made' = LoadedTasks(loaded)
    /\ tasks' = LoadedMap(loaded)
    /\ rules' = LoadedMap(loaded)
    /\ tx' = None
    /\ mtx' = None
    /\ req' = [c \in Clients |-> NoRequest]
    /\ stopping' = FALSE
    /\ UNCHANGED <<stored, lastId, requests>>

-----------------------------------------------------------------------------
(* Requests.  Stop comes after the API server was shut down. *)
MayRequest(c) ==
    /\ req[c] = NoRequest
    /\ ~ stopping
    /\ requests < MaxRequests

MayRequestFor(c, id) ==
    /\ MayRequest(c)
    /\ stored[id] = None => "unknown id" \in Trouble
    /\ (\E d \in Clients : req[d].id = id) => "overlap" \in Trouble

Begin(c, r) ==
    /\ req' = [req EXCEPT ![c] = r]
    /\ requests' = requests + 1
    /\ UNCHANGED <<stored, lastId, tx, mtx, made, tasks, rules, stopping>>

CreateRule(c, rule) ==
    /\ MayRequest(c)
    /\ lastId + Cardinality({d \in Clients : req[d].op = "create"}) < MaxRules
    /\ rule.disabled => "create disabled" \in Trouble
    /\ Begin(c, [NoRequest EXCEPT !.op = "create", !.pc = "insert", !.rule = rule])

EditRule(c, id, rule) ==
    /\ MayRequestFor(c, id)
    /\ Begin(c, [NoRequest EXCEPT !.op = "edit", !.pc = "update", !.id = id, !.rule = rule])

(* What is patched is chosen when the rule has been read. *)
PatchRule(c, id) ==
    /\ MayRequestFor(c, id)
    /\ Begin(c, [NoRequest EXCEPT !.op = "patch", !.pc = "read", !.id = id])

DeleteRule(c, id) ==
    /\ MayRequestFor(c, id)
    /\ Begin(c, [NoRequest EXCEPT
                   !.op = "delete",
                   !.pc = IF DisableRules THEN "delete" ELSE "deleteTask",
                   !.id = id])

Goto(c, pc) == req' = [req EXCEPT ![c].pc = pc]

(* The request is answered. *)
Answer(c) == req' = [req EXCEPT ![c] = NoRequest]

(* What comes after addTask, editTask or deleteTask went well ... *)
Proceed(c) ==
    CASE req[c].op = "create" -> Goto(c, "commit")
      [] req[c].op = "delete" -> Goto(c, "delete")
      [] req[c].op = "patch"  -> Goto(c, "update")
      [] OTHER                -> Answer(c)

(* ... and when one returned an error: only CreateRule has something to    *)
(* undo, its transaction.                                                  *)
Abort(c) ==
    /\ tx' = IF tx = c THEN None ELSE tx
    /\ Answer(c)

-----------------------------------------------------------------------------
(* The database.  A write waits for the transaction of another. *)
Fails(c, call) ==
    /\ call \in Trouble
    /\ Answer(c)
    /\ UNCHANGED <<stored, lastId, tx, mtx, made, tasks, rules, stopping, requests>>

Insert(c) ==
    /\ req[c].pc = "insert"
    /\ \/ /\ tx = None
          /\ lastId < MaxRules
          /\ tx' = c
          /\ req' = [req EXCEPT ![c].id = lastId + 1,
                                ![c].pc = IF DisableRules THEN "commit" ELSE "addTask"]
          /\ UNCHANGED <<stored, lastId, mtx, made, tasks, rules, stopping, requests>>
       \/ Fails(c, "insert fails")

(* A transaction that fails to commit is rolled back, with the counter. *)
Commit(c) ==
    /\ req[c].pc = "commit"
    /\ tx' = None
    /\ Answer(c)
    /\ \/ /\ stored' = [stored EXCEPT ![req[c].id] = req[c].rule]
          /\ lastId' = req[c].id
       \/ /\ "commit fails" \in Trouble
          /\ UNCHANGED <<stored, lastId>>
    /\ UNCHANGED <<mtx, made, tasks, rules, stopping, requests>>

(* PatchRule reads the stored rule and decodes the patch over it. *)
Read(c, patched) ==
    /\ req[c].pc = "read"
    /\ LET old == stored[req[c].id]
       IN IF old = None
          THEN Answer(c)
          ELSE /\ patched.cond # old.cond => "patch condition" \in Trouble
               /\ req' = [req EXCEPT ![c].pc = "sync", ![c].old = old, ![c].rule = patched]
    /\ UNCHANGED <<stored, lastId, tx, mtx, made, tasks, rules, stopping, requests>>

(* The rule that a failed patch is undone with: the patch was decoded into *)
(* a copy of the stored rule that shares its RuleCondition.                *)
Undone(r) == [r.old EXCEPT !.cond = r.rule.cond]

(* EditRule writes the row before it turns to the task, PatchRule after.   *)
(* An UPDATE of no row is no error.                                        *)
Update(c) ==
    /\ req[c].pc = "update"
    /\ \/ /\ tx = None
          /\ stored' = IF stored[req[c].id] = None
                       THEN stored
                       ELSE [stored EXCEPT ![req[c].id] = req[c].rule]
          /\ IF req[c].op = "edit" /\ ~ DisableRules THEN Goto(c, "sync") ELSE Answer(c)
       \/ /\ "update fails" \in Trouble
          /\ IF req[c].op = "edit"
             THEN Answer(c)
             ELSE req' = [req EXCEPT ![c].op = "undo", ![c].pc = "sync",
                                     ![c].rule = Undone(req[c])]
          /\ UNCHANGED stored
    /\ UNCHANGED <<lastId, tx, mtx, made, tasks, rules, stopping, requests>>

Delete(c) ==
    /\ req[c].pc = "delete"
    /\ \/ /\ tx = None
          /\ stored' = [stored EXCEPT ![req[c].id] = None]
          /\ Answer(c)
          /\ UNCHANGED <<lastId, tx, mtx, made, tasks, rules, stopping, requests>>
       \/ Fails(c, "delete fails")

-----------------------------------------------------------------------------
(* syncRuleStateWithTask looks into Manager.tasks, without the mutex, and  *)
(* decides.                                                                *)
Sync(c) ==
    /\ req[c].pc = "sync"
    /\ LET running == tasks[req[c].id] # 0
       IN IF req[c].rule.disabled
          THEN IF running THEN Goto(c, "deleteTask") ELSE Proceed(c)
          ELSE Goto(c, IF running THEN "editTask" ELSE "addTask")
    /\ UNCHANGED <<stored, lastId, tx, mtx, made, tasks, rules, stopping, requests>>

(* prepareTaskFunc refuses the rule: an error, nothing changed. *)
Refuse(c) ==
    /\ req[c].pc \in {"addTask", "editTask"}
    /\ mtx = None
    /\ req[c].rule.cond \notin Loadable
    /\ Abort(c)
    /\ UNCHANGED <<stored, lastId, mtx, made, tasks, rules, stopping, requests>>

AddTask(c) ==
    /\ req[c].pc = "addTask"
    /\ mtx = None
    /\ req[c].rule.cond \in Loadable
    /\ LET id == req[c].id
           new == Len(made[id]) + 1
       IN /\ rules' = [rules EXCEPT ![id] = new]
          /\ IF tasks[id] # 0
             THEN \* a rule with the same name already exists
                  /\ made' = [made EXCEPT ![id] = Append(@, NewTask(req[c].rule))]
                  /\ Abort(c)
                  /\ UNCHANGED tasks
             ELSE /\ made' = [made EXCEPT ![id] = Append(@, Started(NewTask(req[c].rule)))]
                  /\ tasks' = [tasks EXCEPT ![id] = new]
                  /\ Proceed(c)
                  /\ UNCHANGED tx
    /\ UNCHANGED <<stored, lastId, mtx, stopping, requests>>

Closed(seq, n) == IF n = 0 THEN seq ELSE [seq EXCEPT ![n].done = TRUE]

(* Mutant: the rule of the old task stays in Manager.rules. *)
EditTaskOldRule(c) ==
    /\ req[c].pc = "editTask"
    /\ mtx = None
    /\ req[c].rule.cond \in Loadable
    /\ LET id == req[c].id
       IN /\ made' = [made EXCEPT
                        ![id] = Append(Closed(@, tasks[id]), NewTask(req[c].rule))]
          /\ tasks' = [tasks EXCEPT ![id] = 0]
          /\ req' = [req EXCEPT ![c].pc = "editStop", ![c].stop = tasks[id]]
    /\ mtx' = c
    /\ UNCHANGED <<stored, lastId, tx, rules, stopping, requests>>

(* editTask takes the old task out of the map and stops it ... *)
EditTask(c) ==
    /\ req[c].pc = "editTask"
    /\ mtx = None
    /\ req[c].rule.cond \in Loadable
    /\ LET id == req[c].id
       IN /\ made' = [made EXCEPT
                        ![id] = Append(Closed(@, tasks[id]), NewTask(req[c].rule))]
          /\ rules' = [rules EXCEPT ![id] = Len(made[id]) + 1]
          /\ tasks' = [tasks EXCEPT ![id] = 0]
          /\ req' = [req EXCEPT ![c].pc = "editStop", ![c].stop = tasks[id]]
    /\ mtx' = c
    /\ UNCHANGED <<stored, lastId, tx, stopping, requests>>

Terminated(id, n) == IF n = 0 THEN TRUE ELSE made[id][n].at = "terminated"

(* Mutant: the new task does not wait for the old one. *)
FinishEditNoWait(c) ==
    /\ req[c].pc = "editStop"
    /\ LET id == req[c].id
           new == Len(made[id])
       IN /\ made' = [made EXCEPT ![id][new] = Started(@)]
          /\ tasks' = [tasks EXCEPT ![id] = new]
    /\ mtx' = None
    /\ Proceed(c)
    /\ UNCHANGED <<stored, lastId, tx, rules, stopping, requests>>

(* ... and starts the new one when the old one has ended. *)
FinishEdit(c) ==
    /\ req[c].pc = "editStop"
    /\ Terminated(req[c].id, req[c].stop)
    /\ LET id == req[c].id
           new == Len(made[id])
       IN /\ made' = [made EXCEPT ![id][new] = Started(@)]
          /\ tasks' = [tasks EXCEPT ![id] = new]
    /\ mtx' = None
    /\ Proceed(c)
    /\ UNCHANGED <<stored, lastId, tx, rules, stopping, requests>>

(* deleteTask stops the task while it is still in the map ... *)
DeleteTask(c) ==
    /\ req[c].pc = "deleteTask"
    /\ mtx = None
    /\ LET id == req[c].id
       IN IF tasks[id] = 0
          THEN /\ Proceed(c)
               /\ UNCHANGED <<made, mtx>>
          ELSE /\ made' = [made EXCEPT ![id] = Closed(@, tasks[id])]
               /\ req' = [req EXCEPT ![c].pc = "deleteStop", ![c].stop = tasks[id]]
               /\ mtx' = c
    /\ UNCHANGED <<stored, lastId, tx, tasks, rules, stopping, requests>>

(* Mutant: the task that was stopped stays in the map. *)
FinishDeleteKept(c) ==
    /\ req[c].pc = "deleteStop"
    /\ Terminated(req[c].id, req[c].stop)
    /\ rules' = [rules EXCEPT ![req[c].id] = 0]
    /\ mtx' = None
    /\ Proceed(c)
    /\ UNCHANGED <<stored, lastId, tx, made, tasks, stopping, requests>>

(* ... and takes it out when it has ended. *)
FinishDelete(c) ==
    /\ req[c].pc = "deleteStop"
    /\ Terminated(req[c].id, req[c].stop)
    /\ tasks' = [tasks EXCEPT ![req[c].id] = 0]
    /\ rules' = [rules EXCEPT ![req[c].id] = 0]
    /\ mtx' = None
    /\ Proceed(c)
    /\ UNCHANGED <<stored, lastId, tx, made, stopping, requests>>

-----------------------------------------------------------------------------
(* The goroutine of a task.  With done closed and a tick due, Run's select *)
(* takes either; it looks at done again after each evaluation.             *)
TaskStep(id, n, from, to) ==
    /\ n <= Len(made[id])
    /\ made[id][n].at = from
    /\ made' = [made EXCEPT ![id][n].at = to]
    /\ UNCHANGED <<stored, lastId, tx, mtx, tasks, rules, req, stopping, requests>>

StartEval(id, n) == TaskStep(id, n, "idle", "evaluating")

(* Mutant: Run does not look at done by itself. *)
EndEvalNoCheck(id, n) == TaskStep(id, n, "evaluating", "idle")

EndEval(id, n) ==
    TaskStep(id, n, "evaluating", IF made[id][n].done THEN "terminated" ELSE "idle")

Leave(id, n) ==
    /\ n <= Len(made[id])
    /\ made[id][n].done
    /\ TaskStep(id, n, "idle", "terminated")

(* Manager.Stop stops one task after the other and keeps the mutex. *)
Stop ==
    /\ Quiet
    /\ mtx = None
    /\ stopping' = TRUE
    /\ mtx' = "Stop"
    /\ UNCHANGED <<stored, lastId, tx, made, tasks, rules, req, requests>>

StopTask(id) ==
    /\ stopping
    /\ tasks[id] # 0
    /\ ~ made[id][tasks[id]].done
    /\ \A i \in RuleIds : tasks[i] # 0 /\ made[i][tasks[i]].done => Terminated(i, tasks[i])
    /\ made' = [made EXCEPT ![id] = Closed(@, tasks[id])]
    /\ UNCHANGED <<stored, lastId, tx, mtx, tasks, rules, req, stopping, requests>>

(* What the request of a client does next, once it can. *)
ClientStep(c) ==
    \/ Insert(c) \/ Commit(c) \/ Update(c) \/ Delete(c)
    \/ \E patched \in Rules : Read(c, patched)
    \/ Sync(c) \/ Refuse(c) \/ AddTask(c)
    \/ EditTask(c) \/ FinishEdit(c)
    \/ DeleteTask(c) \/ FinishDelete(c)

TaskEnds(id, n) == EndEval(id, n) \/ Leave(id, n)

Next ==
    \/ \E c \in Clients :
         \/ \E rule \in Rules : CreateRule(c, rule)
         \/ \E id \in RuleIds :
              \/ \E rule \in Rules : EditRule(c, id, rule)
              \/ PatchRule(c, id)
              \/ DeleteRule(c, id)
         \/ ClientStep(c)
    \/ \E id \in RuleIds :
         \/ \E n \in 1 .. Len(made[id]) : StartEval(id, n) \/ TaskEnds(id, n)
         \/ StopTask(id)
    \/ Stop
    \/ \E loaded \in BOOLEAN : Restart(loaded)

Spec == Init /\ [][Next]_vars

(* The goroutines of requests and tasks are scheduled, evaluations end,    *)
(* and the mutex does not starve a request (their number is bounded).      *)
(* Nothing obliges anyone to send a request.                               *)
FairSpec ==
    /\ Spec
    /\ \A c \in Clients : WF_vars(ClientStep(c))
    /\ \A id \in RuleIds, n \in 1 .. 2 * MaxRequests + 1 : WF_vars(TaskEnds(id, n))

-----------------------------------------------------------------------------
Tasks == [rule : Rules, at : {"made", "blocked", "idle", "evaluating", "terminated"},
          done : BOOLEAN]

Requests ==
    [op : {"none", "create", "edit", "patch", "undo", "delete"},
     pc : {"idle", "insert", "commit", "read", "update", "delete", "sync", "addTask",
           "editTask", "editStop", "deleteTask", "deleteStop"},
     id : {0} \cup RuleIds, rule : Rules \cup {None}, old : Rules \cup {None}, stop : Nat]

TypeOK ==
    /\ stored \in [RuleIds -> Rules \cup {None}]
    /\ lastId \in {0} \cup RuleIds
    /\ tx \in Clients \cup {None}
    /\ mtx \in Clients \cup {None, "Stop"}
    /\ made \in [RuleIds -> Seq(Tasks)]
    /\ tasks \in [RuleIds -> Nat]
    /\ rules \in [RuleIds -> Nat]
    /\ \A id \in RuleIds : tasks[id] <= Len(made[id]) /\ rules[id] <= Len(made[id])
    /\ req \in [Clients -> Requests]
    /\ stopping \in BOOLEAN
    /\ requests \in 0 .. MaxRequests

(* A rule is never evaluated by two tasks at once, and no task runs that   *)
(* the manager has lost and cannot stop: a task that runs is the one in    *)
(* Manager.tasks, or the one an edit has taken out and is waiting for.     *)
OneTaskPerRule ==
    \A id \in RuleIds : \A n \in 1 .. Len(made[id]) :
        Alive(made[id][n]) =>
            \/ tasks[id] = n
            \/ \E c \in Clients : mtx = c /\ req[c].id = id /\ req[c].stop = n

(* No task is stopped twice (closing its channel again would panic): what  *)
(* addTask, editTask and deleteTask find in Manager.tasks was not stopped. *)
StoppedOnce ==
    mtx = None => \A id \in RuleIds : tasks[id] # 0 => ~ made[id][tasks[id]].done

(* What runs for a rule is what is stored: a task with that very rule, or  *)
(* none for a rule that is disabled, or gone.                              *)
Matches(id) ==
    IF stored[id] # None /\ ~ stored[id].disabled
    THEN tasks[id] # 0 /\ made[id][tasks[id]].rule = stored[id]
    ELSE tasks[id] = 0

(* Between requests, tasks and table agree.                                *)
Synced == Quiet => \A id \in RuleIds : Matches(id)

(* The state that the API reports of a rule is that of the rule object in  *)
(* the task that evaluates it, and "disabled" if there is none.            *)
ReportedIsRunning ==
    mtx = None => \A id \in RuleIds : rules[id] = tasks[id]

(* Every request is answered (or the process restarts).                    *)
RequestsEnd == \A c \in Clients : (req[c] # NoRequest) ~> (req[c] = NoRequest)

(* manager.go says "if a stored rule is disabled, then there is no task    *)
(* running against it".                                                    *)
DisabledHasNoTask ==
    Quiet => \A id \in RuleIds :
                stored[id] # None /\ stored[id].disabled => tasks[id] = 0

(* manager.go says of a failed write in PatchRule: "restore task state     *)
(* from the stored rule".  Not when the condition was patched.             *)
FailedPatchRestores ==
    [][\A c \in Clients, id \in RuleIds :
         req[c].op = "undo" /\ req[c].id = id /\ req'[c] = NoRequest => Matches(id)']_vars
=============================================================================
