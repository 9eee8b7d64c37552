-------------------------- MODULE RuleManager_proofs --------------------------
(* Proofs about RuleManager for any number of clients, rules and requests.   *)
(* Whatever goes wrong: a rule never has two tasks, and no task is stopped   *)
(* twice.  While requests keep apart: Manager.rules and Manager.tasks agree; *)
(* and when no write fails that nothing undoes: they agree with the table.   *)
EXTENDS RuleManager, SequenceTheorems, TLAPS

-----------------------------------------------------------------------------
(* What a request looks like at each place of the code.                    *)
Busy == {"idle", "insert"}

ReqOK(r) ==
    /\ r \in Requests
    /\ r.pc \notin Busy => r.id \in RuleIds
    /\ r.op \in {"create", "edit", "undo"} => r.rule \in Rules
    /\ r.op = "patch" /\ r.pc # "read" => r.rule \in Rules /\ r.old \in Rules
    /\ r.pc \in {"insert", "commit"} => r.op = "create"
    /\ r.pc = "update" => r.op \in {"edit", "patch"}
    /\ r.pc = "sync" => r.op \in {"edit", "patch", "undo"}
    /\ r.pc = "read" => r.op = "patch"
    /\ r.pc = "delete" => r.op = "delete"
    /\ r.pc = "addTask" => r.op \in {"create", "edit", "patch", "undo"}
    /\ r.pc \in {"editTask", "editStop"} => r.op \in {"edit", "patch", "undo"}
    /\ r.pc \in {"deleteTask", "deleteStop"} => r.op \in {"edit", "patch", "undo", "delete"}

ReqInv == \A c \in Clients : ReqOK(req[c])

TypeInv == TypeOK /\ ReqInv

(* A client that waits for a task to stop holds the mutex, and only such a *)
(* client holds it; what it waits for is not in Manager.tasks any more     *)
(* (editTask) or still there (deleteTask); and nothing in Manager.tasks    *)
(* has been stopped but that.                                              *)
WaitPlaces == {"editStop", "deleteStop"}

HoldsMutex == \A c \in Clients : req[c].pc \in WaitPlaces <=> mtx = c

EditWaits ==
    \A c \in Clients : req[c].pc = "editStop" =>
        LET id == req[c].id
        IN /\ tasks[id] = 0
           /\ Len(made[id]) > 0
           /\ ~ made[id][Len(made[id])].done

DeleteWaits ==
    \A c \in Clients : req[c].pc = "deleteStop" => tasks[req[c].id] = req[c].stop

NotStopped ==
    mtx # "Stop" =>
        \A id \in RuleIds :
            /\ tasks[id] # 0
            /\ \A c \in Clients : req[c].pc = "deleteStop" => req[c].id # id
            => ~ made[id][tasks[id]].done

TaskInv ==
    /\ OneTaskPerRule
    /\ HoldsMutex
    /\ EditWaits
    /\ DeleteWaits
    /\ NotStopped

(* Manager.Stop does not let the mutex go again. *)
StopHolds == stopping => mtx = "Stop"

ManagerInv == TypeInv /\ TaskInv /\ StopHolds

-----------------------------------------------------------------------------
(* The tasks and requests as data.                                         *)
LEMMA NewTaskType ==
    ASSUME NEW rule \in Rules
    PROVE  /\ NewTask(rule) \in Tasks /\ Started(NewTask(rule)) \in Tasks
           /\ ~ Alive(NewTask(rule))
           /\ ~ NewTask(rule).done /\ ~ Started(NewTask(rule)).done
  BY RuleManagerAssumption DEF NewTask, Started, Tasks, Alive

LEMMA StartedType ==
    ASSUME NEW task \in Tasks
    PROVE  Started(task) \in Tasks /\ Started(task).done = task.done
  BY RuleManagerAssumption DEF Started, Tasks

LEMMA ClosedType ==
    ASSUME NEW s \in Seq(Tasks), NEW n \in 0 .. Len(s)
    PROVE  /\ Closed(s, n) \in Seq(Tasks)
           /\ Len(Closed(s, n)) = Len(s)
           /\ \A i \in 1 .. Len(s) :
                 /\ Closed(s, n)[i].at = s[i].at
                 /\ i # n => Closed(s, n)[i] = s[i]
                 /\ i = n => Closed(s, n)[i].done
  <1>1. CASE n = 0
    BY <1>1 DEF Closed
  <1>2. CASE n # 0
    <2> DEFINE e == [s[n] EXCEPT !.done = TRUE]
    <2>1. n \in 1 .. Len(s)
      BY <1>2
    <2>2. s[n] \in Tasks
      BY <2>1
    <2>3. e \in Tasks /\ e.at = s[n].at /\ e.done
      BY <2>2 DEF Tasks
    <2>4. Closed(s, n) = [s EXCEPT ![n] = e]
      BY <1>2 DEF Closed
    <2> HIDE DEF e
    <2>5. /\ [s EXCEPT ![n] = e] \in Seq(Tasks)
          /\ Len([s EXCEPT ![n] = e]) = Len(s)
          /\ \A j \in 1 .. Len(s) : [s EXCEPT ![n] = e][j] = IF j = n THEN e ELSE s[j]
      BY <2>1, <2>3, ExceptSeq
    <2>6. QED
      BY <2>3, <2>4, <2>5
  <1>3. QED
    BY <1>1, <1>2

LEMMA NoRequestOK == ReqOK(NoRequest)
  BY DEF ReqOK, NoRequest, Requests, Busy

(* The parts of the invariant that the lemmas below use most. *)
LEMMA Facts ==
    ASSUME ManagerInv
    PROVE  /\ made \in [RuleIds -> Seq(Tasks)] /\ tasks \in [RuleIds -> Nat]
           /\ rules \in [RuleIds -> Nat] /\ req \in [Clients -> Requests]
           /\ \A id \in RuleIds : /\ made[id] \in Seq(Tasks) /\ Len(made[id]) \in Nat
                                  /\ tasks[id] \in 0 .. Len(made[id])
                                  /\ rules[id] \in 0 .. Len(made[id])
           /\ \A c \in Clients : ReqOK(req[c]) /\ req[c] \in Requests
  BY DEF ManagerInv, TypeInv, TypeOK, ReqInv

-----------------------------------------------------------------------------
(* Task invariant: steps that change a request away from where it waits.   *)
LEMMA ReqOnly ==
    ASSUME ManagerInv, NEW c \in Clients, NEW r,
           UNCHANGED <<mtx, made, tasks>>, req' = [req EXCEPT ![c] = r],
           req[c].pc \notin WaitPlaces, r.pc \notin WaitPlaces
    PROVE  TaskInv'
  <1>1. /\ req'[c] = r /\ mtx # c
        /\ \A d \in Clients : d # c => req'[d] = req[d]
    BY Facts DEF ManagerInv, TaskInv, HoldsMutex
  <1>2. OneTaskPerRule'
    BY <1>1 DEF ManagerInv, TaskInv, OneTaskPerRule
  <1>3. HoldsMutex'
    BY <1>1 DEF ManagerInv, TaskInv, HoldsMutex
  <1>4. EditWaits' /\ DeleteWaits'
    BY <1>1 DEF ManagerInv, TaskInv, EditWaits, DeleteWaits, WaitPlaces
  <1>5. NotStopped'
    BY <1>1 DEF ManagerInv, TaskInv, NotStopped, WaitPlaces
  <1>6. QED
    BY <1>2, <1>3, <1>4, <1>5 DEF TaskInv

(* Goto, Answer, Proceed and Abort are such changes. *)
LEMMA GotoIs ==
    ASSUME ManagerInv, NEW c \in Clients, NEW pc, pc \notin WaitPlaces, Goto(c, pc)
    PROVE  \E r : req' = [req EXCEPT ![c] = r] /\ r.pc \notin WaitPlaces
  <1> DEFINE r == [req[c] EXCEPT !.pc = pc]
  <1>1. req' = [req EXCEPT ![c] = r]
    BY DEF Goto
  <1>2. r.pc = pc
    BY Facts DEF Requests
  <1> HIDE DEF r
  <1>3. QED
    BY <1>1, <1>2

LEMMA ProceedIs ==
    ASSUME ManagerInv, NEW c \in Clients, Proceed(c)
    PROVE  \E r : req' = [req EXCEPT ![c] = r] /\ r.pc \notin WaitPlaces
  <1>1. CASE req[c].op = "create"
    <2>1. Goto(c, "commit") /\ "commit" \notin WaitPlaces
      BY <1>1 DEF Proceed, WaitPlaces
    <2>2. QED
      BY <2>1, GotoIs, Zenon
  <1>2. CASE req[c].op = "delete"
    <2>1. Goto(c, "delete") /\ "delete" \notin WaitPlaces
      BY <1>2 DEF Proceed, WaitPlaces
    <2>2. QED
      BY <2>1, GotoIs, Zenon
  <1>3. CASE req[c].op = "patch"
    <2>1. Goto(c, "update") /\ "update" \notin WaitPlaces
      BY <1>3 DEF Proceed, WaitPlaces
    <2>2. QED
      BY <2>1, GotoIs, Zenon
  <1>4. CASE req[c].op \notin {"create", "delete", "patch"}
    <2>1. Answer(c)
      BY <1>4 DEF Proceed
    <2>2. NoRequest.pc \notin WaitPlaces
      BY DEF NoRequest, WaitPlaces
    <2> HIDE DEF NoRequest
    <2>3. QED
      BY <2>1, <2>2 DEF Answer
  <1>5. QED
    BY <1>1, <1>2, <1>3, <1>4

LEMMA AnswerIs ==
    ASSUME NEW c \in Clients, Answer(c)
    PROVE  req' = [req EXCEPT ![c] = NoRequest] /\ NoRequest.pc \notin WaitPlaces
  BY DEF Answer, NoRequest, WaitPlaces

LEMMA BeginTask ==
    ASSUME ManagerInv, NEW c \in Clients, NEW r, MayRequest(c), Begin(c, r),
           r.pc \notin WaitPlaces
    PROVE  TaskInv'
  <1>1. req[c].pc \notin WaitPlaces
    BY DEF MayRequest, NoRequest, WaitPlaces
  <1>2. req' = [req EXCEPT ![c] = r] /\ UNCHANGED <<mtx, made, tasks>>
    BY DEF Begin
  <1>3. QED
    BY <1>1, <1>2, ReqOnly

LEMMA NewRequestTask ==
    ASSUME ManagerInv, NEW c \in Clients,
           \/ \E rule \in Rules : CreateRule(c, rule)
           \/ \E id \in RuleIds : \/ \E rule \in Rules : EditRule(c, id, rule)
                                  \/ PatchRule(c, id)
                                  \/ DeleteRule(c, id)
    PROVE  TaskInv'
  <1>1. \E r : MayRequest(c) /\ Begin(c, r) /\ r.pc \notin WaitPlaces
    <2>1. ASSUME NEW rule \in Rules, CreateRule(c, rule)
          PROVE  \E r : MayRequest(c) /\ Begin(c, r) /\ r.pc \notin WaitPlaces
      <3> DEFINE r == [NoRequest EXCEPT !.op = "create", !.pc = "insert", !.rule = rule]
      <3>1. MayRequest(c) /\ Begin(c, r)
        BY <2>1 DEF CreateRule
      <3>2. r.pc \notin WaitPlaces
        BY DEF NoRequest, WaitPlaces
      <3> HIDE DEF r
      <3>3. QED
        BY <3>1, <3>2
    <2>2. ASSUME NEW id \in RuleIds, NEW rule \in Rules, EditRule(c, id, rule)
          PROVE  \E r : MayRequest(c) /\ Begin(c, r) /\ r.pc \notin WaitPlaces
      <3> DEFINE r == [NoRequest EXCEPT !.op = "edit", !.pc = "update", !.id = id, !.rule = rule]
      <3>1. MayRequest(c) /\ Begin(c, r)
        BY <2>2 DEF EditRule, MayRequestFor
      <3>2. r.pc \notin WaitPlaces
        BY DEF NoRequest, WaitPlaces
      <3> HIDE DEF r
      <3>3. QED
        BY <3>1, <3>2
    <2>3. ASSUME NEW id \in RuleIds, PatchRule(c, id)
          PROVE  \E r : MayRequest(c) /\ Begin(c, r) /\ r.pc \notin WaitPlaces
      <3> DEFINE r == [NoRequest EXCEPT !.op = "patch", !.pc = "read", !.id = id]
      <3>1. MayRequest(c) /\ Begin(c, r)
        BY <2>3 DEF PatchRule, MayRequestFor
      <3>2. r.pc \notin WaitPlaces
        BY DEF NoRequest, WaitPlaces
      <3> HIDE DEF r
      <3>3. QED
        BY <3>1, <3>2
    <2>4. ASSUME NEW id \in RuleIds, DeleteRule(c, id)
          PROVE  \E r : MayRequest(c) /\ Begin(c, r) /\ r.pc \notin WaitPlaces
      <3> DEFINE r == [NoRequest EXCEPT !.op = "delete",
                         !.pc = IF DisableRules THEN "delete" ELSE "deleteTask", !.id = id]
      <3>1. MayRequest(c) /\ Begin(c, r)
        BY <2>4 DEF DeleteRule, MayRequestFor
      <3>2. r.pc \notin WaitPlaces
        BY RuleManagerAssumption DEF NoRequest, WaitPlaces
      <3> HIDE DEF r
      <3>3. QED
        BY <3>1, <3>2
    <2>5. QED
      BY <2>1, <2>2, <2>3, <2>4
  <1>2. QED
    BY <1>1, BeginTask

(* The database calls, Sync and Refuse touch neither tasks nor mutex. *)
LEMMA DatabaseTask ==
    ASSUME ManagerInv, NEW c \in Clients,
           \/ Insert(c) \/ Commit(c) \/ Update(c) \/ Delete(c)
           \/ \E patched \in Rules : Read(c, patched)
           \/ Sync(c) \/ Refuse(c)
    PROVE  TaskInv'
  <1>1. UNCHANGED <<mtx, made, tasks>>
    BY DEF Insert, Commit, Update, Delete, Read, Sync, Refuse, Fails
  <1>2. req[c].pc \notin WaitPlaces
    BY DEF Insert, Commit, Update, Delete, Read, Sync, Refuse, WaitPlaces
  <1>3. req[c] \in Requests
    BY Facts
  <1>4. ASSUME Answer(c) PROVE TaskInv'
    BY <1>1, <1>2, <1>4, AnswerIs, ReqOnly
  <1>5. ASSUME NEW pc, pc \notin WaitPlaces, Goto(c, pc) PROVE TaskInv'
    BY <1>1, <1>2, <1>5, GotoIs, ReqOnly
  <1>6. ASSUME Proceed(c) PROVE TaskInv'
    BY <1>1, <1>2, <1>6, ProceedIs, ReqOnly
  <1>7. CASE Insert(c)
    <2>1. CASE ~ Answer(c)
      <3> DEFINE r == [req[c] EXCEPT !.id = lastId + 1,
                                     !.pc = IF DisableRules THEN "commit" ELSE "addTask"]
      <3>1. req' = [req EXCEPT ![c] = r]
        BY <1>7, <2>1 DEF Insert, Fails
      <3>2. r.pc \notin WaitPlaces
        BY <1>3 DEF Requests, WaitPlaces
      <3> HIDE DEF r
      <3>3. QED
        BY <1>1, <1>2, <3>1, <3>2, ReqOnly
    <2>2. QED
      BY <1>4, <2>1
  <1>8. CASE Commit(c)
    BY <1>4, <1>8 DEF Commit
  <1>9. CASE Update(c)
    <2>1. CASE Goto(c, "sync")
      <3>1. "sync" \notin WaitPlaces
        BY DEF WaitPlaces
      <3>2. QED
        BY <1>5, <2>1, <3>1
    <2>2. CASE ~ Goto(c, "sync") /\ ~ Answer(c)
      <3> DEFINE r == [req[c] EXCEPT !.op = "undo", !.pc = "sync", !.rule = Undone(req[c])]
      <3>1. req' = [req EXCEPT ![c] = r]
        BY <1>9, <2>2 DEF Update
      <3>2. r.pc \notin WaitPlaces
        BY <1>3 DEF Requests, WaitPlaces
      <3> HIDE DEF r
      <3>3. QED
        BY <1>1, <1>2, <3>1, <3>2, ReqOnly
    <2>3. QED
      BY <1>4, <2>1, <2>2
  <1>10. CASE Delete(c)
    BY <1>4, <1>10 DEF Delete, Fails
  <1>11. ASSUME NEW patched \in Rules, Read(c, patched) PROVE TaskInv'
    <2>1. CASE ~ Answer(c)
      <3> DEFINE r == [req[c] EXCEPT !.pc = "sync", !.old = stored[req[c].id], !.rule = patched]
      <3>1. req' = [req EXCEPT ![c] = r]
        BY <1>11, <2>1 DEF Read
      <3>2. r.pc \notin WaitPlaces
        BY <1>3 DEF Requests, WaitPlaces
      <3> HIDE DEF r
      <3>3. QED
        BY <1>1, <1>2, <3>1, <3>2, ReqOnly
    <2>2. QED
      BY <1>4, <2>1
  <1>12. CASE Sync(c)
    <2>1. \/ Proceed(c) \/ Goto(c, "deleteTask") \/ Goto(c, "addTask") \/ Goto(c, "editTask")
      BY <1>12 DEF Sync
    <2>2. /\ "deleteTask" \notin WaitPlaces /\ "addTask" \notin WaitPlaces
          /\ "editTask" \notin WaitPlaces
      BY DEF WaitPlaces
    <2>3. QED
      BY <1>5, <1>6, <2>1, <2>2
  <1>13. CASE Refuse(c)
    BY <1>4, <1>13 DEF Refuse, Abort
  <1>14. QED
    BY <1>7, <1>8, <1>9, <1>10, <1>11, <1>12, <1>13

(* Nobody waits while the mutex is free. *)
LEMMA FreeMutex ==
    ASSUME ManagerInv, mtx = None
    PROVE  /\ \A c \in Clients : req[c].pc \notin WaitPlaces
           /\ \A id \in RuleIds : \A n \in 1 .. Len(made[id]) :
                 Alive(made[id][n]) => tasks[id] = n
           /\ \A id \in RuleIds : tasks[id] # 0 => ~ made[id][tasks[id]].done
  <1>1. \A c \in Clients : req[c].pc \notin WaitPlaces /\ mtx # c
    BY RuleManagerAssumption DEF ManagerInv, TaskInv, HoldsMutex
  <1>2. \A id \in RuleIds : \A n \in 1 .. Len(made[id]) :
           Alive(made[id][n]) => tasks[id] = n
    BY <1>1 DEF ManagerInv, TaskInv, OneTaskPerRule
  <1>3. mtx # "Stop"
    BY RuleManagerAssumption
  <1>4. \A id \in RuleIds : tasks[id] # 0 => ~ made[id][tasks[id]].done
    BY <1>1, <1>3 DEF ManagerInv, TaskInv, NotStopped, WaitPlaces
  <1>5. QED
    BY <1>1, <1>2, <1>4

LEMMA AddTaskTask ==
    ASSUME ManagerInv, NEW c \in Clients, AddTask(c)
    PROVE  TaskInv'
  <1> DEFINE id == req[c].id
             old == made[id]
             new == Len(old) + 1
             task == IF tasks[id] # 0 THEN NewTask(req[c].rule) ELSE Started(NewTask(req[c].rule))
  <1>1. /\ id \in RuleIds /\ req[c].rule \in Rules
        /\ req[c].pc = "addTask" /\ mtx = None /\ mtx' = mtx
    <2>1. ReqOK(req[c]) /\ req[c].pc = "addTask" /\ mtx = None /\ mtx' = mtx
      BY Facts DEF AddTask
    <2>2. QED
      BY <2>1 DEF ReqOK, Busy
  <1>2. /\ old \in Seq(Tasks) /\ Len(old) \in Nat /\ tasks[id] \in 0 .. Len(old)
        /\ made \in [RuleIds -> Seq(Tasks)] /\ tasks \in [RuleIds -> Nat]
    BY <1>1, Facts
  <1>3. task \in Tasks /\ ~ task.done /\ (tasks[id] # 0 => ~ Alive(task))
    BY <1>1, NewTaskType
  <1>4. /\ made' = [made EXCEPT ![id] = Append(old, task)]
        /\ tasks' = IF tasks[id] # 0 THEN tasks ELSE [tasks EXCEPT ![id] = new]
    BY DEF AddTask
  <1>5. \E r : req' = [req EXCEPT ![c] = r] /\ r.pc \notin WaitPlaces
    <2>1. Answer(c) \/ Proceed(c)
      BY DEF AddTask, Abort
    <2> HIDE DEF id, old, new, task
    <2>2. QED
      BY <2>1, AnswerIs, ProceedIs
  <1> HIDE DEF task
  <1>6. /\ Len(Append(old, task)) = new /\ Append(old, task)[new] = task
        /\ \A n \in 1 .. Len(old) : Append(old, task)[n] = old[n]
    BY <1>2, <1>3, AppendProperties
  <1>7. \A d \in Clients : req'[d].pc \notin WaitPlaces
    <2>1. PICK r : req' = [req EXCEPT ![c] = r] /\ r.pc \notin WaitPlaces
      BY <1>5
    <2>2. QED
      BY <2>1, FreeMutex, <1>1, Facts
  <1>8. HoldsMutex' /\ EditWaits' /\ DeleteWaits'
    BY <1>1, <1>7, FreeMutex, RuleManagerAssumption
       DEF HoldsMutex, EditWaits, DeleteWaits, WaitPlaces
  <1>9. OneTaskPerRule'
    <2>1. ASSUME NEW i \in RuleIds, NEW n \in 1 .. Len(made'[i]), Alive(made'[i][n])
          PROVE  tasks'[i] = n
      <3>1. CASE i # id
        BY <1>1, <1>2, <1>4, <2>1, <3>1, FreeMutex
      <3>2. CASE i = id /\ n = new
        BY <1>2, <1>3, <1>4, <1>6, <2>1, <3>2, <1>1
      <3>3. CASE i = id /\ n # new
        <4>1. n \in 1 .. Len(old) /\ made'[i][n] = old[n]
          BY <1>1, <1>2, <1>4, <1>6, <3>3
        <4>2. tasks[id] = n
          BY <1>1, <2>1, <4>1, FreeMutex
        <4>3. QED
          BY <1>4, <3>3, <4>1, <4>2
      <3>4. QED
        BY <3>1, <3>2, <3>3
    <2>2. \A i \in RuleIds : \A n \in 1 .. Len(made'[i]) : Alive(made'[i][n]) => tasks'[i] = n
      BY <2>1
    <2>3. \A i, n : Alive(made[i][n])' = Alive(made'[i][n])
      BY DEF Alive
    <2>4. QED
      BY <2>2, <2>3 DEF OneTaskPerRule
  <1>10. NotStopped'
    <2>1. ASSUME NEW i \in RuleIds, tasks'[i] # 0
          PROVE  ~ made'[i][tasks'[i]].done
      <3>1. CASE i # id
        BY <1>1, <1>2, <1>4, <2>1, <3>1, FreeMutex
      <3>2. CASE i = id /\ tasks[id] = 0
        BY <1>1, <1>2, <1>3, <1>4, <1>6, <3>2
      <3>3. CASE i = id /\ tasks[id] # 0
        BY <1>1, <1>2, <1>4, <1>6, <3>3, FreeMutex
      <3>4. QED
        BY <3>1, <3>2, <3>3
    <2>2. QED
      BY <2>1 DEF NotStopped
  <1>11. QED
    BY <1>8, <1>9, <1>10 DEF TaskInv

-----------------------------------------------------------------------------
(* A client that waits is the only one.                                    *)
LEMMA Waiting ==
    ASSUME ManagerInv, NEW c \in Clients, req[c].pc \in WaitPlaces
    PROVE  /\ mtx = c
           /\ \A d \in Clients : d # c => req[d].pc \notin WaitPlaces
           /\ req[c].id \in RuleIds
           /\ \A id \in RuleIds : \A n \in 1 .. Len(made[id]) :
                 Alive(made[id][n]) =>
                     \/ tasks[id] = n
                     \/ req[c].id = id /\ req[c].stop = n
           /\ \A id \in RuleIds :
                 tasks[id] # 0 /\ (req[c].pc = "deleteStop" => id # req[c].id)
                     => ~ made[id][tasks[id]].done
  <1>1. mtx = c /\ mtx # "Stop"
    BY RuleManagerAssumption DEF ManagerInv, TaskInv, HoldsMutex
  <1>2. \A d \in Clients : d # c => req[d].pc \notin WaitPlaces
    BY <1>1 DEF ManagerInv, TaskInv, HoldsMutex
  <1>3. req[c].id \in RuleIds
    BY Facts DEF ReqOK, Busy, WaitPlaces
  <1>4. \A id \in RuleIds : \A n \in 1 .. Len(made[id]) :
           Alive(made[id][n]) =>
               \/ tasks[id] = n
               \/ req[c].id = id /\ req[c].stop = n
    BY <1>1 DEF ManagerInv, TaskInv, OneTaskPerRule
  <1>5. \A id \in RuleIds :
           tasks[id] # 0 /\ (req[c].pc = "deleteStop" => id # req[c].id)
               => ~ made[id][tasks[id]].done
    BY <1>1, <1>2 DEF ManagerInv, TaskInv, NotStopped, WaitPlaces
  <1>6. QED
    BY <1>1, <1>2, <1>3, <1>4, <1>5

LEMMA AlivePrime == ASSUME NEW i, NEW n PROVE Alive(made[i][n])' = Alive(made'[i][n])
  BY DEF Alive

(* The mutex is free, and no client waits. *)
LEMMA NobodyWaits ==
    ASSUME \A d \in Clients : req'[d].pc \notin WaitPlaces, mtx' = None,
           \A i \in RuleIds : \A n \in 1 .. Len(made'[i]) :
               Alive(made'[i][n]) => tasks'[i] = n,
           \A i \in RuleIds : tasks'[i] # 0 => ~ made'[i][tasks'[i]].done
    PROVE  TaskInv'
  <1>1. HoldsMutex' /\ EditWaits' /\ DeleteWaits'
    BY RuleManagerAssumption DEF HoldsMutex, EditWaits, DeleteWaits, WaitPlaces
  <1>2. OneTaskPerRule'
    BY AlivePrime DEF OneTaskPerRule
  <1>3. NotStopped'
    BY DEF NotStopped
  <1>4. QED
    BY <1>1, <1>2, <1>3 DEF TaskInv

LEMMA EditTaskTask ==
    ASSUME ManagerInv, NEW c \in Clients, EditTask(c)
    PROVE  TaskInv'
  <1> DEFINE id == req[c].id
             old == made[id]
             closed == Closed(old, tasks[id])
             task == NewTask(req[c].rule)
             r == [req[c] EXCEPT !.pc = "editStop", !.stop = tasks[id]]
  <1>1. /\ id \in RuleIds /\ req[c].rule \in Rules /\ req[c] \in Requests
        /\ mtx = None /\ mtx' = c
    <2>1. ReqOK(req[c]) /\ req[c].pc = "editTask" /\ mtx = None /\ mtx' = c
      BY Facts DEF EditTask
    <2>2. QED
      BY <2>1 DEF ReqOK, Busy
  <1>2. /\ old \in Seq(Tasks) /\ Len(old) \in Nat /\ tasks[id] \in 0 .. Len(old)
        /\ made \in [RuleIds -> Seq(Tasks)] /\ tasks \in [RuleIds -> Nat]
        /\ req \in [Clients -> Requests]
    BY <1>1, Facts
  <1>3. task \in Tasks /\ ~ task.done /\ ~ Alive(task)
    BY <1>1, NewTaskType
  <1>4. /\ made' = [made EXCEPT ![id] = Append(closed, task)]
        /\ tasks' = [tasks EXCEPT ![id] = 0]
        /\ req' = [req EXCEPT ![c] = r]
    BY DEF EditTask
  <1>5. r.pc = "editStop" /\ r.id = id /\ r.stop = tasks[id]
    BY <1>1 DEF Requests
  <1> HIDE DEF task, r
  <1>6. closed \in Seq(Tasks) /\ Len(closed) = Len(old)
        /\ \A n \in 1 .. Len(old) : closed[n].at = old[n].at
    BY <1>2, ClosedType
  <1> HIDE DEF closed
  <1>7. /\ Len(Append(closed, task)) = Len(old) + 1
        /\ Append(closed, task)[Len(old) + 1] = task
        /\ \A n \in 1 .. Len(old) : Append(closed, task)[n] = closed[n]
    BY <1>2, <1>3, <1>6, AppendProperties
  <1>8. /\ req'[c] = r
        /\ \A d \in Clients : d # c => req'[d] = req[d] /\ req'[d].pc \notin WaitPlaces
    BY <1>1, <1>2, <1>4, FreeMutex
  <1>9. made'[id] = Append(closed, task) /\ tasks'[id] = 0
        /\ \A i \in RuleIds : i # id => made'[i] = made[i] /\ tasks'[i] = tasks[i]
    BY <1>1, <1>2, <1>4
  <1>10. HoldsMutex'
    BY <1>1, <1>5, <1>8 DEF HoldsMutex, WaitPlaces
  <1>11. EditWaits'
    <2>1. \A d \in Clients : req'[d].pc = "editStop" => d = c
      BY <1>8 DEF WaitPlaces
    <2>2. /\ tasks'[id] = 0 /\ Len(made'[id]) > 0
          /\ ~ made'[id][Len(made'[id])].done
      BY <1>2, <1>3, <1>7, <1>9
    <2>3. req'[c].id = id
      BY <1>5, <1>8
    <2> HIDE DEF id
    <2>4. QED
      BY <2>1, <2>2, <2>3 DEF EditWaits
  <1>12. DeleteWaits'
    BY <1>5, <1>8 DEF DeleteWaits, WaitPlaces
  <1>13. OneTaskPerRule'
    <2>1. ASSUME NEW i \in RuleIds, NEW n \in 1 .. Len(made'[i]), Alive(made'[i][n])
          PROVE  tasks'[i] = n \/ (mtx' = c /\ req'[c].id = i /\ req'[c].stop = n)
      <3>1. CASE i # id
        BY <1>1, <1>9, <2>1, <3>1, FreeMutex
      <3>2. CASE i = id /\ n = Len(old) + 1
        BY <1>3, <1>7, <1>9, <2>1, <3>2
      <3>3. CASE i = id /\ n # Len(old) + 1
        <4>1. n \in 1 .. Len(old) /\ made'[i][n].at = old[n].at
          BY <1>2, <1>6, <1>7, <1>9, <3>3
        <4>2. Alive(old[n])
          BY <2>1, <4>1 DEF Alive
        <4>3. tasks[id] = n
          BY <1>1, <4>1, <4>2, FreeMutex
        <4>4. QED
          BY <1>1, <1>5, <1>8, <3>3, <4>3
      <3>4. QED
        BY <3>1, <3>2, <3>3
    <2>2. QED
      BY <2>1, AlivePrime DEF OneTaskPerRule
  <1>14. NotStopped'
    BY <1>1, <1>9, FreeMutex DEF NotStopped
  <1>15. QED
    BY <1>10, <1>11, <1>12, <1>13, <1>14 DEF TaskInv

LEMMA FinishEditTask ==
    ASSUME ManagerInv, NEW c \in Clients, FinishEdit(c)
    PROVE  TaskInv'
  <1> DEFINE id == req[c].id
             old == made[id]
             new == Len(old)
             task == Started(old[new])
  <1>1. req[c].pc = "editStop" /\ req[c].pc \in WaitPlaces /\ mtx' = None /\ id \in RuleIds
    BY Waiting DEF FinishEdit, WaitPlaces
  <1>2. /\ old \in Seq(Tasks) /\ Len(old) \in Nat /\ tasks[id] \in 0 .. Len(old)
        /\ made \in [RuleIds -> Seq(Tasks)] /\ tasks \in [RuleIds -> Nat]
        /\ req[c] \in Requests
    BY <1>1, Facts
  <1>3. tasks[id] = 0 /\ new > 0 /\ ~ old[new].done
    BY <1>1 DEF ManagerInv, TaskInv, EditWaits
  <1>4. old[new] \in Tasks
    BY <1>2, <1>3
  <1>5. task \in Tasks /\ ~ task.done
    BY <1>3, <1>4, StartedType
  <1>6. /\ made' = [made EXCEPT ![id] = [old EXCEPT ![new] = task]]
        /\ tasks' = [tasks EXCEPT ![id] = new]
    BY DEF FinishEdit
  <1> HIDE DEF task
  <1>7. /\ Len([old EXCEPT ![new] = task]) = Len(old)
        /\ \A n \in 1 .. Len(old) : [old EXCEPT ![new] = task][n] = IF n = new THEN task ELSE old[n]
    BY <1>2, <1>3, <1>5, ExceptSeq
  <1>8. /\ made'[id] = [old EXCEPT ![new] = task] /\ tasks'[id] = new
        /\ \A i \in RuleIds : i # id => made'[i] = made[i] /\ tasks'[i] = tasks[i]
    BY <1>1, <1>2, <1>6
  <1>9. \A d \in Clients : req'[d].pc \notin WaitPlaces
    <2>1. PICK r : req' = [req EXCEPT ![c] = r] /\ r.pc \notin WaitPlaces
      BY ProceedIs DEF FinishEdit
    <2>2. QED
      BY <1>1, <2>1, Waiting, Facts
  <1>10. ASSUME NEW i \in RuleIds, NEW n \in 1 .. Len(made'[i]), Alive(made'[i][n])
         PROVE  tasks'[i] = n
    <2>1. CASE i # id
      <3>1. made'[i] = made[i] /\ tasks'[i] = tasks[i]
        BY <1>8, <2>1
      <3>2. QED
        BY <1>1, <2>1, <3>1, <1>10, Waiting
    <2>2. CASE i = id /\ n = new
      BY <1>8, <2>2
    <2>3. CASE i = id /\ n # new
      <3>1. n \in 1 .. Len(old) /\ Alive(old[n])
        BY <1>2, <1>7, <1>8, <1>10, <2>3
      <3>2. req[c].stop = n /\ n # 0
        BY <1>1, <1>2, <1>3, <3>1, Waiting
      <3>3. old[n].at = "terminated"
        BY <3>2 DEF FinishEdit, Terminated
      <3>4. QED
        BY <3>1, <3>3 DEF Alive
    <2>4. QED
      BY <2>1, <2>2, <2>3
  <1>11. ASSUME NEW i \in RuleIds, tasks'[i] # 0
         PROVE  ~ made'[i][tasks'[i]].done
    <2>1. CASE i # id
      <3>1. made'[i] = made[i] /\ tasks'[i] = tasks[i]
        BY <1>8, <2>1
      <3>2. QED
        BY <1>1, <1>11, <3>1, Waiting
    <2>2. CASE i = id
      BY <1>2, <1>3, <1>5, <1>7, <1>8, <2>2
    <2>3. QED
      BY <2>1, <2>2
  <1>12. QED
    BY <1>1, <1>9, <1>10, <1>11, NobodyWaits

LEMMA DeleteTaskTask ==
    ASSUME ManagerInv, NEW c \in Clients, DeleteTask(c)
    PROVE  TaskInv'
  <1> DEFINE id == req[c].id
             old == made[id]
             closed == Closed(old, tasks[id])
             r == [req[c] EXCEPT !.pc = "deleteStop", !.stop = tasks[id]]
  <1>1. /\ req[c].pc = "deleteTask" /\ req[c].pc \notin WaitPlaces
        /\ id \in RuleIds /\ mtx = None /\ tasks' = tasks
    <2>1. ReqOK(req[c]) /\ req[c].pc = "deleteTask" /\ mtx = None /\ tasks' = tasks
      BY Facts DEF DeleteTask
    <2>2. QED
      BY <2>1 DEF ReqOK, Busy, WaitPlaces
  <1>2. CASE tasks[id] = 0
    <2>1. Proceed(c) /\ UNCHANGED <<mtx, made, tasks>>
      BY <1>1, <1>2 DEF DeleteTask
    <2> HIDE DEF id, old, closed, r
    <2>2. QED
      BY <1>1, <2>1, ProceedIs, ReqOnly
  <1>3. CASE tasks[id] # 0
    <2>1. /\ made' = [made EXCEPT ![id] = closed] /\ req' = [req EXCEPT ![c] = r] /\ mtx' = c
      BY <1>3 DEF DeleteTask
    <2>2. /\ old \in Seq(Tasks) /\ Len(old) \in Nat /\ tasks[id] \in 0 .. Len(old)
          /\ made \in [RuleIds -> Seq(Tasks)] /\ req[c] \in Requests
          /\ req \in [Clients -> Requests]
      BY <1>1, Facts
    <2>3. r.pc = "deleteStop" /\ r.id = id /\ r.stop = tasks[id]
      BY <2>2 DEF Requests
    <2> HIDE DEF r
    <2>4. Len(closed) = Len(old) /\ \A n \in 1 .. Len(old) : closed[n].at = old[n].at
      BY <2>2, ClosedType
    <2> HIDE DEF closed
    <2>5. /\ req'[c] = r
          /\ \A d \in Clients : d # c => req'[d] = req[d] /\ req'[d].pc \notin WaitPlaces
      BY <1>1, <2>1, <2>2, FreeMutex
    <2>6. made'[id] = closed /\ \A i \in RuleIds : i # id => made'[i] = made[i]
      BY <1>1, <2>1, <2>2
    <2>7. HoldsMutex' /\ EditWaits'
      BY <2>1, <2>3, <2>5 DEF HoldsMutex, EditWaits, WaitPlaces
    <2>8. DeleteWaits'
      BY <1>1, <2>3, <2>5 DEF DeleteWaits, WaitPlaces
    <2>9. ASSUME NEW i \in RuleIds, NEW n \in 1 .. Len(made'[i]), Alive(made'[i][n])
          PROVE  tasks'[i] = n
      <3>1. n \in 1 .. Len(made[i]) /\ made'[i][n].at = made[i][n].at
        BY <2>4, <2>6
      <3>2. Alive(made[i][n])
        BY <2>9, <3>1 DEF Alive
      <3>3. QED
        BY <1>1, <3>1, <3>2, FreeMutex
    <2>10. OneTaskPerRule'
      BY <2>9, AlivePrime DEF OneTaskPerRule
    <2>11. NotStopped'
      BY <1>1, <2>3, <2>5, <2>6, FreeMutex DEF NotStopped
    <2>12. QED
      BY <2>7, <2>8, <2>10, <2>11 DEF TaskInv
  <1>4. QED
    BY <1>2, <1>3

LEMMA FinishDeleteTask ==
    ASSUME ManagerInv, NEW c \in Clients, FinishDelete(c)
    PROVE  TaskInv'
  <1> DEFINE id == req[c].id
  <1>1. /\ req[c].pc = "deleteStop" /\ req[c].pc \in WaitPlaces
        /\ mtx' = None /\ id \in RuleIds /\ made' = made
    BY Waiting DEF FinishDelete, WaitPlaces
  <1>2. tasks \in [RuleIds -> Nat] /\ tasks' = [tasks EXCEPT ![id] = 0]
    BY Facts DEF FinishDelete
  <1>3. tasks'[id] = 0 /\ \A i \in RuleIds : i # id => tasks'[i] = tasks[i]
    BY <1>1, <1>2
  <1>4. tasks[id] = req[c].stop
    BY <1>1 DEF ManagerInv, TaskInv, DeleteWaits
  <1>5. \A d \in Clients : req'[d].pc \notin WaitPlaces
    <2>1. PICK r : req' = [req EXCEPT ![c] = r] /\ r.pc \notin WaitPlaces
      BY ProceedIs DEF FinishDelete
    <2>2. QED
      BY <1>1, <2>1, Waiting, Facts
  <1>6. ASSUME NEW i \in RuleIds, NEW n \in 1 .. Len(made'[i]), Alive(made'[i][n])
        PROVE  tasks'[i] = n
    <2>1. CASE i # id
      BY <1>1, <1>3, <1>6, <2>1, Waiting
    <2>2. CASE i = id
      <3>1. req[c].stop = n /\ n # 0
        BY <1>1, <1>4, <1>6, <2>2, Waiting
      <3>2. made[i][n].at = "terminated"
        BY <2>2, <3>1 DEF FinishDelete, Terminated
      <3>3. QED
        BY <1>1, <1>6, <3>2 DEF Alive
    <2>3. QED
      BY <2>1, <2>2
  <1>7. ASSUME NEW i \in RuleIds, tasks'[i] # 0
        PROVE  ~ made'[i][tasks'[i]].done
    BY <1>1, <1>3, <1>7, Waiting
  <1>8. QED
    BY <1>1, <1>5, <1>6, <1>7, NobodyWaits

(* A step of a task's goroutine. *)
LEMMA GoroutineTask ==
    ASSUME ManagerInv, NEW id \in RuleIds, NEW n \in Nat \ {0},
           NEW from \in {"idle", "evaluating"},
           NEW to \in {"idle", "evaluating", "terminated"},
           TaskStep(id, n, from, to)
    PROVE  TaskInv' /\ TypeInv'
  <1> DEFINE old == made[id]
             task == [old[n] EXCEPT !.at = to]
  <1>1. /\ old \in Seq(Tasks) /\ Len(old) \in Nat /\ made \in [RuleIds -> Seq(Tasks)]
        /\ n \in 1 .. Len(old) /\ old[n].at = from
        /\ made' = [made EXCEPT ![id] = [old EXCEPT ![n] = task]]
        /\ UNCHANGED <<stored, lastId, tx, mtx, tasks, rules, req, stopping, requests>>
    BY Facts DEF TaskStep
  <1>2. old[n] \in Tasks
    BY <1>1
  <1>3. task \in Tasks /\ task.done = old[n].done
    BY <1>2 DEF Tasks
  <1>4. Alive(old[n])
    BY <1>1 DEF Alive
  <1> HIDE DEF task
  <1>5. /\ [old EXCEPT ![n] = task] \in Seq(Tasks)
        /\ Len([old EXCEPT ![n] = task]) = Len(old)
        /\ \A m \in 1 .. Len(old) : [old EXCEPT ![n] = task][m] = IF m = n THEN task ELSE old[m]
    BY <1>1, <1>3, ExceptSeq
  <1>6. /\ made' \in [RuleIds -> Seq(Tasks)]
        /\ \A i \in RuleIds :
              /\ Len(made'[i]) = Len(made[i])
              /\ \A m \in 1 .. Len(made[i]) :
                    /\ made'[i][m].done = made[i][m].done
                    /\ Alive(made'[i][m]) => Alive(made[i][m])
    BY <1>1, <1>3, <1>4, <1>5
  <1>7. OneTaskPerRule'
    <2>1. OneTaskPerRule
      BY DEF ManagerInv, TaskInv
    <2>2. QED
      BY <1>1, <1>6, <2>1, AlivePrime DEF OneTaskPerRule
  <1>8. HoldsMutex' /\ DeleteWaits'
    BY <1>1 DEF ManagerInv, TaskInv, HoldsMutex, DeleteWaits
  <1>9. EditWaits'
    <2>1. ASSUME NEW c \in Clients, req[c].pc = "editStop"
          PROVE  /\ tasks[req[c].id] = 0 /\ Len(made'[req[c].id]) > 0
                 /\ ~ made'[req[c].id][Len(made'[req[c].id])].done
      <3>1. req[c].id \in RuleIds
        BY <2>1, Waiting DEF WaitPlaces
      <3>2. /\ tasks[req[c].id] = 0 /\ Len(made[req[c].id]) > 0
            /\ ~ made[req[c].id][Len(made[req[c].id])].done
        BY <2>1 DEF ManagerInv, TaskInv, EditWaits
      <3>3. Len(made[req[c].id]) \in Nat
        BY <3>1, Facts
      <3>4. QED
        BY <1>6, <3>1, <3>2, <3>3
    <2>2. QED
      BY <1>1, <2>1 DEF EditWaits
  <1>10. NotStopped'
    <2>1. \A i \in RuleIds : tasks[i] # 0 => made'[i][tasks[i]].done = made[i][tasks[i]].done
      BY <1>6, Facts
    <2>2. QED
      BY <1>1, <2>1 DEF ManagerInv, TaskInv, NotStopped
  <1>11. TypeOK' /\ ReqInv'
    BY <1>1, <1>6 DEF ManagerInv, TypeInv, TypeOK, ReqInv
  <1>12. QED
    BY <1>7, <1>8, <1>9, <1>10, <1>11 DEF TaskInv, TypeInv

LEMMA TaskGoes ==
    ASSUME ManagerInv, NEW id \in RuleIds, NEW n \in 1 .. Len(made[id]),
           StartEval(id, n) \/ TaskEnds(id, n)
    PROVE  ManagerInv'
  <1>1. n \in Nat \ {0}
    BY Facts
  <1>2. PICK from \in {"idle", "evaluating"}, to \in {"idle", "evaluating", "terminated"} :
           TaskStep(id, n, from, to)
    <2>1. CASE StartEval(id, n)
      BY <2>1 DEF StartEval
    <2>2. CASE EndEval(id, n)
      <3>1. CASE made[id][n].done
        BY <2>2, <3>1 DEF EndEval
      <3>2. CASE ~ made[id][n].done
        BY <2>2, <3>2 DEF EndEval
      <3>3. QED
        BY <3>1, <3>2
    <2>3. CASE Leave(id, n)
      BY <2>3 DEF Leave
    <2>4. QED
      BY <2>1, <2>2, <2>3 DEF TaskEnds
  <1>3. TaskInv' /\ TypeInv'
    BY <1>1, <1>2, GoroutineTask
  <1>4. StopHolds'
    BY <1>2 DEF TaskStep, ManagerInv, StopHolds
  <1>5. QED
    BY <1>3, <1>4 DEF ManagerInv

(* Manager.Stop. *)
LEMMA StopBegins ==
    ASSUME ManagerInv, Stop
    PROVE  ManagerInv'
  <1>1. /\ mtx = None /\ mtx' = "Stop" /\ stopping' = TRUE
        /\ UNCHANGED <<stored, lastId, tx, made, tasks, rules, req, requests>>
    BY DEF Stop
  <1>2. \A c \in Clients : req[c].pc \notin WaitPlaces /\ mtx' # c
    BY <1>1, FreeMutex, RuleManagerAssumption
  <1>3. HoldsMutex'
    BY <1>1, <1>2 DEF HoldsMutex
  <1>4. EditWaits' /\ DeleteWaits' /\ NotStopped' /\ StopHolds'
    BY <1>1, <1>2 DEF EditWaits, DeleteWaits, NotStopped, StopHolds, WaitPlaces
  <1>5. OneTaskPerRule'
    BY <1>1, FreeMutex, AlivePrime DEF OneTaskPerRule
  <1>6. TypeOK' /\ ReqInv'
    BY <1>1 DEF ManagerInv, TypeInv, TypeOK, ReqInv
  <1>7. QED
    BY <1>3, <1>4, <1>5, <1>6 DEF ManagerInv, TaskInv, TypeInv

LEMMA StopGoesOn ==
    ASSUME ManagerInv, NEW id \in RuleIds, StopTask(id)
    PROVE  ManagerInv'
  <1> DEFINE old == made[id]
             closed == Closed(old, tasks[id])
  <1>1. /\ stopping /\ made' = [made EXCEPT ![id] = closed]
        /\ UNCHANGED <<stored, lastId, tx, mtx, tasks, rules, req, stopping, requests>>
    BY DEF StopTask
  <1>2. mtx = "Stop"
    BY <1>1 DEF ManagerInv, StopHolds
  <1>3. \A c \in Clients : req[c].pc \notin WaitPlaces
    BY <1>2, RuleManagerAssumption DEF ManagerInv, TaskInv, HoldsMutex
  <1>4. /\ old \in Seq(Tasks) /\ tasks[id] \in 0 .. Len(old)
        /\ made \in [RuleIds -> Seq(Tasks)]
    BY Facts
  <1>5. /\ closed \in Seq(Tasks) /\ Len(closed) = Len(old)
        /\ \A n \in 1 .. Len(old) : closed[n].at = old[n].at
    BY <1>4, ClosedType
  <1> HIDE DEF closed
  <1>6. /\ made' \in [RuleIds -> Seq(Tasks)]
        /\ \A i \in RuleIds :
              /\ Len(made'[i]) = Len(made[i])
              /\ \A m \in 1 .. Len(made[i]) : made'[i][m].at = made[i][m].at
    BY <1>1, <1>4, <1>5
  <1>7. OneTaskPerRule'
    <2>1. \A i \in RuleIds : \A m \in 1 .. Len(made[i]) :
             Alive(made'[i][m]) <=> Alive(made[i][m])
      BY <1>6 DEF Alive
    <2>2. OneTaskPerRule
      BY DEF ManagerInv, TaskInv
    <2>3. QED
      BY <1>1, <1>6, <2>1, <2>2, AlivePrime DEF OneTaskPerRule
  <1>8. HoldsMutex' /\ EditWaits' /\ DeleteWaits' /\ NotStopped' /\ StopHolds'
    BY <1>1, <1>2, <1>3
       DEF ManagerInv, TaskInv, HoldsMutex, EditWaits, DeleteWaits, NotStopped, StopHolds,
           WaitPlaces
  <1>9. TypeOK' /\ ReqInv'
    BY <1>1, <1>6 DEF ManagerInv, TypeInv, TypeOK, ReqInv
  <1>10. QED
    BY <1>7, <1>8, <1>9 DEF ManagerInv, TaskInv, TypeInv

(* The start of the process: the tasks of the rules that initiate loads.   *)
LEMMA Loaded ==
    ASSUME NEW loaded \in BOOLEAN, stored \in [RuleIds -> Rules \cup {None}]
    PROVE  /\ LoadedTasks(loaded) \in [RuleIds -> Seq(Tasks)]
           /\ LoadedMap(loaded) \in [RuleIds -> Nat]
           /\ \A id \in RuleIds :
                 LET s == LoadedTasks(loaded)[id]
                     n == LoadedMap(loaded)[id]
                 IN /\ n <= Len(s)
                    /\ \A m \in 1 .. Len(s) : n = m
                    /\ n # 0 => ~ s[n].done
  <1>1. ASSUME NEW id \in RuleIds
        PROVE  LET s == LoadedTasks(loaded)[id]
                   n == LoadedMap(loaded)[id]
               IN /\ s \in Seq(Tasks) /\ n \in Nat /\ n <= Len(s)
                  /\ \A m \in 1 .. Len(s) : n = m
                  /\ n # 0 => ~ s[n].done
    <2> DEFINE t == Started(NewTask(stored[id]))
    <2>1. CASE Loads(loaded, id)
      <3>1. t \in Tasks /\ ~ t.done
        BY <2>1, NewTaskType DEF Loads
      <3>2. LoadedTasks(loaded)[id] = <<t>> /\ LoadedMap(loaded)[id] = 1
        BY <2>1 DEF LoadedTasks, LoadedMap
      <3> HIDE DEF t
      <3>3. QED
        BY <3>1, <3>2
    <2>2. CASE ~ Loads(loaded, id)
      <3>1. LoadedTasks(loaded)[id] = << >> /\ LoadedMap(loaded)[id] = 0
        BY <2>2 DEF LoadedTasks, LoadedMap
      <3>2. QED
        BY <3>1
    <2>3. QED
      BY <2>1, <2>2
  <1>2. QED
    BY <1>1 DEF LoadedTasks, LoadedMap

LEMMA RestartBegins ==
    ASSUME ManagerInv, NEW loaded \in BOOLEAN, Restart(loaded)
    PROVE  ManagerInv'
  <1>1. /\ made' = LoadedTasks(loaded) /\ tasks' = LoadedMap(loaded)
        /\ rules' = LoadedMap(loaded) /\ tx' = None /\ mtx' = None
        /\ req' = [c \in Clients |-> NoRequest] /\ stopping' = FALSE
        /\ UNCHANGED <<stored, lastId, requests>>
    BY DEF Restart
  <1>2. /\ made' \in [RuleIds -> Seq(Tasks)] /\ tasks' \in [RuleIds -> Nat]
        /\ rules' = tasks'
        /\ \A id \in RuleIds : /\ tasks'[id] <= Len(made'[id])
                               /\ \A m \in 1 .. Len(made'[id]) : tasks'[id] = m
                               /\ tasks'[id] # 0 => ~ made'[id][tasks'[id]].done
    BY <1>1, Loaded DEF ManagerInv, TypeInv, TypeOK
  <1>3. \A c \in Clients : req'[c] = NoRequest /\ req'[c].pc \notin WaitPlaces
    BY <1>1 DEF NoRequest, WaitPlaces
  <1>4. TaskInv'
    BY <1>1, <1>2, <1>3, NobodyWaits
  <1>5. ReqInv'
    BY <1>3, NoRequestOK DEF ReqInv
  <1>6. req' \in [Clients -> Requests]
    BY <1>1, NoRequestOK DEF ReqOK
  <1>7. TypeOK'
    BY <1>1, <1>2, <1>6 DEF ManagerInv, TypeInv, TypeOK
  <1>8. QED
    BY <1>1, <1>4, <1>5, <1>7 DEF ManagerInv, TypeInv, StopHolds

LEMMA Initially == Init => ManagerInv
  <1> SUFFICES ASSUME Init PROVE ManagerInv
    OBVIOUS
  <1>1. /\ made \in [RuleIds -> Seq(Tasks)] /\ tasks \in [RuleIds -> Nat]
        /\ rules = tasks
        /\ \A id \in RuleIds : /\ tasks[id] <= Len(made[id])
                               /\ \A m \in 1 .. Len(made[id]) : tasks[id] = m
                               /\ tasks[id] # 0 => ~ made[id][tasks[id]].done
    BY Loaded DEF Init
  <1>2. \A c \in Clients : req[c] = NoRequest /\ req[c].pc \notin WaitPlaces
    BY DEF Init, NoRequest, WaitPlaces
  <1>3. HoldsMutex /\ EditWaits /\ DeleteWaits
    BY <1>2, RuleManagerAssumption DEF Init, HoldsMutex, EditWaits, DeleteWaits, WaitPlaces
  <1>4. OneTaskPerRule /\ NotStopped
    BY <1>1 DEF OneTaskPerRule, NotStopped
  <1>5. ReqInv
    BY <1>2, NoRequestOK DEF ReqInv
  <1>6. req \in [Clients -> Requests]
    BY NoRequestOK DEF Init, ReqOK
  <1>7. TypeOK
    <2>1. /\ stored \in [RuleIds -> Rules \cup {None}] /\ lastId \in {0} \cup RuleIds
          /\ tx \in Clients \cup {None} /\ mtx \in Clients \cup {None, "Stop"}
          /\ stopping \in BOOLEAN
      BY DEF Init
    <2>2. requests \in 0 .. MaxRequests
      BY RuleManagerAssumption DEF Init
    <2>3. QED
      BY <1>1, <1>6, <2>1, <2>2 DEF TypeOK
  <1>8. QED
    BY <1>3, <1>4, <1>5, <1>7 DEF Init, ManagerInv, TypeInv, TaskInv, StopHolds

-----------------------------------------------------------------------------
(* Types: what the steps of a client make of its request.                  *)
LEMMA RequestType ==
    ASSUME ManagerInv, NEW c \in Clients, NEW r, ReqOK(r), req' = [req EXCEPT ![c] = r]
    PROVE  ReqInv' /\ req' \in [Clients -> Requests]
  <1>1. \A d \in Clients : ReqOK(req'[d])
    BY Facts
  <1>2. req' \in [Clients -> Requests]
    BY Facts DEF ReqOK
  <1>3. QED
    BY <1>1, <1>2 DEF ReqInv

LEMMA AnswerType ==
    ASSUME ManagerInv, NEW c \in Clients, Answer(c)
    PROVE  ReqInv' /\ req' \in [Clients -> Requests]
  BY RequestType, NoRequestOK DEF Answer

LEMMA GotoType ==
    ASSUME ManagerInv, NEW c \in Clients, NEW pc, ReqOK([req[c] EXCEPT !.pc = pc]),
           Goto(c, pc)
    PROVE  ReqInv' /\ req' \in [Clients -> Requests]
  <1> DEFINE r == [req[c] EXCEPT !.pc = pc]
  <1>1. ReqOK(r) /\ req' = [req EXCEPT ![c] = r]
    BY DEF Goto
  <1> HIDE DEF r
  <1>2. QED
    BY <1>1, RequestType

LEMMA ProceedType ==
    ASSUME ManagerInv, NEW c \in Clients, Proceed(c),
           req[c].pc \in {"sync", "addTask", "editStop", "deleteTask", "deleteStop"}
    PROVE  ReqInv' /\ req' \in [Clients -> Requests]
  <1>1. ReqOK(req[c]) /\ req[c] \in Requests /\ req[c].id \in RuleIds
    BY Facts DEF ReqOK, Busy
  <1>2. CASE req[c].op = "create"
    <2>1. ReqOK([req[c] EXCEPT !.pc = "commit"])
      BY <1>1, <1>2 DEF ReqOK, Requests, Busy
    <2>2. QED
      BY <1>2, <2>1, GotoType DEF Proceed
  <1>3. CASE req[c].op = "delete"
    <2>1. ReqOK([req[c] EXCEPT !.pc = "delete"])
      BY <1>1, <1>3 DEF ReqOK, Requests, Busy
    <2>2. QED
      BY <1>3, <2>1, GotoType DEF Proceed
  <1>4. CASE req[c].op = "patch"
    <2>1. ReqOK([req[c] EXCEPT !.pc = "update"])
      BY <1>1, <1>4 DEF ReqOK, Requests, Busy
    <2>2. QED
      BY <1>4, <2>1, GotoType DEF Proceed
  <1>5. CASE req[c].op \notin {"create", "delete", "patch"}
    BY <1>5, AnswerType DEF Proceed
  <1>6. QED
    BY <1>2, <1>3, <1>4, <1>5

(* The parts of the type invariant that are not about requests. *)
StoreOK ==
    /\ stored \in [RuleIds -> Rules \cup {None}]
    /\ lastId \in {0} \cup RuleIds
    /\ tx \in Clients \cup {None}
    /\ mtx \in Clients \cup {None, "Stop"}
    /\ stopping \in BOOLEAN
    /\ requests \in 0 .. MaxRequests

TasksOK ==
    /\ made \in [RuleIds -> Seq(Tasks)]
    /\ tasks \in [RuleIds -> Nat]
    /\ rules \in [RuleIds -> Nat]
    /\ \A id \in RuleIds : tasks[id] <= Len(made[id]) /\ rules[id] <= Len(made[id])

LEMMA TypeParts == TypeOK <=> StoreOK /\ TasksOK /\ req \in [Clients -> Requests]
  BY DEF TypeOK, StoreOK, TasksOK

LEMMA TypePartsPrime ==
    ASSUME StoreOK', TasksOK', ReqInv', req' \in [Clients -> Requests]
    PROVE  TypeInv'
  BY DEF TypeInv, TypeOK, StoreOK, TasksOK

LEMMA NewRequestType ==
    ASSUME ManagerInv, NEW c \in Clients,
           \/ \E rule \in Rules : CreateRule(c, rule)
           \/ \E id \in RuleIds : \/ \E rule \in Rules : EditRule(c, id, rule)
                                  \/ PatchRule(c, id)
                                  \/ DeleteRule(c, id)
    PROVE  TypeInv' /\ StopHolds'
  <1>1. PICK r : MayRequest(c) /\ Begin(c, r) /\ ReqOK(r)
    <2>1. ASSUME NEW rule \in Rules, CreateRule(c, rule)
          PROVE  \E r : MayRequest(c) /\ Begin(c, r) /\ ReqOK(r)
      <3> DEFINE r == [NoRequest EXCEPT !.op = "create", !.pc = "insert", !.rule = rule]
      <3>1. MayRequest(c) /\ Begin(c, r)
        BY <2>1 DEF CreateRule
      <3>2. ReqOK(r)
        BY DEF NoRequest, ReqOK, Requests, Busy
      <3> HIDE DEF r
      <3>3. QED
        BY <3>1, <3>2
    <2>2. ASSUME NEW id \in RuleIds, NEW rule \in Rules, EditRule(c, id, rule)
          PROVE  \E r : MayRequest(c) /\ Begin(c, r) /\ ReqOK(r)
      <3> DEFINE r == [NoRequest EXCEPT !.op = "edit", !.pc = "update", !.id = id, !.rule = rule]
      <3>1. MayRequest(c) /\ Begin(c, r)
        BY <2>2 DEF EditRule, MayRequestFor
      <3>2. ReqOK(r)
        BY DEF NoRequest, ReqOK, Requests, Busy
      <3> HIDE DEF r
      <3>3. QED
        BY <3>1, <3>2
    <2>3. ASSUME NEW id \in RuleIds, PatchRule(c, id)
          PROVE  \E r : MayRequest(c) /\ Begin(c, r) /\ ReqOK(r)
      <3> DEFINE r == [NoRequest EXCEPT !.op = "patch", !.pc = "read", !.id = id]
      <3>1. MayRequest(c) /\ Begin(c, r)
        BY <2>3 DEF PatchRule, MayRequestFor
      <3>2. ReqOK(r)
        BY DEF NoRequest, ReqOK, Requests, Busy
      <3> HIDE DEF r
      <3>3. QED
        BY <3>1, <3>2
    <2>4. ASSUME NEW id \in RuleIds, DeleteRule(c, id)
          PROVE  \E r : MayRequest(c) /\ Begin(c, r) /\ ReqOK(r)
      <3> DEFINE place == IF DisableRules THEN "delete" ELSE "deleteTask"
                 r == [NoRequest EXCEPT !.op = "delete", !.pc = place, !.id = id]
      <3>1. MayRequest(c) /\ Begin(c, r)
        BY <2>4 DEF DeleteRule, MayRequestFor
      <3>2. place \in {"delete", "deleteTask"}
        BY RuleManagerAssumption
      <3> HIDE DEF place
      <3>3. ReqOK(r)
        BY <3>2 DEF NoRequest, ReqOK, Requests, Busy
      <3> HIDE DEF r
      <3>4. QED
        BY <3>1, <3>3
    <2>5. QED
      BY <2>1, <2>2, <2>3, <2>4
  <1>2. ReqInv' /\ req' \in [Clients -> Requests]
    BY <1>1, RequestType DEF Begin
  <1>3. StoreOK'
    <2>1. requests \in 0 .. MaxRequests /\ requests < MaxRequests /\ requests' = requests + 1
      BY <1>1, TypeParts DEF MayRequest, Begin, ManagerInv, TypeInv, StoreOK
    <2>2. requests' \in 0 .. MaxRequests
      BY <2>1, RuleManagerAssumption
    <2>3. QED
      BY <1>1, <2>2, TypeParts DEF Begin, ManagerInv, TypeInv, StoreOK
  <1>4. TasksOK'
    BY <1>1, TypeParts DEF Begin, ManagerInv, TypeInv, TasksOK
  <1>5. StopHolds'
    BY <1>1 DEF Begin, ManagerInv, StopHolds
  <1>6. QED
    BY <1>2, <1>3, <1>4, <1>5, TypePartsPrime

(* The steps that leave the tasks alone. *)
LEMMA DatabaseType ==
    ASSUME ManagerInv, NEW c \in Clients,
           \/ Insert(c) \/ Commit(c) \/ Update(c) \/ Delete(c)
           \/ \E patched \in Rules : Read(c, patched)
           \/ Sync(c) \/ Refuse(c)
    PROVE  TypeInv' /\ StopHolds'
  <1>1. UNCHANGED <<mtx, made, tasks, rules, stopping, requests>>
    BY DEF Insert, Commit, Update, Delete, Read, Sync, Refuse, Fails
  <1>2. TasksOK' /\ StopHolds'
    BY <1>1, TypeParts DEF ManagerInv, TypeInv, TasksOK, StopHolds
  <1>3. StoreOK
    BY TypeParts DEF ManagerInv, TypeInv
  <1>4. ReqOK(req[c]) /\ req[c] \in Requests
    BY Facts
  <1>5. req[c].pc \notin Busy => req[c].id \in RuleIds
    BY <1>4 DEF ReqOK
  <1>6. CASE Insert(c)
    <2>1. CASE ~ Answer(c)
      <3> DEFINE place == IF DisableRules THEN "commit" ELSE "addTask"
                 r == [req[c] EXCEPT !.id = lastId + 1, !.pc = place]
      <3>1. /\ req[c].pc = "insert" /\ lastId < MaxRules /\ tx' = c
            /\ req' = [req EXCEPT ![c] = r] /\ UNCHANGED <<stored, lastId>>
        BY <1>6, <2>1 DEF Insert, Fails
      <3>2. place \in {"commit", "addTask"}
        BY RuleManagerAssumption
      <3>3. lastId + 1 \in RuleIds
        BY <1>3, <3>1, RuleManagerAssumption DEF StoreOK, RuleIds
      <3> HIDE DEF place
      <3>4. ReqOK(r)
        BY <1>4, <3>1, <3>2, <3>3 DEF ReqOK, Requests, Busy
      <3> HIDE DEF r
      <3>5. ReqInv' /\ req' \in [Clients -> Requests]
        BY <3>1, <3>4, RequestType
      <3>6. StoreOK'
        BY <1>1, <1>3, <3>1 DEF StoreOK
      <3>7. QED
        BY <1>2, <3>5, <3>6, TypePartsPrime
    <2>2. CASE Answer(c)
      <3>1. (UNCHANGED <<stored, lastId>>) /\ (tx' = tx \/ tx' = c)
        BY <1>6, <2>2 DEF Insert, Fails
      <3>2. StoreOK'
        BY <1>1, <1>3, <3>1 DEF StoreOK
      <3>3. QED
        BY <1>2, <2>2, <3>2, AnswerType, TypePartsPrime
    <2>3. QED
      BY <2>1, <2>2
  <1>7. CASE Commit(c)
    <2>1. Answer(c) /\ tx' = None /\ req[c].pc = "commit"
      BY <1>7 DEF Commit
    <2>2. req[c].id \in RuleIds /\ req[c].rule \in Rules
      BY <1>4, <1>5, <2>1 DEF ReqOK, Busy
    <2>3. \/ stored' = [stored EXCEPT ![req[c].id] = req[c].rule] /\ lastId' = req[c].id
          \/ UNCHANGED <<stored, lastId>>
      BY <1>7 DEF Commit
    <2>4. StoreOK'
      BY <1>1, <1>3, <2>1, <2>2, <2>3 DEF StoreOK
    <2>5. QED
      BY <1>2, <2>1, <2>4, AnswerType, TypePartsPrime
  <1>8. CASE Update(c)
    <2>1. /\ req[c].pc = "update" /\ UNCHANGED <<lastId, tx>>
          /\ \/ stored' = stored
             \/ stored' = [stored EXCEPT ![req[c].id] = req[c].rule]
      BY <1>8 DEF Update
    <2>2. req[c].id \in RuleIds /\ req[c].rule \in Rules /\ req[c].op \in {"edit", "patch"}
      BY <1>4, <1>5, <2>1 DEF ReqOK, Busy
    <2>3. StoreOK'
      BY <1>1, <1>3, <2>1, <2>2 DEF StoreOK
    <2>4. ReqInv' /\ req' \in [Clients -> Requests]
      <3>1. CASE Answer(c)
        BY <3>1, AnswerType
      <3>2. CASE req[c].op = "edit" /\ Goto(c, "sync")
        <4>1. ReqOK([req[c] EXCEPT !.pc = "sync"])
          BY <1>4, <1>5, <2>1, <2>2, <3>2 DEF ReqOK, Requests, Busy
        <4>2. QED
          BY <3>2, <4>1, GotoType
      <3>3. CASE req[c].op # "edit" /\ ~ Answer(c)
        <4> DEFINE rule == Undone(req[c])
                   r == [req[c] EXCEPT !.op = "undo", !.pc = "sync", !.rule = rule]
        <4>1. req' = [req EXCEPT ![c] = r]
          BY <1>8, <3>3 DEF Update
        <4>2. req[c].old \in Rules /\ req[c].rule \in Rules
          BY <1>4, <2>1, <2>2, <3>3 DEF ReqOK
        <4>3. rule \in Rules
          BY <4>2 DEF Undone, Rules
        <4> HIDE DEF rule
        <4>4. ReqOK(r)
          BY <1>4, <2>2, <4>3 DEF ReqOK, Requests, Busy
        <4> HIDE DEF r
        <4>5. QED
          BY <4>1, <4>4, RequestType
      <3>4. QED
        BY <1>8, <3>1, <3>2, <3>3 DEF Update
    <2>5. QED
      BY <1>2, <2>3, <2>4, TypePartsPrime
  <1>9. CASE Delete(c)
    <2>1. /\ Answer(c) /\ UNCHANGED <<lastId, tx>>
          /\ stored' = stored \/ stored' = [stored EXCEPT ![req[c].id] = None]
      BY <1>9 DEF Delete, Fails
    <2>2. StoreOK'
      BY <1>1, <1>3, <2>1 DEF StoreOK
    <2>3. QED
      BY <1>2, <2>1, <2>2, AnswerType, TypePartsPrime
  <1>10. ASSUME NEW patched \in Rules, Read(c, patched) PROVE TypeInv' /\ StopHolds'
    <2>1. StoreOK'
      BY <1>3, <1>10 DEF StoreOK, Read
    <2>2. ReqInv' /\ req' \in [Clients -> Requests]
      <3>1. CASE Answer(c)
        BY <3>1, AnswerType
      <3>2. CASE ~ Answer(c)
        <4> DEFINE old == stored[req[c].id]
                   r == [req[c] EXCEPT !.pc = "sync", !.old = old, !.rule = patched]
        <4>1. req[c].pc = "read" /\ old # None /\ req' = [req EXCEPT ![c] = r]
          BY <1>10, <3>2 DEF Read
        <4>2. req[c].id \in RuleIds /\ req[c].op = "patch"
          BY <1>4, <1>5, <4>1 DEF ReqOK, Busy
        <4>3. old \in Rules
          BY <1>3, <4>1, <4>2 DEF StoreOK
        <4> HIDE DEF old
        <4>4. ReqOK(r)
          BY <1>4, <1>10, <4>2, <4>3 DEF ReqOK, Requests, Busy
        <4> HIDE DEF r
        <4>5. QED
          BY <4>1, <4>4, RequestType
      <3>3. QED
        BY <3>1, <3>2
    <2>3. QED
      BY <1>2, <2>1, <2>2, TypePartsPrime
  <1>11. CASE Sync(c)
    <2>1. /\ req[c].pc = "sync" /\ UNCHANGED <<stored, lastId, tx>>
          /\ Proceed(c) \/ \E pc \in {"deleteTask", "editTask", "addTask"} : Goto(c, pc)
      BY <1>11 DEF Sync
    <2>2. req[c].id \in RuleIds /\ req[c].op \in {"edit", "patch", "undo"}
      BY <1>4, <1>5, <2>1 DEF ReqOK, Busy
    <2>3. ASSUME NEW pc \in {"deleteTask", "editTask", "addTask"}
          PROVE  ReqOK([req[c] EXCEPT !.pc = pc])
      BY <1>4, <2>1, <2>2, <2>3 DEF ReqOK, Requests, Busy
    <2>4. ReqInv' /\ req' \in [Clients -> Requests]
      BY <2>1, <2>3, ProceedType, GotoType
    <2>5. StoreOK'
      BY <1>1, <1>3, <2>1 DEF StoreOK
    <2>6. QED
      BY <1>2, <2>4, <2>5, TypePartsPrime
  <1>12. CASE Refuse(c)
    <2>1. Answer(c) /\ tx' \in {tx, None} /\ UNCHANGED <<stored, lastId>>
      BY <1>12 DEF Refuse, Abort
    <2>2. StoreOK'
      BY <1>1, <1>3, <2>1 DEF StoreOK
    <2>3. QED
      BY <1>2, <2>1, <2>2, AnswerType, TypePartsPrime
  <1>13. QED
    BY <1>6, <1>7, <1>8, <1>9, <1>10, <1>11, <1>12

LEMMA AddTaskType ==
    ASSUME ManagerInv, NEW c \in Clients, AddTask(c)
    PROVE  TypeInv' /\ StopHolds'
  <1> DEFINE id == req[c].id
             old == made[id]
             new == Len(old) + 1
             task == IF tasks[id] # 0 THEN NewTask(req[c].rule) ELSE Started(NewTask(req[c].rule))
  <1>1. /\ req[c].pc = "addTask" /\ rules' = [rules EXCEPT ![id] = new]
        /\ made' = [made EXCEPT ![id] = Append(old, task)]
        /\ tasks' = IF tasks[id] # 0 THEN tasks ELSE [tasks EXCEPT ![id] = new]
        /\ tx' \in {tx, None} /\ UNCHANGED <<stored, lastId, mtx, stopping, requests>>
    BY DEF AddTask, Abort
  <1>2. ReqOK(req[c])
    BY Facts
  <1>3. id \in RuleIds /\ req[c].rule \in Rules
    BY <1>1, <1>2 DEF ReqOK, Busy
  <1>4. task \in Tasks
    BY <1>3, NewTaskType
  <1> HIDE DEF task
  <1>5. StoreOK' /\ StopHolds'
    BY <1>1, TypeParts DEF ManagerInv, TypeInv, StoreOK, StopHolds
  <1>6. /\ old \in Seq(Tasks) /\ Len(old) \in Nat /\ tasks[id] \in 0 .. Len(old)
        /\ rules[id] \in 0 .. Len(old)
    BY <1>3, Facts
  <1>7. Append(old, task) \in Seq(Tasks) /\ Len(Append(old, task)) = new /\ new \in Nat
    BY <1>4, <1>6, AppendProperties
  <1>8. TasksOK'
    <2>1. TasksOK
      BY TypeParts DEF ManagerInv, TypeInv
    <2> HIDE DEF old, new
    <2>2. new \in Nat /\ tasks[id] <= new
      BY <1>6, <1>7 DEF new
    <2>3. QED
      BY <1>1, <1>3, <1>7, <2>1, <2>2 DEF TasksOK
  <1>9. ReqInv' /\ req' \in [Clients -> Requests]
    <2>1. Answer(c) \/ Proceed(c)
      BY DEF AddTask, Abort
    <2>2. QED
      BY <1>1, <2>1, AnswerType, ProceedType
  <1>10. QED
    BY <1>5, <1>8, <1>9, TypePartsPrime

LEMMA EditTaskType ==
    ASSUME ManagerInv, NEW c \in Clients, EditTask(c)
    PROVE  TypeInv' /\ StopHolds'
  <1> DEFINE id == req[c].id
             old == made[id]
             new == Len(old) + 1
             next == Append(Closed(old, tasks[id]), NewTask(req[c].rule))
             r == [req[c] EXCEPT !.pc = "editStop", !.stop = tasks[id]]
  <1>1. /\ req[c].pc = "editTask" /\ mtx = None /\ mtx' = c
        /\ rules' = [rules EXCEPT ![id] = new]
        /\ made' = [made EXCEPT ![id] = next]
        /\ tasks' = [tasks EXCEPT ![id] = 0]
        /\ req' = [req EXCEPT ![c] = r]
        /\ UNCHANGED <<stored, lastId, tx, stopping, requests>>
    BY DEF EditTask
  <1>2. ReqOK(req[c]) /\ req[c] \in Requests
    BY Facts
  <1>3. id \in RuleIds /\ req[c].rule \in Rules
    BY <1>1, <1>2 DEF ReqOK, Busy
  <1>4. /\ old \in Seq(Tasks) /\ Len(old) \in Nat /\ tasks[id] \in 0 .. Len(old)
        /\ tasks[id] \in Nat
    BY <1>3, Facts
  <1>5. next \in Seq(Tasks) /\ Len(next) = new /\ new \in Nat
    <2> DEFINE closed == Closed(old, tasks[id])
               task == NewTask(req[c].rule)
    <2>1. closed \in Seq(Tasks) /\ Len(closed) = Len(old)
      BY <1>4, ClosedType
    <2>2. task \in Tasks
      BY <1>3, NewTaskType
    <2> HIDE DEF closed, task
    <2>3. Append(closed, task) \in Seq(Tasks) /\ Len(Append(closed, task)) = Len(closed) + 1
      BY <2>1, <2>2, AppendProperties
    <2>4. QED
      BY <1>4, <2>1, <2>3 DEF closed, task
  <1> HIDE DEF next
  <1>6. ReqOK(r)
    BY <1>1, <1>2, <1>4 DEF ReqOK, Requests, Busy
  <1> HIDE DEF r
  <1>7. ReqInv' /\ req' \in [Clients -> Requests]
    BY <1>1, <1>6, RequestType
  <1>8. StoreOK'
    BY <1>1, TypeParts DEF ManagerInv, TypeInv, StoreOK
  <1>9. StopHolds'
    BY <1>1, RuleManagerAssumption DEF ManagerInv, StopHolds
  <1>10. TasksOK'
    <2>1. TasksOK
      BY TypeParts DEF ManagerInv, TypeInv
    <2> HIDE DEF old, new
    <2>2. QED
      BY <1>1, <1>3, <1>5, <2>1 DEF TasksOK
  <1>11. QED
    BY <1>7, <1>8, <1>9, <1>10, TypePartsPrime

LEMMA FinishEditType ==
    ASSUME ManagerInv, NEW c \in Clients, FinishEdit(c)
    PROVE  TypeInv' /\ StopHolds'
  <1> DEFINE id == req[c].id
             old == made[id]
             new == Len(old)
             next == [old EXCEPT ![new] = Started(old[new])]
  <1>1. /\ req[c].pc = "editStop" /\ mtx' = None
        /\ made' = [made EXCEPT ![id] = next]
        /\ tasks' = [tasks EXCEPT ![id] = new]
        /\ UNCHANGED <<stored, lastId, tx, rules, stopping, requests>>
    BY DEF FinishEdit
  <1>2. mtx = c /\ id \in RuleIds
    BY <1>1, Waiting DEF WaitPlaces
  <1>3. old \in Seq(Tasks) /\ new \in Nat /\ new > 0
    BY <1>1, <1>2, Facts DEF ManagerInv, TaskInv, EditWaits
  <1>4. Started(old[new]) \in Tasks
    BY <1>3, StartedType
  <1>5. next \in Seq(Tasks) /\ Len(next) = new
    BY <1>3, <1>4, ExceptSeq
  <1> HIDE DEF next
  <1>6. ReqInv' /\ req' \in [Clients -> Requests]
    BY <1>1, ProceedType DEF FinishEdit
  <1>7. StoreOK'
    BY <1>1, TypeParts DEF ManagerInv, TypeInv, StoreOK
  <1>8. StopHolds'
    BY <1>1, <1>2, RuleManagerAssumption DEF ManagerInv, StopHolds
  <1>9. TasksOK'
    <2>1. TasksOK
      BY TypeParts DEF ManagerInv, TypeInv
    <2>2. rules[id] <= new
      BY <1>2, <2>1 DEF TasksOK
    <2> HIDE DEF old, new
    <2>3. QED
      BY <1>1, <1>2, <1>3, <1>5, <2>1, <2>2 DEF TasksOK
  <1>10. QED
    BY <1>6, <1>7, <1>8, <1>9, TypePartsPrime

LEMMA DeleteTaskType ==
    ASSUME ManagerInv, NEW c \in Clients, DeleteTask(c)
    PROVE  TypeInv' /\ StopHolds'
  <1> DEFINE id == req[c].id
             old == made[id]
             closed == Closed(old, tasks[id])
             r == [req[c] EXCEPT !.pc = "deleteStop", !.stop = tasks[id]]
  <1>1. /\ req[c].pc = "deleteTask" /\ mtx = None /\ mtx' \in {None, c}
        /\ UNCHANGED <<stored, lastId, tx, tasks, rules, stopping, requests>>
        /\ \/ Proceed(c) /\ made' = made
           \/ /\ made' = [made EXCEPT ![id] = closed]
              /\ req' = [req EXCEPT ![c] = r]
    BY DEF DeleteTask
  <1>2. ReqOK(req[c]) /\ req[c] \in Requests
    BY Facts
  <1>3. id \in RuleIds /\ req[c].op \in {"edit", "patch", "undo", "delete"}
    BY <1>1, <1>2 DEF ReqOK, Busy
  <1>4. /\ old \in Seq(Tasks) /\ Len(old) \in Nat /\ tasks[id] \in 0 .. Len(old)
        /\ tasks[id] \in Nat
    BY <1>3, Facts
  <1>5. closed \in Seq(Tasks) /\ Len(closed) = Len(old)
    BY <1>4, ClosedType
  <1> HIDE DEF closed
  <1>6. ReqOK(r)
    BY <1>1, <1>2, <1>3, <1>4 DEF ReqOK, Requests, Busy
  <1> HIDE DEF r
  <1>7. ReqInv' /\ req' \in [Clients -> Requests]
    BY <1>1, <1>6, ProceedType, RequestType
  <1>8. StoreOK'
    BY <1>1, TypeParts DEF ManagerInv, TypeInv, StoreOK
  <1>9. StopHolds'
    BY <1>1, RuleManagerAssumption DEF ManagerInv, StopHolds
  <1>10. TasksOK'
    BY <1>1, <1>3, <1>5, TypeParts DEF ManagerInv, TypeInv, TasksOK
  <1>11. QED
    BY <1>7, <1>8, <1>9, <1>10, TypePartsPrime

LEMMA FinishDeleteType ==
    ASSUME ManagerInv, NEW c \in Clients, FinishDelete(c)
    PROVE  TypeInv' /\ StopHolds'
  <1>1. /\ req[c].pc = "deleteStop" /\ mtx' = None
        /\ tasks' = [tasks EXCEPT ![req[c].id] = 0]
        /\ rules' = [rules EXCEPT ![req[c].id] = 0]
        /\ UNCHANGED <<stored, lastId, tx, made, stopping, requests>>
    BY DEF FinishDelete
  <1>2. mtx = c /\ req[c].id \in RuleIds
    BY <1>1, Waiting DEF WaitPlaces
  <1>3. ReqInv' /\ req' \in [Clients -> Requests]
    BY <1>1, ProceedType DEF FinishDelete
  <1>4. StoreOK'
    BY <1>1, TypeParts DEF ManagerInv, TypeInv, StoreOK
  <1>5. StopHolds'
    BY <1>1, <1>2, RuleManagerAssumption DEF ManagerInv, StopHolds
  <1>6. TasksOK'
    <2>1. TasksOK /\ \A id \in RuleIds : Len(made[id]) \in Nat
      BY TypeParts, Facts DEF ManagerInv, TypeInv
    <2>2. QED
      BY <1>1, <1>2, <2>1 DEF TasksOK
  <1>7. QED
    BY <1>3, <1>4, <1>5, <1>6, TypePartsPrime

-----------------------------------------------------------------------------
LEMMA ClientGoes ==
    ASSUME ManagerInv, NEW c \in Clients, ClientStep(c)
    PROVE  ManagerInv'
  <1>1. CASE \/ Insert(c) \/ Commit(c) \/ Update(c) \/ Delete(c)
             \/ \E patched \in Rules : Read(c, patched)
             \/ Sync(c) \/ Refuse(c)
    BY <1>1, DatabaseTask, DatabaseType DEF ManagerInv
  <1>2. CASE AddTask(c)
    BY <1>2, AddTaskTask, AddTaskType DEF ManagerInv
  <1>3. CASE EditTask(c)
    BY <1>3, EditTaskTask, EditTaskType DEF ManagerInv
  <1>4. CASE FinishEdit(c)
    BY <1>4, FinishEditTask, FinishEditType DEF ManagerInv
  <1>5. CASE DeleteTask(c)
    BY <1>5, DeleteTaskTask, DeleteTaskType DEF ManagerInv
  <1>6. CASE FinishDelete(c)
    BY <1>6, FinishDeleteTask, FinishDeleteType DEF ManagerInv
  <1>7. QED
    BY <1>1, <1>2, <1>3, <1>4, <1>5, <1>6 DEF ClientStep

LEMMA Unchanged == ManagerInv /\ UNCHANGED vars => ManagerInv'
  BY DEF vars, ManagerInv, TypeInv, TypeOK, ReqInv, TaskInv, OneTaskPerRule, Alive, HoldsMutex,
         EditWaits, DeleteWaits, NotStopped, StopHolds

(* The inductive invariant: every action keeps it. *)
LEMMA Preserved == ManagerInv /\ [Next]_vars => ManagerInv'
  <1> SUFFICES ASSUME ManagerInv, [Next]_vars PROVE ManagerInv'
    OBVIOUS
  <1>1. ASSUME NEW c \in Clients,
               \/ \E rule \in Rules : CreateRule(c, rule)
               \/ \E id \in RuleIds : \/ \E rule \in Rules : EditRule(c, id, rule)
                                      \/ PatchRule(c, id)
                                      \/ DeleteRule(c, id)
        PROVE  ManagerInv'
    BY <1>1, NewRequestTask, NewRequestType DEF ManagerInv
  <1>2. ASSUME NEW c \in Clients, ClientStep(c) PROVE ManagerInv'
    BY <1>2, ClientGoes
  <1>3. ASSUME NEW id \in RuleIds, NEW n \in 1 .. Len(made[id]),
               StartEval(id, n) \/ TaskEnds(id, n)
        PROVE  ManagerInv'
    BY <1>3, TaskGoes
  <1>4. ASSUME NEW id \in RuleIds, StopTask(id) PROVE ManagerInv'
    BY <1>4, StopGoesOn
  <1>5. CASE Stop
    BY <1>5, StopBegins
  <1>6. ASSUME NEW loaded \in BOOLEAN, Restart(loaded) PROVE ManagerInv'
    BY <1>6, RestartBegins
  <1>7. CASE UNCHANGED vars
    BY <1>7, Unchanged
  <1>8. QED
    BY <1>1, <1>2, <1>3, <1>4, <1>5, <1>6, <1>7 DEF Next

LEMMA Invariance == Spec => []ManagerInv
  <1>1. Init => ManagerInv
    BY Initially
  <1>2. ManagerInv /\ [Next]_vars => ManagerInv'
    BY Preserved
  <1>3. QED
    BY <1>1, <1>2, PTL DEF Spec

(* The manager's state always has its types: the tasks in Manager.tasks    *)
(* and Manager.rules exist.                                                *)
THEOREM ManagerTypes == Spec => []TypeOK
  <1>1. ManagerInv => TypeOK
    BY DEF ManagerInv, TypeInv
  <1>2. QED
    BY <1>1, Invariance, PTL

(* Whatever requests overlap, fail or find, and wherever the process is    *)
(* stopped or restarted, no rule is evaluated by two tasks and no task     *)
(* runs that the manager has lost.                                         *)
THEOREM OneTaskAlways == Spec => []OneTaskPerRule
  <1>1. ManagerInv => OneTaskPerRule
    BY DEF ManagerInv, TaskInv
  <1>2. QED
    BY <1>1, Invariance, PTL

(* No channel done is closed twice: while the mutex is free, nothing in    *)
(* Manager.tasks has been stopped.                                         *)
THEOREM StoppedOnceAlways == Spec => []StoppedOnce
  <1>1. ManagerInv => StoppedOnce
    BY FreeMutex DEF StoppedOnce
  <1>2. QED
    BY <1>1, Invariance, PTL

-----------------------------------------------------------------------------
(* While requests do not overlap on a rule or ask for ids that are not     *)
(* stored, and transactions commit: Manager.rules and Manager.tasks hold   *)
(* the same task of every rule, but for the one an edit waits for.         *)
Apart == Trouble \cap {"overlap", "unknown id", "commit fails"} = {}

(* No client has a request for the rule. *)
Free(id) == \A c \in Clients : req[c].id # id

OnePerRule == \A c, d \in Clients : req[c].id # 0 /\ req[c].id = req[d].id => c = d

(* A new rule has the next id, and its transaction is open; the others are *)
(* stored.  addTask finds no task of the rule.                             *)
Placed(c) ==
    req[c].id # 0 =>
        /\ req[c].pc # "insert"
        /\ IF req[c].op = "create"
           THEN tx = c /\ req[c].id = lastId + 1
           ELSE req[c].id <= lastId
        /\ req[c].pc = "addTask" => tasks[req[c].id] = 0
        /\ req[c].pc = "editStop" => rules[req[c].id] = Len(made[req[c].id])

Kept(id) ==
    /\ id > lastId => stored[id] = None
    /\ id > lastId /\ Free(id) => tasks[id] = 0
    /\ \/ rules[id] = tasks[id]
       \/ \E c \in Clients : req[c].id = id /\ req[c].pc = "editStop"

ApartInv ==
    /\ OnePerRule
    /\ \A c \in Clients : Placed(c)
    /\ \A id \in RuleIds : Kept(id)

(* When besides every condition is loadable, new rules are enabled, and    *)
(* the database and the reload do not fail (a failing update of a patch    *)
(* that left the condition alone is undone): what runs is what is stored.  *)
Orderly ==
    /\ Apart
    /\ ~ DisableRules
    /\ Loadable = Conditions
    /\ Trouble \cap {"create disabled", "delete fails", "load fails"} = {}
    /\ ~ {"patch condition", "update fails"} \subseteq Trouble

Agrees(id, rule) ==
    IF rule.disabled
    THEN tasks[id] = 0
    ELSE tasks[id] # 0 /\ made[id][tasks[id]].rule = rule

(* Half way through a request: which rule the row, or the task, already is.*)
ReadyFor(id, r) ==
    /\ r.op = "create" /\ r.pc = "commit" => Agrees(id, r.rule)
    /\ r.op # "create" => stored[id] # None
    /\ r.op = "edit" /\ r.pc = "update" => Matches(id)
    /\ r.op \in {"edit", "undo"} /\ r.pc # "update" => stored[id] = r.rule
    /\ r.op = "patch" /\ r.pc # "read" =>
           /\ r.old = stored[id]
           /\ "patch condition" \notin Trouble => r.rule.cond = r.old.cond
    /\ r.op = "patch" /\ r.pc = "update" => Agrees(id, r.rule)
    /\ r.pc \in {"addTask", "editTask", "editStop"} => ~ r.rule.disabled
    /\ r.pc \in {"deleteTask", "deleteStop"} => r.op = "delete" \/ r.rule.disabled
    /\ r.pc = "delete" => tasks[id] = 0
    /\ r.pc = "editStop" => made[id][Len(made[id])].rule = r.rule

Ready(c) ==
    /\ req[c].op = "create" => ~ req[c].rule.disabled
    /\ req[c].id # 0 => ReadyFor(req[c].id, req[c])

Agreed ==
    /\ \A c \in Clients : Ready(c)
    /\ \A id \in RuleIds : Free(id) => Matches(id)

(* What a step of a client leaves alone: the other clients, and the other  *)
(* rules.                                                                  *)
Only(c, id) ==
    /\ \A d \in Clients : d # c => req'[d] = req[d] /\ (tx = d => tx' = d)
    /\ \A i \in RuleIds : i # id => /\ stored'[i] = stored[i] /\ made'[i] = made[i]
                                    /\ tasks'[i] = tasks[i] /\ rules'[i] = rules[i]
    /\ lastId' \in Nat /\ lastId <= lastId' /\ (lastId' # lastId => tx = c)
    /\ req[c].id \in {0, id} /\ req'[c].id \in {0, id}
    /\ id # 0 => \A d \in Clients : d # c => req[d].id # id

LEMMA ClientFrame ==
    ASSUME ManagerInv, ApartInv, NEW c \in Clients, NEW id \in {0} \cup RuleIds,
           Only(c, id), Placed(c)', id # 0 => Kept(id)'
    PROVE  ApartInv'
  <1>1. lastId \in Nat /\ RuleIds \subseteq Nat /\ \A d \in Clients : req[d].id \in {0} \cup RuleIds
    <2>1. \A d \in Clients : req[d].id \in {0} \cup RuleIds
      BY Facts DEF Requests
    <2>2. QED
      BY <2>1 DEF ManagerInv, TypeInv, TypeOK, RuleIds
  <1>2. OnePerRule'
    BY DEF Only, ApartInv, OnePerRule
  <1>3. ASSUME NEW d \in Clients, d # c PROVE Placed(d)'
    <2>1. Placed(d) /\ req'[d] = req[d]
      BY <1>3 DEF ApartInv, Only
    <2>2. req[d].id # 0 => req[d].id \in RuleIds /\ req[d].id # id
      BY <1>1, <1>3 DEF Only
    <2>3. CASE req[d].id # 0
      <3>1. /\ tasks'[req[d].id] = tasks[req[d].id] /\ rules'[req[d].id] = rules[req[d].id]
            /\ made'[req[d].id] = made[req[d].id]
        BY <2>2, <2>3 DEF Only
      <3>2. IF req[d].op = "create"
            THEN tx' = d /\ req[d].id = lastId' + 1
            ELSE req[d].id <= lastId'
        <4>1. CASE req[d].op = "create"
          <5>1. tx = d /\ req[d].id = lastId + 1
            BY <2>1, <2>3, <4>1 DEF Placed
          <5>2. tx' = d /\ lastId' = lastId
            BY <1>3, <5>1 DEF Only
          <5>3. QED
            BY <4>1, <5>1, <5>2
        <4>2. CASE req[d].op # "create"
          <5>1. req[d].id <= lastId /\ lastId <= lastId' /\ lastId' \in Nat
            BY <2>1, <2>3, <4>2 DEF Placed, Only
          <5>2. req[d].id \in Nat
            BY <1>1, <2>2, <2>3
          <5>3. QED
            BY <1>1, <4>2, <5>1, <5>2
        <4>3. QED
          BY <4>1, <4>2
      <3>3. QED
        BY <2>1, <2>3, <3>1, <3>2 DEF Placed
    <2>4. QED
      BY <2>1, <2>3 DEF Placed
  <1>4. ASSUME NEW i \in RuleIds, i # id PROVE Kept(i)'
    <2>1. Kept(i) /\ i # 0 /\ i \in Nat
      BY DEF ApartInv, RuleIds
    <2>2. Free(i)' => Free(i)
      BY <1>4, <2>1 DEF Free, Only
    <2>3. ASSUME NEW d \in Clients, req[d].id = i PROVE req'[d] = req[d]
      BY <1>4, <2>1, <2>3 DEF Only
    <2>4. QED
      BY <1>1, <1>4, <2>1, <2>2, <2>3 DEF Kept, Only
  <1>5. QED
    BY <1>2, <1>3, <1>4, RuleManagerAssumption DEF ApartInv, RuleIds

LEMMA AgreedFrame ==
    ASSUME ManagerInv, Agreed, NEW c \in Clients, NEW id \in {0} \cup RuleIds,
           Only(c, id), Ready(c)', id # 0 /\ Free(id)' => Matches(id)'
    PROVE  Agreed'
  <1>1. \A d \in Clients : req[d].id \in {0} \cup RuleIds
    BY Facts DEF Requests
  <1>2. ASSUME NEW d \in Clients, d # c PROVE Ready(d)'
    <2>1. Ready(d) /\ req'[d] = req[d]
      BY <1>2 DEF Agreed, Only
    <2>2. req[d].id # 0 => req[d].id \in RuleIds /\ req[d].id # id
      BY <1>1, <1>2 DEF Only
    <2>3. CASE req[d].id = 0
      BY <2>1, <2>3 DEF Ready
    <2>4. CASE req[d].id # 0
      <3>1. /\ tasks'[req[d].id] = tasks[req[d].id] /\ stored'[req[d].id] = stored[req[d].id]
            /\ made'[req[d].id] = made[req[d].id]
        BY <2>2, <2>4 DEF Only
      <3>2. ReadyFor(req[d].id, req[d])
        BY <2>1, <2>4 DEF Ready
      <3>3. ReadyFor(req[d].id, req[d])'
        BY <2>1, <3>1, <3>2 DEF ReadyFor, Agrees, Matches
      <3>4. QED
        BY <2>1, <3>3 DEF Ready
    <2>5. QED
      BY <2>3, <2>4
  <1>3. ASSUME NEW i \in RuleIds, i # id PROVE Free(i)' => Matches(i)'
    <2>1. (Free(i) => Matches(i)) /\ i # 0
      BY DEF Agreed, RuleIds
    <2>2. Free(i)' => Free(i)
      BY <1>3, <2>1 DEF Free, Only
    <2>3. QED
      BY <1>3, <2>1, <2>2 DEF Matches, Only
  <1>4. QED
    BY <1>2, <1>3 DEF Agreed, RuleIds

(* A client whose request is for a rule is the only one there.             *)
LEMMA Here ==
    ASSUME ManagerInv, ApartInv, NEW c \in Clients, req[c].pc \notin Busy
    PROVE  /\ req[c].id \in RuleIds /\ req[c].id # 0 /\ req[c].id \in Nat
           /\ \A d \in Clients : d # c => req[d].id # req[c].id
           /\ lastId \in Nat /\ stored \in [RuleIds -> Rules \cup {None}]
           /\ ReqOK(req[c]) /\ Placed(c) /\ Kept(req[c].id)
           /\ req[c].pc # "editStop" => rules[req[c].id] = tasks[req[c].id]
           /\ req[c].op # "create" => req[c].id <= lastId
           /\ req[c].op = "create" => stored[req[c].id] = None /\ req[c].id = lastId + 1
  <1> DEFINE id == req[c].id
  <1>1. id \in RuleIds /\ id # 0 /\ id \in Nat /\ ReqOK(req[c])
    BY Facts DEF ReqOK, RuleIds
  <1>2. lastId \in Nat /\ stored \in [RuleIds -> Rules \cup {None}]
    BY DEF ManagerInv, TypeInv, TypeOK, RuleIds
  <1>3. \A d \in Clients : d # c => req[d].id # id
    BY <1>1 DEF ApartInv, OnePerRule
  <1>4. Placed(c) /\ Kept(id)
    BY <1>1 DEF ApartInv
  <1>5. req[c].pc # "editStop" => rules[id] = tasks[id]
    BY <1>3, <1>4 DEF Kept
  <1>6. /\ req[c].op # "create" => id <= lastId
        /\ req[c].op = "create" => stored[id] = None /\ id = lastId + 1
    BY <1>1, <1>2, <1>4 DEF Placed, Kept
  <1>7. QED
    BY <1>1, <1>2, <1>3, <1>4, <1>5, <1>6

LEMMA StepKeeps ==
    ASSUME ManagerInv, ApartInv, NEW c \in Clients, NEW id \in {0} \cup RuleIds,
           Only(c, id), Placed(c)', id # 0 => Kept(id)',
           Orderly /\ Agreed => Ready(c)' /\ (id # 0 /\ Free(id)' => Matches(id)')
    PROVE  ApartInv' /\ (Orderly /\ Agreed => Agreed')
  BY ClientFrame, AgreedFrame

(* The request goes on to another place, or is answered. *)
Moves(c, pc) ==
    /\ \A d \in Clients : d # c => req'[d] = req[d]
    /\ req'[c].op = req[c].op /\ req'[c].id = req[c].id
    /\ req'[c].rule = req[c].rule /\ req'[c].old = req[c].old
    /\ req'[c].pc = pc

Ends(c) == req'[c] = NoRequest /\ \A d \in Clients : d # c => req'[d] = req[d]

LEMMA Moving ==
    ASSUME ManagerInv, NEW c \in Clients
    PROVE  /\ \A pc : Goto(c, pc) => Moves(c, pc)
           /\ Answer(c) => Ends(c)
           /\ req[c].op = "create" /\ Proceed(c) => Moves(c, "commit")
           /\ req[c].op = "delete" /\ Proceed(c) => Moves(c, "delete")
           /\ req[c].op = "patch" /\ Proceed(c) => Moves(c, "update")
           /\ req[c].op \in {"edit", "undo"} /\ Proceed(c) => Ends(c)
  <1>1. req \in [Clients -> Requests] /\ req[c] \in Requests
    BY Facts
  <1>2. ASSUME NEW pc, Goto(c, pc) PROVE Moves(c, pc)
    <2> DEFINE r == [req[c] EXCEPT !.pc = pc]
    <2>1. req' = [req EXCEPT ![c] = r]
      BY <1>2 DEF Goto
    <2>2. /\ r.op = req[c].op /\ r.id = req[c].id /\ r.rule = req[c].rule
          /\ r.old = req[c].old /\ r.pc = pc
      BY <1>1 DEF Requests
    <2> HIDE DEF r
    <2>3. req'[c] = r /\ \A d \in Clients : d # c => req'[d] = req[d]
      BY <1>1, <2>1
    <2>4. QED
      BY <2>2, <2>3 DEF Moves
  <1>3. Answer(c) => Ends(c)
    BY <1>1 DEF Answer, Ends
  <1>4. QED
    BY <1>2, <1>3 DEF Proceed

(* An answered request asks nothing more of the invariants than that the   *)
(* rule is left in order.                                                  *)
LEMMA Ended ==
    ASSUME NEW c \in Clients, Ends(c)
    PROVE  Placed(c)' /\ Ready(c)' /\ req'[c].id = 0
  BY DEF Ends, Placed, Ready, NoRequest

-----------------------------------------------------------------------------
(* Requests begin.                                                         *)
LEMMA BeginsApart ==
    ASSUME ManagerInv, ApartInv, Apart, NEW c \in Clients,
           \/ \E rule \in Rules : CreateRule(c, rule)
           \/ \E id \in RuleIds : \/ \E rule \in Rules : EditRule(c, id, rule)
                                  \/ PatchRule(c, id)
                                  \/ DeleteRule(c, id)
    PROVE  ApartInv' /\ (Orderly /\ Agreed => Agreed')
  <1>1. lastId \in Nat /\ req[c] = NoRequest /\ req[c].id = 0
    <2>1. lastId \in Nat
      BY DEF ManagerInv, TypeInv, TypeOK, RuleIds
    <2>2. req[c] = NoRequest
      BY DEF CreateRule, EditRule, PatchRule, DeleteRule, MayRequestFor, MayRequest
    <2>3. QED
      BY <2>1, <2>2 DEF NoRequest
  <1>2. /\ UNCHANGED <<stored, lastId, tx, mtx, made, tasks, rules, stopping>>
        /\ \A d \in Clients : d # c => req'[d] = req[d]
    BY Facts DEF CreateRule, EditRule, PatchRule, DeleteRule, Begin
  <1>3. ASSUME NEW rule \in Rules, CreateRule(c, rule)
        PROVE  ApartInv' /\ (Orderly /\ Agreed => Agreed')
    <2>1. /\ req'[c].id = 0 /\ req'[c].op = "create" /\ req'[c].rule = rule
      BY <1>3, Facts DEF CreateRule, Begin, NoRequest
    <2>2. Only(c, 0) /\ Placed(c)'
      BY <1>1, <1>2, <2>1 DEF Only, Placed
    <2>3. Orderly => Ready(c)'
      BY <1>3, <2>1 DEF Ready, CreateRule, Orderly
    <2>4. QED
      BY <2>2, <2>3, StepKeeps
  <1>4. ASSUME NEW id \in RuleIds,
               \/ \E rule \in Rules : EditRule(c, id, rule)
               \/ PatchRule(c, id)
               \/ DeleteRule(c, id)
        PROVE  ApartInv' /\ (Orderly /\ Agreed => Agreed')
    <2>1. MayRequestFor(c, id)
      BY <1>4 DEF EditRule, PatchRule, DeleteRule
    <2>2. stored[id] # None /\ Free(id)
      BY <2>1 DEF MayRequestFor, Apart, Free
    <2>3. id \in Nat /\ id # 0 /\ Kept(id)
      BY DEF RuleIds, ApartInv
    <2>4. id <= lastId /\ rules[id] = tasks[id]
      BY <1>1, <2>2, <2>3 DEF Kept, Free
    <2>5. /\ req'[c].id = id
          /\ \/ req'[c].op = "edit" /\ req'[c].pc = "update"
             \/ req'[c].op = "patch" /\ req'[c].pc = "read"
             \/ /\ req'[c].op = "delete"
                /\ req'[c].pc = IF DisableRules THEN "delete" ELSE "deleteTask"
      <3>1. CASE \E rule \in Rules : EditRule(c, id, rule)
        BY <3>1, Facts DEF EditRule, Begin, NoRequest
      <3>2. CASE PatchRule(c, id)
        BY <3>2, Facts DEF PatchRule, Begin, NoRequest
      <3>3. CASE DeleteRule(c, id)
        BY <3>3, Facts DEF DeleteRule, Begin, NoRequest
      <3>4. QED
        BY <1>4, <3>1, <3>2, <3>3
    <2>6. Only(c, id)
      BY <1>1, <1>2, <2>2, <2>5 DEF Only, Free
    <2>7. Placed(c)' /\ Kept(id)'
      BY <1>1, <1>2, <2>3, <2>4, <2>5 DEF Placed, Kept
    <2>8. Orderly /\ Agreed => Ready(c)' /\ (Free(id)' => Matches(id)')
      <3>1. ~ Free(id)'
        BY <2>5 DEF Free
      <3>2. ASSUME Orderly, Agreed PROVE ReadyFor(id, req[c])'
        <4>1. Matches(id) /\ ~ DisableRules
          BY <2>2, <3>2 DEF Agreed, Orderly
        <4>2. Matches(id)'
          BY <1>2, <4>1 DEF Matches
        <4>3. QED
          BY <1>2, <2>2, <2>5, <4>1, <4>2 DEF ReadyFor
      <3>3. ASSUME Orderly, Agreed PROVE Ready(c)'
        BY <2>5, <3>2, <3>3 DEF Ready
      <3>4. QED
        BY <3>1, <3>3
    <2>9. QED
      BY <2>6, <2>7, <2>8, StepKeeps
  <1>5. QED
    BY <1>3, <1>4

-----------------------------------------------------------------------------
(* The database calls of a request.                                        *)
LEMMA InsertApart ==
    ASSUME ManagerInv, ApartInv, NEW c \in Clients, Insert(c)
    PROVE  ApartInv' /\ (Orderly /\ Agreed => Agreed')
  <1>1. /\ req[c].id = 0 /\ req[c].op = "create" /\ req[c] \in Requests
        /\ lastId \in Nat /\ req[c].pc = "insert" /\ ReqOK(req[c])
    <2>1. req[c].pc = "insert" /\ ReqOK(req[c]) /\ Placed(c)
      BY Facts DEF Insert, ApartInv
    <2>2. QED
      BY <2>1 DEF ReqOK, Placed, ManagerInv, TypeInv, TypeOK, RuleIds
  <1>2. CASE Fails(c, "insert fails")
    <2>1. Ends(c) /\ UNCHANGED <<stored, lastId, tx, mtx, made, tasks, rules>>
      BY <1>2, Moving DEF Fails
    <2>2. Only(c, 0) /\ Placed(c)' /\ Ready(c)'
      BY <1>1, <2>1, Ended DEF Only, Ends
    <2>3. QED
      BY <2>2, StepKeeps
  <1>3. CASE ~ Fails(c, "insert fails")
    <2>3. PICK id \in RuleIds : id = lastId + 1 /\ id # 0 /\ id > lastId
      <3>1. lastId < MaxRules
        BY <1>3 DEF Insert
      <3>2. QED
        BY <1>1, <3>1, RuleManagerAssumption DEF RuleIds
    <2> DEFINE pc == IF DisableRules THEN "commit" ELSE "addTask"
               r == [req[c] EXCEPT !.id = id, !.pc = pc]
    <2>1. /\ tx = None /\ lastId < MaxRules /\ tx' = c
          /\ req' = [req EXCEPT ![c] = r]
          /\ UNCHANGED <<stored, lastId, mtx, made, tasks, rules>>
      BY <1>3, <2>3 DEF Insert
    <2>2. r.op = "create" /\ r.id = id /\ r.pc = pc /\ r.rule = req[c].rule
      BY <1>1 DEF Requests
    <2> HIDE DEF r
    <2>4. req'[c] = r /\ \A d \in Clients : d # c => req'[d] = req[d]
      BY <2>1, Facts
    <2>5. \A d \in Clients : req[d].id # id
      <3>1. ASSUME NEW d \in Clients PROVE req[d].id # id
        <4>1. Placed(d) /\ tx # d
          BY <2>1, RuleManagerAssumption DEF ApartInv
        <4>2. QED
          BY <1>1, <2>3, <4>1 DEF Placed
      <3>2. QED
        BY <3>1
    <2>6. Kept(id) /\ Free(id)
      BY <2>3, <2>5 DEF ApartInv, Free
    <2>7. stored[id] = None /\ tasks[id] = 0 /\ rules[id] = tasks[id]
      BY <2>3, <2>5, <2>6 DEF Kept
    <2>8. Only(c, id)
      BY <1>1, <2>1, <2>2, <2>4, <2>5, RuleManagerAssumption DEF Only
    <2>9. Placed(c)'
      BY <2>1, <2>2, <2>3, <2>4, <2>7 DEF Placed
    <2>10. ~ Free(id)'
      BY <2>2, <2>4 DEF Free
    <2>11. Kept(id)'
      BY <2>1, <2>7, <2>10 DEF Kept
    <2>12. ASSUME Orderly, Agreed PROVE Ready(c)'
      <3>1. pc = "addTask" /\ ~ r.rule.disabled
        BY <1>1, <2>2, <2>12 DEF Orderly, Agreed, Ready
      <3>2. QED
        BY <2>2, <2>4, <3>1 DEF Ready, ReadyFor
    <2>13. QED
      BY <2>3, <2>8, <2>9, <2>10, <2>11, <2>12, StepKeeps
  <1>4. QED
    BY <1>2, <1>3

LEMMA CommitApart ==
    ASSUME ManagerInv, ApartInv, Apart, NEW c \in Clients, Commit(c)
    PROVE  ApartInv' /\ (Orderly /\ Agreed => Agreed')
  <1>1. req[c].pc = "commit" /\ req[c].pc \notin Busy
    BY DEF Commit, Busy
  <1>2. req[c].op = "create"
    BY <1>1, Here DEF ReqOK
  <1>0. PICK id \in RuleIds : id = req[c].id
    BY <1>1, Here
  <1>3. /\ id \in RuleIds /\ id # 0 /\ id \in Nat
        /\ \A d \in Clients : d # c => req[d].id # id
        /\ lastId \in Nat /\ stored \in [RuleIds -> Rules \cup {None}]
        /\ rules[id] = tasks[id] /\ stored[id] = None /\ id = lastId + 1 /\ tx = c
    BY <1>0, <1>1, <1>2, Here DEF Placed
  <1>4. /\ Ends(c) /\ tx' = None /\ stored' = [stored EXCEPT ![id] = req[c].rule] /\ lastId' = id
        /\ UNCHANGED <<made, tasks, rules>>
    BY <1>0, Moving DEF Commit, Apart
  <1>5. Only(c, id)
    BY <1>0, <1>3, <1>4 DEF Only, Ends, NoRequest
  <1>6. Kept(id)'
    BY <1>3, <1>4 DEF Kept
  <1>7. ASSUME Orderly, Agreed PROVE Matches(id)'
    <2>1. Agrees(id, req[c].rule) /\ ~ req[c].rule.disabled
      BY <1>0, <1>1, <1>2, <1>3, <1>7 DEF Agreed, Ready, ReadyFor
    <2>2. stored'[id] = req[c].rule
      BY <1>3, <1>4
    <2>3. req[c].rule # None
      <3>1. req[c].rule \in Rules
        BY <1>1, <1>2, Here DEF ReqOK
      <3>2. QED
        BY <3>1, RuleManagerAssumption DEF Rules
    <2>4. QED
      BY <1>4, <2>1, <2>2, <2>3 DEF Matches, Agrees
  <1>8. QED
    BY <1>3, <1>4, <1>5, <1>6, <1>7, Ended, StepKeeps

LEMMA ReadApart ==
    ASSUME ManagerInv, ApartInv, NEW c \in Clients, NEW patched \in Rules, Read(c, patched)
    PROVE  ApartInv' /\ (Orderly /\ Agreed => Agreed')
  <1>1. req[c].pc = "read" /\ req[c].pc \notin Busy
    BY DEF Read, Busy
  <1>2. req[c].op = "patch"
    BY <1>1, Here DEF ReqOK
  <1>0. PICK id \in RuleIds : id = req[c].id
    BY <1>1, Here
  <1> DEFINE old == stored[id]
             r == [req[c] EXCEPT !.pc = "sync", !.old = old, !.rule = patched]
  <1>3. /\ id \in RuleIds /\ id # 0 /\ id \in Nat
        /\ \A d \in Clients : d # c => req[d].id # id
        /\ lastId \in Nat /\ rules[id] = tasks[id] /\ id <= lastId
    BY <1>0, <1>1, <1>2, Here
  <1>4. UNCHANGED <<stored, lastId, tx, made, tasks, rules>>
    BY DEF Read
  <1>5. Kept(id)'
    BY <1>3, <1>4 DEF Kept
  <1>6. CASE old = None
    <2>1. Ends(c)
      BY <1>0, <1>6, Moving DEF Read
    <2>2. Only(c, id)
      BY <1>0, <1>3, <1>4, <2>1 DEF Only, Ends, NoRequest
    <2>3. ASSUME Orderly, Agreed PROVE FALSE
      BY <1>0, <1>2, <1>3, <1>6, <2>3 DEF Agreed, Ready, ReadyFor
    <2>4. QED
      BY <1>3, <1>5, <2>1, <2>2, <2>3, Ended, StepKeeps
  <1>7. CASE old # None
    <2>1. req' = [req EXCEPT ![c] = r] /\ (patched.cond # old.cond => "patch condition" \in Trouble)
      BY <1>0, <1>7 DEF Read
    <2>2. r.op = "patch" /\ r.id = id /\ r.pc = "sync" /\ r.rule = patched /\ r.old = old
      BY <1>0, <1>2, Facts DEF Requests
    <2> HIDE DEF r
    <2>3. req'[c] = r /\ \A d \in Clients : d # c => req'[d] = req[d]
      BY <2>1, Facts
    <2>4. Only(c, id)
      BY <1>0, <1>3, <1>4, <2>2, <2>3 DEF Only
    <2>5. Placed(c)'
      BY <1>3, <1>4, <2>2, <2>3 DEF Placed
    <2>6. ReadyFor(id, req[c])'
      BY <1>4, <1>7, <2>1, <2>2, <2>3 DEF ReadyFor
    <2>7. Ready(c)' /\ ~ Free(id)'
      BY <2>2, <2>3, <2>6 DEF Ready, Free, ReadyFor
    <2>8. QED
      BY <1>3, <1>5, <2>4, <2>5, <2>7, StepKeeps
  <1>8. QED
    BY <1>6, <1>7

LEMMA UpdateApart ==
    ASSUME ManagerInv, ApartInv, NEW c \in Clients, Update(c)
    PROVE  ApartInv' /\ (Orderly /\ Agreed => Agreed')
  <1>1. req[c].pc = "update" /\ req[c].pc \notin Busy
    BY DEF Update, Busy
  <1>2. req[c].op \in {"edit", "patch"} /\ req[c].rule \in Rules
    BY <1>1, Here DEF ReqOK
  <1>3. PICK id \in RuleIds : id = req[c].id
    BY <1>1, Here
  <1>4. /\ id # 0 /\ id \in Nat
        /\ \A d \in Clients : d # c => req[d].id # id
        /\ lastId \in Nat /\ stored \in [RuleIds -> Rules \cup {None}]
        /\ rules[id] = tasks[id] /\ id <= lastId
    BY <1>1, <1>2, <1>3, Here
  <1>5. UNCHANGED <<lastId, tx, made, tasks, rules>>
    BY DEF Update
  <1>6. \A i \in RuleIds : i # id => stored'[i] = stored[i]
    BY <1>3, <1>4 DEF Update
  <1>7. Kept(id)'
    BY <1>4, <1>5 DEF Kept
  <1>8. req[c].rule # None
    BY <1>2, RuleManagerAssumption DEF Rules
  <1>9. Orderly /\ Agreed => ReadyFor(id, req[c]) /\ stored[id] # None
    BY <1>2, <1>3, <1>4 DEF Agreed, Ready, ReadyFor
  <1>10. ASSUME Ends(c), Orderly /\ Agreed => Matches(id)'
         PROVE  ApartInv' /\ (Orderly /\ Agreed => Agreed')
    <2>1. Only(c, id)
      BY <1>3, <1>4, <1>5, <1>6, <1>10 DEF Only, Ends, NoRequest
    <2>2. QED
      BY <1>4, <1>7, <1>10, <2>1, Ended, StepKeeps
  <1>11. ASSUME req'[c].pc = "sync", req'[c].id = id, req'[c].op \in {"edit", "undo"},
                \A d \in Clients : d # c => req'[d] = req[d],
                Orderly /\ Agreed => stored'[id] # None /\ stored'[id] = req'[c].rule
         PROVE  ApartInv' /\ (Orderly /\ Agreed => Agreed')
    <2>1. Only(c, id)
      BY <1>3, <1>4, <1>5, <1>6, <1>11 DEF Only
    <2>2. Placed(c)'
      BY <1>4, <1>5, <1>11 DEF Placed
    <2>3. ~ Free(id)'
      BY <1>11 DEF Free
    <2>4. ASSUME Orderly, Agreed PROVE Ready(c)'
      BY <1>11, <2>4 DEF Ready, ReadyFor
    <2>5. QED
      BY <1>4, <1>7, <2>1, <2>2, <2>3, <2>4, StepKeeps
  <1>12. CASE /\ tx = None
              /\ stored' = IF stored[id] = None
                           THEN stored
                           ELSE [stored EXCEPT ![id] = req[c].rule]
              /\ IF req[c].op = "edit" /\ ~ DisableRules THEN Goto(c, "sync") ELSE Answer(c)
    <2>1. ASSUME Orderly, Agreed PROVE stored'[id] = req[c].rule
      BY <1>4, <1>9, <1>12, <2>1
    <2>2. CASE req[c].op = "edit" /\ ~ DisableRules
      <3>1. Moves(c, "sync")
        BY <1>12, <2>2, Moving
      <3>2. QED
        BY <1>3, <1>8, <1>11, <2>1, <2>2, <3>1 DEF Moves
    <2>3. CASE ~ (req[c].op = "edit" /\ ~ DisableRules)
      <3>1. Ends(c)
        BY <1>12, <2>3, Moving
      <3>2. ASSUME Orderly, Agreed PROVE Matches(id)'
        <4>1. Agrees(id, req[c].rule)
          BY <1>1, <1>2, <1>9, <2>3, <3>2 DEF ReadyFor, Orderly
        <4>2. QED
          BY <1>5, <1>8, <2>1, <3>2, <4>1 DEF Matches, Agrees
      <3>3. QED
        BY <1>10, <3>1, <3>2
    <2>4. QED
      BY <2>2, <2>3
  <1>13. CASE /\ "update fails" \in Trouble
              /\ IF req[c].op = "edit"
                 THEN Answer(c)
                 ELSE req' = [req EXCEPT ![c].op = "undo", ![c].pc = "sync",
                                         ![c].rule = Undone(req[c])]
              /\ UNCHANGED stored
    <2>1. CASE req[c].op = "edit"
      <3>1. Ends(c)
        BY <1>13, <2>1, Moving
      <3>2. ASSUME Orderly, Agreed PROVE Matches(id)'
        <4>1. Matches(id)
          BY <1>1, <1>9, <2>1, <3>2 DEF ReadyFor
        <4>2. QED
          BY <1>5, <1>13, <4>1 DEF Matches
      <3>3. QED
        BY <1>10, <3>1, <3>2
    <2>2. CASE req[c].op = "patch"
      <3> DEFINE undone == Undone(req[c])
                 r == [req[c] EXCEPT !.op = "undo", !.pc = "sync", !.rule = undone]
      <3>1. req' = [req EXCEPT ![c] = r]
        BY <1>13, <2>2
      <3>2. r.op = "undo" /\ r.id = id /\ r.pc = "sync" /\ r.rule = undone
        BY <1>3, Facts DEF Requests
      <3> HIDE DEF r
      <3>3. req'[c] = r /\ \A d \in Clients : d # c => req'[d] = req[d]
        BY <3>1, Facts
      <3>4. ASSUME Orderly, Agreed PROVE stored'[id] # None /\ stored'[id] = undone
        <4>1. /\ req[c].old = stored[id] /\ req[c].rule.cond = req[c].old.cond
              /\ stored[id] # None
          BY <1>1, <1>9, <1>13, <2>2, <3>4 DEF ReadyFor, Orderly
        <4>2. req[c].old \in Rules
          BY <1>4, <4>1
        <4>3. undone = req[c].old
          BY <4>1, <4>2 DEF Undone, Rules
        <4>4. QED
          BY <1>13, <4>1, <4>3
      <3> HIDE DEF undone
      <3>5. QED
        BY <1>11, <3>2, <3>3, <3>4
    <2>3. QED
      BY <1>2, <2>1, <2>2
  <1>14. QED
    BY <1>3, <1>12, <1>13 DEF Update

LEMMA DeleteApart ==
    ASSUME ManagerInv, ApartInv, NEW c \in Clients, Delete(c)
    PROVE  ApartInv' /\ (Orderly /\ Agreed => Agreed')
  <1>1. req[c].pc = "delete" /\ req[c].pc \notin Busy
    BY DEF Delete, Busy
  <1>2. req[c].op = "delete"
    BY <1>1, Here DEF ReqOK
  <1>3. PICK id \in RuleIds : id = req[c].id
    BY <1>1, Here
  <1>4. /\ id # 0 /\ id \in Nat
        /\ \A d \in Clients : d # c => req[d].id # id
        /\ lastId \in Nat /\ stored \in [RuleIds -> Rules \cup {None}]
        /\ rules[id] = tasks[id] /\ id <= lastId
    BY <1>1, <1>2, <1>3, Here
  <1>5. /\ Ends(c) /\ UNCHANGED <<lastId, tx, made, tasks, rules>>
        /\ \/ stored' = [stored EXCEPT ![id] = None]
           \/ "delete fails" \in Trouble /\ stored' = stored
    BY <1>3, Moving DEF Delete, Fails
  <1>6. Only(c, id)
    <2>1. \A i \in RuleIds : i # id => stored'[i] = stored[i]
      BY <1>4, <1>5
    <2>2. Ends(c) /\ UNCHANGED <<lastId, tx, made, tasks, rules>>
      BY <1>5
    <2>3. QED
      BY <1>3, <1>4, <2>1, <2>2 DEF Only, Ends, NoRequest
  <1>7. Kept(id)'
    <2>1. id <= lastId' /\ rules'[id] = tasks'[id] /\ lastId' \in Nat
      BY <1>4, <1>5
    <2>2. QED
      BY <1>4, <2>1 DEF Kept
  <1>8. ASSUME Orderly, Agreed PROVE Matches(id)'
    <2>1. tasks[id] = 0
      BY <1>1, <1>3, <1>4, <1>8 DEF Agreed, Ready, ReadyFor
    <2>2. stored'[id] = None
      BY <1>4, <1>5, <1>8 DEF Orderly
    <2>3. QED
      BY <1>5, <2>1, <2>2 DEF Matches
  <1>9. QED
    BY <1>4, <1>5, <1>6, <1>7, <1>8, Ended, StepKeeps

-----------------------------------------------------------------------------
(* The tasks of a request's rule.                                          *)
LEMMA SyncApart ==
    ASSUME ManagerInv, ApartInv, NEW c \in Clients, Sync(c)
    PROVE  ApartInv' /\ (Orderly /\ Agreed => Agreed')
  <1>1. req[c].pc = "sync" /\ req[c].pc \notin Busy
    BY DEF Sync, Busy
  <1>2. req[c].op \in {"edit", "patch", "undo"} /\ req[c].rule \in Rules
    BY <1>1, Here DEF ReqOK
  <1>3. PICK id \in RuleIds : id = req[c].id
    BY <1>1, Here
  <1>4. /\ id # 0 /\ id \in Nat
        /\ \A d \in Clients : d # c => req[d].id # id
        /\ lastId \in Nat /\ rules[id] = tasks[id] /\ id <= lastId
    BY <1>1, <1>2, <1>3, Here
  <1>5. UNCHANGED <<stored, lastId, tx, made, tasks, rules>>
    BY DEF Sync
  <1>6. Kept(id)'
    BY <1>4, <1>5 DEF Kept
  <1>7. Orderly /\ Agreed => ReadyFor(id, req[c])
    BY <1>3, <1>4 DEF Agreed, Ready
  <1>8. ASSUME NEW pc, Moves(c, pc),
               \/ pc \in {"deleteTask", "update"} /\ req[c].rule.disabled
               \/ pc = "addTask" /\ ~ req[c].rule.disabled
               \/ pc = "editTask" /\ ~ req[c].rule.disabled,
               pc \in {"addTask", "update"} => tasks[id] = 0,
               pc = "update" => req[c].op = "patch"
        PROVE  ApartInv' /\ (Orderly /\ Agreed => Agreed')
    <2>1. Only(c, id)
      BY <1>3, <1>4, <1>5, <1>8 DEF Only, Moves
    <2>2. Placed(c)' /\ ~ Free(id)'
      BY <1>2, <1>3, <1>4, <1>5, <1>8 DEF Placed, Moves, Free
    <2>3. ASSUME Orderly, Agreed PROVE Ready(c)'
      <3>1. ReadyFor(id, req[c])'
        BY <1>1, <1>2, <1>3, <1>5, <1>7, <1>8, <2>3 DEF ReadyFor, Moves, Agrees
      <3>2. QED
        BY <1>2, <1>3, <1>8, <3>1 DEF Ready, Moves
    <2>4. QED
      BY <1>4, <1>6, <2>1, <2>2, <2>3, StepKeeps
  <1>9. CASE ~ req[c].rule.disabled
    <2>1. Moves(c, IF tasks[id] # 0 THEN "editTask" ELSE "addTask")
      BY <1>3, <1>9, Moving DEF Sync
    <2>2. CASE tasks[id] = 0
      <3>1. Moves(c, "addTask")
        BY <2>1, <2>2
      <3>2. QED
        BY <1>8, <1>9, <2>2, <3>1
    <2>3. CASE tasks[id] # 0
      <3>1. Moves(c, "editTask")
        BY <2>1, <2>3
      <3>2. QED
        BY <1>8, <1>9, <3>1
    <2>4. QED
      BY <2>2, <2>3
  <1>10. CASE req[c].rule.disabled /\ tasks[id] # 0
    <2>1. Moves(c, "deleteTask")
      BY <1>3, <1>10, Moving DEF Sync
    <2>2. QED
      BY <1>8, <1>10, <2>1
  <1>11. CASE req[c].rule.disabled /\ tasks[id] = 0
    <2>1. Proceed(c)
      BY <1>3, <1>11 DEF Sync
    <2>2. CASE req[c].op = "patch"
      <3>1. Moves(c, "update")
        BY <2>1, <2>2, Moving
      <3>2. QED
        BY <1>8, <1>11, <2>2, <3>1
    <2>3. CASE req[c].op \in {"edit", "undo"}
      <3>1. Ends(c)
        BY <2>1, <2>3, Moving
      <3>2. Only(c, id)
        BY <1>3, <1>4, <1>5, <3>1 DEF Only, Ends, NoRequest
      <3>3. ASSUME Orderly, Agreed PROVE Matches(id)'
        BY <1>1, <1>5, <1>7, <1>11, <2>3, <3>3 DEF ReadyFor, Matches
      <3>4. QED
        BY <1>4, <1>6, <3>1, <3>2, <3>3, Ended, StepKeeps
    <2>4. QED
      BY <1>2, <2>2, <2>3
  <1>12. QED
    BY <1>9, <1>10, <1>11

LEMMA RefuseApart ==
    ASSUME ManagerInv, ApartInv, NEW c \in Clients, Refuse(c)
    PROVE  ApartInv' /\ (Orderly /\ Agreed => Agreed')
  <1>1. req[c].pc \in {"addTask", "editTask"} /\ req[c].pc \notin Busy
    BY DEF Refuse, Busy
  <1>2. req[c].op \in {"create", "edit", "patch", "undo"} /\ req[c].rule \in Rules
    <2>1. ReqOK(req[c]) /\ req[c].op \in {"create", "edit", "patch", "undo"}
      BY <1>1, Here DEF ReqOK
    <2>2. QED
      BY <1>1, <2>1 DEF ReqOK
  <1>3. PICK id \in RuleIds : id = req[c].id
    BY <1>1, Here
  <1>4. /\ id # 0 /\ id \in Nat
        /\ \A d \in Clients : d # c => req[d].id # id
        /\ lastId \in Nat /\ rules[id] = tasks[id] /\ Kept(id) /\ Placed(c)
        /\ req[c].op # "create" => id <= lastId
    BY <1>1, <1>3, Here
  <1>5. /\ Ends(c) /\ UNCHANGED <<stored, lastId, made, tasks, rules>>
        /\ tx' = IF tx = c THEN None ELSE tx
    BY Moving DEF Refuse, Abort
  <1>6. Only(c, id)
    BY <1>3, <1>4, <1>5 DEF Only, Ends, NoRequest
  <1>7. Kept(id)'
    <2>1. id > lastId => tasks[id] = 0
      <3>1. CASE req[c].op = "create"
        BY <1>1, <1>3, <1>4, <3>1, Here DEF Placed, ReqOK
      <3>2. CASE req[c].op # "create"
        BY <1>4, <3>2
      <3>3. QED
        BY <3>1, <3>2
    <2>2. QED
      BY <1>4, <1>5, <2>1 DEF Kept
  <1>8. Orderly => FALSE
    BY <1>2 DEF Refuse, Orderly, Rules
  <1>9. QED
    BY <1>4, <1>5, <1>6, <1>7, <1>8, Ended, StepKeeps

LEMMA AddTaskApart ==
    ASSUME ManagerInv, ApartInv, NEW c \in Clients, AddTask(c)
    PROVE  ApartInv' /\ (Orderly /\ Agreed => Agreed')
  <1>1. req[c].pc = "addTask" /\ req[c].pc \notin Busy
    BY DEF AddTask, Busy
  <1>2. req[c].op \in {"create", "edit", "patch", "undo"} /\ req[c].rule \in Rules
    <2>1. ReqOK(req[c]) /\ req[c].op \in {"create", "edit", "patch", "undo"}
      BY <1>1, Here DEF ReqOK
    <2>2. QED
      BY <1>1, <2>1 DEF ReqOK
  <1>3. PICK id \in RuleIds : id = req[c].id
    BY <1>1, Here
  <1>4. /\ id # 0 /\ id \in Nat
        /\ \A d \in Clients : d # c => req[d].id # id
        /\ lastId \in Nat /\ Kept(id) /\ Placed(c)
        /\ tasks[id] = 0
        /\ req[c].op # "create" => id <= lastId
    BY <1>1, <1>3, Here DEF Placed
  <1> DEFINE old == made[id]
             task == Started(NewTask(req[c].rule))
  <1>5. PICK new \in Nat : new = Len(old) + 1
    BY Facts
  <1>6. /\ Len(Append(old, task)) = new /\ Append(old, task)[new] = task
        /\ task.rule = req[c].rule
    <2>1. task \in Tasks /\ old \in Seq(Tasks)
      BY <1>2, NewTaskType, Facts
    <2>2. task.rule = req[c].rule
      BY DEF Started, NewTask
    <2> HIDE DEF task, old
    <2>3. QED
      BY <1>5, <2>1, <2>2, AppendProperties
  <1>7. /\ rules' = [rules EXCEPT ![id] = new] /\ tasks' = [tasks EXCEPT ![id] = new]
        /\ made' = [made EXCEPT ![id] = Append(old, task)]
        /\ Proceed(c) /\ UNCHANGED <<stored, lastId, tx>>
    BY <1>3, <1>4, <1>5 DEF AddTask
  <1> HIDE DEF task
  <1>8. /\ tasks'[id] = new /\ rules'[id] = new /\ made'[id] = Append(old, task) /\ new # 0
        /\ \A i \in RuleIds : i # id => /\ tasks'[i] = tasks[i] /\ rules'[i] = rules[i]
                                        /\ made'[i] = made[i]
    BY <1>5, <1>7, Facts
  <1>10. Orderly /\ Agreed => ReadyFor(id, req[c]) /\ ~ req[c].rule.disabled
    BY <1>1, <1>3, <1>4 DEF Agreed, Ready, ReadyFor
  <1>11. CASE req[c].op \in {"create", "patch"}
    <2>1. Moves(c, IF req[c].op = "create" THEN "commit" ELSE "update")
      BY <1>7, <1>11, Moving
    <2>2. Only(c, id)
      BY <1>3, <1>4, <1>7, <1>8, <2>1 DEF Only, Moves
    <2>3. Placed(c)' /\ ~ Free(id)'
      BY <1>3, <1>4, <1>7, <2>1 DEF Placed, Moves, Free
    <2>4. Kept(id)'
      BY <1>4, <1>7, <1>8, <2>3 DEF Kept
    <2>5. ASSUME Orderly, Agreed PROVE Ready(c)'
      <3>1. Agrees(id, req[c].rule)'
        <4>1. req'[c].rule = req[c].rule
          BY <2>1 DEF Moves
        <4>2. ~ req[c].rule.disabled /\ tasks'[id] # 0
          BY <1>8, <1>10, <2>5
        <4>3. made'[id][tasks'[id]].rule = req[c].rule
          BY <1>6, <1>8
        <4>4. QED
          BY <4>1, <4>2, <4>3 DEF Agrees
      <3>2. ReadyFor(id, req[c])'
        BY <1>1, <1>3, <1>7, <1>10, <1>11, <2>1, <2>5, <3>1 DEF ReadyFor, Moves
      <3>3. QED
        BY <1>3, <1>10, <2>1, <2>5, <3>2 DEF Ready, Moves
    <2>6. QED
      BY <1>4, <2>2, <2>3, <2>4, <2>5, StepKeeps
  <1>12. CASE req[c].op \in {"edit", "undo"}
    <2>1. Ends(c)
      BY <1>7, <1>12, Moving
    <2>2. Only(c, id)
      BY <1>3, <1>4, <1>7, <1>8, <2>1 DEF Only, Ends, NoRequest
    <2>3. Kept(id)'
      BY <1>4, <1>7, <1>8, <1>12 DEF Kept
    <2>4. ASSUME Orderly, Agreed PROVE Matches(id)'
      <3>1. stored[id] = req[c].rule /\ stored[id] # None
        BY <1>1, <1>10, <1>12, <2>4 DEF ReadyFor
      <3>2. QED
        BY <1>6, <1>7, <1>8, <1>10, <2>4, <3>1 DEF Matches
    <2>5. QED
      BY <1>4, <2>1, <2>2, <2>3, <2>4, Ended, StepKeeps
  <1>13. QED
    BY <1>2, <1>11, <1>12

LEMMA EditTaskApart ==
    ASSUME ManagerInv, ApartInv, NEW c \in Clients, EditTask(c)
    PROVE  ApartInv' /\ (Orderly /\ Agreed => Agreed')
  <1>1. req[c].pc = "editTask" /\ req[c].pc \notin Busy
    BY DEF EditTask, Busy
  <1>2. req[c].op \in {"edit", "patch", "undo"} /\ req[c].rule \in Rules
    <2>1. ReqOK(req[c]) /\ req[c].op \in {"edit", "patch", "undo"}
      BY <1>1, Here DEF ReqOK
    <2>2. QED
      BY <1>1, <2>1 DEF ReqOK
  <1>3. PICK id \in RuleIds : id = req[c].id
    BY <1>1, Here
  <1>4. /\ id # 0 /\ id \in Nat
        /\ \A d \in Clients : d # c => req[d].id # id
        /\ lastId \in Nat /\ id <= lastId
    BY <1>1, <1>2, <1>3, Here
  <1> DEFINE old == Closed(made[id], tasks[id])
             task == NewTask(req[c].rule)
  <1>5. PICK new \in Nat : new = Len(made[id]) + 1
    BY Facts
  <1>6. /\ Len(Append(old, task)) = new /\ Append(old, task)[new] = task
        /\ task.rule = req[c].rule
    <2>1. task \in Tasks /\ old \in Seq(Tasks) /\ Len(old) = Len(made[id])
      BY <1>2, NewTaskType, ClosedType, Facts
    <2>2. task.rule = req[c].rule
      BY DEF NewTask
    <2> HIDE DEF task, old
    <2>3. QED
      BY <1>5, <2>1, <2>2, AppendProperties
  <1> DEFINE r == [req[c] EXCEPT !.pc = "editStop", !.stop = tasks[id]]
  <1>7. /\ rules' = [rules EXCEPT ![id] = new] /\ tasks' = [tasks EXCEPT ![id] = 0]
        /\ made' = [made EXCEPT ![id] = Append(old, task)]
        /\ req' = [req EXCEPT ![c] = r] /\ UNCHANGED <<stored, lastId, tx>>
    BY <1>3, <1>5 DEF EditTask
  <1>8. /\ r.op = req[c].op /\ r.id = id /\ r.rule = req[c].rule /\ r.old = req[c].old
        /\ r.pc = "editStop"
    BY <1>3, Facts DEF Requests
  <1> HIDE DEF task, old, r
  <1>9. /\ tasks'[id] = 0 /\ rules'[id] = new /\ made'[id] = Append(old, task)
        /\ \A i \in RuleIds : i # id => /\ tasks'[i] = tasks[i] /\ rules'[i] = rules[i]
                                        /\ made'[i] = made[i]
    BY <1>7, Facts
  <1>10. Moves(c, "editStop")
    BY <1>3, <1>7, <1>8, Facts DEF Moves
  <1>11. Only(c, id)
    BY <1>3, <1>4, <1>7, <1>9, <1>10 DEF Only, Moves
  <1>12. Placed(c)' /\ ~ Free(id)'
    BY <1>2, <1>3, <1>4, <1>6, <1>7, <1>9, <1>10 DEF Placed, Moves, Free
  <1>13. Kept(id)'
    BY <1>3, <1>4, <1>7, <1>10 DEF Kept, Moves
  <1>14. ASSUME Orderly, Agreed PROVE Ready(c)'
    <2>1. ReadyFor(id, req[c])
      BY <1>3, <1>4, <1>14 DEF Agreed, Ready
    <2>2. made'[id][Len(made'[id])].rule = req[c].rule
      BY <1>6, <1>9
    <2>3. ReadyFor(id, req[c])'
      BY <1>1, <1>2, <1>7, <1>10, <2>1, <2>2 DEF ReadyFor, Moves
    <2>4. QED
      BY <1>2, <1>3, <1>10, <2>3 DEF Ready, Moves
  <1>15. QED
    BY <1>4, <1>11, <1>12, <1>13, <1>14, StepKeeps

(* What remains when a task has been started, or taken out of the map, for *)
(* a request of a rule that is stored.                                     *)
LEMMA ProceedsApart ==
    ASSUME ManagerInv, ApartInv, NEW c \in Clients, NEW id \in RuleIds, id = req[c].id,
           NEW rule, rule = req[c].rule,
           req[c].pc \in {"editStop", "deleteTask", "deleteStop"},
           Proceed(c), UNCHANGED <<stored, lastId, tx>>,
           \A i \in RuleIds : i # id => /\ tasks'[i] = tasks[i] /\ rules'[i] = rules[i]
                                        /\ made'[i] = made[i],
           rules'[id] = tasks'[id],
           req[c].op = "delete" => tasks'[id] = 0,
           req[c].op # "delete" /\ Orderly /\ Agreed => Agrees(id, rule)'
    PROVE  ApartInv' /\ (Orderly /\ Agreed => Agreed')
  <1>1. req[c].pc \notin Busy
    BY DEF Busy
  <1>2. /\ id # 0 /\ id \in Nat
        /\ \A d \in Clients : d # c => req[d].id # id
        /\ lastId \in Nat /\ req[c].op \in {"edit", "patch", "undo", "delete"}
        /\ id <= lastId
    <2>1. ReqOK(req[c]) /\ req[c].op \in {"edit", "patch", "undo", "delete"}
      BY <1>1, Here DEF ReqOK
    <2>2. QED
      BY <1>1, <2>1, Here
  <1>3. Kept(id)'
    BY <1>2 DEF Kept
  <1>4. Orderly /\ Agreed => ReadyFor(id, req[c])
    BY <1>2 DEF Agreed, Ready
  <1>5. CASE req[c].op \in {"delete", "patch"}
    <2>1. PICK pc \in {"delete", "update"} :
             Moves(c, pc) /\ pc = (IF req[c].op = "delete" THEN "delete" ELSE "update")
      BY <1>5, Moving
    <2>2. Only(c, id)
      <3>1. /\ \A d \in Clients : d # c => req'[d] = req[d]
            /\ req'[c].id = id
        BY <2>1 DEF Moves
      <3>2. QED
        BY <1>2, <3>1 DEF Only
    <2>3. Placed(c)' /\ ~ Free(id)'
      BY <1>2, <1>5, <2>1 DEF Placed, Moves, Free
    <2>4. ASSUME Orderly, Agreed PROVE Ready(c)'
      <3>1. ReadyFor(id, req[c])
        BY <1>4, <2>4
      <3>2. CASE req[c].op = "delete"
        BY <2>1, <3>1, <3>2, <1>2 DEF Ready, ReadyFor, Moves
      <3>3. CASE req[c].op = "patch"
        <4>1. Agrees(id, rule)' /\ req'[c].rule = rule
          BY <2>1, <2>4, <3>3 DEF Moves
        <4>2. ReadyFor(id, req[c])'
          BY <2>1, <3>1, <3>3, <4>1 DEF ReadyFor, Moves, Agrees
        <4>3. QED
          BY <2>1, <3>3, <4>2 DEF Ready, Moves
      <3>4. QED
        BY <1>5, <3>2, <3>3
    <2>5. QED
      BY <1>2, <1>3, <2>2, <2>3, <2>4, StepKeeps
  <1>6. CASE req[c].op \in {"edit", "undo"}
    <2>1. Ends(c)
      BY <1>6, Moving
    <2>2. Only(c, id)
      BY <1>2, <2>1 DEF Only, Ends, NoRequest
    <2>3. ASSUME Orderly, Agreed PROVE Matches(id)'
      <3>1. stored[id] = req[c].rule /\ stored[id] # None
        BY <1>4, <1>6, <2>3 DEF ReadyFor
      <3>2. QED
        BY <1>6, <2>3, <3>1 DEF Matches, Agrees
    <2>4. QED
      BY <1>2, <1>3, <2>1, <2>2, <2>3, Ended, StepKeeps
  <1>7. QED
    BY <1>2, <1>5, <1>6

LEMMA FinishEditApart ==
    ASSUME ManagerInv, ApartInv, NEW c \in Clients, FinishEdit(c)
    PROVE  ApartInv' /\ (Orderly /\ Agreed => Agreed')
  <1>1. req[c].pc = "editStop" /\ req[c].pc \notin Busy
    BY DEF FinishEdit, Busy
  <1>2. req[c].op \in {"edit", "patch", "undo"}
    BY <1>1, Here DEF ReqOK
  <1>3. PICK id \in RuleIds : id = req[c].id
    BY <1>1, Here
  <1>4. PICK rule : rule = req[c].rule
    OBVIOUS
  <1>5. id # 0 /\ rules[id] = Len(made[id])
    BY <1>1, <1>3, Here DEF Placed
  <1>6. PICK new \in Nat : new = Len(made[id]) /\ new \in 1 .. Len(made[id])
    BY <1>1, <1>3, Facts DEF ManagerInv, TaskInv, EditWaits
  <1> DEFINE old == made[id]
             task == Started(old[new])
  <1>7. old \in Seq(Tasks) /\ new \in 1 .. Len(old) /\ old[new] \in Tasks
    BY <1>6, Facts
  <1>8. task \in Tasks /\ task.rule = old[new].rule
    BY <1>7, StartedType DEF Started, Tasks
  <1>9. /\ made' = [made EXCEPT ![id] = [old EXCEPT ![new] = task]]
        /\ tasks' = [tasks EXCEPT ![id] = new]
        /\ Proceed(c) /\ UNCHANGED <<stored, lastId, tx, rules>>
    BY <1>3, <1>6 DEF FinishEdit
  <1> HIDE DEF task
  <1>10. [old EXCEPT ![new] = task][new] = task
    BY <1>7, <1>8, ExceptSeq
  <1>11. /\ tasks'[id] = new /\ rules'[id] = new /\ made'[id][new] = task
         /\ \A i \in RuleIds : i # id => /\ tasks'[i] = tasks[i] /\ rules'[i] = rules[i]
                                         /\ made'[i] = made[i]
    BY <1>5, <1>6, <1>9, <1>10, Facts
  <1>12. ASSUME Orderly, Agreed PROVE Agrees(id, rule)'
    <2>1. ReadyFor(id, req[c])
      BY <1>3, <1>5, <1>12 DEF Agreed, Ready
    <2>2. old[new].rule = rule /\ ~ rule.disabled
      BY <1>1, <1>4, <1>6, <2>1 DEF ReadyFor
    <2>3. QED
      BY <1>6, <1>8, <1>11, <2>2 DEF Agrees
  <1>13. rules'[id] = tasks'[id] /\ req[c].op # "delete"
    BY <1>2, <1>11
  <1>14. QED
    BY <1>1, <1>3, <1>4, <1>9, <1>11, <1>12, <1>13, ProceedsApart

LEMMA DeleteTaskApart ==
    ASSUME ManagerInv, ApartInv, NEW c \in Clients, DeleteTask(c)
    PROVE  ApartInv' /\ (Orderly /\ Agreed => Agreed')
  <1>1. req[c].pc = "deleteTask" /\ req[c].pc \notin Busy
    BY DEF DeleteTask, Busy
  <1>2. req[c].op \in {"edit", "patch", "undo", "delete"}
    BY <1>1, Here DEF ReqOK
  <1>3. PICK id \in RuleIds : id = req[c].id
    BY <1>1, Here
  <1>4. PICK rule : rule = req[c].rule
    OBVIOUS
  <1>5. /\ id # 0 /\ id \in Nat
        /\ \A d \in Clients : d # c => req[d].id # id
        /\ lastId \in Nat /\ rules[id] = tasks[id] /\ id <= lastId
    BY <1>1, <1>2, <1>3, Here
  <1>6. UNCHANGED <<stored, lastId, tx, tasks, rules>>
    BY DEF DeleteTask
  <1>7. ASSUME Orderly, Agreed PROVE ReadyFor(id, req[c])
    BY <1>3, <1>5, <1>7 DEF Agreed, Ready
  <1>8. CASE tasks[id] = 0
    <2>1. Proceed(c) /\ UNCHANGED made
      BY <1>3, <1>8 DEF DeleteTask
    <2>2. ASSUME req[c].op # "delete", Orderly, Agreed PROVE Agrees(id, rule)'
      BY <1>1, <1>4, <1>6, <1>7, <1>8, <2>2 DEF ReadyFor, Agrees
    <2>3. QED
      BY <1>1, <1>3, <1>4, <1>5, <1>6, <1>8, <2>1, <2>2, ProceedsApart
  <1>9. CASE tasks[id] # 0
    <2> DEFINE r == [req[c] EXCEPT !.pc = "deleteStop", !.stop = tasks[id]]
    <2>1. /\ made' = [made EXCEPT ![id] = Closed(@, tasks[id])]
          /\ req' = [req EXCEPT ![c] = r]
      BY <1>3, <1>9 DEF DeleteTask
    <2>2. /\ r.op = req[c].op /\ r.id = id /\ r.rule = req[c].rule /\ r.old = req[c].old
          /\ r.pc = "deleteStop"
      BY <1>3, Facts DEF Requests
    <2> HIDE DEF r
    <2>3. Moves(c, "deleteStop")
      BY <1>3, <2>1, <2>2, Facts DEF Moves
    <2>4. \A i \in RuleIds : i # id => made'[i] = made[i]
      BY <2>1, Facts
    <2>5. Only(c, id)
      BY <1>3, <1>5, <1>6, <2>3, <2>4 DEF Only, Moves
    <2>6. Placed(c)' /\ ~ Free(id)'
      BY <1>2, <1>3, <1>5, <1>6, <2>3 DEF Placed, Moves, Free
    <2>7. Kept(id)'
      BY <1>5, <1>6 DEF Kept
    <2>8. ASSUME Orderly, Agreed PROVE Ready(c)'
      <3>1. ReadyFor(id, req[c])'
        BY <1>1, <1>2, <1>6, <1>7, <2>3, <2>8 DEF ReadyFor, Moves
      <3>2. QED
        BY <1>2, <1>3, <2>3, <3>1 DEF Ready, Moves
    <2>9. QED
      BY <1>5, <2>5, <2>6, <2>7, <2>8, StepKeeps
  <1>10. QED
    BY <1>8, <1>9

LEMMA FinishDeleteApart ==
    ASSUME ManagerInv, ApartInv, NEW c \in Clients, FinishDelete(c)
    PROVE  ApartInv' /\ (Orderly /\ Agreed => Agreed')
  <1>1. req[c].pc = "deleteStop" /\ req[c].pc \notin Busy
    BY DEF FinishDelete, Busy
  <1>2. PICK id \in RuleIds : id = req[c].id
    BY <1>1, Here
  <1>3. PICK rule : rule = req[c].rule
    OBVIOUS
  <1>4. /\ tasks' = [tasks EXCEPT ![id] = 0] /\ rules' = [rules EXCEPT ![id] = 0]
        /\ Proceed(c) /\ UNCHANGED <<stored, lastId, tx, made>>
    BY <1>2 DEF FinishDelete
  <1>5. /\ tasks'[id] = 0 /\ rules'[id] = tasks'[id]
        /\ \A i \in RuleIds : i # id => /\ tasks'[i] = tasks[i] /\ rules'[i] = rules[i]
                                        /\ made'[i] = made[i]
    BY <1>4, Facts
  <1>6. ASSUME req[c].op # "delete", Orderly, Agreed PROVE Agrees(id, rule)'
    <2>1. ReadyFor(id, req[c])
      BY <1>1, <1>2, <1>6, Here DEF Agreed, Ready
    <2>2. rule.disabled
      BY <1>1, <1>3, <1>6, <2>1 DEF ReadyFor
    <2>3. QED
      BY <1>5, <2>2 DEF Agrees
  <1>7. QED
    BY <1>1, <1>2, <1>3, <1>4, <1>5, <1>6, ProceedsApart

-----------------------------------------------------------------------------
(* The steps of goroutines and of Manager.Stop change no rule of a task.   *)
LEMMA SameRules ==
    ASSUME ManagerInv, ApartInv, UNCHANGED <<stored, lastId, tx, tasks, rules, req>>,
           \A i \in RuleIds :
              /\ Len(made'[i]) = Len(made[i])
              /\ \A m \in 1 .. Len(made[i]) : made'[i][m].rule = made[i][m].rule
    PROVE  ApartInv' /\ (Orderly /\ Agreed => Agreed')
  <1>1. ASSUME NEW d \in Clients PROVE Placed(d)'
    <2>1. Placed(d) /\ req[d].id \in {0} \cup RuleIds
      BY Facts DEF ApartInv, Requests
    <2>2. QED
      BY <2>1 DEF Placed
  <1>2. ASSUME NEW i \in RuleIds PROVE Kept(i)' /\ Free(i)' = Free(i)
    BY DEF ApartInv, Kept, Free
  <1>3. ApartInv'
    BY <1>1, <1>2 DEF ApartInv, OnePerRule
  <1>4. \A i \in RuleIds : tasks[i] # 0 => made'[i][tasks[i]].rule = made[i][tasks[i]].rule
    BY Facts
  <1>5. ASSUME Agreed, NEW d \in Clients PROVE Ready(d)'
    <2>1. CASE req[d].id = 0
      BY <1>5, <2>1 DEF Agreed, Ready
    <2>2. CASE req[d].id # 0
      <3>1. PICK id \in RuleIds : id = req[d].id
        BY <2>2, Facts DEF Requests
      <3>2. ReadyFor(id, req[d]) /\ Ready(d)
        BY <1>5, <2>2, <3>1 DEF Agreed, Ready
      <3>3. req[d].pc = "editStop" =>
               made'[id][Len(made'[id])].rule = made[id][Len(made[id])].rule
        <4>1. Len(made'[id]) = Len(made[id]) /\ Len(made[id]) \in Nat
          BY Facts
        <4>2. req[d].pc = "editStop" => Len(made[id]) > 0
          BY <3>1 DEF ManagerInv, TaskInv, EditWaits
        <4>3. req[d].pc = "editStop" => Len(made[id]) \in 1 .. Len(made[id])
          BY <4>1, <4>2
        <4>4. QED
          BY <4>1, <4>3
      <3>4. ReadyFor(id, req[d])'
        BY <1>4, <3>2, <3>3 DEF ReadyFor, Agrees, Matches
      <3>5. QED
        BY <3>1, <3>2, <3>4 DEF Ready
    <2>3. QED
      BY <2>1, <2>2
  <1>6. ASSUME Agreed, NEW i \in RuleIds, Free(i)' PROVE Matches(i)'
    <2>1. Matches(i)
      BY <1>2, <1>6 DEF Agreed
    <2>2. QED
      BY <1>4, <2>1 DEF Matches
  <1>7. QED
    BY <1>3, <1>5, <1>6 DEF Agreed

LEMMA TaskStepApart ==
    ASSUME ManagerInv, ApartInv, NEW id \in RuleIds, NEW n \in 1 .. Len(made[id]),
           StartEval(id, n) \/ TaskEnds(id, n)
    PROVE  ApartInv' /\ (Orderly /\ Agreed => Agreed')
  <1>1. PICK from, to : TaskStep(id, n, from, to)
    BY DEF StartEval, TaskEnds, EndEval, Leave
  <1> DEFINE old == made[id]
             task == [old[n] EXCEPT !.at = to]
  <1>2. /\ made' = [made EXCEPT ![id] = [old EXCEPT ![n] = task]]
        /\ UNCHANGED <<stored, lastId, tx, tasks, rules, req>>
    BY <1>1 DEF TaskStep
  <1>3. old \in Seq(Tasks) /\ n \in 1 .. Len(old) /\ old[n] \in Tasks
    BY Facts
  <1>4. task.rule = old[n].rule
    BY <1>3 DEF Tasks
  <1> HIDE DEF task
  <1>5. /\ Len([old EXCEPT ![n] = task]) = Len(old)
        /\ \A m \in 1 .. Len(old) : [old EXCEPT ![n] = task][m] = IF m = n THEN task ELSE old[m]
    BY <1>3 DEF Seq
  <1>6. \A i \in RuleIds :
           /\ Len(made'[i]) = Len(made[i])
           /\ \A m \in 1 .. Len(made[i]) : made'[i][m].rule = made[i][m].rule
    BY <1>2, <1>4, <1>5, Facts
  <1>7. QED
    BY <1>2, <1>6, SameRules

LEMMA StopApart ==
    ASSUME ManagerInv, ApartInv, Stop
    PROVE  ApartInv' /\ (Orderly /\ Agreed => Agreed')
  BY SameRules DEF Stop

LEMMA StopTaskApart ==
    ASSUME ManagerInv, ApartInv, NEW id \in RuleIds, StopTask(id)
    PROVE  ApartInv' /\ (Orderly /\ Agreed => Agreed')
  <1> DEFINE old == made[id]
             n == tasks[id]
             task == [old[n] EXCEPT !.done = TRUE]
  <1>1. /\ made' = [made EXCEPT ![id] = [old EXCEPT ![n] = task]] /\ n # 0
        /\ UNCHANGED <<stored, lastId, tx, tasks, rules, req>>
    BY DEF StopTask, Closed
  <1>2. old \in Seq(Tasks) /\ n \in 1 .. Len(old) /\ old[n] \in Tasks
    BY <1>1, Facts
  <1>3. task.rule = old[n].rule
    BY <1>2 DEF Tasks
  <1> HIDE DEF task
  <1>4. /\ Len([old EXCEPT ![n] = task]) = Len(old)
        /\ \A m \in 1 .. Len(old) : [old EXCEPT ![n] = task][m] = IF m = n THEN task ELSE old[m]
    BY <1>2 DEF Seq
  <1>5. \A i \in RuleIds :
           /\ Len(made'[i]) = Len(made[i])
           /\ \A m \in 1 .. Len(made[i]) : made'[i][m].rule = made[i][m].rule
    BY <1>1, <1>3, <1>4, Facts
  <1>6. QED
    BY <1>1, <1>5, SameRules

-----------------------------------------------------------------------------
(* The start of the process.                                               *)
LEMMA LoadedApart ==
    ASSUME NEW loaded \in BOOLEAN, stored \in [RuleIds -> Rules \cup {None}], NEW id \in RuleIds
    PROVE  /\ stored[id] = None => LoadedMap(loaded)[id] = 0
           /\ Orderly /\ loaded =>
                 LET n == LoadedMap(loaded)[id]
                 IN IF stored[id] # None /\ ~ stored[id].disabled
                    THEN n # 0 /\ LoadedTasks(loaded)[id][n].rule = stored[id]
                    ELSE n = 0
  <1>1. LoadedMap(loaded)[id] = IF Loads(loaded, id) THEN 1 ELSE 0
    BY DEF LoadedMap
  <1>2. ASSUME Orderly, loaded, stored[id] # None
        PROVE  Loads(loaded, id) <=> ~ stored[id].disabled
    <2>1. stored[id].cond \in Loadable
      BY <1>2 DEF Orderly, Rules
    <2>2. QED
      BY <1>2, <2>1 DEF Loads, Orderly
  <1>3. ASSUME Loads(loaded, id) PROVE LoadedTasks(loaded)[id][1].rule = stored[id]
    <2> DEFINE t == Started(NewTask(stored[id]))
    <2>1. t.rule = stored[id]
      BY DEF Started, NewTask
    <2>2. LoadedTasks(loaded)[id] = <<t>>
      BY <1>3 DEF LoadedTasks
    <2> HIDE DEF t
    <2>3. QED
      BY <2>1, <2>2
  <1>4. QED
    BY <1>1, <1>2, <1>3 DEF Loads

LEMMA RestartApart ==
    ASSUME ManagerInv, ApartInv, NEW loaded \in BOOLEAN, Restart(loaded)
    PROVE  ApartInv' /\ (Orderly /\ Agreed => Agreed')
  <1>1. /\ made' = LoadedTasks(loaded) /\ tasks' = LoadedMap(loaded)
        /\ rules' = LoadedMap(loaded) /\ UNCHANGED <<stored, lastId>>
        /\ ~ loaded => "load fails" \in Trouble
    BY DEF Restart
  <1>2. \A c \in Clients : req'[c] = NoRequest /\ Ready(c)' /\ Placed(c)'
    <2>1. \A c \in Clients : req'[c] = NoRequest
      BY DEF Restart
    <2>2. QED
      BY <2>1 DEF Ready, Placed, NoRequest
  <1>3. stored \in [RuleIds -> Rules \cup {None}]
    BY DEF ManagerInv, TypeInv, TypeOK
  <1>4. ASSUME NEW i \in RuleIds PROVE Kept(i)'
    <2>1. stored[i] = None => LoadedMap(loaded)[i] = 0
      BY <1>3, LoadedApart
    <2>2. i > lastId => stored[i] = None
      BY DEF ApartInv, Kept
    <2>3. QED
      BY <1>1, <2>1, <2>2 DEF Kept
  <1>5. OnePerRule'
    BY <1>2 DEF OnePerRule, NoRequest
  <1>6. ASSUME Orderly, NEW i \in RuleIds PROVE Matches(i)'
    <2>1. loaded
      BY <1>1, <1>6 DEF Orderly
    <2>2. QED
      BY <1>1, <1>3, <1>6, <2>1, LoadedApart DEF Matches
  <1>7. QED
    BY <1>2, <1>4, <1>5, <1>6 DEF ApartInv, Agreed

LEMMA InitiallyApart ==
    ASSUME Init
    PROVE  ApartInv /\ (Orderly => Agreed)
  <1>1. \A c \in Clients : req[c] = NoRequest /\ Ready(c) /\ Placed(c)
    <2>1. \A c \in Clients : req[c] = NoRequest
      BY DEF Init
    <2>2. QED
      BY <2>1 DEF Ready, Placed, NoRequest
  <1>2. stored \in [RuleIds -> Rules \cup {None}]
    BY DEF Init
  <1>3. ASSUME NEW i \in RuleIds PROVE Kept(i)
    <2>1. stored[i] = None => LoadedMap(TRUE)[i] = 0
      BY <1>2, LoadedApart
    <2>2. QED
      BY <2>1 DEF Init, Kept
  <1>4. OnePerRule
    BY <1>1 DEF OnePerRule, NoRequest
  <1>5. ASSUME Orderly, NEW i \in RuleIds PROVE Matches(i)
    BY <1>2, <1>5, LoadedApart DEF Init, Matches
  <1>6. QED
    BY <1>1, <1>3, <1>4, <1>5 DEF ApartInv, Agreed

-----------------------------------------------------------------------------
LEMMA ApartPreserved ==
    ASSUME ManagerInv, ApartInv, Apart, [Next]_vars
    PROVE  ApartInv' /\ (Orderly /\ Agreed => Agreed')
  <1>1. ASSUME NEW c \in Clients,
               \/ \E rule \in Rules : CreateRule(c, rule)
               \/ \E id \in RuleIds : \/ \E rule \in Rules : EditRule(c, id, rule)
                                      \/ PatchRule(c, id)
                                      \/ DeleteRule(c, id)
        PROVE  ApartInv' /\ (Orderly /\ Agreed => Agreed')
    BY <1>1, BeginsApart
  <1>2. ASSUME NEW c \in Clients, ClientStep(c)
        PROVE  ApartInv' /\ (Orderly /\ Agreed => Agreed')
    <2>1. CASE Insert(c) \/ Commit(c) \/ Update(c) \/ Delete(c)
      BY <2>1, InsertApart, CommitApart, UpdateApart, DeleteApart
    <2>2. CASE \E patched \in Rules : Read(c, patched)
      BY <2>2, ReadApart
    <2>3. CASE Sync(c) \/ Refuse(c) \/ AddTask(c)
      BY <2>3, SyncApart, RefuseApart, AddTaskApart
    <2>4. CASE EditTask(c) \/ FinishEdit(c) \/ DeleteTask(c) \/ FinishDelete(c)
      BY <2>4, EditTaskApart, FinishEditApart, DeleteTaskApart, FinishDeleteApart
    <2>5. QED
      BY <1>2, <2>1, <2>2, <2>3, <2>4 DEF ClientStep
  <1>3. ASSUME NEW id \in RuleIds, NEW n \in 1 .. Len(made[id]),
               StartEval(id, n) \/ TaskEnds(id, n)
        PROVE  ApartInv' /\ (Orderly /\ Agreed => Agreed')
    BY <1>3, TaskStepApart
  <1>4. ASSUME NEW id \in RuleIds, StopTask(id)
        PROVE  ApartInv' /\ (Orderly /\ Agreed => Agreed')
    BY <1>4, StopTaskApart
  <1>5. CASE Stop
    BY <1>5, StopApart
  <1>6. ASSUME NEW loaded \in BOOLEAN, Restart(loaded)
        PROVE  ApartInv' /\ (Orderly /\ Agreed => Agreed')
    BY <1>6, RestartApart
  <1>7. CASE UNCHANGED vars
    BY <1>7, SameRules DEF vars
  <1>8. QED
    BY <1>1, <1>2, <1>3, <1>4, <1>5, <1>6, <1>7 DEF Next

(* The state the API reports of a rule is that of the task that evaluates  *)
(* it, whichever tasks are started, stopped, refused or lost in a restart, *)
(* and whichever writes fail, as long as transactions commit and requests  *)
(* keep apart: addTask then never finds a task of the same name.           *)
THEOREM ReportedIsRunningHolds ==
    ASSUME Apart
    PROVE  Spec => []ReportedIsRunning
  <1>1. Init => ApartInv
    BY InitiallyApart
  <1>2. ManagerInv /\ ApartInv /\ [Next]_vars => ApartInv'
    BY ApartPreserved
  <1>3. ManagerInv /\ ApartInv => ReportedIsRunning
    <2> SUFFICES ASSUME ManagerInv, ApartInv, mtx = None, NEW id \in RuleIds
                 PROVE  rules[id] = tasks[id]
      BY DEF ReportedIsRunning
    <2>1. \A c \in Clients : req[c].pc # "editStop"
      BY FreeMutex DEF WaitPlaces
    <2>2. QED
      BY <2>1 DEF ApartInv, Kept
  <1>4. QED
    BY <1>1, <1>2, <1>3, Invariance, PTL DEF Spec

(* Between requests, every enabled rule of the table has a task with that  *)
(* very rule, and no other rule has one: through creation, edits, patches  *)
(* (undone ones included), deletion, Stop, crashes and restarts.           *)
THEOREM SyncedHolds ==
    ASSUME Orderly
    PROVE  Spec => []Synced
  <1>1. Init => ApartInv /\ Agreed
    BY InitiallyApart
  <1>2. ManagerInv /\ ApartInv /\ Agreed /\ [Next]_vars => ApartInv' /\ Agreed'
    BY ApartPreserved DEF Orderly
  <1>3. Agreed => Synced
    BY DEF Agreed, Synced, Quiet, NoRequest, Free, RuleIds
  <1>4. QED
    BY <1>1, <1>2, <1>3, Invariance, PTL DEF Spec
=============================================================================
