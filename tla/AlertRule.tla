----------------------------- MODULE AlertRule -----------------------------
(***************************************************************************)
(* One alert rule of the query service and the task that evaluates it      *)
(* (pkg/query-service/rules): ThresholdRule.Eval and BaseRule.SendAlerts   *)
(* driven by RuleTask.Run, the rule state history written to ClickHouse,   *)
(* and what is handed to the notifier.  PromRule.Eval runs the same state  *)
(* machine without the "no data" branch (AlertOnAbsent = FALSE).           *)
(*                                                                         *)
(* An alert is identified by its labels.  The only part of them that       *)
(* varies within a rule is kept: the labels of the result series, and      *)
(* whether the alert is the "[No data]" one.  0 stands for the empty label *)
(* set, a number t > 0 for the label set {lastSeen: t} of a "no data"      *)
(* alert.                                                                  *)
(***************************************************************************)
EXTENDS Integers, FiniteSets

CONSTANTS
    Series,          \* label sets of the series the query can return
    AlertOnAbsent,   \* RuleCondition.AlertOnAbsent
    AbsentFor,       \* RuleCondition.AbsentFor
    HoldDuration,    \* BaseRule.holdDuration, which no constructor sets
    Retention,       \* ResolvedRetention
    ResendDelay,     \* ManagerOptions.ResendDelay
    Frequency,       \* RuleTask.frequency
    Start,           \* the clock when the service first starts
    MaxTime,         \* bound: the clock stops here
    MaxLag,          \* bound: a tick or an evaluation is at most this late
    MaxReaderFaults  \* bound: calls of the history reader that fail

ASSUME RuleAssumption ==
    /\ AlertOnAbsent \in BOOLEAN
    /\ AbsentFor \in Nat
    /\ HoldDuration \in Nat
    /\ Retention \in Nat
    /\ ResendDelay \in Nat
    /\ Frequency \in Nat \ {0}
    /\ Start \in Nat
    /\ MaxTime \in Nat
    /\ MaxLag \in Nat
    /\ MaxReaderFaults \in Nat
    \* Go's zero time, here 0, is further away than any delay.
    /\ Start > ResendDelay
    /\ Start > AbsentFor

VARIABLES
    now,             \* the wall clock
    pc,              \* where the task goroutine is
    evalTs,          \* RuleTask.Run's evalTimestamp
    nextTick,        \* when Run's time.Ticker fires next, 0 before it is made
    ticked,          \* a tick waits in the ticker's channel, which holds one
    active,          \* BaseRule.Active
    lastData,        \* ThresholdRule.lastTimestampWithDatapoints
    handledRestart,  \* BaseRule.handledRestart
    saved,           \* per fingerprint, the history row with the largest unix_milli
    am,              \* per alert, the EndsAt last handed to the notifier
    \* The rest is not in the code: what the properties remember.
    readerFaults,    \* calls of the history reader that failed so far
    lastGood,        \* timestamp of the last evaluation that ran to its end
    latest,          \* per fingerprint, the state of the row inserted last
    onset,           \* per alert, the first evaluation of its present streak
    orphans,         \* alerts the rule was notifying when its memory was lost
    dataSeen,        \* when an evaluation last saw data, over restarts
    again            \* slots that Run turned to a second time

ticker == <<nextTick, ticked>>
aux == <<readerFaults, lastGood, latest, onset, orphans, dataSeen, again>>
vars == <<now, pc, evalTs, nextTick, ticked, active, lastData, handledRestart, saved,
          am, readerFaults, lastGood, latest, onset, orphans, dataSeen, again>>

Labels == Series \cup Nat

Keys == [missing : BOOLEAN, labels : Labels]

Alert == [state : {"inactive", "pending", "firing"},
          activeAt : Nat, firedAt : Nat, resolvedAt : Nat,
          lastSentAt : Nat, validUntil : Nat]

HistoryStates == {"inactive", "firing", "nodata"}

Row == [state : HistoryStates, unix : Nat,
        overall : {"inactive", "pending", "firing"}]

Empty == [x \in {} |-> 0]

-----------------------------------------------------------------------------
(* BaseRule.State: the largest state of the active alerts. *)
StateOf(alerts) ==
    CASE \E k \in DOMAIN alerts : alerts[k].state = "firing" -> "firing"
      [] ~ (\E k \in DOMAIN alerts : alerts[k].state = "firing")
         /\ (\E k \in DOMAIN alerts : alerts[k].state = "pending") -> "pending"
      [] OTHER -> "inactive"

NewAlert(ts) ==
    [state |-> "pending", activeAt |-> ts, firedAt |-> 0, resolvedAt |-> 0,
     lastSentAt |-> 0, validUntil |-> 0]

(* Mutant: every alert of the result vector is taken for a new one. *)
UpsertedAlways(alerts, res, ts) ==
    [k \in DOMAIN alerts \cup res |-> IF k \in res THEN NewAlert(ts) ELSE alerts[k]]

(* The result vector joins Active: a live alert is kept, a resolved or     *)
(* missing one is replaced by a new pending alert.                         *)
Upserted(alerts, res, ts) ==
    [k \in DOMAIN alerts \cup res |->
        IF k \in DOMAIN alerts /\ (k \in res => alerts[k].state # "inactive")
        THEN alerts[k]
        ELSE NewAlert(ts)]

(* Alerts absent from the result that leave Active. *)
Dropped(a, ts) ==
    \/ a.state = "pending"
    \/ a.resolvedAt # 0 /\ ts - a.resolvedAt > Retention

Resolved(a, ts) == [a EXCEPT !.state = "inactive", !.resolvedAt = ts]

(* Mutant: the alert takes the state of its history item. *)
FiredNoData(a, ts) == [a EXCEPT !.state = "nodata", !.firedAt = ts]

Fired(a, ts) == [a EXCEPT !.state = "firing", !.firedAt = ts]

(* One alert's turn in the second loop of Eval. *)
Stepped(k, a, res, ts) ==
    IF k \notin res
    THEN IF a.state # "inactive" THEN Resolved(a, ts) ELSE a
    ELSE IF a.state = "pending" /\ ts - a.activeAt >= HoldDuration
         THEN Fired(a, ts)
         ELSE a

ActiveAfter(alerts, res, ts) ==
    LET up == Upserted(alerts, res, ts)
    IN [k \in {x \in DOMAIN up : x \in res \/ ~ Dropped(up[x], ts)} |->
           Stepped(k, up[k], res, ts)]

(* The alerts whose turn adds an item to itemsToAdd. *)
Changed(alerts, res, ts) ==
    LET up == Upserted(alerts, res, ts)
    IN {k \in DOMAIN up : Stepped(k, up[k], res, ts).state # up[k].state}

ItemState(k, res) ==
    IF k \notin res THEN "inactive" ELSE IF k.missing THEN "nodata" ELSE "firing"

(* itemsToAdd as the map from fingerprints that RecordRuleStateHistory     *)
(* makes of it.  The fingerprint is the hash of the result labels alone,   *)
(* so two alerts can meet in it; which one stays depends on the iteration  *)
(* order of a Go map.                                                      *)
ItemMaps(alerts, res, ts) ==
    LET keys == Changed(alerts, res, ts)
        overall == StateOf(ActiveAfter(alerts, res, ts))
        fps == {k.labels : k \in keys}
    IN {[f \in fps |-> [state |-> ItemState(pick[f], res), unix |-> ts,
                        overall |-> overall]] :
          pick \in {p \in [fps -> keys] : \A f \in fps : p[f].labels = f}}

-----------------------------------------------------------------------------
(* RecordRuleStateHistory after a restart: what the first evaluation adds. *)
IsAlerting(s) == s \in {"firing", "nodata"}

(* Mutant: only the fingerprints of this evaluation are looked at. *)
MergedOnlyItems(items) ==
    [f \in {g \in DOMAIN items : g \in DOMAIN saved => saved[g].state # items[g].state}
        |-> items[f]]

MergedWithSaved(items) ==
    LET changed == {f \in DOMAIN saved :
                      IF f \in DOMAIN items THEN saved[f].state # items[f].state
                                            ELSE IsAlerting(saved[f].state)}
        new == DOMAIN items \ DOMAIN saved
    IN [f \in changed \cup new |->
          IF f \in new THEN items[f]
          ELSE [saved[f] EXCEPT
                  !.state = IF f \in DOMAIN items THEN items[f].state ELSE "inactive",
                  !.unix = now]]

NewOverall(rows) ==
    IF \E f \in DOMAIN rows : IsAlerting(rows[f].state) THEN "firing" ELSE "inactive"

(* lastSavedState[0]: the rows come sorted by unix_milli, newest first. *)
NewestSaved == {f \in DOMAIN saved : \A g \in DOMAIN saved : saved[g].unix <= saved[f].unix}

RestartRows(items, first) ==
    LET rows == MergedWithSaved(items)
    IN IF saved[first].overall # NewOverall(rows)
       THEN [f \in DOMAIN rows |-> [rows[f] EXCEPT !.overall = NewOverall(rows)]]
       ELSE rows

(* AddRuleStateHistory inserts; GetLastSavedRuleStateHistory later returns *)
(* the row with the largest unix_milli of each fingerprint; of two with    *)
(* the same time, which a slot evaluated twice makes, it is either.        *)
Insert(rows) ==
    /\ \E older \in SUBSET {f \in DOMAIN saved \cap DOMAIN rows :
                                rows[f].unix = saved[f].unix} :
          saved' = [f \in DOMAIN saved \cup DOMAIN rows |->
                      IF /\ f \in DOMAIN rows \ older
                         /\ f \in DOMAIN saved => rows[f].unix >= saved[f].unix
                      THEN rows[f]
                      ELSE saved[f]]
    /\ latest' = [f \in DOMAIN latest \cup DOMAIN rows |->
                   IF f \in DOMAIN rows THEN rows[f].state ELSE latest[f]]

ReaderFails ==
    /\ readerFaults < MaxReaderFaults
    /\ readerFaults' = readerFaults + 1
    /\ UNCHANGED <<saved, latest>>

RecordRuleStateHistory(items) ==
    \/ \* GetLastSavedRuleStateHistory fails: the items are lost
       /\ ReaderFails
       /\ UNCHANGED handledRestart
    \/ /\ handledRestart' = TRUE
       /\ \/ \* AddRuleStateHistory fails: logged only
             ReaderFails
          \/ /\ UNCHANGED readerFaults
             /\ IF ~ handledRestart /\ saved # Empty
                THEN \E first \in NewestSaved : Insert(RestartRows(items, first))
                ELSE Insert(items)

-----------------------------------------------------------------------------
(* buildAndRunQuery's decision that the data is missing.  Two readings of  *)
(* the clock are never equal, so AbsentFor = 0 always counts as missing.   *)
Absent(seen) ==
    AlertOnAbsent /\ (seen + AbsentFor < now \/ AbsentFor = 0)

ResultVector(seen, alerting) ==
    IF Absent(seen)
    THEN {[missing |-> TRUE, labels |-> seen]}
    ELSE {[missing |-> FALSE, labels |-> s] : s \in alerting}

(* RuleTask.EvalTimestamp, plus one interval: the first evaluation. *)
NextSlot == (now \div Frequency) * Frequency + Frequency

(* Mutant: missed is taken for the number of intervals to advance. *)
NextEvalTsMissed == evalTs + (((now - evalTs) \div Frequency) - 1) * Frequency

(* Run's next evalTimestamp at a tick: missed slots are skipped.  A tick   *)
(* within an interval of the slot gives missed = -1: the same slot again.  *)
NextEvalTs ==
    LET missed == ((now - evalTs) \div Frequency) - 1
    IN evalTs + (missed + 1) * Frequency

Max2(a, b) == IF a > b THEN a ELSE b

Delta == Max2(ResendDelay, Frequency)

(* Mutant: a firing alert is sent once. *)
NeedsSendingOnce(a, ts) ==
    /\ a.state # "pending"
    /\ a.resolvedAt > a.lastSentAt \/ a.lastSentAt = 0

(* Mutant: a resolution waits for the resend delay. *)
NeedsSendingUnresolved(a, ts) ==
    /\ a.state # "pending"
    /\ a.lastSentAt + ResendDelay < ts

NeedsSending(a, ts) ==
    /\ a.state # "pending"
    /\ \/ a.resolvedAt > a.lastSentAt
       \/ a.lastSentAt + ResendDelay < ts

Sent(a, ts) == [a EXCEPT !.lastSentAt = ts, !.validUntil = ts + 4 * Delta]

(* prepareNotifyFunc: the EndsAt of the notification. *)
EndsAt(a) == IF a.resolvedAt # 0 THEN a.resolvedAt ELSE a.validUntil

-----------------------------------------------------------------------------
Init ==
    /\ now = Start
    /\ pc = "waiting"
    /\ evalTs = (Start \div Frequency) * Frequency + Frequency
    /\ nextTick = 0
    /\ ticked = FALSE
    /\ active = Empty
    /\ lastData = 0
    /\ handledRestart = FALSE
    /\ saved = Empty
    /\ am = Empty
    /\ readerFaults = 0
    /\ lastGood = 0
    /\ latest = Empty
    /\ onset = Empty
    /\ orphans = {}
    /\ dataSeen = 0
    /\ again = {}

(* The slot that the task goroutine should be at. *)
Due == IF pc = "idle" THEN evalTs + Frequency ELSE evalTs

(* Time passes; the task goroutine is at most MaxLag late.  The ticker     *)
(* fires at its own times: a tick that finds another waiting is lost.      *)
Advance ==
    /\ now < MaxTime
    /\ (pc = "idle" /\ ~ ticked) \/ now + 1 - Due <= MaxLag
    /\ now' = now + 1
    /\ IF pc # "waiting" /\ now + 1 >= nextTick
       THEN ticked' = TRUE /\ nextTick' = nextTick + Frequency
       ELSE UNCHANGED ticker
    /\ UNCHANGED <<pc, evalTs, active, lastData, handledRestart, saved, am, aux>>

(* The first evaluation, after the initial wait, when the ticker is made;  *)
(* or the one for which a tick is taken from the ticker's channel, however *)
(* long it waited there.  A planned maintenance or a pause skips it.       *)
Tick(skip) ==
    /\ \/ /\ pc = "waiting"
          /\ now >= evalTs
          /\ nextTick' = now + Frequency
          /\ UNCHANGED <<evalTs, again>>
       \/ /\ pc = "idle"
          /\ ticked
          /\ evalTs' = NextEvalTs
          /\ again' = again \cup ({evalTs} \cap {NextEvalTs})
          /\ UNCHANGED nextTick
    /\ ticked' = FALSE
    /\ pc' = IF skip THEN "idle" ELSE "query"
    /\ UNCHANGED <<now, active, lastData, handledRestart, saved, am, readerFaults,
                   lastGood, latest, onset, orphans, dataSeen>>

(* Eval returns an error: the query fails, or (once the data is seen) two  *)
(* samples have the same labels.                                           *)
EvalFails(duplicate) ==
    /\ pc = "query"
    /\ pc' = "idle"
    /\ lastData' = IF duplicate THEN now ELSE lastData
    /\ dataSeen' = IF duplicate THEN now ELSE dataSeen
    /\ UNCHANGED <<now, evalTs, ticker, active, handledRestart, saved, am,
                   readerFaults, lastGood, latest, onset, orphans, again>>

(* Eval: the query returned series, of which those in alerting satisfy     *)
(* ShouldAlert.                                                            *)
Evaluate(hasData, alerting) ==
    LET seen == IF hasData THEN now ELSE lastData
        res == ResultVector(seen, alerting)
    IN /\ pc = "query"
       /\ alerting # {} => hasData
       /\ lastData' = seen
       /\ dataSeen' = IF hasData THEN now ELSE dataSeen
       /\ active' = ActiveAfter(active, res, evalTs)
       /\ \E items \in ItemMaps(active, res, evalTs) : RecordRuleStateHistory(items)
       /\ pc' = "send"
       /\ onset' = [k \in res |-> IF k \in DOMAIN onset THEN onset[k] ELSE evalTs]
       /\ UNCHANGED <<now, evalTs, ticker, am, lastGood, orphans, again>>

SendAlerts ==
    LET due == {k \in DOMAIN active : NeedsSending(active[k], evalTs)}
    IN /\ pc = "send"
       /\ pc' = "idle"
       /\ active' = [k \in DOMAIN active |->
                       IF k \in due THEN Sent(active[k], evalTs) ELSE active[k]]
       /\ am' = [k \in DOMAIN am \cup due |->
                   IF k \in due THEN EndsAt(Sent(active[k], evalTs)) ELSE am[k]]
       /\ lastGood' = evalTs
       /\ orphans' = orphans \ due
       /\ UNCHANGED <<now, evalTs, ticker, lastData, handledRestart, saved,
                      readerFaults, latest, onset, dataSeen, again>>

(* A new task: Run waits for its first slot. *)
NewTask ==
    /\ pc' = "waiting"
    /\ evalTs' = NextSlot
    /\ nextTick' = 0
    /\ ticked' = FALSE

(* The process stops at any point and starts again, or the rule is         *)
(* disabled and enabled: a new task around a rule with no memory.          *)
Restart ==
    /\ NewTask
    /\ active' = Empty
    /\ lastData' = 0
    /\ handledRestart' = FALSE
    /\ onset' = Empty
    /\ orphans' = orphans \cup DOMAIN am
    /\ UNCHANGED <<now, saved, am, readerFaults, lastGood, latest, dataSeen, again>>

(* The rule is edited (Manager.editTask): the old task ends its iteration, *)
(* and CopyState hands its alerts to the new rule if the name and the      *)
(* labels are the same.  Otherwise the alerts get other labels: what was   *)
(* handed over under the old ones is no longer in am.                      *)
Edit(sameLabels) ==
    /\ pc \in {"waiting", "idle"}
    /\ NewTask
    /\ lastData' = 0
    /\ IF sameLabels
       THEN UNCHANGED <<active, handledRestart, onset, am, orphans>>
       ELSE /\ active' = Empty
            /\ handledRestart' = FALSE
            /\ onset' = Empty
            /\ am' = Empty
            /\ orphans' = {}
    /\ UNCHANGED <<now, saved, readerFaults, lastGood, latest, dataSeen, again>>

Next ==
    \/ Advance
    \/ \E skip \in BOOLEAN : Tick(skip)
    \/ \E duplicate \in BOOLEAN : EvalFails(duplicate)
    \/ \E hasData \in BOOLEAN, alerting \in SUBSET Series : Evaluate(hasData, alerting)
    \/ SendAlerts
    \/ Restart
    \/ \E sameLabels \in BOOLEAN : Edit(sameLabels)

Spec == Init /\ [][Next]_vars

-----------------------------------------------------------------------------
TypeOK ==
    /\ now \in Nat
    /\ pc \in {"waiting", "idle", "query", "send"}
    /\ evalTs \in Nat
    /\ nextTick \in Nat
    /\ ticked \in BOOLEAN
    /\ DOMAIN active \subseteq Keys
    /\ \A k \in DOMAIN active : active[k] \in Alert
    /\ lastData \in Nat
    /\ handledRestart \in BOOLEAN
    /\ DOMAIN saved \subseteq Labels
    /\ \A f \in DOMAIN saved : saved[f] \in Row
    /\ DOMAIN am \subseteq Keys
    /\ \A k \in DOMAIN am : am[k] \in Nat
    /\ readerFaults \in Nat
    /\ lastGood \in Nat
    /\ \A f \in DOMAIN latest : latest[f] \in HistoryStates
    /\ \A k \in DOMAIN onset : onset[k] \in Nat
    /\ orphans \subseteq Keys
    /\ dataSeen \in Nat
    /\ again \subseteq Nat

(* SendAlerts refreshes every firing alert often enough: when an           *)
(* evaluation has ended, Alertmanager holds each firing alert until at     *)
(* least three (longest) intervals after it, so missed slots, failed       *)
(* queries or a short maintenance do not make it resolve by itself.        *)
KeptAlive ==
    pc # "send" =>
        \A k \in DOMAIN active :
            active[k].state = "firing" =>
                k \in DOMAIN am /\ am[k] >= lastGood + 3 * Delta

(* An alert that resolved in the second evaluation of the slot in which it *)
(* was last sent: needsSending sees no resolution after LastSentAt, and    *)
(* the alert waits for the resend delay.                                   *)
ToldLate(k) ==
    /\ k \in DOMAIN active
    /\ active[k].state = "inactive"
    /\ active[k].resolvedAt = active[k].lastSentAt
    /\ am[k] = active[k].lastSentAt + 4 * Delta
    /\ active[k].lastSentAt + ResendDelay >= lastGood

SentAgain(k) ==
    /\ am[k] - 4 * Delta \in again
    /\ Retention >= 4 * Delta /\ HoldDuration = 0 => ToldLate(k)

(* An alert that Alertmanager was told lasts beyond the last evaluation is *)
(* firing in memory: its resolution was sent before Eval forgot it.  Alerts *)
(* whose rule lost its memory (Restart) are excepted.  If the alert was     *)
(* last sent in a slot that a late tick made Run evaluate again, the        *)
(* resolution may come up to the resend delay later; and if Eval forgets    *)
(* alerts sooner than Alertmanager, it may never come.                      *)
NoStaleFiring ==
    pc # "send" =>
        \A k \in DOMAIN am \ orphans :
            am[k] > lastGood =>
                \/ k \in DOMAIN active /\ active[k].state = "firing"
                \/ SentAgain(k)

(* StartsAt is the onset: a live alert goes back to the first evaluation   *)
(* since which every evaluation that succeeded returned its series, over   *)
(* failed evaluations, skipped slots and edits of the rule.                *)
SinceOnset ==
    \A k \in DOMAIN active :
        active[k].state # "inactive" =>
            /\ k \in DOMAIN onset
            /\ active[k].activeAt = onset[k]
            /\ active[k].state = "firing" =>
                   active[k].firedAt - active[k].activeAt >= HoldDuration

(* Run evaluates slots in order and none in the future; at a tick it is    *)
(* the latest slot, and no slot is turned to a third time, whatever ticks  *)
(* are late or lost and however often the rule is restarted or edited.     *)
SlotsInOrder ==
    [][pc # "query" /\ pc' = "query" =>
          /\ lastGood <= evalTs' /\ evalTs' <= now
          /\ pc = "idle" => now < evalTs' + Frequency
          /\ evalTs' \notin again]_vars

(* rule_task.go:122: "the ticks will trigger soon after each evalTimestamp *)
(* + N * g.frequency": no slot is evaluated twice.  A slow evaluation      *)
(* makes it otherwise.                                                     *)
SlotsOnce == [][pc # "query" /\ pc' = "query" => lastGood < evalTs']_vars

(* What makes KeptAlive, NoStaleFiring and SlotsInOrder inductive.         *)
ClockInv ==
    /\ now >= Start
    /\ lastGood <= now
    /\ evalTs >= Start
    /\ pc # "waiting" =>
          /\ evalTs <= now
          /\ now < nextTick /\ nextTick <= now + Frequency
          /\ ticked => nextTick >= evalTs + Frequency
          /\ evalTs \in again =>
                nextTick >= evalTs + Frequency /\ (ticked => now >= evalTs + Frequency)
    /\ pc = "waiting" => ~ ticked /\ lastGood < evalTs /\ evalTs \notin again
    /\ lastGood <= evalTs
    /\ pc \in {"query", "send"} /\ evalTs = lastGood => evalTs \in again
    /\ \A ts \in again : ts <= now /\ ts <= evalTs

AlertInv(k, a) ==
    /\ a.lastSentAt <= lastGood
    /\ a.state = "pending" => a.lastSentAt = 0 /\ a.resolvedAt = 0
    /\ a.state = "firing" =>
          /\ a.resolvedAt = 0
          /\ a.lastSentAt # 0 => k \in DOMAIN am /\ am[k] = a.lastSentAt + 4 * Delta
          /\ pc # "send" => a.lastSentAt # 0 /\ a.lastSentAt + ResendDelay >= lastGood
    /\ a.state = "inactive" =>
          /\ a.resolvedAt # 0
          /\ a.resolvedAt <= IF pc = "send" THEN evalTs ELSE lastGood

ToldInv(k) ==
    \/ am[k] <= IF pc = "send" THEN evalTs ELSE lastGood
    \/ k \in DOMAIN active /\ active[k].state = "firing"
    \/ SentAgain(k)
    \/ /\ pc = "send"
       /\ k \in DOMAIN active
       /\ active[k].state = "inactive"
       /\ active[k].resolvedAt > active[k].lastSentAt

RuleInv ==
    /\ ClockInv
    /\ \A k \in DOMAIN active : AlertInv(k, active[k])
    /\ \A k \in DOMAIN am \ orphans : ToldInv(k)

IsFiring(alerts, f) ==
    \E k \in DOMAIN alerts : k.labels = f /\ alerts[k].state = "firing"

(* The rows last written to the history tell what fires: once the first    *)
(* evaluation after a restart has merged the two, a fingerprint's last row *)
(* is firing or nodata exactly when an alert with it is firing.            *)
HistoryAgrees ==
    handledRestart =>
        \A f \in DOMAIN latest \cup {k.labels : k \in DOMAIN active} :
            IsFiring(active, f) <=> f \in DOMAIN latest /\ IsAlerting(latest[f])

(* base_rule.go: "if there is a change in the overall state, update the    *)
(* overall state": the rows of an evaluation carry the rule's state.  The   *)
(* first evaluation after a restart does otherwise.                         *)
RowsCarryOverallState ==
    [][\A f \in DOMAIN saved' :
          (f \in DOMAIN saved => saved[f] # saved'[f]) =>
              saved'[f].overall = StateOf(active')]_vars

(* threshold_rule.go: "if the data is missing for `For` duration then we   *)
(* should send alert": a no-data alert fires only when no evaluation has   *)
(* seen data for AbsentFor.  After a restart or an edit it is otherwise.   *)
NoDataAfterAbsence ==
    [][\A k \in DOMAIN active' :
          k.missing /\ active'[k].state = "firing" /\ k \notin DOMAIN active
              => dataSeen' + AbsentFor < now]_vars
=============================================================================
