-------------------------- MODULE AlertRule_proofs --------------------------
(* Proofs about AlertRule for any series, delays and bounds.                *)
EXTENDS AlertRule, TLAPS

(* A nondecreasing slot arithmetic: the slot at or before a moment.         *)
LEMMA DivBounds ==
    ASSUME NEW x \in Nat, NEW f \in Nat \ {0}
    PROVE  /\ x \div f \in Nat
           /\ (x \div f) * f <= x
           /\ x < (x \div f) * f + f
  OBVIOUS

LEMMA DeltaBounds ==
    Delta \in Nat /\ Delta >= ResendDelay
  BY RuleAssumption DEF Delta, Max2

LEMMA NewAlertType ==
    ASSUME NEW ts \in Nat
    PROVE  NewAlert(ts) \in Alert
  BY DEF NewAlert, Alert

(* What the two loops of Eval do to one alert. *)
LEMMA ActiveAfterAlert ==
    ASSUME NEW alerts, NEW res, NEW ts \in Nat,
           NEW k \in DOMAIN ActiveAfter(alerts, res, ts)
    PROVE  /\ k \in DOMAIN alerts \cup res
           /\ ActiveAfter(alerts, res, ts)[k] =
                Stepped(k, Upserted(alerts, res, ts)[k], res, ts)
  BY DEF ActiveAfter, Upserted

LEMMA UpsertedType ==
    ASSUME NEW alerts, NEW res, NEW ts \in Nat,
           \A k \in DOMAIN alerts : alerts[k] \in Alert
    PROVE  \A k \in DOMAIN Upserted(alerts, res, ts) :
              Upserted(alerts, res, ts)[k] \in Alert
  BY NewAlertType DEF Upserted

LEMMA SteppedType ==
    ASSUME NEW a \in Alert, NEW k, NEW res, NEW ts \in Nat
    PROVE  Stepped(k, a, res, ts) \in Alert
  BY DEF Stepped, Resolved, Fired, Alert

LEMMA ActiveAfterType ==
    ASSUME NEW alerts, NEW res, NEW ts \in Nat,
           DOMAIN alerts \subseteq Keys, res \subseteq Keys,
           \A k \in DOMAIN alerts : alerts[k] \in Alert
    PROVE  /\ DOMAIN ActiveAfter(alerts, res, ts) \subseteq Keys
           /\ \A k \in DOMAIN ActiveAfter(alerts, res, ts) :
                 ActiveAfter(alerts, res, ts)[k] \in Alert
  <1>1. DOMAIN ActiveAfter(alerts, res, ts) \subseteq Keys
    BY ActiveAfterAlert
  <1>2. ASSUME NEW k \in DOMAIN ActiveAfter(alerts, res, ts)
        PROVE  ActiveAfter(alerts, res, ts)[k] \in Alert
    <2>1. Upserted(alerts, res, ts)[k] \in Alert
      <3>1. k \in DOMAIN Upserted(alerts, res, ts)
        BY <1>2, ActiveAfterAlert DEF Upserted
      <3>2. QED
        BY <3>1, UpsertedType
    <2>2. QED
      BY <1>2, <2>1, ActiveAfterAlert, SteppedType
  <1>3. QED
    BY <1>1, <1>2

LEMMA SentType ==
    ASSUME NEW a \in Alert, NEW ts \in Nat
    PROVE  /\ Sent(a, ts) \in Alert
           /\ Sent(a, ts).state = a.state /\ Sent(a, ts).resolvedAt = a.resolvedAt
           /\ Sent(a, ts).lastSentAt = ts /\ Sent(a, ts).validUntil = ts + 4 * Delta
           /\ EndsAt(Sent(a, ts)) \in Nat
  <1>1. ts + 4 * Delta \in Nat
    BY DeltaBounds
  <1>2. Sent(a, ts) \in Alert
    BY <1>1 DEF Sent, Alert
  <1>3. EndsAt(Sent(a, ts)) \in Nat
    BY <1>2 DEF EndsAt, Alert
  <1>4. QED
    BY <1>2, <1>3 DEF Sent, Alert

LEMMA StateOfType ==
    ASSUME NEW alerts
    PROVE  StateOf(alerts) \in {"inactive", "pending", "firing"}
  BY DEF StateOf

(* itemsToAdd are well-formed rows whatever order the map iterates in. *)
LEMMA ItemsType ==
    ASSUME NEW alerts, NEW res, NEW ts \in Nat,
           DOMAIN alerts \subseteq Keys, res \subseteq Keys,
           NEW items \in ItemMaps(alerts, res, ts)
    PROVE  /\ DOMAIN items \subseteq Labels
           /\ \A f \in DOMAIN items : items[f] \in Row
  <1> DEFINE keys == Changed(alerts, res, ts)
             overall == StateOf(ActiveAfter(alerts, res, ts))
             fps == {k.labels : k \in keys}
  <1>1. keys \subseteq Keys
    BY DEF Changed, Upserted
  <1>2. fps \subseteq Labels
    BY <1>1 DEF Keys
  <1>3. overall \in {"inactive", "pending", "firing"}
    BY StateOfType
  <1>4. PICK pick \in [fps -> keys] :
          items = [f \in fps |-> [state |-> ItemState(pick[f], res), unix |-> ts,
                                  overall |-> overall]]
    BY DEF ItemMaps
  <1>5. \A f \in fps : ItemState(pick[f], res) \in HistoryStates
    BY DEF ItemState, HistoryStates
  <1> HIDE DEF keys, overall, fps
  <1>6. QED
    BY <1>2, <1>3, <1>4, <1>5 DEF Row

SavedType(rows) ==
    /\ DOMAIN rows \subseteq Labels
    /\ \A f \in DOMAIN rows : rows[f] \in Row

LEMMA RestartRowsType ==
    ASSUME NEW items, NEW first, SavedType(saved), SavedType(items), now \in Nat
    PROVE  SavedType(RestartRows(items, first))
  <1>1. SavedType(MergedWithSaved(items))
    BY DEF SavedType, MergedWithSaved, Row, HistoryStates
  <1>2. \A rows : NewOverall(rows) \in {"inactive", "pending", "firing"}
    BY DEF NewOverall
  <1>3. QED
    BY <1>1, <1>2 DEF SavedType, RestartRows, Row

LatestType(states) == \A f \in DOMAIN states : states[f] \in HistoryStates

(* What is read back is a row inserted or saved before; of a row inserted  *)
(* and an older one, the row inserted.                                     *)
LEMMA InsertFacts ==
    ASSUME NEW rows, Insert(rows)
    PROVE  /\ DOMAIN saved' = DOMAIN saved \cup DOMAIN rows
           /\ \A f \in DOMAIN saved' :
                 \/ f \in DOMAIN rows /\ saved'[f] = rows[f]
                 \/ f \in DOMAIN saved /\ saved'[f] = saved[f]
           /\ \A f \in DOMAIN saved' : f \notin DOMAIN rows => saved'[f] = saved[f]
           /\ \A f \in DOMAIN rows :
                 (f \in DOMAIN saved =>
                     rows[f].unix # saved[f].unix /\ rows[f].unix >= saved[f].unix)
                   => saved'[f] = rows[f]
  <1>1. PICK older \in SUBSET {f \in DOMAIN saved \cap DOMAIN rows :
                                 rows[f].unix = saved[f].unix} :
           saved' = [f \in DOMAIN saved \cup DOMAIN rows |->
                      IF /\ f \in DOMAIN rows \ older
                         /\ f \in DOMAIN saved => rows[f].unix >= saved[f].unix
                      THEN rows[f]
                      ELSE saved[f]]
    BY DEF Insert
  <1>2. QED
    BY <1>1

LEMMA InsertType ==
    ASSUME NEW rows, SavedType(saved), SavedType(rows), LatestType(latest), Insert(rows)
    PROVE  SavedType(saved') /\ LatestType(latest')
  <1>1. SavedType(saved')
    BY InsertFacts DEF SavedType
  <1>2. LatestType(latest')
    BY DEF SavedType, LatestType, Insert, Row
  <1>3. QED
    BY <1>1, <1>2

LEMMA RecordType ==
    ASSUME TypeOK, NEW items, SavedType(items), RecordRuleStateHistory(items)
    PROVE  /\ SavedType(saved') /\ LatestType(latest')
           /\ handledRestart' \in BOOLEAN /\ readerFaults' \in Nat
  <1>1. SavedType(saved) /\ LatestType(latest)
    BY DEF TypeOK, SavedType, LatestType
  <1>2. CASE ReaderFails /\ UNCHANGED handledRestart
    BY <1>1, <1>2 DEF ReaderFails, TypeOK, SavedType, LatestType
  <1>3. CASE ReaderFails /\ handledRestart' = TRUE
    BY <1>1, <1>3 DEF ReaderFails, TypeOK, SavedType, LatestType
  <1>4. ASSUME NEW first, handledRestart' = TRUE, UNCHANGED readerFaults,
               Insert(RestartRows(items, first))
        PROVE  /\ SavedType(saved') /\ LatestType(latest')
               /\ handledRestart' \in BOOLEAN /\ readerFaults' \in Nat
    <2>1. SavedType(RestartRows(items, first))
      BY <1>1, RestartRowsType DEF TypeOK
    <2>2. QED
      BY <1>1, <1>4, <2>1, InsertType DEF TypeOK
  <1>5. CASE handledRestart' = TRUE /\ UNCHANGED readerFaults /\ Insert(items)
    BY <1>1, <1>5, InsertType DEF TypeOK
  <1>6. QED
    BY <1>2, <1>3, <1>4, <1>5 DEF RecordRuleStateHistory

LEMMA ResultVectorType ==
    ASSUME NEW seen \in Nat, NEW alerting \in SUBSET Series
    PROVE  ResultVector(seen, alerting) \subseteq Keys
  <1>1. seen \in Labels /\ \A s \in alerting : s \in Labels
    BY DEF Labels
  <1>2. \A m \in BOOLEAN, l \in Labels : [missing |-> m, labels |-> l] \in Keys
    BY DEF Keys
  <1>3. QED
    BY <1>1, <1>2 DEF ResultVector

LEMMA SlotTypes ==
    ASSUME now \in Nat, evalTs \in Nat
    PROVE  /\ NextSlot \in Nat /\ NextSlot > now
           /\ now >= evalTs =>
                /\ NextEvalTs \in Nat /\ NextEvalTs >= evalTs
                /\ NextEvalTs <= now /\ now < NextEvalTs + Frequency
  <1>1. NextSlot \in Nat /\ NextSlot > now
    BY RuleAssumption, DivBounds DEF NextSlot
  <1>2. ASSUME now >= evalTs
        PROVE  /\ NextEvalTs \in Nat /\ NextEvalTs >= evalTs
               /\ NextEvalTs <= now /\ now < NextEvalTs + Frequency
    <2> DEFINE q == (now - evalTs) \div Frequency
    <2>1. q \in Nat /\ q * Frequency <= now - evalTs /\ now - evalTs < q * Frequency + Frequency
      BY <1>2, RuleAssumption, DivBounds
    <2>2. NextEvalTs = evalTs + q * Frequency
      <3>1. (q - 1) + 1 = q
        BY <2>1
      <3>2. QED
        BY <3>1 DEF NextEvalTs
    <2>3. q * Frequency \in Nat
      BY <2>1, RuleAssumption
    <2> HIDE DEF q
    <2>4. QED
      BY <1>2, <2>1, <2>2, <2>3, RuleAssumption
  <1>3. QED
    BY <1>1, <1>2

-----------------------------------------------------------------------------
LEMMA InitType == Init => TypeOK
  <1> SUFFICES ASSUME Init PROVE TypeOK
    OBVIOUS
  <1>1. evalTs \in Nat /\ now \in Nat
    BY RuleAssumption, DivBounds DEF Init
  <1>2. DOMAIN Empty = {}
    BY DEF Empty
  <1>3. QED
    BY <1>1, <1>2 DEF Init, TypeOK

(* The slot of a tick is a number because the clock is past the slot before. *)
LEMMA TypeStep == TypeOK /\ RuleInv /\ [Next]_vars => TypeOK'
  <1> SUFFICES ASSUME TypeOK, RuleInv, [Next]_vars
               PROVE  TypeOK'
    OBVIOUS
  <1>1. CASE Advance
    <2>1. nextTick' \in Nat /\ now' \in Nat
      BY <1>1, RuleAssumption DEF Advance, ticker, TypeOK
    <2>2. ticked' \in BOOLEAN
      <3>1. ticked' = TRUE \/ ticked' = ticked
        BY <1>1 DEF Advance, ticker
      <3>2. QED
        BY <3>1, Zenon DEF TypeOK
    <2>3. UNCHANGED <<pc, evalTs, active, lastData, handledRestart, saved, am, aux>>
      BY <1>1 DEF Advance
    <2>4. QED
      BY <2>1, <2>2, <2>3 DEF aux, TypeOK
  <1>2. ASSUME NEW skip \in BOOLEAN, Tick(skip)
        PROVE  TypeOK'
    <2>1. evalTs' \in Nat
      BY <1>2, SlotTypes DEF Tick, TypeOK, RuleInv, ClockInv
    <2>2. nextTick' \in Nat /\ ticked' = FALSE
      BY <1>2, RuleAssumption DEF Tick, TypeOK
    <2>3. again' \subseteq Nat
      BY <1>2 DEF Tick, TypeOK
    <2>4. QED
      BY <1>2, <2>1, <2>2, <2>3 DEF Tick, TypeOK
  <1>3. ASSUME NEW duplicate \in BOOLEAN, EvalFails(duplicate)
        PROVE  TypeOK'
    BY <1>3 DEF EvalFails, ticker, TypeOK
  <1>4. ASSUME NEW hasData \in BOOLEAN, NEW alerting \in SUBSET Series,
               Evaluate(hasData, alerting)
        PROVE  TypeOK'
    <2> DEFINE seen == IF hasData THEN now ELSE lastData
               res == ResultVector(seen, alerting)
    <2>1. seen \in Nat
      BY DEF TypeOK
    <2>2. res \subseteq Keys
      BY <2>1, ResultVectorType
    <2>3. /\ DOMAIN active' \subseteq Keys
          /\ \A k \in DOMAIN active' : active'[k] \in Alert
      <3>1. active' = ActiveAfter(active, res, evalTs)
        BY <1>4 DEF Evaluate
      <3> HIDE DEF res
      <3>2. QED
        BY <2>2, <3>1, ActiveAfterType DEF TypeOK
    <2>4. /\ SavedType(saved') /\ LatestType(latest')
          /\ handledRestart' \in BOOLEAN /\ readerFaults' \in Nat
      <3>1. PICK items \in ItemMaps(active, res, evalTs) : RecordRuleStateHistory(items)
        BY <1>4 DEF Evaluate
      <3>2. SavedType(items)
        <4> HIDE DEF res
        <4>1. QED
          BY <2>2, <3>1, ItemsType DEF TypeOK, SavedType
      <3>3. QED
        BY <3>1, <3>2, RecordType
    <2>5. \A k \in DOMAIN onset' : onset'[k] \in Nat
      <3>1. onset' = [k \in res |-> IF k \in DOMAIN onset THEN onset[k] ELSE evalTs]
        BY <1>4 DEF Evaluate
      <3> HIDE DEF res
      <3>2. QED
        BY <3>1 DEF TypeOK
    <2>6. /\ lastData' \in Nat /\ dataSeen' \in Nat /\ pc' = "send"
          /\ UNCHANGED <<now, evalTs, nextTick, ticked, am, lastGood, orphans, again>>
      BY <1>4, <2>1 DEF Evaluate, ticker, TypeOK
    <2>7. QED
      BY <2>3, <2>4, <2>5, <2>6 DEF TypeOK, SavedType, LatestType
  <1>5. CASE SendAlerts
    <2> DEFINE due == {k \in DOMAIN active : NeedsSending(active[k], evalTs)}
    <2>1. \A k \in DOMAIN active :
             /\ Sent(active[k], evalTs) \in Alert
             /\ EndsAt(Sent(active[k], evalTs)) \in Nat
      BY SentType DEF TypeOK
    <2>2. /\ DOMAIN active' \subseteq Keys
          /\ \A k \in DOMAIN active' : active'[k] \in Alert
      BY <1>5, <2>1 DEF SendAlerts, TypeOK
    <2>3. /\ DOMAIN am' \subseteq Keys
          /\ \A k \in DOMAIN am' : am'[k] \in Nat
      <3>1. am' = [k \in DOMAIN am \cup due |->
                     IF k \in due THEN EndsAt(Sent(active[k], evalTs)) ELSE am[k]]
        BY <1>5 DEF SendAlerts
      <3>2. due \subseteq DOMAIN active
        OBVIOUS
      <3> HIDE DEF due
      <3>3. QED
        BY <2>1, <3>1, <3>2 DEF TypeOK
    <2>4. orphans' \subseteq Keys
      BY <1>5 DEF SendAlerts, TypeOK
    <2>5. QED
      BY <1>5, <2>2, <2>3, <2>4 DEF SendAlerts, ticker, TypeOK
  <1>6. CASE Restart
    BY <1>6, SlotTypes DEF Restart, NewTask, TypeOK, Empty
  <1>7. ASSUME NEW sameLabels \in BOOLEAN, Edit(sameLabels)
        PROVE  TypeOK'
    BY <1>7, SlotTypes DEF Edit, NewTask, TypeOK, Empty
  <1>8. CASE UNCHANGED vars
    BY <1>8 DEF vars, TypeOK
  <1>9. QED
    BY <1>1, <1>2, <1>3, <1>4, <1>5, <1>6, <1>7, <1>8 DEF Next

-----------------------------------------------------------------------------
LEMMA InitInv == Init => RuleInv
  <1> SUFFICES ASSUME Init PROVE RuleInv
    OBVIOUS
  <1>1. evalTs > Start
    BY RuleAssumption, DivBounds DEF Init
  <1>2. DOMAIN active = {} /\ DOMAIN am = {}
    BY DEF Init, Empty
  <1>3. ClockInv
    BY <1>1, RuleAssumption DEF Init, ClockInv
  <1>4. QED
    BY <1>2, <1>3 DEF RuleInv

(* Facts about one alert's turn in Eval that the invariant needs. *)
LEMMA SteppedFacts ==
    ASSUME NEW a \in Alert, NEW k, NEW res, NEW ts \in Nat
    PROVE  LET b == Stepped(k, a, res, ts) IN
           /\ b.lastSentAt = a.lastSentAt
           /\ b.state = "pending" => a.state = "pending" /\ b.resolvedAt = a.resolvedAt
           /\ b.state = "firing" => a.state # "inactive" /\ b.resolvedAt = a.resolvedAt
           /\ b.state = "inactive" => b.resolvedAt = a.resolvedAt \/ b.resolvedAt = ts
           /\ b.state = "inactive" /\ a.state = "inactive" => b.resolvedAt = a.resolvedAt
           /\ a.state = "firing" /\ k \in res => b.state = "firing"
           /\ a.state = "firing" /\ k \notin res => b.state = "inactive" /\ b.resolvedAt = ts
           /\ a.state # "inactive" /\ b.state = "inactive" => b.resolvedAt = ts
  BY DEF Stepped, Resolved, Fired, Alert

LEMMA UpsertedFacts ==
    ASSUME NEW alerts, NEW res, NEW ts \in Nat,
           NEW k \in DOMAIN alerts \cup res
    PROVE  \/ k \in DOMAIN alerts /\ Upserted(alerts, res, ts)[k] = alerts[k]
           \/ /\ Upserted(alerts, res, ts)[k] = NewAlert(ts)
              /\ k \in DOMAIN alerts => alerts[k].state = "inactive"
              /\ k \in res
  BY DEF Upserted

LEMMA EvaluateClock ==
    ASSUME TypeOK, RuleInv, NEW hasData \in BOOLEAN, NEW alerting \in SUBSET Series,
           Evaluate(hasData, alerting)
    PROVE  ClockInv'
  BY DEF Evaluate, ticker, ClockInv, RuleInv, TypeOK

LEMMA EvaluateAlerts ==
    ASSUME TypeOK, RuleInv, NEW hasData \in BOOLEAN, NEW alerting \in SUBSET Series,
           Evaluate(hasData, alerting), NEW k \in DOMAIN active'
    PROVE  AlertInv(k, active[k])'
  <1> DEFINE res == ResultVector(IF hasData THEN now ELSE lastData, alerting)
             up == Upserted(active, res, evalTs)[k]
  <1>1. active' = ActiveAfter(active, res, evalTs)
    BY DEF Evaluate
  <1>2. /\ evalTs \in Nat /\ evalTs # 0 /\ lastGood \in Nat /\ lastGood <= evalTs
        /\ \A x \in DOMAIN active : active[x] \in Alert
    BY RuleAssumption DEF TypeOK, RuleInv, ClockInv, Evaluate
  <1>3. /\ UNCHANGED <<evalTs, lastGood, am>> /\ pc = "query" /\ pc' = "send"
    BY DEF Evaluate
  <1> HIDE DEF res
  <1>4. k \in DOMAIN active \cup res /\ active'[k] = Stepped(k, up, res, evalTs)
    BY <1>1, <1>2, ActiveAfterAlert
  <1>5. CASE k \in DOMAIN active /\ up = active[k]
    <2>1. up \in Alert /\ AlertInv(k, up)
      BY <1>2, <1>5 DEF RuleInv
    <2> HIDE DEF up
    <2>2. Stepped(k, up, res, evalTs) \in Alert
      BY <1>2, <2>1, SteppedType
    <2>3. QED
      BY <1>2, <1>3, <1>4, <2>1, <2>2, SteppedFacts, DeltaBounds DEF AlertInv, Alert
  <1>6. CASE up = NewAlert(evalTs)
    <2>1. /\ up \in Alert /\ up.state = "pending"
          /\ up.lastSentAt = 0 /\ up.resolvedAt = 0
      BY <1>2, <1>6, NewAlertType DEF NewAlert
    <2> HIDE DEF up
    <2>2. Stepped(k, up, res, evalTs) \in Alert
      BY <1>2, <2>1, SteppedType
    <2>3. QED
      BY <1>2, <1>3, <1>4, <2>1, <2>2, SteppedFacts DEF AlertInv, Alert
  <1>7. QED
    BY <1>2, <1>4, <1>5, <1>6, UpsertedFacts

(* A firing alert that leaves the result stays in Active, to be resolved. *)
LEMMA FiringStays ==
    ASSUME NEW alerts, NEW res, NEW ts \in Nat, NEW k \in DOMAIN alerts,
           alerts[k] \in Alert, alerts[k].state = "firing", alerts[k].resolvedAt = 0
    PROVE  /\ k \in DOMAIN ActiveAfter(alerts, res, ts)
           /\ ActiveAfter(alerts, res, ts)[k] = Stepped(k, alerts[k], res, ts)
  <1>1. Upserted(alerts, res, ts)[k] = alerts[k] /\ k \in DOMAIN Upserted(alerts, res, ts)
    BY DEF Upserted
  <1>2. ~ Dropped(alerts[k], ts)
    BY DEF Dropped
  <1>3. QED
    BY <1>1, <1>2 DEF ActiveAfter

(* An alert whose resolution is still to be told stays so, fires again, or *)
(* is forgotten after it has ended for Alertmanager.                       *)
LEMMA LateStays ==
    ASSUME NEW res, NEW k \in DOMAIN am, evalTs \in Nat, am[k] \in Nat,
           \A x \in DOMAIN active : active[x] \in Alert,
           active' = ActiveAfter(active, res, evalTs),
           UNCHANGED <<evalTs, lastGood, am, orphans, again>>, pc' = "send",
           SentAgain(k), Retention >= 4 * Delta, HoldDuration = 0
    PROVE  ToldInv(k)'
  <1>1. /\ k \in DOMAIN active /\ active[k] \in Alert /\ active[k].state = "inactive"
        /\ active[k].resolvedAt = active[k].lastSentAt
        /\ am[k] = active[k].lastSentAt + 4 * Delta
    BY DEF SentAgain, ToldLate
  <1>2. CASE k \in res
    <2>1. Upserted(active, res, evalTs)[k] = NewAlert(evalTs)
      BY <1>1, <1>2 DEF Upserted
    <2>2. k \in DOMAIN active' /\ active'[k] = Stepped(k, NewAlert(evalTs), res, evalTs)
      BY <1>1, <1>2, <2>1 DEF ActiveAfter, Upserted
    <2>3. Stepped(k, NewAlert(evalTs), res, evalTs).state = "firing"
      BY <1>2 DEF Stepped, NewAlert, Fired
    <2>4. QED
      BY <2>2, <2>3 DEF ToldInv
  <1>3. CASE k \notin res
    <2>1. Upserted(active, res, evalTs)[k] = active[k] /\ k \in DOMAIN Upserted(active, res, evalTs)
      BY <1>1, <1>3 DEF Upserted
    <2>2. CASE Dropped(active[k], evalTs)
      <3>1. active[k].lastSentAt \in Nat /\ evalTs - active[k].lastSentAt > Retention
        BY <1>1, <2>2 DEF Dropped, Alert
      <3>2. am[k] <= evalTs
        BY <1>1, <3>1, DeltaBounds, RuleAssumption
      <3>3. QED
        BY <3>2 DEF ToldInv
    <2>3. CASE ~ Dropped(active[k], evalTs)
      <3>1. k \in DOMAIN active' /\ active'[k] = Stepped(k, active[k], res, evalTs)
        BY <2>1, <2>3 DEF ActiveAfter
      <3>2. active'[k] = active[k]
        BY <1>1, <1>3, <3>1 DEF Stepped
      <3>3. SentAgain(k)'
        BY <3>1, <3>2 DEF SentAgain, ToldLate
      <3>4. QED
        BY <3>3 DEF ToldInv
    <2>4. QED
      BY <2>2, <2>3
  <1>4. QED
    BY <1>2, <1>3

LEMMA EvaluateTold ==
    ASSUME TypeOK, RuleInv, NEW hasData \in BOOLEAN, NEW alerting \in SUBSET Series,
           Evaluate(hasData, alerting), NEW k \in DOMAIN am \ orphans
    PROVE  ToldInv(k)'
  <1> DEFINE res == ResultVector(IF hasData THEN now ELSE lastData, alerting)
  <1>1. active' = ActiveAfter(active, res, evalTs)
    BY DEF Evaluate
  <1>2. /\ evalTs \in Nat /\ lastGood \in Nat /\ lastGood <= evalTs /\ am[k] \in Nat
        /\ evalTs = lastGood => evalTs \in again
        /\ \A x \in DOMAIN active : active[x] \in Alert
    BY DEF TypeOK, RuleInv, ClockInv, Evaluate
  <1>3. /\ UNCHANGED <<evalTs, lastGood, am, orphans, again>> /\ pc = "query" /\ pc' = "send"
    BY DEF Evaluate
  <1> HIDE DEF res
  <1>4. ToldInv(k)
    BY DEF RuleInv
  <1>5. CASE am[k] <= lastGood
    BY <1>2, <1>3, <1>5 DEF ToldInv
  <1>6. CASE k \in DOMAIN active /\ active[k].state = "firing"
    <2>1. active[k] \in Alert /\ active[k].resolvedAt = 0 /\ active[k].lastSentAt <= lastGood
      BY <1>2, <1>6 DEF RuleInv, AlertInv
    <2>2. k \in DOMAIN active' /\ active'[k] = Stepped(k, active[k], res, evalTs)
      BY <1>1, <1>2, <1>6, <2>1, FiringStays
    <2>3. /\ active'[k].lastSentAt = active[k].lastSentAt
          /\ \/ active'[k].state = "firing"
             \/ active'[k].state = "inactive" /\ active'[k].resolvedAt = evalTs
      BY <1>2, <1>6, <2>1, <2>2, SteppedFacts
    <2>4. active[k].lastSentAt \in Nat
      BY <2>1 DEF Alert
    <2>5. CASE active'[k].state = "firing" \/ active[k].lastSentAt < evalTs
      BY <1>2, <1>3, <2>1, <2>2, <2>3, <2>4, <2>5 DEF ToldInv
    <2>6. CASE active[k].lastSentAt = evalTs /\ active'[k].state = "inactive"
      <3>1. evalTs = lastGood /\ evalTs \in again /\ evalTs # 0
        BY <1>2, <1>3, <2>1, <2>6, RuleAssumption DEF RuleInv, ClockInv, TypeOK
      <3>2. am[k] = evalTs + 4 * Delta
        BY <1>6, <2>6, <3>1 DEF RuleInv, AlertInv
      <3>3. SentAgain(k)'
        BY <1>2, <1>3, <2>2, <2>3, <2>6, <3>1, <3>2, DeltaBounds, RuleAssumption
           DEF SentAgain, ToldLate
      <3>4. QED
        BY <3>3 DEF ToldInv
    <2>7. QED
      BY <1>2, <2>1, <2>3, <2>4, <2>5, <2>6
  <1>7. CASE SentAgain(k) /\ am[k] > lastGood
    <2>1. CASE ~(Retention >= 4 * Delta /\ HoldDuration = 0)
      BY <1>3, <1>7, <2>1 DEF SentAgain, ToldInv
    <2>2. CASE Retention >= 4 * Delta /\ HoldDuration = 0
      BY <1>1, <1>2, <1>3, <1>7, <2>2, LateStays
    <2>3. QED
      BY <2>1, <2>2
  <1>8. QED
    BY <1>2, <1>3, <1>4, <1>5, <1>6, <1>7 DEF ToldInv

LEMMA SendAlertsInv ==
    ASSUME TypeOK, RuleInv, SendAlerts
    PROVE  RuleInv'
  <1> DEFINE due == {k \in DOMAIN active : NeedsSending(active[k], evalTs)}
  <1>1. /\ evalTs \in Nat /\ evalTs > ResendDelay /\ lastGood \in Nat /\ lastGood <= evalTs
        /\ ResendDelay \in Nat /\ \A k \in DOMAIN active : active[k] \in Alert
    BY RuleAssumption DEF TypeOK, RuleInv, ClockInv, SendAlerts
  <1>2. /\ pc = "send" /\ pc' = "idle" /\ lastGood' = evalTs /\ orphans' = orphans \ due
        /\ UNCHANGED <<now, evalTs>>
        /\ active' = [k \in DOMAIN active |->
                        IF k \in due THEN Sent(active[k], evalTs) ELSE active[k]]
        /\ am' = [k \in DOMAIN am \cup due |->
                    IF k \in due THEN EndsAt(Sent(active[k], evalTs)) ELSE am[k]]
    BY DEF SendAlerts
  <1>3. \A k \in DOMAIN active : k \in due <=> NeedsSending(active[k], evalTs)
    OBVIOUS
  <1>4. due \subseteq DOMAIN active
    OBVIOUS
  <1> HIDE DEF due
  <1>5. ClockInv'
    <2>1. UNCHANGED <<nextTick, ticked, again>>
      BY DEF SendAlerts, ticker
    <2>2. QED
      BY <1>1, <1>2, <2>1 DEF RuleInv, ClockInv, TypeOK
  <1>6. ASSUME NEW k \in DOMAIN active'
        PROVE  AlertInv(k, active[k])'
    <2>1. k \in DOMAIN active /\ active[k] \in Alert /\ AlertInv(k, active[k])
      BY <1>1, <1>2 DEF RuleInv
    <2>2. CASE k \in due
      <3>1. active'[k] = Sent(active[k], evalTs) /\ active[k].state # "pending"
        BY <1>2, <1>3, <2>1, <2>2 DEF NeedsSending
      <3>2. k \in DOMAIN am' /\ am'[k] = EndsAt(Sent(active[k], evalTs))
        BY <1>2, <2>2
      <3>3. /\ active'[k].state = active[k].state
            /\ active'[k].resolvedAt = active[k].resolvedAt
            /\ active'[k].lastSentAt = evalTs
        <4>1. /\ Sent(active[k], evalTs).state = active[k].state
              /\ Sent(active[k], evalTs).resolvedAt = active[k].resolvedAt
              /\ Sent(active[k], evalTs).lastSentAt = evalTs
          BY <1>1, <2>1, SentType
        <4>2. QED
          BY <3>1, <4>1
      <3>4. active[k].state = "firing" => am'[k] = evalTs + 4 * Delta
        <4>1. /\ Sent(active[k], evalTs).resolvedAt = active[k].resolvedAt
              /\ Sent(active[k], evalTs).validUntil = evalTs + 4 * Delta
          BY <1>1, <2>1, SentType
        <4>2. active[k].state = "firing" => active[k].resolvedAt = 0
          BY <2>1 DEF AlertInv
        <4>3. QED
          BY <3>2, <4>1, <4>2 DEF EndsAt
      <3>5. active[k].resolvedAt \in Nat
        BY <2>1 DEF Alert
      <3>6. QED
        BY <1>1, <1>2, <2>1, <3>1, <3>2, <3>3, <3>4, <3>5 DEF AlertInv
    <2>3. CASE k \notin due
      <3>1. /\ active'[k] = active[k]
            /\ k \in DOMAIN am => k \in DOMAIN am' /\ am'[k] = am[k]
        BY <1>2, <2>1, <2>3
      <3>2. ~ NeedsSending(active[k], evalTs)
        BY <1>3, <2>1, <2>3
      <3>3. active[k].lastSentAt \in Nat /\ active[k].resolvedAt \in Nat
        BY <2>1 DEF Alert
      <3>4. active[k].state # "pending" =>
              /\ active[k].resolvedAt <= active[k].lastSentAt
              /\ active[k].lastSentAt + ResendDelay >= evalTs
        BY <1>1, <3>2, <3>3 DEF NeedsSending
      <3>5. QED
        BY <1>1, <1>2, <2>1, <3>1, <3>3, <3>4 DEF AlertInv
    <2>4. QED
      BY <2>2, <2>3
  <1>7. ASSUME NEW k \in (DOMAIN am \ orphans)'
        PROVE  ToldInv(k)'
    <2>1. CASE k \in due
      <3>1. /\ k \in DOMAIN active /\ active[k] \in Alert /\ AlertInv(k, active[k])
            /\ active[k].state # "pending"
        BY <1>1, <1>3, <1>4, <2>1 DEF RuleInv, NeedsSending
      <3>2. /\ am'[k] = EndsAt(Sent(active[k], evalTs))
            /\ k \in DOMAIN active' /\ active'[k] = Sent(active[k], evalTs)
        BY <1>2, <2>1, <3>1
      <3>3. CASE active[k].state = "firing"
        <4>1. active'[k].state = "firing"
          <5>1. Sent(active[k], evalTs).state = active[k].state
            BY <1>1, <3>1, SentType
          <5>2. QED
            BY <3>2, <3>3, <5>1
        <4>2. QED
          BY <3>2, <4>1 DEF ToldInv
      <3>4. CASE active[k].state = "inactive"
        <4>1. am'[k] = active[k].resolvedAt /\ active[k].resolvedAt <= evalTs
          BY <1>1, <1>2, <3>1, <3>2, <3>4, SentType DEF EndsAt, AlertInv
        <4>2. QED
          BY <1>2, <4>1 DEF ToldInv
      <3>5. QED
        BY <3>1, <3>3, <3>4 DEF Alert
    <2>2. CASE k \notin due
      <3>1. k \in DOMAIN am \ orphans /\ am'[k] = am[k] /\ am[k] \in Nat /\ ToldInv(k)
        BY <1>2, <1>7, <2>2 DEF RuleInv, TypeOK
      <3>2. k \in DOMAIN active => k \in DOMAIN active' /\ active'[k] = active[k]
        BY <1>2, <2>2
      <3>3. ~ (k \in DOMAIN active /\ active[k].state = "inactive"
                /\ active[k].resolvedAt > active[k].lastSentAt)
        BY <1>3, <2>2 DEF NeedsSending
      <3>4. ASSUME SentAgain(k)
            PROVE  SentAgain(k)'
        <4>1. CASE Retention >= 4 * Delta /\ HoldDuration = 0
          <5>1. ToldLate(k) /\ active[k].lastSentAt \in Nat
            BY <1>1, <3>4, <4>1 DEF SentAgain, ToldLate, Alert
          <5>2. ~(active[k].lastSentAt + ResendDelay < evalTs)
            BY <1>3, <2>2, <5>1 DEF ToldLate, NeedsSending
          <5>3. ToldLate(k)'
            BY <1>1, <1>2, <3>1, <3>2, <5>1, <5>2 DEF ToldLate
          <5>4. again' = again
            BY DEF SendAlerts
          <5>5. QED
            BY <3>1, <3>4, <5>3, <5>4 DEF SentAgain
        <4>2. CASE ~(Retention >= 4 * Delta /\ HoldDuration = 0)
          <5>1. again' = again
            BY DEF SendAlerts
          <5>2. QED
            BY <3>1, <3>4, <4>2, <5>1 DEF SentAgain
        <4>3. QED
          BY <4>1, <4>2
      <3>5. QED
        BY <1>1, <1>2, <3>1, <3>2, <3>3, <3>4 DEF ToldInv
    <2>3. QED
      BY <2>1, <2>2
  <1>8. QED
    BY <1>5, <1>6, <1>7 DEF RuleInv

LEMMA AdvanceClock ==
    ASSUME TypeOK, RuleInv, Advance
    PROVE  ClockInv'
  <1>1. /\ now \in Nat /\ nextTick \in Nat /\ evalTs \in Nat /\ lastGood \in Nat
        /\ Frequency \in Nat \ {0} /\ Start \in Nat /\ again \subseteq Nat /\ ClockInv
    BY RuleAssumption DEF TypeOK, RuleInv
  <1>2. now' = now + 1 /\ UNCHANGED <<pc, evalTs, lastGood, again>>
    BY DEF Advance, aux
  <1>3. CASE pc # "waiting" /\ now + 1 >= nextTick
    <2>1. ticked' = TRUE /\ nextTick' = nextTick + Frequency
      BY <1>3 DEF Advance
    <2>2. QED
      BY <1>1, <1>2, <1>3, <2>1 DEF ClockInv
  <1>4. CASE ~(pc # "waiting" /\ now + 1 >= nextTick)
    <2>1. UNCHANGED <<ticked, nextTick>>
      BY <1>4 DEF Advance, ticker
    <2>2. QED
      BY <1>1, <1>2, <1>4, <2>1 DEF ClockInv
  <1>5. QED
    BY <1>3, <1>4

LEMMA TickClock ==
    ASSUME TypeOK, RuleInv, NEW skip \in BOOLEAN, Tick(skip)
    PROVE  ClockInv'
  <1>1. /\ now \in Nat /\ nextTick \in Nat /\ evalTs \in Nat /\ lastGood \in Nat
        /\ Frequency \in Nat \ {0} /\ Start \in Nat /\ again \subseteq Nat /\ ClockInv
    BY RuleAssumption DEF TypeOK, RuleInv
  <1>2. /\ ticked' = FALSE /\ pc' \in {"idle", "query"} /\ UNCHANGED <<now, lastGood>>
    BY DEF Tick
  <1>3. CASE pc = "waiting" /\ now >= evalTs /\ nextTick' = now + Frequency
             /\ UNCHANGED <<evalTs, again>>
    BY <1>1, <1>2, <1>3 DEF ClockInv
  <1>4. CASE pc = "idle" /\ ticked /\ evalTs' = NextEvalTs /\ UNCHANGED nextTick
             /\ again' = again \cup ({evalTs} \cap {NextEvalTs})
    <2>1. /\ evalTs' \in Nat /\ evalTs' >= evalTs /\ evalTs' <= now
          /\ now < evalTs' + Frequency
      BY <1>1, <1>4, SlotTypes DEF ClockInv
    <2>2. again' \subseteq again \cup {evalTs} /\ (evalTs' = evalTs => evalTs \in again')
      BY <1>4
    <2>3. /\ lastGood <= evalTs /\ now < nextTick /\ nextTick <= now + Frequency
          /\ nextTick >= evalTs + Frequency /\ \A ts \in again : ts <= now /\ ts <= evalTs
      BY <1>1, <1>4 DEF ClockInv
    <2>4. evalTs' \in again' => evalTs' = evalTs
      BY <1>1, <2>1, <2>2, <2>3
    <2>5. \A ts \in again' : ts <= now /\ ts <= evalTs'
      BY <1>1, <2>1, <2>2, <2>3
    <2>6. evalTs >= Start /\ now >= Start /\ lastGood <= now
      BY <1>1 DEF ClockInv
    <2>7. QED
      BY <1>1, <1>2, <1>4, <2>1, <2>2, <2>3, <2>4, <2>5, <2>6 DEF ClockInv
  <1>5. QED
    BY <1>3, <1>4 DEF Tick

LEMMA NewTaskClock ==
    ASSUME TypeOK, RuleInv, NewTask, UNCHANGED <<now, lastGood, again>>
    PROVE  ClockInv'
  <1>1. /\ now \in Nat /\ lastGood \in Nat /\ Start \in Nat /\ again \subseteq Nat
        /\ ClockInv /\ NextSlot \in Nat /\ NextSlot > now
    BY RuleAssumption, SlotTypes DEF TypeOK, RuleInv
  <1>2. QED
    BY <1>1 DEF NewTask, ClockInv

LEMMA InvStep == TypeOK /\ RuleInv /\ [Next]_vars => RuleInv'
  <1> SUFFICES ASSUME TypeOK, RuleInv, [Next]_vars
               PROVE  RuleInv'
    OBVIOUS
  <1>1. CASE Advance
    <2>1. ClockInv'
      BY <1>1, AdvanceClock
    <2>2. UNCHANGED <<pc, evalTs, active, am, orphans, lastGood, again>>
      BY <1>1 DEF Advance, aux
    <2>3. QED
      BY <2>1, <2>2 DEF RuleInv, AlertInv, ToldInv, SentAgain, ToldLate
  <1>2. ASSUME NEW skip \in BOOLEAN, Tick(skip)
        PROVE  RuleInv'
    <2>1. ClockInv'
      BY <1>2, TickClock
    <2>2. /\ UNCHANGED <<active, am, orphans, lastGood>>
          /\ pc # "send" /\ pc' # "send" /\ again \subseteq again'
      BY <1>2 DEF Tick
    <2>3. QED
      BY <2>1, <2>2 DEF RuleInv, AlertInv, ToldInv, SentAgain, ToldLate
  <1>3. ASSUME NEW duplicate \in BOOLEAN, EvalFails(duplicate)
        PROVE  RuleInv'
    <2>1. ClockInv'
      BY <1>3 DEF EvalFails, ticker, RuleInv, ClockInv, TypeOK
    <2>2. QED
      BY <1>3, <2>1 DEF EvalFails, RuleInv, AlertInv, ToldInv, SentAgain, ToldLate
  <1>4. ASSUME NEW hasData \in BOOLEAN, NEW alerting \in SUBSET Series,
               Evaluate(hasData, alerting)
        PROVE  RuleInv'
    <2>1. UNCHANGED <<am, orphans>>
      BY <1>4 DEF Evaluate
    <2>2. QED
      BY <1>4, <2>1, EvaluateClock, EvaluateAlerts, EvaluateTold DEF RuleInv
  <1>5. CASE SendAlerts
    BY <1>5, SendAlertsInv
  <1>6. CASE Restart
    <2>1. ClockInv'
      BY <1>6, NewTaskClock DEF Restart
    <2>2. DOMAIN active' = {} /\ (DOMAIN am \ orphans)' = {}
      BY <1>6 DEF Restart, Empty
    <2>3. QED
      BY <2>1, <2>2 DEF RuleInv
  <1>7. ASSUME NEW sameLabels \in BOOLEAN, Edit(sameLabels)
        PROVE  RuleInv'
    <2>1. ClockInv'
      BY <1>7, NewTaskClock DEF Edit
    <2>2. CASE sameLabels
      BY <1>7, <2>1, <2>2 DEF Edit, NewTask, RuleInv, AlertInv, ToldInv, SentAgain, ToldLate
    <2>3. CASE ~ sameLabels
      <3>1. DOMAIN active' = {} /\ DOMAIN am' = {}
        BY <1>7, <2>3 DEF Edit, Empty
      <3>2. QED
        BY <2>1, <3>1 DEF RuleInv
    <2>4. QED
      BY <2>2, <2>3
  <1>8. CASE UNCHANGED vars
    BY <1>8 DEF vars, RuleInv, ClockInv, AlertInv, ToldInv, SentAgain, ToldLate
  <1>9. QED
    BY <1>1, <1>2, <1>3, <1>4, <1>5, <1>6, <1>7, <1>8 DEF Next

LEMMA Invariance == Spec => [](TypeOK /\ RuleInv)
  <1>1. Init => TypeOK /\ RuleInv
    BY InitType, InitInv
  <1>2. TypeOK /\ RuleInv /\ [Next]_vars => (TypeOK /\ RuleInv)'
    BY TypeStep, InvStep
  <1>3. QED
    BY <1>1, <1>2, PTL DEF Spec

(* Type correctness of a rule, its task and its history. *)
THEOREM TypeCorrect == Spec => []TypeOK
  <1>1. QED
    BY Invariance, PTL

(* Alertmanager holds every firing alert at this moment, unless the last    *)
(* evaluation that ended is three of the longer intervals ago.              *)
HeldNow ==
    pc # "send" /\ now < lastGood + 3 * Delta =>
        \A k \in DOMAIN active :
            active[k].state = "firing" => k \in DOMAIN am /\ now < am[k]

(* Whatever the query answers and however late the task runs, SendAlerts   *)
(* leaves every firing alert at Alertmanager with an EndsAt at least three *)
(* intervals after the evaluation; so none lapses by the clock until three *)
(* intervals have passed without an evaluation that ended.                 *)
THEOREM KeptAliveAlways == Spec => [](KeptAlive /\ HeldNow)
  <1>0. TypeOK /\ KeptAlive => HeldNow
    <2>1. TypeOK => now \in Nat /\ lastGood \in Nat /\ \A k \in DOMAIN am : am[k] \in Nat
      BY DEF TypeOK
    <2>2. QED
      BY <2>1, DeltaBounds DEF KeptAlive, HeldNow
  <1>1. TypeOK /\ RuleInv => KeptAlive
    <2> SUFFICES ASSUME TypeOK, RuleInv, pc # "send",
                        NEW k \in DOMAIN active, active[k].state = "firing"
                 PROVE  k \in DOMAIN am /\ am[k] >= lastGood + 3 * Delta
      BY DEF KeptAlive
    <2>1. active[k].lastSentAt \in Nat /\ lastGood \in Nat /\ ResendDelay \in Nat
      BY RuleAssumption DEF TypeOK, Alert
    <2>2. /\ k \in DOMAIN am /\ am[k] = active[k].lastSentAt + 4 * Delta
          /\ active[k].lastSentAt + ResendDelay >= lastGood
      BY DEF RuleInv, AlertInv
    <2>3. QED
      BY <2>1, <2>2, DeltaBounds
  <1>2. QED
    BY <1>0, <1>1, Invariance, PTL

(* No alert that Eval has resolved or forgotten is left at Alertmanager as *)
(* firing: its resolution was handed over, unless the rule lost its memory *)
(* or the slot in which it was last sent was evaluated again; then, for    *)
(* the retention and hold duration of the program and intervals up to a    *)
(* quarter of the retention, it is handed over after the resend delay.     *)
THEOREM NoStaleFiringAlways == Spec => []NoStaleFiring
  <1>1. TypeOK /\ RuleInv => NoStaleFiring
    <2>1. \A k \in DOMAIN am : am[k] \in Nat /\ lastGood \in Nat => ~(am[k] > lastGood /\ am[k] <= lastGood)
      OBVIOUS
    <2>2. QED
      BY <2>1 DEF NoStaleFiring, RuleInv, ToldInv, TypeOK
  <1>2. QED
    BY <1>1, Invariance, PTL

(* The task evaluates slots in order, none ahead of the clock nor more     *)
(* than twice, and at a tick the latest, for any frequency, lateness and   *)
(* sequence of edits and restarts: the tick that is taken late was sent    *)
(* after the slot was turned to, so the next is sent in a later slot.      *)
THEOREM SlotsInOrderAlways == Spec => SlotsInOrder
  <1>1. TypeOK /\ RuleInv /\ [Next]_vars =>
          [pc # "query" /\ pc' = "query" =>
              /\ lastGood <= evalTs' /\ evalTs' <= now
              /\ pc = "idle" => now < evalTs' + Frequency
              /\ evalTs' \notin again]_vars
    <2> DEFINE Slot == /\ lastGood <= evalTs' /\ evalTs' <= now
                       /\ pc = "idle" => now < evalTs' + Frequency
                       /\ evalTs' \notin again
    <2> SUFFICES ASSUME TypeOK, RuleInv, [Next]_vars, pc # "query", pc' = "query"
                 PROVE  Slot
      OBVIOUS
    <2>1. CASE Advance
      BY <2>1 DEF Advance
    <2>2. ASSUME NEW skip \in BOOLEAN, Tick(skip)
          PROVE  Slot
      <3>1. /\ now \in Nat /\ evalTs \in Nat /\ lastGood \in Nat /\ Frequency \in Nat
            /\ again \subseteq Nat /\ ClockInv
        BY RuleAssumption DEF TypeOK, RuleInv
      <3>2. CASE pc = "waiting" /\ now >= evalTs /\ evalTs' = evalTs
        <4>1. lastGood < evalTs
          BY <3>1, <3>2 DEF ClockInv
        <4>2. evalTs \notin again
          BY <3>1, <3>2 DEF ClockInv
        <4>3. QED
          BY <3>1, <3>2, <4>1, <4>2
      <3>3. CASE pc = "idle" /\ ticked /\ evalTs' = NextEvalTs
        <4>1. /\ evalTs' \in Nat /\ evalTs' >= evalTs /\ evalTs' <= now
              /\ now < evalTs' + Frequency
          BY <3>1, <3>3, SlotTypes DEF ClockInv
        <4>2. lastGood <= evalTs
          BY <3>1, <3>3 DEF ClockInv
        <4>3. evalTs' \notin again
          <5>1. ASSUME evalTs' \in again PROVE FALSE
            BY <3>1, <3>3, <4>1, <5>1 DEF ClockInv
          <5>2. QED
            BY <5>1
        <4>4. lastGood <= evalTs'
          BY <3>1, <4>1, <4>2
        <4>5. QED
          BY <4>1, <4>3, <4>4
      <3>4. QED
        BY <2>2, <3>2, <3>3 DEF Tick
    <2>3. QED
      BY <2>1, <2>2 DEF Next, EvalFails, Evaluate, SendAlerts, Restart, Edit, NewTask, vars
  <1>2. QED
    BY <1>1, Invariance, PTL DEF Spec, SlotsInOrder

-----------------------------------------------------------------------------
(* The alerts with an onset are the live ones. *)
OnsetInv ==
    /\ SinceOnset
    /\ \A k \in DOMAIN onset : k \in DOMAIN active /\ active[k].state # "inactive"

(* One alert's turn keeps when a live alert began, and fires it in time. *)
LEMMA SteppedOnset ==
    ASSUME NEW a \in Alert, NEW k, NEW res, NEW ts \in Nat
    PROVE  LET b == Stepped(k, a, res, ts) IN
           /\ b.activeAt = a.activeAt
           /\ b.state # "inactive" <=> k \in res /\ a.state # "inactive"
           /\ b.state = "firing" => \/ a.state = "firing" /\ b.firedAt = a.firedAt
                                    \/ b.firedAt = ts /\ ts - a.activeAt >= HoldDuration
  BY DEF Stepped, Resolved, Fired, Alert

LEMMA EvaluateOnset ==
    ASSUME TypeOK, OnsetInv, NEW hasData \in BOOLEAN, NEW alerting \in SUBSET Series,
           Evaluate(hasData, alerting)
    PROVE  OnsetInv'
  <1> DEFINE res == ResultVector(IF hasData THEN now ELSE lastData, alerting)
             up == Upserted(active, res, evalTs)
  <1>1. /\ active' = ActiveAfter(active, res, evalTs)
        /\ onset' = [k \in res |-> IF k \in DOMAIN onset THEN onset[k] ELSE evalTs]
    BY DEF Evaluate
  <1>2. evalTs \in Nat /\ \A x \in DOMAIN active : active[x] \in Alert
    BY DEF TypeOK
  <1> HIDE DEF res
  <1>3. ASSUME NEW k \in res
        PROVE  /\ k \in DOMAIN active'
               /\ active'[k] = Stepped(k, up[k], res, evalTs)
               /\ up[k] \in Alert /\ up[k].state # "inactive"
               /\ \/ k \in DOMAIN active /\ up[k] = active[k]
                  \/ k \notin DOMAIN onset /\ up[k] = NewAlert(evalTs)
    <2>1. k \in DOMAIN up
      BY DEF Upserted
    <2>2. k \in DOMAIN active' /\ active'[k] = Stepped(k, up[k], res, evalTs)
      BY <1>1, <2>1 DEF ActiveAfter
    <2>3. CASE k \in DOMAIN active /\ active[k].state # "inactive"
      BY <1>2, <2>2, <2>3 DEF Upserted
    <2>4. CASE ~(k \in DOMAIN active /\ active[k].state # "inactive")
      <3>1. k \notin DOMAIN onset /\ up[k] = NewAlert(evalTs)
        BY <2>1, <2>4 DEF OnsetInv, Upserted
      <3>2. NewAlert(evalTs).state = "pending"
        BY DEF NewAlert
      <3>3. QED
        BY <1>2, <2>2, <3>1, <3>2, NewAlertType
    <2>5. QED
      BY <2>3, <2>4
  <1>4. ASSUME NEW k \in DOMAIN active', k \notin res
        PROVE  active'[k].state = "inactive"
    <2>1. k \in DOMAIN up /\ active'[k] = Stepped(k, up[k], res, evalTs)
      BY <1>1, <1>2, <1>4, ActiveAfterAlert DEF ActiveAfter
    <2>2. up[k] \in Alert
      BY <1>2, <2>1, UpsertedType
    <2> HIDE DEF up
    <2>3. QED
      BY <1>2, <1>4, <2>1, <2>2, SteppedOnset
  <1>5. ASSUME NEW k \in res
        PROVE  /\ active'[k].state # "inactive"
               /\ active'[k].activeAt = onset'[k]
               /\ active'[k].state = "firing" =>
                      active'[k].firedAt - active'[k].activeAt >= HoldDuration
    <2>1. /\ active'[k].activeAt = up[k].activeAt
          /\ active'[k].state # "inactive"
          /\ active'[k].state = "firing" =>
                \/ up[k].state = "firing" /\ active'[k].firedAt = up[k].firedAt
                \/ active'[k].firedAt = evalTs /\ evalTs - up[k].activeAt >= HoldDuration
      <3>1. /\ up[k] \in Alert /\ up[k].state # "inactive"
            /\ active'[k] = Stepped(k, up[k], res, evalTs)
        BY <1>3
      <3> HIDE DEF up
      <3>2. QED
        BY <1>2, <3>1, SteppedOnset
    <2>2. CASE k \in DOMAIN active /\ up[k] = active[k]
      <3>1. active[k].state # "inactive"
        BY <1>3, <2>2
      <3>2. /\ k \in DOMAIN onset /\ active[k].activeAt = onset[k]
            /\ active[k].state = "firing" =>
                  active[k].firedAt - active[k].activeAt >= HoldDuration
        BY <2>2, <3>1 DEF OnsetInv, SinceOnset
      <3> HIDE DEF up
      <3>3. QED
        BY <1>1, <2>1, <2>2, <3>2
    <2>3. CASE k \notin DOMAIN onset /\ up[k] = NewAlert(evalTs)
      <3>1. up[k].activeAt = evalTs /\ up[k].state = "pending"
        BY <2>3 DEF NewAlert
      <3> HIDE DEF up
      <3>2. QED
        BY <1>1, <2>1, <2>3, <3>1
    <2>4. QED
      BY <1>3, <2>2, <2>3
  <1>6. DOMAIN onset' = res
    BY <1>1
  <1>7. QED
    BY <1>3, <1>4, <1>5, <1>6 DEF OnsetInv, SinceOnset

(* Steps that leave what an alert began with, and its state. *)
LEMMA SameOnset ==
    ASSUME OnsetInv, onset' = onset, DOMAIN active' = DOMAIN active,
           \A k \in DOMAIN active : /\ active'[k].state = active[k].state
                                    /\ active'[k].activeAt = active[k].activeAt
                                    /\ active'[k].firedAt = active[k].firedAt
    PROVE  OnsetInv'
  BY DEF OnsetInv, SinceOnset

LEMMA NoOnset ==
    ASSUME onset' = Empty, active' = Empty
    PROVE  OnsetInv'
  BY DEF OnsetInv, SinceOnset, Empty

LEMMA SendOnset ==
    ASSUME TypeOK, OnsetInv, SendAlerts
    PROVE  OnsetInv'
  <1>1. \A k \in DOMAIN active : /\ Sent(active[k], evalTs).state = active[k].state
                                 /\ Sent(active[k], evalTs).activeAt = active[k].activeAt
                                 /\ Sent(active[k], evalTs).firedAt = active[k].firedAt
    BY DEF Sent, TypeOK, Alert
  <1>2. onset' = onset /\ DOMAIN active' = DOMAIN active
    BY DEF SendAlerts
  <1>3. \A k \in DOMAIN active : active'[k] \in {active[k], Sent(active[k], evalTs)}
    BY DEF SendAlerts
  <1>4. QED
    BY <1>1, <1>2, <1>3, SameOnset

LEMMA OnsetStep == TypeOK /\ OnsetInv /\ [Next]_vars => OnsetInv'
  <1> SUFFICES ASSUME TypeOK, OnsetInv, [Next]_vars PROVE OnsetInv'
    OBVIOUS
  <1>1. CASE UNCHANGED <<active, onset>>
    BY <1>1, SameOnset
  <1>2. ASSUME NEW hasData \in BOOLEAN, NEW alerting \in SUBSET Series,
               Evaluate(hasData, alerting)
        PROVE  OnsetInv'
    BY <1>2, EvaluateOnset
  <1>3. CASE SendAlerts
    BY <1>3, SendOnset
  <1>4. CASE Restart
    BY <1>4, NoOnset DEF Restart
  <1>5. ASSUME NEW sameLabels \in BOOLEAN, Edit(sameLabels)
        PROVE  OnsetInv'
    BY <1>1, <1>5, NoOnset DEF Edit
  <1>6. QED
    BY <1>1, <1>2, <1>3, <1>4, <1>5 DEF Next, Advance, Tick, EvalFails, aux, vars

(* StartsAt is the onset of the present streak, for any series, hold       *)
(* duration and lateness, over failed evaluations, restarts and edits.     *)
THEOREM SinceOnsetAlways == Spec => []SinceOnset
  <1>1. Init => OnsetInv
    BY DEF Init, OnsetInv, SinceOnset, Empty
  <1>2. TypeOK /\ OnsetInv /\ [Next]_vars => OnsetInv'
    BY OnsetStep
  <1>3. OnsetInv => SinceOnset
    BY DEF OnsetInv
  <1>4. QED
    BY <1>1, <1>2, <1>3, TypeCorrect, PTL DEF Spec

-----------------------------------------------------------------------------
(***************************************************************************)
(* The history agrees with memory if the task is never late by an interval *)
(* (Timely), the calls of the reader succeed and the alerts of the rule    *)
(* differ in their fingerprints (Grouped: the series of the query have     *)
(* labels, which no alert for missing data has).  The rows read back are   *)
(* then the ones inserted last (the saved part of HistoryInv), for which   *)
(* each row has to be newer than all before it (InTime): the rows for a    *)
(* restart carry the clock, all others the slot.                           *)
(***************************************************************************)
Timely == MaxLag < Frequency /\ MaxReaderFaults = 0

Grouped == Series \cap Nat = {}

(* Alerts of the rule: a series, or missing data since a moment. *)
OfRule(k) ==
    k \in Keys /\ IF k.missing THEN k.labels \in Nat ELSE k.labels \in Series

InTime ==
    /\ pc \in {"waiting", "query"} => now < evalTs + Frequency
    /\ \A f \in DOMAIN saved :
          /\ saved[f].unix <= now
          /\ saved[f].unix < IF pc \in {"waiting", "query"} THEN evalTs ELSE evalTs + Frequency

(* No tick waits while an evaluation runs, so each is for a new slot. *)
InStep ==
    pc # "waiting" =>
        IF ticked
        THEN /\ pc = "idle"
             /\ evalTs + Frequency <= now /\ now < evalTs + 2 * Frequency
             /\ evalTs + 2 * Frequency <= nextTick /\ nextTick < evalTs + 3 * Frequency
        ELSE /\ evalTs + Frequency <= nextTick /\ nextTick < evalTs + 2 * Frequency
             /\ pc # "idle" => now < evalTs + Frequency

HistoryInv ==
    /\ \A k \in DOMAIN active : OfRule(k)
    /\ ~ handledRestart => DOMAIN active = {}
    /\ DOMAIN latest = DOMAIN saved
    /\ \A f \in DOMAIN saved : latest[f] = saved[f].state
    /\ InTime
    /\ InStep
    /\ HistoryAgrees

LEMMA SameKey ==
    ASSUME Grouped, NEW k, NEW j, OfRule(k), OfRule(j), k.labels = j.labels
    PROVE  k = j
  <1>1. k.missing = j.missing
    BY DEF OfRule, Grouped, Keys
  <1>2. QED
    BY <1>1 DEF OfRule, Keys

LEMMA ResultOfRule ==
    ASSUME NEW seen \in Nat, NEW alerting \in SUBSET Series,
           NEW k \in ResultVector(seen, alerting)
    PROVE  OfRule(k)
  <1>1. k \in Keys
    BY ResultVectorType
  <1>2. QED
    BY <1>1 DEF ResultVector, OfRule

FiringIn(alerts, k) == k \in DOMAIN alerts /\ alerts[k].state = "firing"

(* An alert whose turn adds an item fires if it is in the result; the      *)
(* others fire as before.                                                  *)
LEMMA TurnFacts ==
    ASSUME NEW alerts, NEW res, NEW ts \in Nat, NEW k,
           \A x \in DOMAIN alerts : alerts[x] \in Alert
    PROVE  /\ k \in Changed(alerts, res, ts) =>
                /\ k \in DOMAIN alerts \cup res
                /\ FiringIn(ActiveAfter(alerts, res, ts), k) <=> k \in res
                /\ IsAlerting(ItemState(k, res)) <=> k \in res
           /\ k \notin Changed(alerts, res, ts) =>
                (FiringIn(ActiveAfter(alerts, res, ts), k) <=> FiringIn(alerts, k))
  <1> DEFINE up == Upserted(alerts, res, ts)
             after == ActiveAfter(alerts, res, ts)
             turn == Stepped(k, up[k], res, ts)
  <1>1. DOMAIN up = DOMAIN alerts \cup res
    BY DEF Upserted
  <1>2. /\ k \in DOMAIN after => k \in DOMAIN up /\ after[k] = turn
        /\ k \in DOMAIN up /\ k \in res => k \in DOMAIN after
    BY <1>1 DEF ActiveAfter
  <1>3. k \in Changed(alerts, res, ts) <=> k \in DOMAIN up /\ turn.state # up[k].state
    BY DEF Changed
  <1>4. k \in DOMAIN up => up[k] \in Alert
    BY UpsertedType
  <1>5. IsAlerting(ItemState(k, res)) <=> k \in res
    BY DEF IsAlerting, ItemState
  <1>6. k \in DOMAIN up /\ k \notin res =>
          /\ turn.state = "inactive"
          /\ up[k].state = "firing" => turn.state # up[k].state
    BY <1>4 DEF Stepped, Resolved, Alert
  <1>7. k \in DOMAIN up /\ k \in res =>
          turn.state = up[k].state \/ turn.state = "firing"
    BY <1>4 DEF Stepped, Fired, Alert
  <1>8. k \in DOMAIN up => (up[k].state = "firing" <=> FiringIn(alerts, k))
    BY <1>1 DEF Upserted, NewAlert, FiringIn
  <1> HIDE DEF up, after, turn
  <1>9. k \in Changed(alerts, res, ts) => (FiringIn(after, k) <=> k \in res)
    BY <1>2, <1>3, <1>6, <1>7 DEF FiringIn
  <1>10. k \notin Changed(alerts, res, ts) => (FiringIn(after, k) <=> FiringIn(alerts, k))
    <2>1. CASE k \notin DOMAIN up
      BY <1>1, <1>2, <2>1 DEF FiringIn
    <2>2. CASE k \in DOMAIN up
      BY <1>2, <1>3, <1>6, <1>8, <2>2 DEF FiringIn
    <2>3. QED
      BY <2>1, <2>2
  <1>11. QED
    BY <1>1, <1>3, <1>5, <1>9, <1>10 DEF after

(* What the items of an evaluation say of each fingerprint. *)
LEMMA ItemsTell ==
    ASSUME Grouped, NEW alerts, NEW res, NEW ts \in Nat,
           \A k \in DOMAIN alerts : alerts[k] \in Alert,
           \A k \in DOMAIN alerts \cup res : OfRule(k),
           NEW items \in ItemMaps(alerts, res, ts), NEW f
    PROVE  IF f \in DOMAIN items
           THEN /\ items[f].unix = ts
                /\ IsAlerting(items[f].state) <=> IsFiring(ActiveAfter(alerts, res, ts), f)
           ELSE IsFiring(ActiveAfter(alerts, res, ts), f) <=> IsFiring(alerts, f)
  <1> DEFINE keys == Changed(alerts, res, ts)
             overall == StateOf(ActiveAfter(alerts, res, ts))
             fps == {k.labels : k \in keys}
             after == ActiveAfter(alerts, res, ts)
  <1>1. PICK pick \in [fps -> keys] :
          /\ \A g \in fps : pick[g].labels = g
          /\ items = [g \in fps |-> [state |-> ItemState(pick[g], res), unix |-> ts,
                                     overall |-> overall]]
    BY DEF ItemMaps
  <1>2. DOMAIN after \subseteq DOMAIN alerts \cup res
    BY ActiveAfterAlert
  <1>3. \A k : /\ k \in keys => /\ k \in DOMAIN alerts \cup res
                                /\ FiringIn(after, k) <=> k \in res
                                /\ IsAlerting(ItemState(k, res)) <=> k \in res
               /\ k \notin keys => (FiringIn(after, k) <=> FiringIn(alerts, k))
    BY TurnFacts
  <1>4. /\ IsFiring(after, f) <=> \E k : k.labels = f /\ FiringIn(after, k)
        /\ IsFiring(alerts, f) <=> \E k : k.labels = f /\ FiringIn(alerts, k)
    BY DEF IsFiring, FiringIn
  <1> HIDE DEF keys, after, overall
  <1>5. CASE f \in DOMAIN items
    <2>1. f \in fps /\ pick[f] \in keys /\ pick[f].labels = f
      BY <1>1, <1>5
    <2>2. items[f].unix = ts /\ items[f].state = ItemState(pick[f], res)
      BY <1>1, <2>1
    <2>3. IsAlerting(items[f].state) <=> FiringIn(after, pick[f])
      BY <1>3, <2>1, <2>2
    <2>4. ASSUME NEW k, k.labels = f, FiringIn(after, k) PROVE k = pick[f]
      <3>1. OfRule(k) /\ OfRule(pick[f])
        BY <1>2, <1>3, <2>1, <2>4 DEF FiringIn
      <3>2. QED
        BY <2>1, <2>4, <3>1, SameKey
    <2>5. IsFiring(after, f) <=> FiringIn(after, pick[f])
      BY <1>4, <2>1, <2>4
    <2>6. QED
      BY <1>5, <2>2, <2>3, <2>5 DEF after
  <1>6. CASE f \notin DOMAIN items
    <2>1. f \notin fps
      BY <1>1, <1>6
    <2>2. \A k : k.labels = f => (FiringIn(after, k) <=> FiringIn(alerts, k))
      BY <1>3, <2>1
    <2>3. IsFiring(after, f) <=> IsFiring(alerts, f)
      BY <1>4, <2>2
    <2>4. QED
      BY <1>6, <2>3 DEF after
  <1>7. QED
    BY <1>5, <1>6

(* What rows say of each fingerprint when they are inserted, the saved     *)
(* rows being what the history says of the others.                         *)
Tell(rows, after, f) ==
    IF f \in DOMAIN rows
    THEN /\ rows[f].unix >= evalTs /\ rows[f].unix <= now
         /\ IsAlerting(rows[f].state) <=> IsFiring(after, f)
    ELSE IsFiring(after, f) <=> f \in DOMAIN saved /\ IsAlerting(saved[f].state)

LEMMA HistoryTells ==
    ASSUME HistoryInv, handledRestart, NEW f
    PROVE  IsFiring(active, f) <=> f \in DOMAIN saved /\ IsAlerting(saved[f].state)
  <1>1. CASE f \in DOMAIN latest \cup {k.labels : k \in DOMAIN active}
    BY <1>1 DEF HistoryInv, HistoryAgrees
  <1>2. CASE f \notin DOMAIN latest \cup {k.labels : k \in DOMAIN active}
    BY <1>2 DEF HistoryInv, IsFiring
  <1>3. QED
    BY <1>1, <1>2

(* The rows for a restart: the overall state is not looked at here. *)
LEMMA RestartTells ==
    ASSUME NEW items, NEW first, NEW after, NEW f,
           now \in Nat, evalTs \in Nat, evalTs <= now,
           IF f \in DOMAIN items
           THEN /\ items[f].unix = evalTs
                /\ IsAlerting(items[f].state) <=> IsFiring(after, f)
           ELSE ~ IsFiring(after, f),
           f \in DOMAIN saved => saved[f] \in Row,
           f \in DOMAIN items => items[f] \in Row
    PROVE  Tell(RestartRows(items, first), after, f)
  <1> DEFINE merged == MergedWithSaved(items)
  <1>1. Frequency \in Nat \ {0}
    BY RuleAssumption
  <1>2. Tell(merged, after, f)
    <2>1. CASE f \in DOMAIN items \ DOMAIN saved
      <3>1. f \in DOMAIN merged /\ merged[f] = items[f]
        BY <2>1 DEF MergedWithSaved
      <3> HIDE DEF merged
      <3>2. QED
        BY <1>1, <2>1, <3>1 DEF Tell
    <2>2. CASE f \in DOMAIN items /\ f \in DOMAIN saved /\ saved[f].state # items[f].state
      <3>1. f \in DOMAIN merged /\ merged[f].state = items[f].state /\ merged[f].unix = now
        BY <2>2 DEF MergedWithSaved, Row
      <3> HIDE DEF merged
      <3>2. QED
        BY <1>1, <2>2, <3>1 DEF Tell
    <2>3. CASE f \in DOMAIN items /\ f \in DOMAIN saved /\ saved[f].state = items[f].state
      <3>1. f \notin DOMAIN merged
        BY <2>3 DEF MergedWithSaved
      <3> HIDE DEF merged
      <3>2. QED
        BY <2>3, <3>1 DEF Tell
    <2>4. CASE f \notin DOMAIN items /\ f \in DOMAIN saved /\ IsAlerting(saved[f].state)
      <3>1. f \in DOMAIN merged /\ merged[f].state = "inactive" /\ merged[f].unix = now
        BY <2>4 DEF MergedWithSaved, Row
      <3>2. ~ IsAlerting("inactive")
        BY DEF IsAlerting
      <3> HIDE DEF merged
      <3>3. QED
        BY <1>1, <2>4, <3>1, <3>2 DEF Tell
    <2>5. CASE f \notin DOMAIN items /\ ~(f \in DOMAIN saved /\ IsAlerting(saved[f].state))
      <3>1. f \notin DOMAIN merged
        BY <2>5 DEF MergedWithSaved
      <3> HIDE DEF merged
      <3>2. QED
        BY <2>5, <3>1 DEF Tell
    <2>6. QED
      BY <2>1, <2>2, <2>3, <2>4, <2>5
  <1>3. f \in DOMAIN merged => merged[f] \in Row
    BY DEF MergedWithSaved, Row, HistoryStates
  <1> HIDE DEF merged
  <1>4. CASE RestartRows(items, first) = merged
    BY <1>2, <1>4
  <1>5. CASE RestartRows(items, first) # merged
    <2> DEFINE rows == [g \in DOMAIN merged |->
                          [merged[g] EXCEPT !.overall = NewOverall(merged)]]
    <2>1. RestartRows(items, first) = rows
      BY <1>5 DEF RestartRows, merged
    <2>2. DOMAIN rows = DOMAIN merged
      OBVIOUS
    <2>3. f \in DOMAIN merged =>
            rows[f].state = merged[f].state /\ rows[f].unix = merged[f].unix
      BY <1>3 DEF Row
    <2> HIDE DEF rows
    <2>4. Tell(rows, after, f)
      BY <1>2, <2>2, <2>3 DEF Tell
    <2>5. QED
      BY <2>1, <2>4
  <1>6. QED
    BY <1>4, <1>5

(* Rows that tell what fires, each newer than all before it, are what is   *)
(* read back.                                                              *)
LEMMA InsertTells ==
    ASSUME TypeOK, HistoryInv, pc = "query", NEW rows, Insert(rows),
           \A f : Tell(rows, active', f),
           \A f \in DOMAIN rows : rows[f].unix \in Nat,
           \A k \in DOMAIN active' : OfRule(k),
           handledRestart' = TRUE, pc' = "send",
           UNCHANGED <<evalTs, now, nextTick, ticked>>
    PROVE  HistoryInv'
  <1>1. \A f \in DOMAIN saved : /\ saved[f].unix \in Nat /\ saved[f].unix <= now
                                /\ saved[f].unix < evalTs
    BY DEF HistoryInv, InTime, TypeOK, Row
  <1>2. evalTs \in Nat /\ Frequency \in Nat /\ now \in Nat /\ now < evalTs + Frequency
    BY RuleAssumption DEF TypeOK, HistoryInv, InTime
  <1>3. /\ DOMAIN saved' = DOMAIN saved \cup DOMAIN rows
        /\ \A f \in DOMAIN saved' : f \notin DOMAIN rows => saved'[f] = saved[f]
        /\ DOMAIN latest' = DOMAIN latest \cup DOMAIN rows
        /\ \A f \in DOMAIN latest' :
              latest'[f] = IF f \in DOMAIN rows THEN rows[f].state ELSE latest[f]
    BY InsertFacts DEF Insert
  <1>4. ASSUME NEW f \in DOMAIN saved'
        PROVE  saved'[f] = IF f \in DOMAIN rows THEN rows[f] ELSE saved[f]
    <2>1. f \in DOMAIN rows /\ f \in DOMAIN saved =>
            rows[f].unix # saved[f].unix /\ rows[f].unix >= saved[f].unix
      BY <1>1, <1>2 DEF Tell
    <2>2. QED
      BY <1>3, <2>1, InsertFacts
  <1>5. /\ DOMAIN latest' = DOMAIN saved'
        /\ \A f \in DOMAIN saved' : latest'[f] = saved'[f].state
    BY <1>3, <1>4 DEF HistoryInv
  <1>6. InTime'
    <2> SUFFICES ASSUME NEW f \in DOMAIN saved'
                 PROVE  saved'[f].unix <= now /\ saved'[f].unix < evalTs + Frequency
      BY DEF InTime
    <2>1. CASE f \in DOMAIN rows
      BY <1>2, <1>4, <2>1 DEF Tell
    <2>2. CASE f \notin DOMAIN rows
      <3>1. f \in DOMAIN saved
        BY <1>3, <2>2
      <3>2. QED
        BY <1>1, <1>2, <1>4, <2>2, <3>1
    <2>3. QED
      BY <2>1, <2>2
  <1>7. HistoryAgrees'
    <2>1. ASSUME NEW f
          PROVE  IsFiring(active', f) <=> f \in DOMAIN saved' /\ IsAlerting(saved'[f].state)
      <3>1. CASE f \in DOMAIN rows
        <4>1. f \in DOMAIN saved' /\ saved'[f] = rows[f]
          BY <1>3, <1>4, <3>1
        <4>2. QED
          BY <3>1, <4>1 DEF Tell
      <3>2. CASE f \notin DOMAIN rows
        <4>1. /\ f \in DOMAIN saved' <=> f \in DOMAIN saved
              /\ f \in DOMAIN saved => saved'[f] = saved[f]
          BY <1>3, <1>4, <3>2
        <4>2. QED
          BY <3>2, <4>1 DEF Tell
      <3>3. QED
        BY <3>1, <3>2
    <2>2. QED
      BY <1>5, <2>1 DEF HistoryAgrees, IsFiring
  <1>8. InStep'
    BY DEF HistoryInv, InStep
  <1>9. QED
    BY <1>5, <1>6, <1>7, <1>8 DEF HistoryInv

LEMMA EvaluateHistory ==
    ASSUME Timely, Grouped, TypeOK, RuleInv, HistoryInv,
           NEW hasData \in BOOLEAN, NEW alerting \in SUBSET Series,
           Evaluate(hasData, alerting)
    PROVE  HistoryInv'
  <1> DEFINE seen == IF hasData THEN now ELSE lastData
             res == ResultVector(seen, alerting)
  <1>1. /\ pc = "query" /\ pc' = "send" /\ UNCHANGED <<evalTs, now, nextTick, ticked>>
        /\ active' = ActiveAfter(active, res, evalTs)
    BY DEF Evaluate, ticker
  <1>2. /\ now \in Nat /\ evalTs \in Nat /\ evalTs <= now
        /\ \A k \in DOMAIN active : active[k] \in Alert
        /\ \A f \in DOMAIN saved : saved[f] \in Row
        /\ DOMAIN active \subseteq Keys /\ seen \in Nat
    BY <1>1 DEF TypeOK, RuleInv, ClockInv
  <1>3. /\ \A k \in DOMAIN active \cup res : OfRule(k)
        /\ res \subseteq Keys
    BY <1>2, ResultOfRule, ResultVectorType DEF HistoryInv
  <1>4. PICK items \in ItemMaps(active, res, evalTs) : RecordRuleStateHistory(items)
    BY DEF Evaluate
  <1> HIDE DEF res
  <1>5. \A f \in DOMAIN items : items[f] \in Row
    BY <1>2, <1>3, ItemsType
  <1>6. \A k \in DOMAIN active' : OfRule(k)
    BY <1>1, <1>2, <1>3, ActiveAfterAlert
  <1>7. \A f : IF f \in DOMAIN items
               THEN /\ items[f].unix = evalTs
                    /\ IsAlerting(items[f].state) <=> IsFiring(active', f)
               ELSE IsFiring(active', f) <=> IsFiring(active, f)
    BY <1>1, <1>2, <1>3, ItemsTell
  <1>8. ~ ReaderFails
    BY DEF ReaderFails, Timely, TypeOK
  <1>9. handledRestart' = TRUE
    BY <1>4, <1>8 DEF RecordRuleStateHistory
  <1>10. CASE ~ handledRestart /\ saved # Empty
    <2>1. PICK first \in NewestSaved : Insert(RestartRows(items, first))
      BY <1>4, <1>8, <1>10 DEF RecordRuleStateHistory
    <2>2. \A f : ~ IsFiring(active, f)
      BY <1>10 DEF HistoryInv, IsFiring
    <2>3. \A f : Tell(RestartRows(items, first), active', f)
      BY <1>2, <1>5, <1>7, <2>2, RestartTells
    <2>4. \A f \in DOMAIN RestartRows(items, first) :
             RestartRows(items, first)[f].unix \in Nat
      <3>1. SavedType(saved) /\ SavedType(items)
        BY <1>2, <1>3, ItemsType DEF TypeOK, SavedType
      <3>2. QED
        BY <1>2, <3>1, RestartRowsType DEF SavedType, Row
    <2>5. QED
      BY <1>1, <1>6, <1>9, <2>1, <2>3, <2>4, InsertTells
  <1>11. CASE handledRestart \/ saved = Empty
    <2>1. Insert(items)
      BY <1>4, <1>8, <1>11 DEF RecordRuleStateHistory
    <2>2. ASSUME NEW f
          PROVE  IsFiring(active, f) <=> f \in DOMAIN saved /\ IsAlerting(saved[f].state)
      <3>1. CASE handledRestart
        BY <3>1, HistoryTells
      <3>2. CASE ~ handledRestart
        <4>1. DOMAIN active = {} /\ DOMAIN saved = {}
          BY <1>11, <3>2 DEF HistoryInv, Empty
        <4>2. QED
          BY <4>1 DEF IsFiring
      <3>3. QED
        BY <3>1, <3>2
    <2>3. \A f : Tell(items, active', f)
      BY <1>2, <1>7, <2>2 DEF Tell
    <2>4. \A f \in DOMAIN items : items[f].unix \in Nat
      BY <1>2, <1>7
    <2>5. QED
      BY <1>1, <1>6, <1>9, <2>1, <2>3, <2>4, InsertTells
  <1>12. QED
    BY <1>10, <1>11

(* A tick of a task in step is for the next slot. *)
LEMMA SlotBounds ==
    ASSUME now \in Nat, evalTs \in Nat, now >= evalTs + Frequency, now < evalTs + 2 * Frequency
    PROVE  NextEvalTs = evalTs + Frequency
  <1> DEFINE q == (now - evalTs) \div Frequency
  <1>1. Frequency \in Nat \ {0}
    BY RuleAssumption
  <1>2. /\ q \in Nat /\ q * Frequency <= now - evalTs
        /\ now - evalTs < q * Frequency + Frequency
    BY <1>1, DivBounds
  <1>3. NextEvalTs = evalTs + q * Frequency
    <2>1. (q - 1) + 1 = q
      BY <1>2
    <2>2. QED
      BY <2>1 DEF NextEvalTs
  <1> HIDE DEF q
  <1>4. q # 0
    <2>1. 0 * Frequency = 0
      BY <1>1
    <2>2. QED
      BY <1>1, <1>2, <2>1
  <1>5. ASSUME q # 1
        PROVE  FALSE
    <2>1. q >= 2 /\ q - 2 \in Nat
      BY <1>2, <1>4, <1>5
    <2>2. (q - 2) * Frequency \in Nat /\ q * Frequency = (q - 2) * Frequency + 2 * Frequency
      BY <1>1, <1>2, <2>1
    <2>3. QED
      BY <1>1, <1>2, <2>2
  <1>6. 1 * Frequency = Frequency
    BY <1>1
  <1>7. QED
    BY <1>3, <1>5, <1>6

(* Steps that leave what fires and the history alone. *)
LEMMA SameHistory ==
    ASSUME HistoryInv, UNCHANGED <<saved, latest, handledRestart>>, InTime', InStep',
           DOMAIN active' = DOMAIN active,
           \A k \in DOMAIN active : active'[k].state = active[k].state
    PROVE  HistoryInv'
  <1>1. \A f : IsFiring(active', f) <=> IsFiring(active, f)
    BY DEF IsFiring
  <1>2. HistoryAgrees'
    BY <1>1 DEF HistoryInv, HistoryAgrees
  <1>3. QED
    BY <1>2 DEF HistoryInv

LEMMA NoMemory ==
    ASSUME HistoryInv, UNCHANGED <<saved, latest>>, InTime', InStep',
           handledRestart' = FALSE, active' = Empty
    PROVE  HistoryInv'
  BY DEF HistoryInv, HistoryAgrees, Empty

LEMMA HistoryStep ==
    Timely /\ Grouped /\ TypeOK /\ RuleInv /\ HistoryInv /\ [Next]_vars => HistoryInv'
  <1> SUFFICES ASSUME Timely, Grouped, TypeOK, RuleInv, HistoryInv, [Next]_vars
               PROVE  HistoryInv'
    OBVIOUS
  <1>1. /\ now \in Nat /\ evalTs \in Nat /\ Frequency \in Nat \ {0} /\ MaxLag \in Nat
        /\ \A f \in DOMAIN saved : saved[f].unix \in Nat
        /\ nextTick \in Nat /\ pc \in {"waiting", "idle", "query", "send"}
        /\ InTime /\ InStep /\ MaxLag < Frequency
    BY RuleAssumption DEF TypeOK, Row, HistoryInv, Timely
  <1>2. CASE Advance
    <2>1. /\ now' = now + 1
          /\ (pc = "idle" /\ ~ ticked) \/ now + 1 - Due <= MaxLag
          /\ UNCHANGED <<pc, evalTs, active, handledRestart, saved, latest>>
      BY <1>2 DEF Advance, aux
    <2>2. /\ pc # "idle" => now + 1 < evalTs + Frequency
          /\ pc = "idle" /\ ticked => now + 1 < evalTs + 2 * Frequency
      BY <1>1, <2>1 DEF Due
    <2>3. InTime'
      <3>1. pc \in {"waiting", "query"} => now' < evalTs' + Frequency
        BY <1>1, <2>1, <2>2
      <3>2. QED
        BY <1>1, <2>1, <3>1 DEF InTime
    <2>4. InStep'
      <3>1. CASE pc # "waiting" /\ now + 1 >= nextTick
        <4>1. ticked' = TRUE /\ nextTick' = nextTick + Frequency
          BY <1>2, <3>1 DEF Advance
        <4>2. ~ ticked /\ pc = "idle" /\ now + 1 = nextTick
          BY <1>1, <2>2, <3>1 DEF InStep, RuleInv, ClockInv
        <4>3. QED
          BY <1>1, <2>1, <4>1, <4>2 DEF InStep
      <3>2. CASE ~(pc # "waiting" /\ now + 1 >= nextTick)
        <4>1. UNCHANGED <<ticked, nextTick>>
          BY <1>2, <3>2 DEF Advance, ticker
        <4>2. QED
          BY <1>1, <2>1, <2>2, <4>1 DEF InStep
      <3>3. QED
        BY <3>1, <3>2
    <2>5. QED
      BY <2>1, <2>3, <2>4, SameHistory
  <1>3. ASSUME NEW skip \in BOOLEAN, Tick(skip)
        PROVE  HistoryInv'
    <2>1. UNCHANGED <<now, active, handledRestart, saved, latest>>
      BY <1>3 DEF Tick
    <2>2. pc' \in {"idle", "query"} /\ ticked' = FALSE
      BY <1>3 DEF Tick
    <2>3. CASE pc = "waiting" /\ now >= evalTs /\ evalTs' = evalTs /\ nextTick' = now + Frequency
      <3>1. InTime'
        BY <1>1, <2>1, <2>2, <2>3 DEF InTime
      <3>2. InStep'
        BY <1>1, <2>1, <2>2, <2>3 DEF InTime, InStep
      <3>3. QED
        BY <2>1, <3>1, <3>2, SameHistory
    <2>4. CASE pc = "idle" /\ ticked /\ evalTs' = NextEvalTs /\ nextTick' = nextTick
      <3>1. evalTs' = evalTs + Frequency
        BY <1>1, <2>4, SlotBounds DEF InStep
      <3>2. InTime'
        BY <1>1, <2>1, <2>2, <2>4, <3>1 DEF InTime, InStep
      <3>3. InStep'
        BY <1>1, <2>1, <2>2, <2>4, <3>1 DEF InStep
      <3>4. QED
        BY <2>1, <3>2, <3>3, SameHistory
    <2>5. QED
      BY <1>3, <2>3, <2>4 DEF Tick
  <1>4. ASSUME NEW duplicate \in BOOLEAN, EvalFails(duplicate)
        PROVE  HistoryInv'
    <2>1. /\ UNCHANGED <<now, evalTs, nextTick, ticked, active, handledRestart, saved, latest>>
          /\ pc = "query" /\ pc' = "idle"
      BY <1>4 DEF EvalFails, ticker
    <2>2. InTime' /\ InStep'
      BY <1>1, <2>1 DEF InTime, InStep
    <2>3. QED
      BY <2>1, <2>2, SameHistory
  <1>5. ASSUME NEW hasData \in BOOLEAN, NEW alerting \in SUBSET Series,
               Evaluate(hasData, alerting)
        PROVE  HistoryInv'
    BY <1>5, EvaluateHistory
  <1>6. CASE SendAlerts
    <2>1. /\ UNCHANGED <<now, evalTs, nextTick, ticked, handledRestart, saved, latest>>
          /\ pc = "send" /\ pc' = "idle" /\ DOMAIN active' = DOMAIN active
          /\ \A k \in DOMAIN active : active'[k] \in {active[k], Sent(active[k], evalTs)}
      BY <1>6 DEF SendAlerts, ticker
    <2>2. \A k \in DOMAIN active : Sent(active[k], evalTs).state = active[k].state
      BY <1>1, SentType DEF TypeOK
    <2>3. InTime' /\ InStep'
      BY <1>1, <2>1 DEF InTime, InStep
    <2>4. QED
      BY <2>1, <2>2, <2>3, SameHistory
  <1>7. ASSUME UNCHANGED <<now, saved>>, NewTask
        PROVE  InTime' /\ InStep'
    <2>1. NextSlot \in Nat /\ NextSlot > now
      BY <1>1, SlotTypes
    <2>2. QED
      BY <1>1, <1>7, <2>1 DEF NewTask, InTime, InStep
  <1>8. CASE Restart
    BY <1>7, <1>8, NoMemory DEF Restart
  <1>9. ASSUME NEW sameLabels \in BOOLEAN, Edit(sameLabels)
        PROVE  HistoryInv'
    <2>1. /\ UNCHANGED <<now, saved, latest>> /\ InTime' /\ InStep'
      BY <1>7, <1>9 DEF Edit
    <2>2. QED
      BY <1>9, <2>1, SameHistory, NoMemory DEF Edit
  <1>10. CASE UNCHANGED vars
    <2>1. UNCHANGED <<now, pc, evalTs, nextTick, ticked, active, handledRestart, saved,
                      latest>>
      BY <1>10 DEF vars
    <2>2. InTime' /\ InStep'
      BY <1>1, <2>1 DEF InTime, InStep
    <2>3. QED
      BY <2>1, <2>2, SameHistory
  <1>11. QED
    BY <1>2, <1>3, <1>4, <1>5, <1>6, <1>8, <1>9, <1>10 DEF Next

LEMMA InitHistory == Init => HistoryInv
  <1> SUFFICES ASSUME Init PROVE HistoryInv
    OBVIOUS
  <1>1. /\ pc = "waiting" /\ now = Start /\ handledRestart = FALSE
        /\ evalTs = (Start \div Frequency) * Frequency + Frequency
        /\ DOMAIN active = {} /\ DOMAIN saved = {} /\ DOMAIN latest = {}
    BY DEF Init, Empty
  <1>2. now < evalTs + Frequency
    <2>1. Start < evalTs /\ evalTs \in Nat
      BY <1>1, RuleAssumption, DivBounds
    <2>2. QED
      BY <1>1, <2>1, RuleAssumption
  <1>3. QED
    BY <1>1, <1>2 DEF HistoryInv, InTime, InStep, HistoryAgrees

(* Once the first evaluation after a restart has merged the two, the last  *)
(* row of a fingerprint is firing exactly when its alert is: for any       *)
(* delays, streaks, edits and restarts, of a rule whose query is grouped   *)
(* and whose task is never late by an interval, if no call of the history  *)
(* reader fails.                                                           *)
THEOREM HistoryAgreesAlways ==
    ASSUME Timely, Grouped
    PROVE  Spec => []HistoryAgrees
  <1>1. Init => HistoryInv
    BY InitHistory
  <1>2. TypeOK /\ RuleInv /\ HistoryInv /\ [Next]_vars => HistoryInv'
    BY HistoryStep
  <1>3. HistoryInv => HistoryAgrees
    BY DEF HistoryInv
  <1>4. QED
    BY <1>1, <1>2, <1>3, Invariance, PTL DEF Spec
=============================================================================
