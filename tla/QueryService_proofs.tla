------------------------- MODULE QueryService_proofs -------------------------
(***************************************************************************)
(* Proofs about two components of the query service.  Of Notifier, for any *)
(* number of Alertmanagers, any capacity and any batch sizes: its run      *)
(* never sleeps on alerts, and it keeps its contract.  Of QueryRangeCache, *)
(* for any clients, flux interval, granularity of the clock, times and     *)
(* number of queries, and for lists of any length: what is cached is       *)
(* complete, what is missing is found exactly, and an answer has all that  *)
(* was asked for.  The two components share nothing.                       *)
(***************************************************************************)
EXTENDS Notifier, QueryRangeCache, SequenceTheorems, WellFoundedInduction, TLAPS

-----------------------------------------------------------------------------
(* The notifier: slices of the queue. *)
LEMMA NumbersFacts ==
    ASSUME NEW from \in Nat, NEW to \in Nat, from <= to + 1
    PROVE  /\ Numbers(from, to) \in Seq(Nat)
           /\ Len(Numbers(from, to)) = to - from + 1
           /\ \A i \in 1 .. to - from + 1 : Numbers(from, to)[i] = from + i - 1
  BY DEF Numbers

LEMMA DropFirstFacts ==
    ASSUME NEW s \in Seq(Nat), NEW d \in Int, d <= Len(s)
    PROVE  LET e == IF d > 0 THEN d ELSE 0 IN
           /\ DropFirst(s, d) \in Seq(Nat)
           /\ Len(DropFirst(s, d)) = Len(s) - e
           /\ \A i \in 1 .. Len(s) - e : DropFirst(s, d)[i] = s[i + e]
  BY DEF DropFirst

(* Run of consecutive numbers that ends at n. *)
EndsWith(s, n) == Len(s) <= n /\ \A i \in 1 .. Len(s) : s[i] = n - Len(s) + i

LEMMA DropFirstEnds ==
    ASSUME NEW s \in Seq(Nat), NEW n \in Nat, NEW d \in Int, d <= Len(s), EndsWith(s, n)
    PROVE  EndsWith(DropFirst(s, d), n)
  <1> DEFINE e == IF d > 0 THEN d ELSE 0
             t == DropFirst(s, d)
  <1>1. /\ e \in Nat /\ e <= Len(s) /\ Len(s) \in Nat /\ Len(t) = Len(s) - e
        /\ \A i \in 1 .. Len(s) - e : t[i] = s[i + e]
    BY DropFirstFacts
  <1> HIDE DEF e, t
  <1>2. ASSUME NEW i \in 1 .. Len(t)
        PROVE  t[i] = n - Len(t) + i
    <2>1. i + e \in 1 .. Len(s) /\ t[i] = s[i + e]
      BY <1>1
    <2>2. s[i + e] = n - Len(s) + (i + e)
      BY <2>1 DEF EndsWith
    <2>3. QED
      BY <1>1, <2>1, <2>2
  <1>3. Len(t) <= n
    BY <1>1 DEF EndsWith
  <1>4. QED
    BY <1>2, <1>3 DEF EndsWith, t

LEMMA ConcatEnds ==
    ASSUME NEW s \in Seq(Nat), NEW t \in Seq(Nat), NEW n \in Nat, NEW k \in Nat,
           EndsWith(s, n), EndsWith(t, n + k), Len(t) = k
    PROVE  s \o t \in Seq(Nat) /\ EndsWith(s \o t, n + k) /\ Len(s \o t) = Len(s) + k
  <1>1. s \o t \in Seq(Nat) /\ Len(s \o t) = Len(s) + k /\ Len(s) \in Nat
    OBVIOUS
  <1>2. ASSUME NEW i \in 1 .. Len(s) + k
        PROVE  (s \o t)[i] = n + k - (Len(s) + k) + i
    <2>1. CASE i \in 1 .. Len(s)
      <3>1. (s \o t)[i] = s[i] /\ s[i] = n - Len(s) + i
        BY <2>1 DEF EndsWith
      <3>2. QED
        BY <1>1, <3>1
    <2>2. CASE i \in Len(s) + 1 .. Len(s) + k
      <3>1. i - Len(s) \in 1 .. Len(t) /\ (s \o t)[i] = t[i - Len(s)]
        BY <1>1, <2>2
      <3>2. t[i - Len(s)] = n + k - k + (i - Len(s))
        BY <3>1 DEF EndsWith
      <3>3. QED
        BY <1>1, <3>1, <3>2
    <2>3. QED
      BY <1>1, <2>1, <2>2
  <1>3. Len(s) + k <= n + k
    BY <1>1 DEF EndsWith
  <1>4. QED
    BY <1>1, <1>2, <1>3 DEF EndsWith

(* The queue after a Send: the newest, no more than the capacity, unless   *)
(* new alerts are dropped, when nothing older is kept.                     *)
LEMMA EnqueuedFacts ==
    ASSUME NEW q \in Seq(Nat), NEW n \in Nat, NEW k \in Nat \ {0},
           EndsWith(q, n), Len(q) <= QueueCapacity
    PROVE  /\ Enqueued(q, Numbers(n + 1, n + k)) \in Seq(Nat)
           /\ EndsWith(Enqueued(q, Numbers(n + 1, n + k)), n + k)
           /\ Len(Enqueued(q, Numbers(n + 1, n + k))) <= QueueCapacity
           /\ Len(Enqueued(q, Numbers(n + 1, n + k))) <= Len(q) + k
  <1> DEFINE alerts == Numbers(n + 1, n + k)
             fit == DropFirst(alerts, Len(alerts) - QueueCapacity)
             kept == DropFirst(q, Len(q) + Len(fit) - QueueCapacity)
  <1>1a. QueueCapacity \in Nat
    BY NotifierAssumption
  <1> DEFINE new == Enqueued(q, Numbers(n + 1, n + k))
  <1>1b. new = kept \o fit
    BY DEF Enqueued
  <1> HIDE DEF new
  <1>1. alerts \in Seq(Nat) /\ Len(alerts) = k /\ EndsWith(alerts, n + k)
    <2>1. /\ alerts \in Seq(Nat) /\ Len(alerts) = (n + k) - (n + 1) + 1
          /\ \A i \in 1 .. (n + k) - (n + 1) + 1 : alerts[i] = (n + 1) + i - 1
      <3>1. n + 1 \in Nat /\ n + k \in Nat /\ n + 1 <= (n + k) + 1
        OBVIOUS
      <3> HIDE DEF alerts
      <3>2. QED
        BY <3>1, NumbersFacts DEF alerts
    <2> HIDE DEF alerts
    <2>2. QED
      BY <2>1 DEF EndsWith
  <1> HIDE DEF alerts
  <1>2. /\ fit \in Seq(Nat) /\ EndsWith(fit, n + k) /\ Len(fit) <= QueueCapacity
        /\ Len(fit) <= k
        /\ Len(fit) < k => Len(fit) = QueueCapacity
    <2> DEFINE d == Len(alerts) - QueueCapacity
    <2>1. d \in Int /\ d <= Len(alerts) /\ d = k - QueueCapacity /\ n + k \in Nat
      BY <1>1a, <1>1
    <2>2. fit = DropFirst(alerts, d)
      OBVIOUS
    <2> HIDE DEF d, fit
    <2>3. EndsWith(fit, n + k)
      BY <1>1, <2>1, <2>2, DropFirstEnds
    <2>4. fit \in Seq(Nat) /\ Len(fit) = k - (IF d > 0 THEN d ELSE 0)
      BY <1>1, <2>1, <2>2, DropFirstFacts
    <2>5. QED
      BY <1>1a, <2>1, <2>3, <2>4
  <1> HIDE DEF fit
  <1>3. /\ kept \in Seq(Nat) /\ EndsWith(kept, n)
        /\ Len(kept) + Len(fit) <= QueueCapacity
        /\ Len(kept) <= Len(q)
    <2> DEFINE d == Len(q) + Len(fit) - QueueCapacity
    <2>1. /\ d \in Int /\ d <= Len(q) /\ Len(q) \in Nat /\ Len(fit) \in Nat
          /\ d = Len(q) + Len(fit) - QueueCapacity
      BY <1>1a, <1>2
    <2>2. kept = DropFirst(q, d)
      OBVIOUS
    <2> HIDE DEF d, kept
    <2>3. EndsWith(kept, n)
      BY <2>1, <2>2, DropFirstEnds
    <2>4. kept \in Seq(Nat) /\ Len(kept) = Len(q) - (IF d > 0 THEN d ELSE 0)
      BY <2>1, <2>2, DropFirstFacts
    <2>5. Len(fit) <= QueueCapacity
      BY <1>2
    <2>6. Len(kept) + Len(fit) <= QueueCapacity /\ Len(kept) <= Len(q)
      BY <1>1a, <2>1, <2>4, <2>5
    <2>7. QED
      BY <2>3, <2>4, <2>6
  <1> HIDE DEF kept
  <1> DEFINE Goal == /\ new \in Seq(Nat)
                     /\ EndsWith(new, n + k)
                     /\ Len(new) <= QueueCapacity
                     /\ Len(new) <= Len(q) + k
  <1>4. CASE Len(fit) = k
    <2>1. kept \o fit \in Seq(Nat) /\ EndsWith(kept \o fit, n + k)
      BY <1>2, <1>3, <1>4, ConcatEnds
    <2>2. Len(kept \o fit) = Len(kept) + Len(fit)
      BY <1>2, <1>3
    <2>3. Len(kept) \in Nat /\ Len(q) \in Nat
      BY <1>3
    <2>4. Goal
      BY <1>1a, <1>1b, <1>3, <1>4, <2>1, <2>2, <2>3
    <2>5. QED
      BY <2>4 DEF new
  <1>5. CASE Len(fit) < k
    <2>1. Len(kept) = 0
      BY <1>1a, <1>2, <1>3, <1>5
    <2>2. kept \o fit = fit
      BY <1>2, <1>3, <2>1
    <2>3. Len(q) \in Nat /\ Len(fit) \in Nat
      BY <1>2
    <2>4. Goal
      BY <1>1a, <1>1b, <1>2, <2>2, <2>3
    <2>5. QED
      BY <2>4 DEF new
  <1>6. QED
    BY <1>2, <1>4, <1>5

-----------------------------------------------------------------------------
(* What makes the safety properties and the contract inductive: the batch  *)
(* under way is a run of consecutive numbers that have left the queue, and *)
(* an Alertmanager that still owes an answer has received none of them.    *)
Settled == sent - Len(queue)

LastOf(s) == IF s = <<>> THEN 0 ELSE s[Len(s)]

Consecutive(s) == \A i \in 1 .. Len(s) : s[i] = s[1] + i - 1

BatchInv ==
    /\ Consecutive(batch)
    /\ batch # <<>> => batch[1] >= 1 /\ LastOf(batch) <= Settled
    /\ pc # "sendAll" => posting = {}

ReceivedInv ==
    \A am \in Alertmanagers :
        /\ LastOf(received[am]) <= Settled
        /\ am \in posting /\ batch # <<>> => LastOf(received[am]) < batch[1]

Types ==
    /\ queue \in Seq(Nat)
    /\ batch \in Seq(Nat)
    /\ more \in BOOLEAN
    /\ posting \subseteq Alertmanagers
    /\ received \in [Alertmanagers -> Seq(Nat)]
    /\ sent \in Nat

NotifierInv ==
    /\ Types
    /\ EndsWith(queue, sent)
    /\ Len(queue) <= QueueCapacity
    /\ NoLostWakeup
    /\ BatchInv
    /\ ReceivedInv

LEMMA InitInv == Init => NotifierInv
  <1> SUFFICES ASSUME Init PROVE NotifierInv
    OBVIOUS
  <1>1. Len(<<>>) = 0 /\ <<>> \in Seq(Nat)
    OBVIOUS
  <1>2. Types
    BY <1>1 DEF Init, Types
  <1>3. EndsWith(queue, sent) /\ Len(queue) <= QueueCapacity /\ Settled = 0
    <2>1. queue = <<>> /\ sent = 0
      BY DEF Init
    <2>3. Len(queue) = 0 /\ QueueCapacity \in Nat
      BY <1>1, <2>1, NotifierAssumption
    <2>4. Settled = 0
      <3>1. sent = 0 /\ Len(queue) = 0 /\ 0 - 0 = 0
        BY <2>1, <2>3
      <3>2. QED
        BY <3>1, Zenon DEF Settled
    <2>5. EndsWith(queue, sent)
      BY <2>1, <1>1 DEF EndsWith
    <2>6. QED
      BY <2>3, <2>4, <2>5
  <1>4. BatchInv /\ NoLostWakeup
    BY <1>1 DEF Init, BatchInv, Consecutive, NoLostWakeup
  <1>5. ReceivedInv
    BY <1>3 DEF Init, ReceivedInv, LastOf
  <1>6. QED
    BY <1>2, <1>3, <1>4, <1>5 DEF NotifierInv

LEMMA LastOfType == ASSUME NEW s \in Seq(Nat) PROVE LastOf(s) \in Nat
  BY DEF LastOf

LEMMA SendInv ==
    ASSUME NotifierInv, NEW n \in SendSizes, Send(n)
    PROVE  NotifierInv' /\ Settled' >= Settled /\ Settled' \in Nat
  <1>1. /\ sent' = sent + n /\ queue' = Enqueued(queue, Numbers(sent + 1, sent + n))
        /\ more' = TRUE /\ n \in Nat \ {0}
        /\ UNCHANGED <<pc, batch, posting, received>>
    BY NotifierAssumption DEF Send
  <1>2. /\ queue' \in Seq(Nat) /\ EndsWith(queue', sent') /\ Len(queue') <= QueueCapacity
        /\ Len(queue') <= Len(queue) + n
    BY <1>1, EnqueuedFacts DEF NotifierInv, Types
  <1>3. Settled' >= Settled /\ Settled' \in Nat /\ Settled \in Int
    <2>1. /\ Len(queue) \in Nat /\ Len(queue') \in Nat /\ Len(queue') <= sent'
          /\ sent \in Nat /\ sent' \in Nat
      BY <1>1, <1>2 DEF NotifierInv, Types, EndsWith
    <2>2. QED
      BY <1>1, <1>2, <2>1 DEF Settled
  <1>4. Types'
    BY <1>1, <1>2 DEF NotifierInv, Types
  <1>5. BatchInv'
    <2>1. LastOf(batch) \in Nat
      BY LastOfType DEF NotifierInv, Types
    <2>2. LastOf(batch)' = LastOf(batch) /\ Consecutive(batch)' = Consecutive(batch)
      BY <1>1 DEF LastOf, Consecutive
    <2>3. QED
      BY <1>1, <1>3, <2>1, <2>2 DEF NotifierInv, BatchInv
  <1>6. ReceivedInv'
    <2>1. \A am \in Alertmanagers : LastOf(received[am]) \in Nat
      BY LastOfType DEF NotifierInv, Types
    <2>2. \A am \in Alertmanagers : LastOf(received[am])' = LastOf(received[am])
      BY <1>1 DEF LastOf
    <2>3. QED
      BY <1>1, <1>3, <2>1, <2>2 DEF NotifierInv, ReceivedInv
  <1>7. QED
    BY <1>1, <1>2, <1>3, <1>4, <1>5, <1>6 DEF NotifierInv, NoLostWakeup

(* The batch is cut off the front of the queue. *)
LEMMA BatchFacts ==
    ASSUME NotifierInv
    PROVE  /\ BatchLen \in Nat /\ BatchLen <= Len(queue) /\ Len(queue) \in Nat
           /\ SubSeq(queue, 1, BatchLen) \in Seq(Nat)
           /\ Len(SubSeq(queue, 1, BatchLen)) = BatchLen
           /\ \A i \in 1 .. BatchLen : SubSeq(queue, 1, BatchLen)[i] = Settled + i
           /\ SubSeq(queue, BatchLen + 1, Len(queue)) \in Seq(Nat)
           /\ Len(SubSeq(queue, BatchLen + 1, Len(queue))) = Len(queue) - BatchLen
           /\ EndsWith(SubSeq(queue, BatchLen + 1, Len(queue)), sent)
  <1>1. queue \in Seq(Nat) /\ EndsWith(queue, sent) /\ sent \in Nat
    BY DEF NotifierInv, Types
  <1>2. BatchLen \in Nat /\ BatchLen <= Len(queue) /\ Len(queue) \in Nat
    BY <1>1, NotifierAssumption DEF BatchLen
  <1>3. /\ SubSeq(queue, 1, BatchLen) \in Seq(Nat)
        /\ Len(SubSeq(queue, 1, BatchLen)) = BatchLen
        /\ \A i \in 1 .. BatchLen : SubSeq(queue, 1, BatchLen)[i] = queue[i]
    BY <1>1, <1>2
  <1>4. \A i \in 1 .. BatchLen : queue[i] = Settled + i
    BY <1>1, <1>2 DEF EndsWith, Settled
  <1> DEFINE rest == SubSeq(queue, BatchLen + 1, Len(queue))
  <1>5. rest \in Seq(Nat) /\ Len(rest) = Len(queue) - BatchLen /\ EndsWith(rest, sent)
    <2>1. CASE BatchLen = 0
      <3>1. rest = queue
        BY <1>1, <1>2, <2>1
      <3> HIDE DEF rest
      <3>2. QED
        BY <1>1, <1>2, <2>1, <3>1
    <2>2. CASE BatchLen > 0
      <3>1. rest = DropFirst(queue, BatchLen)
        BY <2>2 DEF DropFirst
      <3> HIDE DEF rest
      <3>2. BatchLen \in Int
        BY <1>2
      <3>3. QED
        BY <1>1, <1>2, <2>2, <3>1, <3>2, DropFirstFacts, DropFirstEnds
    <2>3. QED
      BY <1>2, <2>1, <2>2
  <1>6. QED
    BY <1>2, <1>3, <1>4, <1>5

LEMMA NextBatchInv ==
    ASSUME NotifierInv, NextBatch
    PROVE  NotifierInv' /\ Settled' >= Settled /\ Settled' <= sent /\ Settled' \in Nat
  <1>1. /\ batch' = SubSeq(queue, 1, BatchLen)
        /\ queue' = SubSeq(queue, BatchLen + 1, Len(queue))
        /\ posting' = Alertmanagers /\ pc' = "sendAll"
        /\ UNCHANGED <<more, received, sent>>
    BY DEF NextBatch
  <1>2. /\ batch' \in Seq(Nat) /\ Len(batch') = BatchLen
        /\ \A i \in 1 .. BatchLen : batch'[i] = Settled + i
        /\ BatchLen \in Nat
    BY <1>1, BatchFacts
  <1>3. /\ queue' \in Seq(Nat) /\ Len(queue') = Len(queue) - BatchLen
        /\ EndsWith(queue', sent) /\ Len(queue) \in Nat /\ Len(queue') \in Nat
    BY <1>1, BatchFacts
  <1>4. Settled' = Settled + BatchLen /\ Settled \in Nat /\ Settled' \in Nat /\ Settled' <= sent
    <2>1. sent \in Nat /\ Len(queue) <= sent /\ sent' = sent /\ BatchLen <= Len(queue)
      BY <1>1, BatchFacts DEF NotifierInv, Types, EndsWith
    <2>2. QED
      BY <1>2, <1>3, <2>1 DEF Settled
  <1>5. Types'
    BY <1>1, <1>2, <1>3 DEF NotifierInv, Types
  <1>6. BatchInv'
    <2>1. Consecutive(batch)'
      BY <1>2, <1>4 DEF Consecutive
    <2>2. ASSUME batch' # <<>>
          PROVE  batch'[1] >= 1 /\ LastOf(batch)' <= Settled'
      <3>1. BatchLen >= 1
        BY <1>2, <2>2
      <3>2. batch'[1] = Settled + 1 /\ batch'[BatchLen] = Settled + BatchLen
        BY <1>2, <3>1
      <3>3. QED
        BY <1>2, <1>4, <2>2, <3>2 DEF LastOf
    <2>3. QED
      BY <1>1, <2>1, <2>2 DEF BatchInv
  <1>7. ReceivedInv'
    <2>1. ASSUME NEW am \in Alertmanagers
          PROVE  /\ LastOf(received[am])' = LastOf(received[am])
                 /\ LastOf(received[am]) \in Nat /\ LastOf(received[am]) <= Settled
      BY <1>1, LastOfType DEF NotifierInv, Types, ReceivedInv, LastOf
    <2>2. ASSUME batch' # <<>>
          PROVE  batch'[1] = Settled + 1
      <3>1. BatchLen >= 1
        BY <1>2, <2>2
      <3>2. QED
        BY <1>2, <3>1
    <2>3. QED
      BY <1>2, <1>4, <2>1, <2>2 DEF ReceivedInv
  <1>8. Len(queue') <= QueueCapacity
    <2>1. QueueCapacity \in Nat /\ Len(queue) <= QueueCapacity
      BY NotifierAssumption DEF NotifierInv
    <2>2. QED
      BY <1>2, <1>3, <2>1
  <1>9. EndsWith(queue, sent)' /\ NoLostWakeup'
    <2>1. sent' = sent /\ pc' = "sendAll"
      BY <1>1
    <2>2. QED
      BY <1>3, <2>1 DEF EndsWith, NoLostWakeup
  <1>10. NotifierInv'
    BY <1>5, <1>6, <1>7, <1>8, <1>9 DEF NotifierInv
  <1>11. Settled' >= Settled
    BY <1>2, <1>4
  <1>12. QED
    BY <1>4, <1>10, <1>11

(* Appending a batch of consecutive numbers makes its last one the last    *)
(* received, and an empty batch changes nothing.                           *)
LEMMA AppendedLast ==
    ASSUME NEW s \in Seq(Nat), NEW b \in Seq(Nat)
    PROVE  /\ s \o b \in Seq(Nat)
           /\ b = <<>> => s \o b = s
           /\ b # <<>> => LastOf(s \o b) = LastOf(b)
  <1>1. s \o b \in Seq(Nat) /\ Len(s \o b) = Len(s) + Len(b)
    OBVIOUS
  <1>2. ASSUME b = <<>> PROVE s \o b = s
    BY <1>2
  <1>3. ASSUME b # <<>> PROVE LastOf(s \o b) = LastOf(b)
    <2>1. Len(b) >= 1 /\ Len(s) \in Nat /\ Len(b) \in Nat
      BY <1>3
    <2>2. s \o b # <<>>
      BY <1>1, <2>1
    <2>3. (s \o b)[Len(s) + Len(b)] = b[Len(b)]
      BY <2>1
    <2>4. QED
      BY <1>1, <1>3, <2>2, <2>3 DEF LastOf
  <1>4. QED
    BY <1>1, <1>2, <1>3

LEMMA SendOneInv ==
    ASSUME NotifierInv, NEW am \in Alertmanagers, NEW arrives \in BOOLEAN,
           NEW ok \in BOOLEAN, SendOne(am, arrives, ok)
    PROVE  NotifierInv'
  <1>1. /\ pc = "sendAll" /\ am \in posting /\ posting' = posting \ {am}
        /\ received' = IF arrives THEN [received EXCEPT ![am] = @ \o batch] ELSE received
        /\ UNCHANGED <<queue, more, pc, batch, sent>>
    BY DEF SendOne
  <1>2. /\ received \in [Alertmanagers -> Seq(Nat)] /\ batch \in Seq(Nat)
        /\ received[am] \in Seq(Nat) /\ posting \subseteq Alertmanagers
    BY DEF NotifierInv, Types
  <1>3. /\ received' \in [Alertmanagers -> Seq(Nat)]
        /\ \A a \in Alertmanagers : a # am => received'[a] = received[a]
        /\ received'[am] = received[am] \o batch \/ received'[am] = received[am]
    <2>1. received[am] \o batch \in Seq(Nat)
      BY <1>2, AppendedLast
    <2>2. QED
      BY <1>1, <1>2, <2>1
  <1>4. Types'
    BY <1>1, <1>2, <1>3 DEF NotifierInv, Types
  <1>5. Settled' = Settled /\ LastOf(batch)' = LastOf(batch)
    BY <1>1 DEF Settled, LastOf
  <1>6. BatchInv'
    BY <1>1, <1>5 DEF NotifierInv, BatchInv, Consecutive
  <1>7. ReceivedInv'
    <2>1. ASSUME NEW a \in Alertmanagers, a # am
          PROVE  /\ LastOf(received'[a]) <= Settled
                 /\ a \in posting' /\ batch # <<>> => LastOf(received'[a]) < batch[1]
      BY <1>1, <1>3, <2>1 DEF NotifierInv, ReceivedInv
    <2>2. LastOf(received'[am]) <= Settled
      <3>1. CASE received'[am] = received[am]
        BY <3>1 DEF NotifierInv, ReceivedInv
      <3>2. CASE received'[am] = received[am] \o batch /\ batch = <<>>
        BY <1>2, <3>2, AppendedLast DEF NotifierInv, ReceivedInv
      <3>3. CASE received'[am] = received[am] \o batch /\ batch # <<>>
        BY <1>2, <3>3, AppendedLast DEF NotifierInv, BatchInv
      <3>4. QED
        BY <1>3, <3>1, <3>2, <3>3
    <2>3. am \notin posting'
      BY <1>1
    <2>4. \A a \in Alertmanagers : LastOf(received[a])' = LastOf(received'[a])
      BY DEF LastOf
    <2>5. QED
      BY <1>1, <1>5, <2>1, <2>2, <2>3, <2>4 DEF ReceivedInv
  <1>8. NoLostWakeup' /\ EndsWith(queue, sent)' /\ (Len(queue) <= QueueCapacity)'
    BY <1>1 DEF NotifierInv, NoLostWakeup, EndsWith
  <1>9. QED
    BY <1>4, <1>6, <1>7, <1>8 DEF NotifierInv

(* The steps that touch neither the queue, nor what was received.          *)
LEMMA ControlInv ==
    ASSUME NotifierInv,
           \/ TakeMore \/ Return \/ SendAllReturns \/ CheckQueue \/ Stop
           \/ UNCHANGED vars
    PROVE  NotifierInv' /\ UNCHANGED <<queue, sent, received>>
  <1>1. UNCHANGED <<queue, sent, received>>
    BY DEF TakeMore, Return, SendAllReturns, CheckQueue, Stop, vars
  <1>2. Settled' = Settled /\ EndsWith(queue, sent)' /\ (Len(queue) <= QueueCapacity)'
    BY <1>1 DEF NotifierInv, Settled, EndsWith
  <1>3. CASE SendAllReturns
    <2>1. batch' = <<>> /\ pc' = "check" /\ UNCHANGED <<more, posting>> /\ posting = {}
      BY <1>3 DEF SendAllReturns
    <2>2. Types'
      BY <1>1, <2>1 DEF NotifierInv, Types
    <2>3. BatchInv'
      BY <2>1 DEF BatchInv, Consecutive
    <2>4. ReceivedInv'
      BY <1>1, <1>2, <2>1 DEF NotifierInv, ReceivedInv, LastOf
    <2>5. NoLostWakeup'
      BY <2>1 DEF NoLostWakeup
    <2>6. QED
      BY <1>1, <1>2, <2>2, <2>3, <2>4, <2>5 DEF NotifierInv
  <1>4. CASE TakeMore \/ Return \/ CheckQueue \/ Stop \/ UNCHANGED vars
    <2>1. UNCHANGED <<batch, posting>> /\ (pc' = "sendAll" => pc = "sendAll")
      BY <1>4 DEF TakeMore, Return, CheckQueue, Stop, vars
    <2>2. more' \in BOOLEAN
      BY <1>4 DEF TakeMore, Return, CheckQueue, Stop, vars, NotifierInv, Types
    <2>3. Types'
      BY <1>1, <2>1, <2>2 DEF NotifierInv, Types
    <2>4. posting' = {} \/ pc' = "sendAll"
      BY <1>4 DEF TakeMore, Return, CheckQueue, Stop, vars, NotifierInv, BatchInv
    <2>5. BatchInv'
      BY <1>2, <2>1, <2>4 DEF NotifierInv, BatchInv, Consecutive, LastOf
    <2>6. ReceivedInv'
      BY <1>1, <1>2, <2>1 DEF NotifierInv, ReceivedInv, LastOf
    <2>7. NoLostWakeup'
      <3>1. CASE CheckQueue
        <4>1. queue \in Seq(Nat) /\ queue' = queue /\ more' = (more \/ Len(queue) > 0)
          BY <1>1, <3>1 DEF CheckQueue, NotifierInv, Types
        <4>2. queue # <<>> => Len(queue) > 0
          BY <4>1
        <4>3. QED
          BY <4>1, <4>2 DEF NoLostWakeup
      <3>2. CASE ~ CheckQueue
        BY <1>1, <1>4, <3>2 DEF TakeMore, Return, Stop, vars, NotifierInv, NoLostWakeup
      <3>3. QED
        BY <3>1, <3>2
    <2>8. QED
      BY <1>1, <1>2, <2>3, <2>5, <2>6, <2>7 DEF NotifierInv
  <1>5. QED
    BY <1>1, <1>3, <1>4

LEMMA StepInv == NotifierInv /\ [Next]_vars => NotifierInv'
  <1> SUFFICES ASSUME NotifierInv, [Next]_vars PROVE NotifierInv'
    OBVIOUS
  <1>1. ASSUME NEW n \in SendSizes, Send(n) PROVE NotifierInv'
    BY <1>1, SendInv
  <1>2. CASE NextBatch
    BY <1>2, NextBatchInv
  <1>3. ASSUME NEW am \in Alertmanagers, NEW arrives \in BOOLEAN, NEW ok \in BOOLEAN,
               SendOne(am, arrives, ok)
        PROVE  NotifierInv'
    BY <1>3, SendOneInv
  <1>4. CASE TakeMore \/ Return \/ SendAllReturns \/ CheckQueue \/ Stop \/ UNCHANGED vars
    BY <1>4, ControlInv
  <1>5. QED
    BY <1>1, <1>2, <1>3, <1>4 DEF Next, RunStep

LEMMA Invariance == Spec => []NotifierInv
  BY InitInv, StepInv, PTL DEF Spec

(* Run never waits for the token while alerts are queued, whatever the     *)
(* capacity, the batch size and the interleaving of the senders.           *)
THEOREM NoLostWakeupAlways == Spec => []NoLostWakeup
  <1>1. NotifierInv => NoLostWakeup
    BY DEF NotifierInv
  <1>2. QED
    BY <1>1, Invariance, PTL

(* The queue always holds the newest notifications, in order and within    *)
(* its capacity.                                                           *)
THEOREM NewestKeptAlways == Spec => []NewestKept
  <1>1. NotifierInv => NewestKept
    BY DEF NotifierInv, NewestKept, EndsWith
  <1>2. QED
    BY <1>1, Invariance, PTL

-----------------------------------------------------------------------------
(* The refinement: a step of the notifier is a step of the contract.       *)
LEMMA InitRefines == Init => Contract!Init
  <1>1. Len(<<>>) = 0 /\ 0 - 0 = 0
    OBVIOUS
  <1>2. QED
    BY <1>1, Zenon DEF Init, Contract!Init

LEMMA SendRefines ==
    ASSUME NotifierInv, NEW n \in SendSizes, Send(n)
    PROVE  Contract!Accept
  <1>1. Settled' >= Settled /\ Settled' \in Nat /\ Settled' <= sent'
    <2>1. Len(queue') \in Nat /\ Len(queue') <= sent' /\ sent' \in Nat
      BY SendInv DEF NotifierInv, Types, EndsWith
    <2>2. QED
      BY <2>1, SendInv DEF Settled
  <1>2. Settled \in Nat
    BY DEF NotifierInv, Types, EndsWith, Settled
  <1>3. sent' > sent /\ UNCHANGED received
    BY NotifierAssumption DEF Send, NotifierInv, Types
  <1>4. sent' \in Nat
    BY NotifierAssumption DEF Send, NotifierInv, Types
  <1>5. Settled' \in Settled .. sent'
    BY <1>1, <1>2, <1>4
  <1>6. QED
    BY <1>3, <1>5 DEF Contract!Accept, Settled

LEMMA NextBatchRefines ==
    ASSUME NotifierInv, NextBatch
    PROVE  [Contract!Next]_(Contract!vars)
  <1>1. Settled' >= Settled /\ Settled' <= sent /\ Settled' \in Nat
    BY NextBatchInv
  <1>2. Settled \in Nat /\ sent \in Nat
    BY DEF NotifierInv, Types, EndsWith, Settled
  <1>3. UNCHANGED <<sent, received>>
    BY DEF NextBatch
  <1>4. CASE Settled' = Settled
    BY <1>3, <1>4 DEF Contract!vars, Settled
  <1>5. CASE Settled' # Settled
    <2>1. Settled < sent /\ Settled' \in Settled + 1 .. sent
      BY <1>1, <1>2, <1>5
    <2>2. Contract!Settle
      BY <1>3, <2>1 DEF Contract!Settle, Settled
    <2>3. QED
      BY <2>2 DEF Contract!Next
  <1>6. QED
    BY <1>4, <1>5

LEMMA SendOneRefines ==
    ASSUME NotifierInv, NEW am \in Alertmanagers, NEW arrives \in BOOLEAN,
           NEW ok \in BOOLEAN, SendOne(am, arrives, ok)
    PROVE  [Contract!Next]_(Contract!vars)
  <1>1. /\ am \in posting /\ UNCHANGED <<sent, queue>>
        /\ received' = IF arrives THEN [received EXCEPT ![am] = @ \o batch] ELSE received
    BY DEF SendOne
  <1>2. Settled' = Settled /\ Settled \in Nat
    BY <1>1 DEF Settled, NotifierInv, Types, EndsWith
  <1>3. batch \in Seq(Nat) /\ received[am] \in Seq(Nat)
        /\ received \in [Alertmanagers -> Seq(Nat)]
    BY DEF NotifierInv, Types
  <1>4. CASE ~ arrives \/ batch = <<>>
    <2>1. received' = received
      <3>1. CASE ~ arrives
        BY <1>1, <3>1
      <3>2. CASE arrives /\ batch = <<>>
        <4>1. received[am] \o batch = received[am]
          BY <1>3, <3>2, AppendedLast
        <4>2. QED
          BY <1>1, <1>3, <3>2, <4>1
      <3>3. QED
        BY <1>4, <3>1, <3>2
    <2>2. QED
      BY <1>1, <1>2, <2>1 DEF Contract!vars, Settled
  <1>5. CASE arrives /\ batch # <<>>
    <2> DEFINE from == batch[1]
               to == batch[Len(batch)]
    <2>1. Len(batch) \in Nat /\ Len(batch) >= 1
      BY <1>3, <1>5
    <2>2. from \in Nat /\ to \in Nat /\ from >= 1 /\ to <= Settled
          /\ to = from + Len(batch) - 1
      <3>1. batch \in Seq(Nat) /\ 1 \in 1 .. Len(batch) /\ Len(batch) \in 1 .. Len(batch)
        BY <1>3, <2>1 DEF NotifierInv, Types
      <3>2. from \in Nat /\ to \in Nat
        BY <3>1
      <3>3. from >= 1 /\ to <= Settled /\ to = from + Len(batch) - 1
        BY <1>3, <1>5, <2>1, <3>1, <3>2 DEF NotifierInv, BatchInv, LastOf, Consecutive
      <3>4. QED
        BY <3>2, <3>3
    <2>3. batch = [i \in 1 .. to - from + 1 |-> from + i - 1]
      <3>1. batch = [i \in 1 .. Len(batch) |-> batch[i]]
        BY <1>3
      <3>2. \A i \in 1 .. Len(batch) : batch[i] = from + i - 1
        BY DEF NotifierInv, BatchInv, Consecutive
      <3>3. to - from + 1 = Len(batch)
        BY <2>1, <2>2
      <3>4. batch = [i \in 1 .. Len(batch) |-> from + i - 1]
        BY <3>1, <3>2
      <3>5. QED
        BY <3>3, <3>4
    <2> HIDE DEF from, to
    <2>4. Contract!LastReceived(am) = LastOf(received[am]) /\ LastOf(received[am]) \in Nat
      BY <1>3, LastOfType DEF Contract!LastReceived, LastOf
    <2>5. LastOf(received[am]) < from
      BY <1>1, <1>5 DEF NotifierInv, ReceivedInv, from
    <2>6. from \in Contract!LastReceived(am) + 1 .. Settled /\ to \in from .. Settled
      BY <1>2, <2>1, <2>2, <2>4, <2>5
    <2>7. received' = [received EXCEPT ![am] =
                         @ \o [i \in 1 .. to - from + 1 |-> from + i - 1]]
      BY <1>1, <1>5, <2>3
    <2>8. Contract!Deliver(am)
      BY <1>1, <1>2, <2>6, <2>7 DEF Contract!Deliver, Settled
    <2>9. QED
      BY <2>8 DEF Contract!Next
  <1>6. QED
    BY <1>4, <1>5

LEMMA StepRefines == NotifierInv /\ [Next]_vars => [Contract!Next]_(Contract!vars)
  <1> SUFFICES ASSUME NotifierInv, [Next]_vars PROVE [Contract!Next]_(Contract!vars)
    OBVIOUS
  <1>1. ASSUME NEW n \in SendSizes, Send(n) PROVE Contract!Next
    BY <1>1, SendRefines DEF Contract!Next
  <1>2. CASE NextBatch
    BY <1>2, NextBatchRefines
  <1>3. ASSUME NEW am \in Alertmanagers, NEW arrives \in BOOLEAN, NEW ok \in BOOLEAN,
               SendOne(am, arrives, ok)
        PROVE  [Contract!Next]_(Contract!vars)
    BY <1>3, SendOneRefines
  <1>4. CASE TakeMore \/ Return \/ SendAllReturns \/ CheckQueue \/ Stop \/ UNCHANGED vars
    <2>1. UNCHANGED <<queue, sent, received>>
      BY <1>4, ControlInv
    <2>2. QED
      BY <2>1 DEF Contract!vars
  <1>5. QED
    BY <1>1, <1>2, <1>3, <1>4 DEF Next, RunStep

(* The notifier implements its contract: every Alertmanager gets every     *)
(* notification at most once and in order, after it left the queue.        *)
THEOREM ContractKept == Spec => KeepsContract
  <1>1. Init => Contract!Init
    BY InitRefines
  <1>2. NotifierInv /\ [Next]_vars => [Contract!Next]_(Contract!vars)
    BY StepRefines
  <1>3. QED
    BY <1>1, <1>2, Invariance, PTL DEF Spec, KeepsContract, Contract!Spec

-----------------------------------------------------------------------------
(* The query cache. *)

(***************************************************************************)
(* Induction over the natural numbers, about sets instead of predicates:   *)
(* every set of naturals has a least element.                              *)
(***************************************************************************)
LEMMA NatLess == IsWellFoundedOn({p \in Nat \X Nat : p[1] < p[2]}, Nat)
  BY NatLessThanWellFounded DEF OpToRel

LEMMA Least ==
    ASSUME NEW T \in SUBSET Nat, T # {}
    PROVE  \E m \in T : \A n \in T : m <= n
  <1> DEFINE Less == {p \in Nat \X Nat : p[1] < p[2]}
  <1>1. IsWellFoundedOn(Less, Nat)
    BY NatLess
  <1>2. \A m, n \in Nat : n < m => <<n, m>> \in Less
    OBVIOUS
  <1> HIDE DEF Less
  <1>3. PICK m \in T : \A n \in T : ~ (<<n, m>> \in Less)
    BY <1>1, WFMin
  <1>4. ASSUME NEW n \in T
        PROVE  m <= n
    <2>1. ~ (n < m)
      BY <1>2, <1>3
    <2>2. QED
      BY <2>1
  <1>5. QED
    BY <1>4

LEMMA UpTo ==
    ASSUME NEW n \in Nat, NEW T, 0 \in T, \A k \in 1 .. n : k - 1 \in T => k \in T
    PROVE  \A k \in 0 .. n : k \in T
  <1> DEFINE U == {k \in 0 .. n : k \notin T}
  <1>1. SUFFICES ASSUME U # {} PROVE FALSE
    OBVIOUS
  <1>2. U \in SUBSET Nat
    OBVIOUS
  <1> HIDE DEF U
  <1>3. PICK m \in U : \A k \in U : m <= k
    BY <1>1, <1>2, Least
  <1>4. m \in 1 .. n /\ m \notin T
    BY <1>3 DEF U
  <1>5. m - 1 \notin U
    BY <1>3, <1>4
  <1>6. m - 1 \in T
    BY <1>4, <1>5 DEF U
  <1>7. QED
    BY <1>4, <1>6

LEMMA Greatest ==
    ASSUME NEW n \in Nat, NEW T \in SUBSET (0 .. n), T # {}
    PROVE  \E m \in T : \A k \in T : k <= m
  <1> DEFINE U == {k \in 0 .. n : n - k \in T}
  <1>1. U \in SUBSET Nat
    OBVIOUS
  <1>2. U # {}
    <2>1. PICK k : k \in T
      OBVIOUS
    <2>2. n - k \in 0 .. n /\ n - (n - k) = k
      BY <2>1
    <2>3. n - k \in U
      BY <2>1, <2>2
    <2>4. QED
      BY <2>3
  <1>3. \A k \in T : n - k \in U
    <2>1. ASSUME NEW k \in T
          PROVE  n - k \in U
      <3>1. k \in 0 .. n /\ n - k \in 0 .. n /\ n - (n - k) = k
        OBVIOUS
      <3>2. QED
        BY <3>1
    <2>2. QED
      BY <2>1
  <1>4. \A k \in U : k \in 0 .. n /\ n - k \in T
    OBVIOUS
  <1> HIDE DEF U
  <1>5. PICK m \in U : \A k \in U : m <= k
    BY <1>1, <1>2, Least
  <1>6. n - m \in T /\ m \in 0 .. n
    BY <1>4, <1>5
  <1>7. ASSUME NEW k \in T
        PROVE  k <= n - m
    <2>1. m <= n - k
      BY <1>3, <1>5
    <2>2. QED
      BY <1>6, <2>1
  <1>8. QED
    BY <1>6, <1>7

LEMMA MaxFacts ==
    ASSUME NEW n \in Nat, NEW T \in SUBSET (0 .. n), T # {}
    PROVE  Max(T) \in T /\ \A k \in T : k <= Max(T)
  <1>1. PICK m \in T : \A k \in T : k <= m
    BY Greatest
  <1>2. \A k \in T : m >= k
    BY <1>1
  <1>3. QED
    BY <1>1, <1>2 DEF Max

LEMMA PairFacts ==
    ASSUME NEW a \in Int, NEW b \in Int
    PROVE  /\ Max({a, b}) = IF a >= b THEN a ELSE b
           /\ Min({a, b}) = IF a <= b THEN a ELSE b
  BY DEF Max, Min

LEMMA MaxIn ==
    ASSUME NEW n \in Nat, NEW s \in SUBSET (1 .. n), s # {}
    PROVE  Max(s) \in 1 .. n
  <1>1. s \in SUBSET (0 .. n)
    OBVIOUS
  <1>2. Max(s) \in s
    BY <1>1, MaxFacts
  <1>3. QED
    BY <1>2

LEMMA MaxUpTo == \A k \in Nat \ {0} : Max(1 .. k) = k /\ (1 .. k) \ {k} = 1 .. k - 1
  <1>1. ASSUME NEW k \in Nat \ {0}
        PROVE  Max(1 .. k) = k
    <2>1. k \in 1 .. k /\ 1 .. k \in SUBSET (0 .. k)
      OBVIOUS
    <2>2. Max(1 .. k) \in 1 .. k /\ k <= Max(1 .. k)
      BY <2>1, MaxFacts
    <2>3. QED
      BY <2>2
  <1>2. QED
    BY <1>1

(***************************************************************************)
(* Folds.  The community modules define them by recursion over the subsets *)
(* of the domain; that there is such a function follows from UpTo, for a   *)
(* step that is a function.  Each loop of the cache is such a fold: for it *)
(* there is a run r with r[k] what the loop has after k elements.          *)
(***************************************************************************)
IsFold(g, n, A, base, h) ==
    /\ g \in [SUBSET (1 .. n) -> A]
    /\ \A s \in SUBSET (1 .. n) :
          g[s] = IF s = {} THEN base ELSE h[<<g[s \ {Max(s)}], Max(s)>>]

LEMMA FoldExists ==
    ASSUME NEW n \in Nat, NEW A, NEW base \in A, NEW h \in [A \X (1 .. n) -> A]
    PROVE  \E g : IsFold(g, n, A, base, h)
  <1> DEFINE Holds(g, k) ==
                 \A s \in SUBSET (1 .. k) :
                     g[s] = IF s = {} THEN base ELSE h[<<g[s \ {Max(s)}], Max(s)>>]
             T == {k \in 0 .. n : \E g \in [SUBSET (1 .. k) -> A] : Holds(g, k)}
  <1>1. 0 \in T
    <2> DEFINE g == [s \in SUBSET (1 .. 0) |-> base]
    <2>1. g \in [SUBSET (1 .. 0) -> A] /\ Holds(g, 0)
      OBVIOUS
    <2> HIDE DEF g, Holds
    <2>2. \E x \in [SUBSET (1 .. 0) -> A] : Holds(x, 0)
      BY <2>1
    <2>3. 0 \in 0 .. n
      OBVIOUS
    <2>4. QED
      BY <2>2, <2>3
  <1>2. ASSUME NEW k \in 1 .. n, k - 1 \in T
        PROVE  k \in T
    <2>1. PICK g \in [SUBSET (1 .. k - 1) -> A] : Holds(g, k - 1)
      BY <1>2
    <2> HIDE DEF Holds
    <2> DEFINE e == [s \in SUBSET (1 .. k) |->
                         IF k \in s THEN h[<<g[s \ {k}], k>>] ELSE g[s]]
    <2>2. ASSUME NEW s \in SUBSET (1 .. k)
          PROVE  /\ e[s] \in A
                 /\ e[s] = IF s = {} THEN base ELSE h[<<e[s \ {Max(s)}], Max(s)>>]
      <3>1. CASE k \in s
        <4>1. s \in SUBSET (0 .. k) /\ s # {}
          BY <3>1
        <4>2. k \in Nat /\ Max(s) \in s /\ \A i \in s : i <= Max(s)
          <5>1. k \in Nat
            OBVIOUS
          <5>2. QED
            BY <4>1, <5>1, MaxFacts
        <4>3. Max(s) = k
          <5>1. Max(s) \in 1 .. k /\ k <= Max(s)
            BY <3>1, <4>2
          <5>2. QED
            BY <4>2, <5>1
        <4>4. s \ {k} \in SUBSET (1 .. k - 1) /\ s \ {k} \in SUBSET (1 .. k)
          OBVIOUS
        <4>5. e[s] = h[<<g[s \ {k}], k>>] /\ e[s \ {k}] = g[s \ {k}]
          BY <3>1, <4>4
        <4>6. QED
          BY <3>1, <4>1, <4>3, <4>4, <4>5
      <3>2. CASE k \notin s
        <4>1. s \in SUBSET (1 .. k - 1) /\ s \ {Max(s)} \in SUBSET (1 .. k - 1)
          <5>1. \A i \in s : i \in 1 .. k /\ i # k
            BY <3>2
          <5>2. \A i \in s : i \in 1 .. k - 1
            BY <5>1
          <5>3. QED
            BY <5>2
        <4>2. s \ {Max(s)} \in SUBSET (1 .. k) /\ k \notin s \ {Max(s)}
          BY <3>2
        <4>3. e[s] = g[s] /\ e[s \ {Max(s)}] = g[s \ {Max(s)}]
          BY <3>2, <4>1, <4>2
        <4>4. g[s] = IF s = {} THEN base ELSE h[<<g[s \ {Max(s)}], Max(s)>>]
          BY <2>1, <4>1 DEF Holds
        <4>5. QED
          BY <4>1, <4>3, <4>4
      <3>3. QED
        BY <3>1, <3>2
    <2>3. e \in [SUBSET (1 .. k) -> A]
      BY <2>2
    <2>4. Holds(e, k)
      BY <2>2 DEF Holds
    <2> HIDE DEF e
    <2>5. QED
      BY <2>3, <2>4
  <1> HIDE DEF T
  <1>3. n \in T
    BY <1>1, <1>2, UpTo
  <1>4. PICK g \in [SUBSET (1 .. n) -> A] : Holds(g, n)
    BY <1>3 DEF T
  <1>5. IsFold(g, n, A, base, h)
    BY <1>4 DEF IsFold
  <1>6. QED
    BY <1>5

(* Inserted behind the last that does not start later. *)
Behind(sorted, d) == Max({0} \cup {i \in DOMAIN sorted : sorted[i].start <= d.start})

LEMMA SplitFacts ==
    ASSUME NEW S, NEW s \in Seq(S), NEW n \in 0 .. Len(s)
    PROVE  /\ SubSeq(s, 1, n) \in Seq(S)
           /\ Len(SubSeq(s, 1, n)) = n
           /\ \A i \in 1 .. n : SubSeq(s, 1, n)[i] = s[i]
           /\ SubSeq(s, n + 1, Len(s)) \in Seq(S)
           /\ Len(SubSeq(s, n + 1, Len(s))) = Len(s) - n
           /\ \A i \in 1 .. Len(s) - n : SubSeq(s, n + 1, Len(s))[i] = s[i + n]
  <1>1. /\ SubSeq(s, 1, n) \in Seq(S)
        /\ Len(SubSeq(s, 1, n)) = n
        /\ \A i \in 1 .. n : SubSeq(s, 1, n)[i] = s[i]
    OBVIOUS
  <1>2. SubSeq(s, n + 1, Len(s)) \in Seq(S)
    OBVIOUS
  <1>3. Len(SubSeq(s, n + 1, Len(s))) = Len(s) - n
    OBVIOUS
  <1>4. \A i \in 1 .. Len(s) - n : SubSeq(s, n + 1, Len(s))[i] = s[i + n]
    OBVIOUS
  <1>5. QED
    BY <1>1, <1>2, <1>3, <1>4

LEMMA InsertFacts ==
    ASSUME NEW s \in Seq(Pieces), NEW d \in Pieces
    PROVE  /\ InsertByStart(s, d) \in Seq(Pieces)
           /\ Len(InsertByStart(s, d)) = Len(s) + 1
           /\ Behind(s, d) \in 0 .. Len(s)
           /\ Behind(s, d) # 0 => s[Behind(s, d)].start <= d.start
           /\ \A i \in 1 .. Len(s) : s[i].start <= d.start => i <= Behind(s, d)
           /\ \A i \in 1 .. Len(s) + 1 :
                InsertByStart(s, d)[i] = IF i <= Behind(s, d) THEN s[i]
                                         ELSE IF i = Behind(s, d) + 1 THEN d
                                         ELSE s[i - 1]
  <1> DEFINE T == {0} \cup {i \in DOMAIN s : s[i].start <= d.start}
             n == Behind(s, d)
  <1>1. Len(s) \in Nat /\ DOMAIN s = 1 .. Len(s)
    OBVIOUS
  <1>2. T \in SUBSET (0 .. Len(s)) /\ T # {}
    BY <1>1
  <1>3. n = Max(T)
    BY DEF Behind
  <1> HIDE DEF n
  <1>4. n \in T /\ \A k \in T : k <= n
    BY <1>1, <1>2, <1>3, MaxFacts
  <1>5. n \in 0 .. Len(s)
    BY <1>2, <1>4
  <1>6. InsertByStart(s, d) = SubSeq(s, 1, n) \o <<d>> \o SubSeq(s, n + 1, Len(s))
    <2>1. (n + 1) - 1 = n
      BY <1>5
    <2>2. QED
      BY <2>1 DEF InsertByStart, InsertAt, Behind, n
  <1> HIDE DEF T
  <1>7. /\ SubSeq(s, 1, n) \in Seq(Pieces) /\ Len(SubSeq(s, 1, n)) = n
        /\ \A i \in 1 .. n : SubSeq(s, 1, n)[i] = s[i]
        /\ SubSeq(s, n + 1, Len(s)) \in Seq(Pieces)
        /\ Len(SubSeq(s, n + 1, Len(s))) = Len(s) - n
        /\ \A i \in 1 .. Len(s) - n : SubSeq(s, n + 1, Len(s))[i] = s[i + n]
    BY <1>5, SplitFacts
  <1> DEFINE u == SubSeq(s, 1, n)
             v == SubSeq(s, n + 1, Len(s))
  <1> HIDE DEF u, v
  <1>8. /\ u \o <<d>> \o v \in Seq(Pieces) /\ Len(u \o <<d>> \o v) = Len(s) + 1
        /\ \A i \in 1 .. Len(s) + 1 :
             (u \o <<d>> \o v)[i] = IF i <= n THEN s[i] ELSE IF i = n + 1 THEN d ELSE s[i - 1]
    <2>1. /\ u \in Seq(Pieces) /\ Len(u) = n /\ \A i \in 1 .. n : u[i] = s[i]
          /\ v \in Seq(Pieces) /\ Len(v) = Len(s) - n
          /\ \A i \in 1 .. Len(s) - n : v[i] = s[i + n]
      BY <1>7 DEF u, v
    <2> DEFINE w == u \o <<d>>
    <2>2. w \in Seq(Pieces) /\ Len(w) = n + 1 /\ \A i \in 1 .. n : w[i] = u[i]
      BY <2>1, <1>5
    <2>3. w[n + 1] = d
      <3>1. <<d>> \in Seq(Pieces) /\ Len(<<d>>) = 1 /\ <<d>>[1] = d
        OBVIOUS
      <3>2. n + 1 \in 1 .. Len(u) + Len(<<d>>) /\ ~ (n + 1 <= Len(u)) /\ (n + 1) - Len(u) = 1
        BY <2>1, <3>1, <1>5
      <3>3. QED
        BY <2>1, <3>1, <3>2, ConcatProperties
    <2> HIDE DEF w
    <2>4. /\ w \o v \in Seq(Pieces) /\ Len(w \o v) = Len(s) + 1
          /\ \A i \in 1 .. n + 1 : (w \o v)[i] = w[i]
          /\ \A i \in n + 2 .. Len(s) + 1 : (w \o v)[i] = v[i - (n + 1)]
      BY <2>1, <2>2, <1>1, <1>5
    <2>5. ASSUME NEW i \in 1 .. Len(s) + 1
          PROVE  (w \o v)[i] = IF i <= n THEN s[i] ELSE IF i = n + 1 THEN d ELSE s[i - 1]
      <3>1. CASE i <= n
        <4>1. i \in 1 .. n /\ i \in 1 .. n + 1
          BY <3>1, <1>5
        <4>2. QED
          BY <3>1, <4>1, <2>1, <2>2, <2>4
      <3>2. CASE i = n + 1
        BY <3>2, <2>3, <2>4, <1>5
      <3>3. CASE i > n + 1
        <4>1. /\ i \in n + 2 .. Len(s) + 1 /\ i - (n + 1) \in 1 .. Len(s) - n
              /\ (i - (n + 1)) + n = i - 1
          BY <3>3, <1>1, <1>5
        <4>2. (w \o v)[i] = v[i - (n + 1)] /\ v[i - (n + 1)] = s[i - 1]
          BY <4>1, <2>1, <2>4
        <4>3. QED
          BY <3>3, <4>2, <1>5
      <3>4. i <= n \/ i = n + 1 \/ i > n + 1
        BY <1>1, <1>5
      <3>5. QED
        BY <3>1, <3>2, <3>3, <3>4
    <2>6. QED
      BY <2>4, <2>5 DEF w
  <1>9. \A i \in 1 .. Len(s) : s[i].start <= d.start => i \in T
    BY <1>1 DEF T
  <1>10. n # 0 => s[n].start <= d.start
    BY <1>4 DEF T
  <1>11. /\ InsertByStart(s, d) \in Seq(Pieces)
         /\ Len(InsertByStart(s, d)) = Len(s) + 1
         /\ \A i \in 1 .. Len(s) + 1 :
              InsertByStart(s, d)[i] = IF i <= n THEN s[i]
                                       ELSE IF i = n + 1 THEN d
                                       ELSE s[i - 1]
    <2>1. InsertByStart(s, d) = u \o <<d>> \o v
      BY <1>6 DEF u, v
    <2>2. QED
      BY <1>8, <2>1
  <1>12. \A i \in 1 .. Len(s) : s[i].start <= d.start => i <= n
    BY <1>4, <1>9
  <1>13. QED
    BY <1>5, <1>10, <1>11, <1>12 DEF n

LEMMA ByStartRun ==
    ASSUME NEW list \in Seq(Pieces)
    PROVE  \E r : /\ \A k \in 0 .. Len(list) : r[k] \in Seq(Pieces)
                  /\ r[0] = <<>>
                  /\ \A k \in 1 .. Len(list) : r[k] = InsertByStart(r[k - 1], list[k])
                  /\ ByStart(list) = r[Len(list)]
  <1> DEFINE n == Len(list)
             A == Seq(Pieces)
             base == <<>>
             Is(g) == g = [s \in SUBSET DOMAIN list |->
                              IF s = {} THEN <<>>
                              ELSE InsertByStart(g[s \ {Max(s)}], list[Max(s)])]
             iter == CHOOSE g : Is(g)
             h == [p \in A \X (1 .. n) |-> InsertByStart(p[1], list[p[2]])]
             r == [k \in 0 .. n |-> iter[1 .. k]]
  <1>1. n \in Nat /\ DOMAIN list = 1 .. n /\ \A i \in 1 .. n : list[i] \in Pieces
    OBVIOUS
  <1>2. base \in A /\ \A a \in A, i \in 1 .. n : InsertByStart(a, list[i]) \in A
    <2>1. base \in A
      BY EmptySeq
    <2>2. ASSUME NEW a \in A, NEW i \in 1 .. n
          PROVE  InsertByStart(a, list[i]) \in A
      <3>1. list[i] \in Pieces
        BY <1>1
      <3>2. QED
        BY <3>1, InsertFacts
    <2>3. QED
      BY <2>1, <2>2
  <1>3. ByStart(list) = iter[DOMAIN list]
    BY DEF ByStart, FoldLeft, MapThenFoldSet
  <1> HIDE DEF n, A
  <1>4. h \in [A \X (1 .. n) -> A] /\ \A a \in A, i \in 1 .. n : h[<<a, i>>] = InsertByStart(a, list[i])
    BY <1>2
  <1>5. \E g : Is(g)
    <2> HIDE DEF h
    <2>1. n \in Nat /\ base \in A /\ h \in [A \X (1 .. n) -> A]
      BY <1>1, <1>2, <1>4
    <2>2. PICK g : IsFold(g, n, A, base, h)
      BY <2>1, FoldExists
    <2>3. ASSUME NEW s \in SUBSET (1 .. n), s # {}
          PROVE  g[s] = InsertByStart(g[s \ {Max(s)}], list[Max(s)])
      <3>1. Max(s) \in 1 .. n
        BY <1>1, <2>3, MaxIn
      <3>2. g[s \ {Max(s)}] \in A
        BY <2>2 DEF IsFold
      <3>3. g[s] = h[<<g[s \ {Max(s)}], Max(s)>>]
        BY <2>2, <2>3 DEF IsFold
      <3>4. QED
        BY <1>4, <3>1, <3>2, <3>3
    <2>4. g = [s \in SUBSET (1 .. n) |-> IF s = {} THEN base ELSE InsertByStart(g[s \ {Max(s)}], list[Max(s)])]
      <3>1. g = [s \in SUBSET (1 .. n) |-> g[s]]
        BY <2>2 DEF IsFold
      <3>2. \A s \in SUBSET (1 .. n) : g[s] = IF s = {} THEN base ELSE InsertByStart(g[s \ {Max(s)}], list[Max(s)])
        BY <2>2, <2>3 DEF IsFold
      <3> HIDE DEF base
      <3>3. QED
        BY <3>1, <3>2
    <2>5. Is(g)
      BY <1>1, <2>4
    <2>6. QED
      BY <2>5
  <1>6. Is(iter)
    BY <1>5
  <1> HIDE DEF iter, h
  <1>7. r[0] = base
    BY <1>1, <1>6
  <1>8. ASSUME NEW k \in 1 .. n
        PROVE  r[k] = InsertByStart(r[k - 1], list[k])
    <2>1. k \in Nat \ {0} /\ k \in 0 .. n /\ k - 1 \in 0 .. n
      BY <1>1
    <2>2. 1 .. k \in SUBSET (1 .. n) /\ 1 .. k # {}
      <3>1. k \in 1 .. k /\ \A i \in 1 .. k : i \in 1 .. n
        BY <1>1
      <3>2. QED
        BY <3>1
    <2>3. iter[1 .. k] = InsertByStart(iter[1 .. k - 1], list[k])
      BY <1>1, <1>6, <2>1, <2>2, MaxUpTo
    <2>4. QED
      BY <2>1, <2>3
  <1>9. ByStart(list) = r[n]
    BY <1>1, <1>3
  <1> HIDE DEF r, Is, base
  <1>10. \A k \in 0 .. n : r[k] \in A
    <2> DEFINE T == {k \in 0 .. n : r[k] \in A}
    <2>1. 0 \in T
      BY <1>1, <1>2, <1>7
    <2>2. \A k \in 1 .. n : k - 1 \in T => k \in T
      BY <1>1, <1>2, <1>8
    <2> HIDE DEF T
    <2>3. \A k \in 0 .. n : k \in T
      BY <1>1, <2>1, <2>2, UpTo
    <2>4. QED
      BY <2>3 DEF T
  <1>11. QED
    BY <1>7, <1>8, <1>9, <1>10 DEF n, A, base

-----------------------------------------------------------------------------
(* What is cached, and what is left of it before the boundary. *)
Data == UNION {[T -> Nat] : T \in SUBSET Times}

Cuts == [start : Times, end : Int, data : Data]

Misses == [start : Times, end : Times]

LEMMA DataFacts ==
    ASSUME NEW f
    PROVE  f \in Data <=> f \in [DOMAIN f -> Nat] /\ DOMAIN f \in SUBSET Times
  BY DEF Data

LEMMA TimesFacts == Times \subseteq Nat /\ \A a, b \in Times : Max({a, b}) \in Times
  <1>1. MaxNow \in Nat /\ Times \subseteq Nat
    BY QueryRangeCacheAssumption DEF Times
  <1>2. ASSUME NEW a \in Times, NEW b \in Times
        PROVE  Max({a, b}) \in Times
    <2>1. a \in Int /\ b \in Int
      BY <1>1
    <2>2. Max({a, b}) = IF a >= b THEN a ELSE b
      BY <2>1, PairFacts
    <2>3. QED
      BY <2>2
  <1>3. QED
    BY <1>1, <1>2

LEMMA MergeSeriesFacts ==
    ASSUME NEW f \in Data, NEW g \in Data
    PROVE  MergeSeries(f, g) \in Data /\ DOMAIN MergeSeries(f, g) = DOMAIN f \cup DOMAIN g
  <1> DEFINE m == MergeSeries(f, g)
  <1>1. /\ f \in [DOMAIN f -> Nat] /\ DOMAIN f \in SUBSET Times
        /\ g \in [DOMAIN g -> Nat] /\ DOMAIN g \in SUBSET Times
    BY DataFacts
  <1>2. m = [t \in DOMAIN f \cup DOMAIN g |-> IF t \in DOMAIN g THEN g[t] ELSE f[t]]
    BY DEF MergeSeries
  <1> HIDE DEF m
  <1>3. DOMAIN m = DOMAIN f \cup DOMAIN g /\ m \in [DOMAIN m -> Nat]
    BY <1>1, <1>2
  <1>4. QED
    BY <1>1, <1>3, DataFacts DEF m

LEMMA BetweenFacts ==
    ASSUME NEW f \in Data, NEW start \in Times, NEW end \in Times
    PROVE  /\ Between(f, start, end) \in Data
           /\ DOMAIN Between(f, start, end) = {u \in DOMAIN f : start <= u /\ u <= end}
  <1> DEFINE b == Between(f, start, end)
             S == {u \in DOMAIN f : start <= u /\ u <= end}
  <1>1. f \in [DOMAIN f -> Nat] /\ DOMAIN f \in SUBSET Times
    BY DataFacts
  <1>2. b = [t \in S |-> f[t]]
    BY DEF Between
  <1>3. S \in SUBSET DOMAIN f
    OBVIOUS
  <1> HIDE DEF b, S
  <1>4. DOMAIN b = S /\ b \in [DOMAIN b -> Nat]
    BY <1>1, <1>2, <1>3
  <1>5. QED
    BY <1>1, <1>3, <1>4, DataFacts DEF b, S

LEMMA MergeNextFacts ==
    ASSUME NEW s \in Seq(Pieces), NEW d \in Pieces
    PROVE  LET m == MergeNext(s, d)
               n == Len(m)
           IN /\ m \in Seq(Pieces) /\ n >= 1
              /\ \/ /\ s = <<>> \/ d.start > s[Len(s)].end
                    /\ n = Len(s) + 1 /\ m[n] = d
                 \/ /\ s # <<>> /\ d.start <= s[Len(s)].end
                    /\ n = Len(s)
                    /\ m[n].start = s[n].start
                    /\ m[n].end = Max({s[n].end, d.end})
                    /\ m[n].data = MergeSeries(s[n].data, d.data)
              /\ \A i \in 1 .. n - 1 : m[i] = s[i]
  <1> DEFINE k == Len(s)
             m == MergeNext(s, d)
  <1>1. k \in Nat /\ (s # <<>> => k >= 1) /\ \A i \in 1 .. k : s[i] \in Pieces
    OBVIOUS
  <1>2. CASE s # <<>> /\ d.start <= s[k].end
    <2> DEFINE e == [start |-> s[k].start, end |-> Max({s[k].end, d.end}),
                     data |-> MergeSeries(s[k].data, d.data)]
               f == SubSeq(s, 1, k - 1)
    <2>1. m = Append(f, e)
      BY <1>2 DEF MergeNext, Last, Front
    <2>2. s[k] \in Pieces
      BY <1>1, <1>2
    <2>3. e \in Pieces
      BY <2>2, TimesFacts, MergeSeriesFacts DEF Pieces, Data
    <2>4. /\ f \in Seq(Pieces) /\ Len(f) = k - 1
          /\ \A i \in 1 .. k - 1 : f[i] = s[i]
      <3>1. k - 1 \in 0 .. Len(s)
        BY <1>1, <1>2
      <3>2. ASSUME NEW j \in 0 .. Len(s)
            PROVE  /\ SubSeq(s, 1, j) \in Seq(Pieces) /\ Len(SubSeq(s, 1, j)) = j
                   /\ \A i \in 1 .. j : SubSeq(s, 1, j)[i] = s[i]
        BY SplitFacts
      <3>3. QED
        BY <3>1, <3>2
    <2> HIDE DEF e, f, m
    <2>5. /\ m \in Seq(Pieces) /\ Len(m) = k /\ m[k] = e
          /\ \A i \in 1 .. k - 1 : m[i] = s[i]
      BY <1>1, <1>2, <2>1, <2>3, <2>4
    <2>6. e.start = s[k].start /\ e.end = Max({s[k].end, d.end})
          /\ e.data = MergeSeries(s[k].data, d.data)
      BY DEF e
    <2>7. QED
      BY <1>1, <1>2, <2>5, <2>6 DEF m
  <1>3. CASE ~ (s # <<>> /\ d.start <= s[k].end)
    <2>1. m = Append(s, d)
      BY <1>3 DEF MergeNext, Last
    <2> HIDE DEF m
    <2>2. /\ m \in Seq(Pieces) /\ Len(m) = k + 1 /\ m[k + 1] = d
          /\ \A i \in 1 .. k : m[i] = s[i]
      BY <1>1, <2>1
    <2>3. s # <<>> => s[k].end \in Nat /\ d.start \in Nat
      <3>1. s # <<>> => s[k] \in Pieces
        BY <1>1
      <3>2. QED
        BY <3>1, TimesFacts DEF Pieces
    <2>4. s = <<>> \/ d.start > s[k].end
      BY <1>3, <2>3
    <2>5. QED
      BY <1>1, <2>2, <2>4 DEF m
  <1>4. QED
    BY <1>2, <1>3

LEMMA PassFacts ==
    ASSUME NEW start \in Times, NEW end \in Times, start < end,
           NEW s \in [at : start .. end, misses : Seq(Misses)], NEW d \in Cuts
    PROVE  LET p == Pass(s, d, start, end)
           IN /\ p \in [at : start .. end, misses : Seq(Misses)]
              /\ p.at >= s.at
              /\ \/ (d.end <= start \/ d.start >= end) /\ p = s
                 \/ /\ d.end > start /\ d.start < end
                    /\ p.at >= d.end \/ p.at = end
                    /\ p.at = s.at \/ p.at <= d.end
                    /\ \/ s.at >= d.start /\ p.misses = s.misses
                       \/ /\ s.at < d.start
                          /\ p.misses = Append(s.misses, [start |-> s.at, end |-> d.start])
  <1> DEFINE p == Pass(s, d, start, end)
  <1>1. start \in Nat /\ end \in Nat /\ s.at \in start .. end /\ d.end \in Int /\ d.start \in Nat
    BY TimesFacts DEF Cuts
  <1>2. CASE d.end <= start \/ d.start >= end
    BY <1>1, <1>2 DEF Pass
  <1>3. CASE d.end > start /\ d.start < end
    <2> DEFINE cut == Min({d.end, end})
               to == Max({s.at, cut})
    <2>0. d.end \in Int /\ end \in Int /\ s.at \in Int
      BY <1>1
    <2>1. cut = IF d.end <= end THEN d.end ELSE end
      BY <2>0, PairFacts
    <2> HIDE DEF cut
    <2>2. to = IF s.at >= cut THEN s.at ELSE cut
      <3>1. cut \in Int
        BY <2>0, <2>1
      <3>2. QED
        BY <2>0, <3>1, PairFacts
    <2>3. /\ to \in start .. end /\ to >= s.at
          /\ to >= d.end \/ to = end
          /\ to = s.at \/ to <= d.end
      BY <1>1, <1>3, <2>1, <2>2
    <2>4. p = [at |-> to,
               misses |-> IF s.at < d.start
                          THEN Append(s.misses, [start |-> s.at, end |-> d.start])
                          ELSE s.misses]
      BY <1>1, <1>3 DEF Pass, cut
    <2> HIDE DEF to, p
    <2>5. [start |-> s.at, end |-> d.start] \in Misses
      <3>1. s.at \in Times /\ d.start \in Times
        BY <1>1, QueryRangeCacheAssumption DEF Times, Cuts
      <3>2. QED
        BY <3>1 DEF Misses
    <2>6. p.misses \in Seq(Misses)
      BY <2>4, <2>5
    <2>7. QED
      BY <1>1, <1>3, <2>3, <2>4, <2>6 DEF p
  <1>4. QED
    BY <1>1, <1>2, <1>3

LEMMA NoData == <<>> \in Data
  <1>1. <<>> = [t \in {} |-> t]
    OBVIOUS
  <1>2. QED
    BY <1>1 DEF Data

LEMMA PieceData ==
    ASSUME NEW d \in Pieces
    PROVE  d.start \in Times /\ d.end \in Times /\ d.data \in Data
  BY DEF Pieces, Data

Merged(list) == FoldLeft(MergeNext, <<>>, list)

LEMMA MergedRun ==
    ASSUME NEW list \in Seq(Pieces)
    PROVE  \E r : /\ \A k \in 0 .. Len(list) : r[k] \in Seq(Pieces)
                  /\ r[0] = <<>>
                  /\ \A k \in 1 .. Len(list) : r[k] = MergeNext(r[k - 1], list[k])
                  /\ Merged(list) = r[Len(list)]
  <1> DEFINE n == Len(list)
             A == Seq(Pieces)
             base == <<>>
             Is(g) == g = [s \in SUBSET DOMAIN list |->
                              IF s = {} THEN <<>>
                              ELSE MergeNext(g[s \ {Max(s)}], list[Max(s)])]
             iter == CHOOSE g : Is(g)
             h == [p \in A \X (1 .. n) |-> MergeNext(p[1], list[p[2]])]
             r == [k \in 0 .. n |-> iter[1 .. k]]
  <1>1. n \in Nat /\ DOMAIN list = 1 .. n /\ \A i \in 1 .. n : list[i] \in Pieces
    OBVIOUS
  <1>2. base \in A /\ \A a \in A, i \in 1 .. n : MergeNext(a, list[i]) \in A
    <2>1. base \in A
      BY EmptySeq
    <2>2. ASSUME NEW a \in A, NEW i \in 1 .. n
          PROVE  MergeNext(a, list[i]) \in A
      <3>1. list[i] \in Pieces
        BY <1>1
      <3>2. QED
        BY <3>1, MergeNextFacts
    <2>3. QED
      BY <2>1, <2>2
  <1>3. Merged(list) = iter[DOMAIN list]
    BY DEF Merged, FoldLeft, MapThenFoldSet
  <1> HIDE DEF n, A
  <1>4. h \in [A \X (1 .. n) -> A] /\ \A a \in A, i \in 1 .. n : h[<<a, i>>] = MergeNext(a, list[i])
    BY <1>2
  <1>5. \E g : Is(g)
    <2> HIDE DEF h
    <2>1. n \in Nat /\ base \in A /\ h \in [A \X (1 .. n) -> A]
      BY <1>1, <1>2, <1>4
    <2>2. PICK g : IsFold(g, n, A, base, h)
      BY <2>1, FoldExists
    <2>3. ASSUME NEW s \in SUBSET (1 .. n), s # {}
          PROVE  g[s] = MergeNext(g[s \ {Max(s)}], list[Max(s)])
      <3>1. Max(s) \in 1 .. n
        BY <1>1, <2>3, MaxIn
      <3>2. g[s \ {Max(s)}] \in A
        BY <2>2 DEF IsFold
      <3>3. g[s] = h[<<g[s \ {Max(s)}], Max(s)>>]
        BY <2>2, <2>3 DEF IsFold
      <3>4. QED
        BY <1>4, <3>1, <3>2, <3>3
    <2>4. g = [s \in SUBSET (1 .. n) |-> IF s = {} THEN base ELSE MergeNext(g[s \ {Max(s)}], list[Max(s)])]
      <3>1. g = [s \in SUBSET (1 .. n) |-> g[s]]
        BY <2>2 DEF IsFold
      <3>2. \A s \in SUBSET (1 .. n) : g[s] = IF s = {} THEN base ELSE MergeNext(g[s \ {Max(s)}], list[Max(s)])
        BY <2>2, <2>3 DEF IsFold
      <3> HIDE DEF base
      <3>3. QED
        BY <3>1, <3>2
    <2>5. Is(g)
      BY <1>1, <2>4
    <2>6. QED
      BY <2>5
  <1>6. Is(iter)
    BY <1>5
  <1> HIDE DEF iter, h
  <1>7. r[0] = base
    BY <1>1, <1>6
  <1>8. ASSUME NEW k \in 1 .. n
        PROVE  r[k] = MergeNext(r[k - 1], list[k])
    <2>1. k \in Nat \ {0} /\ k \in 0 .. n /\ k - 1 \in 0 .. n
      BY <1>1
    <2>2. 1 .. k \in SUBSET (1 .. n) /\ 1 .. k # {}
      <3>1. k \in 1 .. k /\ \A i \in 1 .. k : i \in 1 .. n
        BY <1>1
      <3>2. QED
        BY <3>1
    <2>3. iter[1 .. k] = MergeNext(iter[1 .. k - 1], list[k])
      BY <1>1, <1>6, <2>1, <2>2, MaxUpTo
    <2>4. QED
      BY <2>1, <2>3
  <1>9. Merged(list) = r[n]
    BY <1>1, <1>3
  <1> HIDE DEF r, Is, base
  <1>10. \A k \in 0 .. n : r[k] \in A
    <2> DEFINE T == {k \in 0 .. n : r[k] \in A}
    <2>1. 0 \in T
      BY <1>1, <1>2, <1>7
    <2>2. \A k \in 1 .. n : k - 1 \in T => k \in T
      BY <1>1, <1>2, <1>8
    <2> HIDE DEF T
    <2>3. \A k \in 0 .. n : k \in T
      BY <1>1, <2>1, <2>2, UpTo
    <2>4. QED
      BY <2>3 DEF T
  <1>11. QED
    BY <1>7, <1>8, <1>9, <1>10 DEF n, A, base

LEMMA SeriesRun ==
    ASSUME NEW list \in Seq(Pieces), NEW start \in Times, NEW end \in Times
    PROVE  \E r : /\ \A k \in 0 .. Len(list) : r[k] \in Data
                  /\ r[0] = <<>>
                  /\ \A k \in 1 .. Len(list) : r[k] = MergeSeries(r[k - 1], Between(list[k].data, start, end))
                  /\ GetSeriesFromCachedData(list, start, end) = r[Len(list)]
  <1> DEFINE n == Len(list)
             A == Data
             base == <<>>
             Is(g) == g = [s \in SUBSET DOMAIN list |->
                              IF s = {} THEN <<>>
                              ELSE MergeSeries(g[s \ {Max(s)}], Between(list[Max(s)].data, start, end))]
             iter == CHOOSE g : Is(g)
             h == [p \in A \X (1 .. n) |-> MergeSeries(p[1], Between(list[p[2]].data, start, end))]
             r == [k \in 0 .. n |-> iter[1 .. k]]
  <1>1. n \in Nat /\ DOMAIN list = 1 .. n /\ \A i \in 1 .. n : list[i] \in Pieces
    OBVIOUS
  <1>2. base \in A /\ \A a \in A, i \in 1 .. n : MergeSeries(a, Between(list[i].data, start, end)) \in A
    <2>1. base \in A
      BY NoData
    <2>2. ASSUME NEW a \in A, NEW i \in 1 .. n
          PROVE  MergeSeries(a, Between(list[i].data, start, end)) \in A
      <3>1. list[i] \in Pieces
        BY <1>1
      <3>2. QED
        BY <3>1, PieceData, BetweenFacts, MergeSeriesFacts
    <2>3. QED
      BY <2>1, <2>2
  <1>3. GetSeriesFromCachedData(list, start, end) = iter[DOMAIN list]
    BY DEF GetSeriesFromCachedData, FoldLeft, MapThenFoldSet
  <1> HIDE DEF n, A
  <1>4. h \in [A \X (1 .. n) -> A] /\ \A a \in A, i \in 1 .. n : h[<<a, i>>] = MergeSeries(a, Between(list[i].data, start, end))
    BY <1>2
  <1>5. \E g : Is(g)
    <2> HIDE DEF h
    <2>1. n \in Nat /\ base \in A /\ h \in [A \X (1 .. n) -> A]
      BY <1>1, <1>2, <1>4
    <2>2. PICK g : IsFold(g, n, A, base, h)
      BY <2>1, FoldExists
    <2>3. ASSUME NEW s \in SUBSET (1 .. n), s # {}
          PROVE  g[s] = MergeSeries(g[s \ {Max(s)}], Between(list[Max(s)].data, start, end))
      <3>1. Max(s) \in 1 .. n
        BY <1>1, <2>3, MaxIn
      <3>2. g[s \ {Max(s)}] \in A
        BY <2>2 DEF IsFold
      <3>3. g[s] = h[<<g[s \ {Max(s)}], Max(s)>>]
        BY <2>2, <2>3 DEF IsFold
      <3>4. QED
        BY <1>4, <3>1, <3>2, <3>3
    <2>4. g = [s \in SUBSET (1 .. n) |-> IF s = {} THEN base ELSE MergeSeries(g[s \ {Max(s)}], Between(list[Max(s)].data, start, end))]
      <3>1. g = [s \in SUBSET (1 .. n) |-> g[s]]
        BY <2>2 DEF IsFold
      <3>2. \A s \in SUBSET (1 .. n) : g[s] = IF s = {} THEN base ELSE MergeSeries(g[s \ {Max(s)}], Between(list[Max(s)].data, start, end))
        BY <2>2, <2>3 DEF IsFold
      <3> HIDE DEF base
      <3>3. QED
        BY <3>1, <3>2
    <2>5. Is(g)
      BY <1>1, <2>4
    <2>6. QED
      BY <2>5
  <1>6. Is(iter)
    BY <1>5
  <1> HIDE DEF iter, h
  <1>7. r[0] = base
    BY <1>1, <1>6
  <1>8. ASSUME NEW k \in 1 .. n
        PROVE  r[k] = MergeSeries(r[k - 1], Between(list[k].data, start, end))
    <2>1. k \in Nat \ {0} /\ k \in 0 .. n /\ k - 1 \in 0 .. n
      BY <1>1
    <2>2. 1 .. k \in SUBSET (1 .. n) /\ 1 .. k # {}
      <3>1. k \in 1 .. k /\ \A i \in 1 .. k : i \in 1 .. n
        BY <1>1
      <3>2. QED
        BY <3>1
    <2>3. iter[1 .. k] = MergeSeries(iter[1 .. k - 1], Between(list[k].data, start, end))
      BY <1>1, <1>6, <2>1, <2>2, MaxUpTo
    <2>4. QED
      BY <2>1, <2>3
  <1>9. GetSeriesFromCachedData(list, start, end) = r[n]
    BY <1>1, <1>3
  <1> HIDE DEF r, Is, base
  <1>10. \A k \in 0 .. n : r[k] \in A
    <2> DEFINE T == {k \in 0 .. n : r[k] \in A}
    <2>1. 0 \in T
      BY <1>1, <1>2, <1>7
    <2>2. \A k \in 1 .. n : k - 1 \in T => k \in T
      BY <1>1, <1>2, <1>8
    <2> HIDE DEF T
    <2>3. \A k \in 0 .. n : k \in T
      BY <1>1, <2>1, <2>2, UpTo
    <2>4. QED
      BY <2>3 DEF T
  <1>11. QED
    BY <1>7, <1>8, <1>9, <1>10 DEF n, A, base

Scan(list, start, end) ==
    FoldLeft(LAMBDA s, d : Pass(s, d, start, end), [at |-> start, misses |-> <<>>], list)

LEMMA ScanRun ==
    ASSUME NEW list \in Seq(Cuts), NEW start \in Times, NEW end \in Times, start < end
    PROVE  \E r : /\ \A k \in 0 .. Len(list) : r[k] \in [at : start .. end, misses : Seq(Misses)]
                  /\ r[0] = [at |-> start, misses |-> <<>>]
                  /\ \A k \in 1 .. Len(list) : r[k] = Pass(r[k - 1], list[k], start, end)
                  /\ Scan(list, start, end) = r[Len(list)]
  <1> DEFINE n == Len(list)
             A == [at : start .. end, misses : Seq(Misses)]
             base == [at |-> start, misses |-> <<>>]
             Is(g) == g = [s \in SUBSET DOMAIN list |->
                              IF s = {} THEN [at |-> start, misses |-> <<>>]
                              ELSE Pass(g[s \ {Max(s)}], list[Max(s)], start, end)]
             iter == CHOOSE g : Is(g)
             h == [p \in A \X (1 .. n) |-> Pass(p[1], list[p[2]], start, end)]
             r == [k \in 0 .. n |-> iter[1 .. k]]
  <1>1. n \in Nat /\ DOMAIN list = 1 .. n /\ \A i \in 1 .. n : list[i] \in Cuts
    OBVIOUS
  <1>2. base \in A /\ \A a \in A, i \in 1 .. n : Pass(a, list[i], start, end) \in A
    <2>1. base \in A
      <3>1. start \in Nat /\ end \in Nat
        BY TimesFacts
      <3>2. start \in start .. end
        BY <3>1
      <3>3. QED
        BY <3>2
    <2>2. ASSUME NEW a \in A, NEW i \in 1 .. n
          PROVE  Pass(a, list[i], start, end) \in A
      <3>1. list[i] \in Cuts
        BY <1>1
      <3>2. QED
        BY <3>1, PassFacts
    <2>3. QED
      BY <2>1, <2>2
  <1>3. Scan(list, start, end) = iter[DOMAIN list]
    BY DEF Scan, FoldLeft, MapThenFoldSet
  <1> HIDE DEF n, A
  <1>4. h \in [A \X (1 .. n) -> A] /\ \A a \in A, i \in 1 .. n : h[<<a, i>>] = Pass(a, list[i], start, end)
    BY <1>2
  <1>5. \E g : Is(g)
    <2> HIDE DEF h
    <2>1. n \in Nat /\ base \in A /\ h \in [A \X (1 .. n) -> A]
      BY <1>1, <1>2, <1>4
    <2>2. PICK g : IsFold(g, n, A, base, h)
      BY <2>1, FoldExists
    <2>3. ASSUME NEW s \in SUBSET (1 .. n), s # {}
          PROVE  g[s] = Pass(g[s \ {Max(s)}], list[Max(s)], start, end)
      <3>1. Max(s) \in 1 .. n
        BY <1>1, <2>3, MaxIn
      <3>2. g[s \ {Max(s)}] \in A
        BY <2>2 DEF IsFold
      <3>3. g[s] = h[<<g[s \ {Max(s)}], Max(s)>>]
        BY <2>2, <2>3 DEF IsFold
      <3>4. QED
        BY <1>4, <3>1, <3>2, <3>3
    <2>4. g = [s \in SUBSET (1 .. n) |-> IF s = {} THEN base ELSE Pass(g[s \ {Max(s)}], list[Max(s)], start, end)]
      <3>1. g = [s \in SUBSET (1 .. n) |-> g[s]]
        BY <2>2 DEF IsFold
      <3>2. \A s \in SUBSET (1 .. n) : g[s] = IF s = {} THEN base ELSE Pass(g[s \ {Max(s)}], list[Max(s)], start, end)
        BY <2>2, <2>3 DEF IsFold
      <3> HIDE DEF base
      <3>3. QED
        BY <3>1, <3>2
    <2>5. Is(g)
      BY <1>1, <2>4
    <2>6. QED
      BY <2>5
  <1>6. Is(iter)
    BY <1>5
  <1> HIDE DEF iter, h
  <1>7. r[0] = base
    BY <1>1, <1>6
  <1>8. ASSUME NEW k \in 1 .. n
        PROVE  r[k] = Pass(r[k - 1], list[k], start, end)
    <2>1. k \in Nat \ {0} /\ k \in 0 .. n /\ k - 1 \in 0 .. n
      BY <1>1
    <2>2. 1 .. k \in SUBSET (1 .. n) /\ 1 .. k # {}
      <3>1. k \in 1 .. k /\ \A i \in 1 .. k : i \in 1 .. n
        BY <1>1
      <3>2. QED
        BY <3>1
    <2>3. iter[1 .. k] = Pass(iter[1 .. k - 1], list[k], start, end)
      BY <1>1, <1>6, <2>1, <2>2, MaxUpTo
    <2>4. QED
      BY <2>1, <2>3
  <1>9. Scan(list, start, end) = r[n]
    BY <1>1, <1>3
  <1> HIDE DEF r, Is, base
  <1>10. \A k \in 0 .. n : r[k] \in A
    <2> DEFINE T == {k \in 0 .. n : r[k] \in A}
    <2>1. 0 \in T
      BY <1>1, <1>2, <1>7
    <2>2. \A k \in 1 .. n : k - 1 \in T => k \in T
      BY <1>1, <1>2, <1>8
    <2> HIDE DEF T
    <2>3. \A k \in 0 .. n : k \in T
      BY <1>1, <2>1, <2>2, UpTo
    <2>4. QED
      BY <2>3 DEF T
  <1>11. QED
    BY <1>7, <1>8, <1>9, <1>10 DEF n, A, base

-----------------------------------------------------------------------------
(* What the loops do, for any list. *)
Sorted(s) == \A i, j \in 1 .. Len(s) : i <= j => s[i].start <= s[j].start

Elements(s) == {s[i] : i \in 1 .. Len(s)}

LEMMA ElementsRange == ASSUME NEW S, NEW s \in Seq(S) PROVE Range(s) = Elements(s)
  BY DEF Range, Elements

LEMMA InsertSorted ==
    ASSUME NEW s \in Seq(Pieces), NEW d \in Pieces, Sorted(s)
    PROVE  Sorted(InsertByStart(s, d)) /\ Elements(InsertByStart(s, d)) = Elements(s) \cup {d}
  <1> DEFINE m == InsertByStart(s, d)
             n == Behind(s, d)
             k == Len(s)
  <1>1. /\ k \in Nat /\ n \in 0 .. k /\ Len(m) = k + 1
        /\ n # 0 => s[n].start <= d.start
        /\ \A i \in 1 .. k : s[i].start <= d.start => i <= n
        /\ \A i \in 1 .. k + 1 : m[i] = IF i <= n THEN s[i] ELSE IF i = n + 1 THEN d ELSE s[i - 1]
    <2>1. Len(s) \in Nat
      OBVIOUS
    <2> HIDE DEF m, n, k
    <2>2. /\ Len(InsertByStart(s, d)) = Len(s) + 1
          /\ Behind(s, d) \in 0 .. Len(s)
          /\ Behind(s, d) # 0 => s[Behind(s, d)].start <= d.start
          /\ \A i \in 1 .. Len(s) : s[i].start <= d.start => i <= Behind(s, d)
          /\ \A i \in 1 .. Len(s) + 1 :
                InsertByStart(s, d)[i] = IF i <= Behind(s, d) THEN s[i]
                                         ELSE IF i = Behind(s, d) + 1 THEN d
                                         ELSE s[i - 1]
      BY InsertFacts
    <2>3. QED
      BY <2>1, <2>2 DEF m, n, k
  <1>2. d.start \in Nat /\ \A i \in 1 .. k : s[i] \in Pieces /\ s[i].start \in Nat
    <2>1. \A i \in 1 .. k : s[i] \in Pieces
      OBVIOUS
    <2>2. QED
      BY <2>1, TimesFacts, PieceData
  <1>3. \A i, j \in 1 .. k : i <= j => s[i].start <= s[j].start
    BY DEF Sorted
  <1> HIDE DEF m, n, k
  <1>4. /\ \A i \in 1 .. k + 1 : i <= n => i \in 1 .. k /\ m[i] = s[i]
        /\ n + 1 \in 1 .. k + 1 /\ m[n + 1] = d
        /\ \A i \in 1 .. k + 1 : i > n + 1 => i - 1 \in 1 .. k /\ i - 1 > n /\ m[i] = s[i - 1]
    BY <1>1
  <1>5. \A i \in 1 .. k : i <= n => s[i].start <= d.start
    <2>1. ASSUME NEW i \in 1 .. k, i <= n
          PROVE  s[i].start <= d.start
      <3>1. n \in 1 .. k /\ n # 0
        BY <1>1, <2>1
      <3>2. s[i].start <= s[n].start /\ s[n].start <= d.start
        BY <1>1, <1>3, <2>1, <3>1
      <3>3. QED
        BY <1>2, <3>1, <3>2
    <2>2. QED
      BY <2>1
  <1>6. \A i \in 1 .. k : i > n => d.start <= s[i].start
    BY <1>1, <1>2
  <1>7. ASSUME NEW i \in 1 .. k + 1, NEW j \in 1 .. k + 1, i <= j
        PROVE  m[i].start <= m[j].start
    <2>1. CASE j <= n
      BY <1>1, <1>3, <1>4, <1>7, <2>1
    <2>2. CASE j = n + 1 /\ i = n + 1
      BY <1>2, <1>4, <2>2
    <2>3. CASE j = n + 1 /\ i <= n
      BY <1>4, <1>5, <2>3
    <2>4. CASE j > n + 1 /\ i <= n
      <3>1. m[i] = s[i] /\ m[j] = s[j - 1] /\ i \in 1 .. k /\ j - 1 \in 1 .. k /\ i <= j - 1
        BY <1>1, <1>4, <2>4
      <3>2. QED
        BY <1>3, <3>1
    <2>5. CASE j > n + 1 /\ i = n + 1
      BY <1>4, <1>6, <2>5
    <2>6. CASE j > n + 1 /\ i > n + 1
      <3>1. m[i] = s[i - 1] /\ m[j] = s[j - 1] /\ i - 1 \in 1 .. k /\ j - 1 \in 1 .. k
            /\ i - 1 <= j - 1
        BY <1>1, <1>4, <1>7, <2>6
      <3>2. QED
        BY <1>3, <3>1
    <2>7. j <= n \/ j = n + 1 \/ j > n + 1
      BY <1>1
    <2>8. i <= n \/ i = n + 1 \/ i > n + 1
      BY <1>1
    <2>9. j = n + 1 => i <= n \/ i = n + 1
      BY <1>1, <1>7
    <2>10. QED
      BY <2>1, <2>2, <2>3, <2>4, <2>5, <2>6, <2>7, <2>8, <2>9
  <1>8. Elements(m) = Elements(s) \cup {d}
    <2>1. ASSUME NEW i \in 1 .. k + 1
          PROVE  m[i] \in {s[j] : j \in 1 .. k} \cup {d}
      BY <1>1, <1>4
    <2>2. ASSUME NEW j \in 1 .. k
          PROVE  s[j] \in {m[i] : i \in 1 .. k + 1}
      <3>1. CASE j <= n
        <4>1. j \in 1 .. k + 1 /\ m[j] = s[j]
          BY <1>1, <1>4, <3>1
        <4>2. QED
          BY <4>1
      <3>2. CASE j > n
        <4>1. j + 1 \in 1 .. k + 1 /\ j + 1 > n + 1 /\ (j + 1) - 1 = j
          BY <1>1, <3>2
        <4>2. m[j + 1] = s[j]
          BY <1>4, <4>1
        <4>3. QED
          BY <4>1, <4>2
      <3>3. QED
        BY <1>1, <3>1, <3>2
    <2>3. d \in {m[i] : i \in 1 .. k + 1}
      BY <1>4
    <2>4. {m[i] : i \in 1 .. k + 1} = {s[j] : j \in 1 .. k} \cup {d}
      BY <2>1, <2>2, <2>3
    <2>5. QED
      BY <1>1, <2>4 DEF Elements, k
  <1>9. QED
    BY <1>1, <1>7, <1>8 DEF Sorted, m

LEMMA ByStartFacts ==
    ASSUME NEW list \in Seq(Pieces)
    PROVE  /\ ByStart(list) \in Seq(Pieces)
           /\ Len(ByStart(list)) = Len(list)
           /\ Sorted(ByStart(list))
           /\ Elements(ByStart(list)) = Elements(list)
  <1> DEFINE n == Len(list)
  <1>1. n \in Nat /\ \A i \in 1 .. n : list[i] \in Pieces
    OBVIOUS
  <1>2. PICK r : /\ \A k \in 0 .. n : r[k] \in Seq(Pieces)
                 /\ r[0] = <<>>
                 /\ \A k \in 1 .. n : r[k] = InsertByStart(r[k - 1], list[k])
                 /\ ByStart(list) = r[n]
    BY ByStartRun
  <1> HIDE DEF n
  <1> DEFINE Fits(k) == /\ Len(r[k]) = k /\ Sorted(r[k])
                        /\ Elements(r[k]) = {list[i] : i \in 1 .. k}
             T == {k \in 0 .. n : Fits(k)}
  <1>3. 0 \in T
    BY <1>1, <1>2 DEF Sorted, Elements
  <1>4. ASSUME NEW k \in 1 .. n, k - 1 \in T
        PROVE  k \in T
    <2>1. r[k - 1] \in Seq(Pieces) /\ list[k] \in Pieces /\ r[k] = InsertByStart(r[k - 1], list[k])
      BY <1>1, <1>2
    <2>2. Fits(k - 1)
      BY <1>4
    <2>3. Len(r[k]) = k
      <3>1. Len(InsertByStart(r[k - 1], list[k])) = Len(r[k - 1]) + 1
        BY <2>1, InsertFacts
      <3>2. QED
        BY <1>1, <2>1, <2>2, <3>1
    <2>4. Sorted(r[k]) /\ Elements(r[k]) = Elements(r[k - 1]) \cup {list[k]}
      BY <2>1, <2>2, InsertSorted
    <2>5. {list[i] : i \in 1 .. k} = {list[i] : i \in 1 .. k - 1} \cup {list[k]}
      BY <1>1
    <2>6. QED
      BY <2>2, <2>3, <2>4, <2>5
  <1> HIDE DEF T
  <1>5. n \in T
    <2>1. \A k \in 1 .. n : k - 1 \in T => k \in T
      BY <1>4
    <2>2. \A k \in 0 .. n : k \in T
      BY <1>1, <1>3, <2>1, UpTo
    <2>3. QED
      BY <1>1, <2>2
  <1>6. Fits(n) /\ r[n] \in Seq(Pieces)
    BY <1>1, <1>2, <1>5 DEF T
  <1>7. QED
    BY <1>2, <1>6 DEF n, Elements

(* An interval that has all of its points, but for those of early. *)
Complete(d, E) ==
    /\ DOMAIN d.data \subseteq Within(d)
    /\ Within(d) \ E \subseteq DOMAIN d.data

LEMMA CoveredFacts ==
    ASSUME NEW S, NEW s \in Seq(S)
    PROVE  \A t : t \in Covered(s) <=> \E i \in 1 .. Len(s) : t \in Within(s[i])
  <1>1. Covered(s) = UNION {Within(d) : d \in Elements(s)}
    BY ElementsRange DEF Covered
  <1>2. QED
    BY <1>1 DEF Elements

LEMMA MergeOne ==
    ASSUME NEW s \in Seq(Pieces), NEW d \in Pieces, NEW E,
           \A i \in 1 .. Len(s) : Complete(s[i], E), Complete(d, E),
           s # <<>> => s[Len(s)].start <= d.start
    PROVE  LET m == MergeNext(s, d)
           IN /\ m \in Seq(Pieces)
              /\ m # <<>>
              /\ m[Len(m)].start <= d.start
              /\ \A i \in 1 .. Len(m) : Complete(m[i], E)
              /\ Covered(m) = Covered(s) \cup Within(d)
  <1> DEFINE m == MergeNext(s, d)
             n == Len(m)
             k == Len(s)
  <1>1. /\ k \in Nat /\ (s # <<>> => k >= 1)
        /\ d.start \in Nat /\ d.end \in Nat /\ d.data \in Data
        /\ \A i \in 1 .. k : s[i].start \in Nat /\ s[i].end \in Nat /\ s[i].data \in Data
    <2>1. k \in Nat /\ (s # <<>> => k >= 1) /\ \A i \in 1 .. k : s[i] \in Pieces
      OBVIOUS
    <2>2. QED
      BY <2>1, PieceData, TimesFacts
  <1>2. /\ m \in Seq(Pieces) /\ n >= 1
        /\ \/ /\ s = <<>> \/ d.start > s[k].end
              /\ n = k + 1 /\ m[n] = d
           \/ /\ s # <<>> /\ d.start <= s[k].end
              /\ n = k
              /\ m[n].start = s[n].start
              /\ m[n].end = Max({s[n].end, d.end})
              /\ m[n].data = MergeSeries(s[n].data, d.data)
        /\ \A i \in 1 .. n - 1 : m[i] = s[i]
    BY MergeNextFacts
  <1> HIDE DEF m
  <1>3. m # <<>> /\ n \in Nat
    BY <1>2
  <1>4. \A t : t \in Covered(m) <=> \E i \in 1 .. n : t \in Within(m[i])
    BY <1>2, CoveredFacts
  <1>5. \A t : t \in Covered(s) <=> \E i \in 1 .. k : t \in Within(s[i])
    BY CoveredFacts
  <1> HIDE DEF n, k
  <1>6. CASE n = k + 1 /\ m[n] = d
    <2>1. /\ \A i \in 1 .. n : i = n \/ (i \in 1 .. k /\ m[i] = s[i])
          /\ \A i \in 1 .. k : i \in 1 .. n /\ m[i] = s[i]
      <3>1. \A i \in 1 .. k : m[i] = s[i]
        <4>1. n - 1 = k
          BY <1>1, <1>6
        <4>2. QED
          BY <1>2, <4>1
      <3>2. \A i \in 1 .. n : i = n \/ i \in 1 .. k
        BY <1>1, <1>6
      <3>3. \A i \in 1 .. k : i \in 1 .. n
        BY <1>1, <1>6
      <3>4. QED
        BY <3>1, <3>2, <3>3
    <2>2. \A i \in 1 .. n : Complete(m[i], E)
      BY <1>6, <2>1 DEF k
    <2>3. \A t : t \in Covered(m) <=> t \in Covered(s) \/ t \in Within(d)
      <3>1. n \in 1 .. n
        BY <1>2, <1>3
      <3>2. QED
        BY <1>4, <1>5, <1>6, <2>1, <3>1
    <2>4. m[n].start <= d.start
      BY <1>1, <1>6
    <2>5. Covered(m) = Covered(s) \cup Within(d)
      BY <2>3
    <2>6. QED
      BY <1>2, <1>3, <2>2, <2>4, <2>5 DEF m, n
  <1>7. CASE /\ s # <<>> /\ d.start <= s[k].end
             /\ n = k
             /\ m[n].start = s[n].start
             /\ m[n].end = Max({s[n].end, d.end})
             /\ m[n].data = MergeSeries(s[n].data, d.data)
    <2>1. k \in 1 .. k /\ s[k].start \in Nat /\ s[k].end \in Nat /\ s[k].data \in Data
      BY <1>1, <1>7
    <2>2. s[k].start <= d.start
      BY <1>7 DEF k
    <2>3. m[k].end = IF s[k].end >= d.end THEN s[k].end ELSE d.end
      <3>1. s[k].end \in Int /\ d.end \in Int
        BY <1>1, <2>1
      <3>2. QED
        BY <1>7, <3>1, PairFacts
    <2>4. Within(m[k]) = Within(s[k]) \cup Within(d)
      BY <1>1, <1>7, <2>1, <2>2, <2>3 DEF Within
    <2>5. Complete(m[k], E)
      <3>1. DOMAIN m[k].data = DOMAIN s[k].data \cup DOMAIN d.data
        <4>1. d.data \in Data /\ s[k].data \in Data
          BY <1>1, <2>1
        <4>2. DOMAIN MergeSeries(s[k].data, d.data) = DOMAIN s[k].data \cup DOMAIN d.data
          BY <4>1, MergeSeriesFacts
        <4>3. QED
          BY <1>7, <4>2
      <3>2. Complete(s[k], E)
        BY <2>1 DEF k
      <3>3. QED
        BY <2>4, <3>1, <3>2 DEF Complete
    <2>6. \A i \in 1 .. k : i = k \/ m[i] = s[i]
      BY <1>1, <1>2, <1>7
    <2>7. \A i \in 1 .. n : Complete(m[i], E)
      BY <1>7, <2>5, <2>6 DEF k
    <2>8. \A t : t \in Covered(m) <=> t \in Covered(s) \/ t \in Within(d)
      BY <1>4, <1>5, <1>7, <2>1, <2>4, <2>6
    <2>9. Covered(m) = Covered(s) \cup Within(d)
      BY <2>8
    <2>10. QED
      BY <1>2, <1>3, <1>7, <2>2, <2>7, <2>9 DEF m, n
  <1>8. QED
    BY <1>2, <1>6, <1>7

LEMMA MergedFacts ==
    ASSUME NEW list \in Seq(Pieces), NEW E, Sorted(list),
           \A i \in 1 .. Len(list) : Complete(list[i], E)
    PROVE  /\ Merged(list) \in Seq(Pieces)
           /\ \A i \in 1 .. Len(Merged(list)) : Complete(Merged(list)[i], E)
           /\ Covered(Merged(list)) = Covered(list)
  <1> DEFINE n == Len(list)
  <1>1. n \in Nat /\ \A i \in 1 .. n : list[i] \in Pieces /\ list[i].start \in Nat
    <2>1. n \in Nat /\ \A i \in 1 .. n : list[i] \in Pieces
      OBVIOUS
    <2>2. QED
      BY <2>1, PieceData, TimesFacts
  <1>2. PICK r : /\ \A k \in 0 .. n : r[k] \in Seq(Pieces)
                 /\ r[0] = <<>>
                 /\ \A k \in 1 .. n : r[k] = MergeNext(r[k - 1], list[k])
                 /\ Merged(list) = r[n]
    BY MergedRun
  <1>3. \A i, j \in 1 .. n : i <= j => list[i].start <= list[j].start
    BY DEF Sorted
  <1>4. \A i \in 1 .. n : Complete(list[i], E)
    OBVIOUS
  <1> HIDE DEF n
  <1> DEFINE Fits(k) == /\ r[k] # <<>> => k >= 1 /\ r[k][Len(r[k])].start <= list[k].start
                        /\ \A i \in 1 .. Len(r[k]) : Complete(r[k][i], E)
                        /\ \A t : t \in Covered(r[k]) <=> \E i \in 1 .. k : t \in Within(list[i])
             T == {k \in 0 .. n : Fits(k)}
  <1>5. 0 \in T
    BY <1>1, <1>2 DEF Covered, Range
  <1>6. ASSUME NEW k \in 1 .. n, k - 1 \in T
        PROVE  k \in T
    <2>1. r[k - 1] \in Seq(Pieces) /\ list[k] \in Pieces /\ r[k] = MergeNext(r[k - 1], list[k])
      BY <1>1, <1>2
    <2>2. Fits(k - 1)
      BY <1>6
    <2>3. r[k - 1] # <<>> => r[k - 1][Len(r[k - 1])].start <= list[k].start
      <3>1. ASSUME r[k - 1] # <<>>
            PROVE  r[k - 1][Len(r[k - 1])].start <= list[k].start
        <4>1. k - 1 \in 1 .. n /\ r[k - 1][Len(r[k - 1])].start <= list[k - 1].start
          BY <1>1, <2>2, <3>1
        <4>2. list[k - 1].start <= list[k].start /\ list[k - 1].start \in Nat /\ list[k].start \in Nat
          BY <1>1, <1>3, <4>1
        <4>3. r[k - 1][Len(r[k - 1])].start \in Nat
          <5>1. r[k - 1][Len(r[k - 1])] \in Pieces
            BY <2>1, <3>1
          <5>2. QED
            BY <5>1, PieceData, TimesFacts
        <4>4. QED
          BY <4>1, <4>2, <4>3
      <3>2. QED
        BY <3>1
    <2>4. Complete(list[k], E) /\ \A i \in 1 .. Len(r[k - 1]) : Complete(r[k - 1][i], E)
      BY <1>4, <2>2
    <2>5. /\ r[k] # <<>> /\ r[k][Len(r[k])].start <= list[k].start
          /\ \A i \in 1 .. Len(r[k]) : Complete(r[k][i], E)
          /\ Covered(r[k]) = Covered(r[k - 1]) \cup Within(list[k])
      <3> HIDE DEF Fits, T
      <3>1. QED
        BY <2>1, <2>3, <2>4, MergeOne
    <2>6. \A t : t \in Covered(r[k]) <=> \E i \in 1 .. k : t \in Within(list[i])
      <3>1. 1 .. k = (1 .. k - 1) \cup {k}
        BY <1>1
      <3>2. \A t : t \in Covered(r[k - 1]) <=> \E i \in 1 .. k - 1 : t \in Within(list[i])
        BY <2>2
      <3>3. QED
        BY <2>5, <3>1, <3>2
    <2>7. QED
      BY <2>2, <2>5, <2>6
  <1> HIDE DEF T
  <1>7. n \in T
    <2>1. \A k \in 1 .. n : k - 1 \in T => k \in T
      BY <1>6
    <2>2. \A k \in 0 .. n : k \in T
      BY <1>1, <1>5, <2>1, UpTo
    <2>3. QED
      BY <1>1, <2>2
  <1>8. Fits(n) /\ r[n] \in Seq(Pieces)
    BY <1>1, <1>2, <1>7 DEF T
  <1>9. \A t : t \in Covered(list) <=> \E i \in 1 .. n : t \in Within(list[i])
    BY CoveredFacts DEF n
  <1>10. Covered(r[n]) = Covered(list)
    BY <1>8, <1>9
  <1>11. QED
    BY <1>2, <1>8, <1>10

AllComplete(list, E) == \A i \in 1 .. Len(list) : Complete(list[i], E)

LEMMA MergeFacts ==
    ASSUME NEW existing \in Seq(Pieces) \cup {None}, NEW fetched \in Seq(Pieces), NEW E,
           existing # None => AllComplete(existing, E), AllComplete(fetched, E)
    PROVE  LET merged == MergeWithCachedSeriesData(existing, fetched)
           IN /\ merged \in Seq(Pieces)
              /\ AllComplete(merged, E)
              /\ Covered(merged) = Cached(existing) \cup Covered(fetched)
  <1>1. CASE existing = None
    BY <1>1 DEF MergeWithCachedSeriesData, Cached
  <1>2. CASE existing # None
    <2> DEFINE both == existing \o fetched
               sorted == ByStart(both)
    <2>1. existing \in Seq(Pieces) /\ AllComplete(existing, E)
      BY <1>2
    <2>2. both \in Seq(Pieces) /\ Elements(both) = Elements(existing) \cup Elements(fetched)
      <3>1. both \in Seq(Pieces)
        BY <2>1
      <3>2. Range(both) = Range(existing) \cup Range(fetched)
        BY <2>1, RangeConcatenation
      <3>3. QED
        BY <2>1, <3>1, <3>2, ElementsRange
    <2> HIDE DEF both
    <2>3. sorted \in Seq(Pieces) /\ Sorted(sorted) /\ Elements(sorted) = Elements(both)
      BY <2>2, ByStartFacts
    <2>4. MergeWithCachedSeriesData(existing, fetched) = Merged(sorted)
      BY <1>2 DEF MergeWithCachedSeriesData, Merged, both
    <2> HIDE DEF sorted
    <2>5. \A d \in Elements(sorted) : Complete(d, E)
      BY <2>1, <2>2, <2>3 DEF AllComplete, Elements
    <2>6. AllComplete(sorted, E)
      BY <2>5 DEF AllComplete, Elements
    <2>7. Merged(sorted) \in Seq(Pieces) /\ AllComplete(Merged(sorted), E)
          /\ Covered(Merged(sorted)) = Covered(sorted)
      BY <2>3, <2>6, MergedFacts DEF AllComplete
    <2>8. \A s \in Seq(Pieces) : Covered(s) = UNION {Within(d) : d \in Elements(s)}
      BY ElementsRange DEF Covered
    <2>9. Covered(sorted) = Covered(existing) \cup Covered(fetched)
      <3> DEFINE X == Elements(existing)
                 Y == Elements(fetched)
      <3>1. /\ Covered(sorted) = UNION {Within(d) : d \in X \cup Y}
            /\ Covered(existing) = UNION {Within(d) : d \in X}
            /\ Covered(fetched) = UNION {Within(d) : d \in Y}
        BY <2>1, <2>2, <2>3, <2>8
      <3> HIDE DEF X, Y
      <3>2. QED
        BY <3>1
    <2>10. QED
      BY <1>2, <2>4, <2>7, <2>9 DEF Cached
  <1>3. QED
    BY <1>1, <1>2

LEMMA SeriesFacts ==
    ASSUME NEW list \in Seq(Pieces), NEW E, AllComplete(list, E),
           NEW start \in Times, NEW end \in Times
    PROVE  LET series == GetSeriesFromCachedData(list, start, end)
           IN /\ series \in Data
              /\ \A t \in Covered(list) \ E : start <= t /\ t <= end => t \in DOMAIN series
  <1> DEFINE n == Len(list)
             In(t) == start <= t /\ t <= end
  <1>1. n \in Nat /\ \A i \in 1 .. n : list[i].data \in Data /\ Within(list[i]) \ E \subseteq DOMAIN list[i].data
    <2>1. n \in Nat /\ \A i \in 1 .. n : list[i] \in Pieces
      OBVIOUS
    <2>2. QED
      BY <2>1, PieceData DEF AllComplete, Complete
  <1>2. PICK r : /\ \A k \in 0 .. n : r[k] \in Data
                 /\ r[0] = <<>>
                 /\ \A k \in 1 .. n : r[k] = MergeSeries(r[k - 1], Between(list[k].data, start, end))
                 /\ GetSeriesFromCachedData(list, start, end) = r[n]
    BY SeriesRun
  <1>3. \A t : t \in Covered(list) <=> \E i \in 1 .. n : t \in Within(list[i])
    BY CoveredFacts
  <1> HIDE DEF n, In
  <1> DEFINE Fits(k) == \A i \in 1 .. k : \A t \in Within(list[i]) \ E : In(t) => t \in DOMAIN r[k]
             T == {k \in 0 .. n : Fits(k)}
  <1>4. 0 \in T
    BY <1>1
  <1>5. ASSUME NEW k \in 1 .. n, k - 1 \in T
        PROVE  k \in T
    <2> DEFINE b == Between(list[k].data, start, end)
    <2>1. b \in Data /\ \A u \in Within(list[k]) \ E : In(u) => u \in DOMAIN b
      <3>1. list[k].data \in Data /\ Within(list[k]) \ E \subseteq DOMAIN list[k].data
        BY <1>1
      <3> HIDE DEF T
      <3>2. b \in Data /\ DOMAIN b = {u \in DOMAIN list[k].data : start <= u /\ u <= end}
        <4>1. ASSUME NEW f \in Data
              PROVE  /\ Between(f, start, end) \in Data
                     /\ DOMAIN Between(f, start, end) = {u \in DOMAIN f : start <= u /\ u <= end}
          BY BetweenFacts
        <4>2. QED
          BY <3>1, <4>1
      <3>3. QED
        BY <3>1, <3>2 DEF In
    <2>2. r[k - 1] \in Data /\ r[k] = MergeSeries(r[k - 1], b)
      BY <1>1, <1>2
    <2> HIDE DEF b
    <2>3. DOMAIN r[k] = DOMAIN r[k - 1] \cup DOMAIN b
      BY <2>1, <2>2, MergeSeriesFacts
    <2>4. Fits(k - 1)
      BY <1>5
    <2>5. 1 .. k = (1 .. k - 1) \cup {k}
      BY <1>1
    <2>6. QED
      BY <1>1, <2>1, <2>3, <2>4, <2>5
  <1> HIDE DEF T
  <1>6. n \in T
    <2>1. \A k \in 1 .. n : k - 1 \in T => k \in T
      BY <1>5
    <2>2. \A k \in 0 .. n : k \in T
      BY <1>1, <1>4, <2>1, UpTo
    <2>3. QED
      BY <1>1, <2>2
  <1>7. Fits(n) /\ r[n] \in Data
    BY <1>1, <1>2, <1>6 DEF T
  <1>8. QED
    BY <1>2, <1>3, <1>7 DEF In

LEMMA UsableFacts ==
    ASSUME NEW list \in Seq(Pieces), now \in Nat
    PROVE  LET u == Usable(list)
           IN /\ u \in Seq(Cuts)
              /\ Sorted(u)
              /\ \A i \in 1 .. Len(u) : Within(u[i]) \subseteq Covered(list)
              /\ \A t \in Covered(list) :
                    t >= Boundary \/ \E i \in 1 .. Len(u) : t \in Within(u[i])
  <1> DEFINE s == ByStart(list)
             n == Len(s)
             u == Usable(list)
  <1>1. s \in Seq(Pieces) /\ Sorted(s) /\ Elements(s) = Elements(list)
    BY ByStartFacts
  <1>2. Covered(list) = Covered(s)
    BY <1>1, ElementsRange DEF Covered
  <1>3. n \in Nat /\ (s # <<>> => n >= 1) /\ \A i \in 1 .. n : s[i] \in Pieces
    BY <1>1
  <1>4. \A t : t \in Covered(list) <=> \E i \in 1 .. n : t \in Within(s[i])
    BY <1>1, <1>2, CoveredFacts
  <1>5. u = IF s = <<>> THEN <<>> ELSE [s EXCEPT ![n].end = Min({@, Boundary})]
    BY DEF Usable
  <1>6. Boundary \in Int
    <2>1. now \in Int /\ Round \in Nat \ {0} /\ FluxInterval \in Int
      BY QueryRangeCacheAssumption
    <2>2. now % Round \in Int
      BY <2>1
    <2>3. QED
      BY <2>1, <2>2 DEF Boundary
  <1> HIDE DEF s, u
  <1>7. CASE s = <<>>
    <2>1. u = <<>> /\ n = 0
      BY <1>5, <1>7
    <2>2. QED
      BY <1>4, <2>1, EmptySeq DEF Sorted, u
  <1>8. CASE s # <<>>
    <2>1. n \in 1 .. n /\ s[n].end \in Int /\ s[n].end \in Nat
      <3>1. n \in 1 .. n
        BY <1>3, <1>8
      <3>2. s[n] \in Pieces
        BY <1>3, <3>1
      <3>3. s[n].end \in Times
        BY <3>2, PieceData
      <3>4. \A t \in Times : t \in Nat /\ t \in Int
        BY TimesFacts
      <3>5. QED
        BY <3>1, <3>3, <3>4
    <2> DEFINE cut == Min({s[n].end, Boundary})
    <2>2. cut = IF s[n].end <= Boundary THEN s[n].end ELSE Boundary
      BY <1>6, <2>1, PairFacts
    <2> HIDE DEF n
    <2>3. u = [s EXCEPT ![n] = [s[n] EXCEPT !.end = cut]]
      BY <1>5, <1>8
    <2> HIDE DEF cut
    <2>4. DOMAIN s = 1 .. n
      BY <1>1 DEF n
    <2>5. /\ DOMAIN u = 1 .. n
          /\ u[n] = [s[n] EXCEPT !.end = cut]
          /\ \A i \in 1 .. n : i # n => u[i] = s[i]
      BY <2>1, <2>3, <2>4
    <2>6. \A i \in 1 .. n : u[i] \in Cuts /\ u[i].start = s[i].start
      <3>1. \A d \in Pieces : d \in Cuts
        <4>1. Pieces = [start : Times, end : Times, data : Data]
          BY DEF Pieces, Data
        <4>2. \A e \in Times : e \in Int
          BY TimesFacts
        <4>3. QED
          BY <4>1, <4>2 DEF Cuts
      <3>2. \A d \in Pieces : \A e \in Int :
                [d EXCEPT !.end = e] \in Cuts /\ [d EXCEPT !.end = e].start = d.start
        BY DEF Pieces, Cuts, Data
      <3>3. cut \in Int
        BY <1>6, <2>1, <2>2
      <3>4. \A i \in 1 .. n : s[i] \in Pieces
        BY <1>3
      <3>5. s[n] \in Pieces
        BY <2>1, <3>4
      <3>6. u[n] \in Cuts /\ u[n].start = s[n].start
        BY <2>5, <3>2, <3>3, <3>5
      <3>7. \A i \in 1 .. n : i # n => u[i] \in Cuts /\ u[i].start = s[i].start
        BY <2>5, <3>1, <3>4
      <3>8. QED
        BY <3>6, <3>7
    <2>7. u \in Seq(Cuts) /\ Len(u) = n
      <3>1. u = [i \in 1 .. n |-> u[i]]
        BY <2>3, <2>4, <2>5
      <3>2. QED
        BY <1>3, <2>6, <3>1
    <2>8. Sorted(u)
      BY <1>1, <2>6, <2>7 DEF Sorted, n
    <2>9. \A t : t \in Within(u[n]) <=> t \in Within(s[n]) /\ t < Boundary
      BY <1>3, <1>6, <2>1, <2>2, <2>5, PieceData, TimesFacts DEF Within
    <2>10. \A i \in 1 .. n : Within(u[i]) \subseteq Within(s[i])
      BY <2>5, <2>9
    <2>11. \A t : t \in Within(s[n]) => t \in Int
      BY DEF Within
    <2>12. ASSUME NEW t \in Covered(list)
           PROVE  t >= Boundary \/ \E i \in 1 .. n : t \in Within(u[i])
      BY <1>4, <1>6, <2>1, <2>5, <2>9, <2>11
    <2>13. QED
      BY <1>4, <2>7, <2>8, <2>10, <2>12 DEF u
  <1>9. QED
    BY <1>7, <1>8

LEMMA CoveredAppend ==
    ASSUME NEW S, NEW s \in Seq(S), NEW d \in S
    PROVE  Covered(Append(s, d)) = Covered(s) \cup Within(d)
  <1> DEFINE n == Len(s)
             m == Append(s, d)
  <1>1. /\ m \in Seq(S) /\ n \in Nat /\ Len(m) = n + 1
        /\ \A i \in 1 .. n : m[i] = s[i]
        /\ m[n + 1] = d
    OBVIOUS
  <1> HIDE DEF m
  <1>2. \A t : t \in Covered(m) <=> \E i \in 1 .. n + 1 : t \in Within(m[i])
    BY <1>1, CoveredFacts
  <1>3. \A t : t \in Covered(s) <=> \E i \in 1 .. n : t \in Within(s[i])
    BY CoveredFacts
  <1> HIDE DEF n
  <1>4. /\ \A i \in 1 .. n + 1 : i \in 1 .. n \/ i = n + 1
        /\ \A i \in 1 .. n : i \in 1 .. n + 1
        /\ n + 1 \in 1 .. n + 1
    BY <1>1
  <1>5. \A t : t \in Covered(m) <=> t \in Covered(s) \cup Within(d)
    BY <1>1, <1>2, <1>3, <1>4
  <1>6. QED
    BY <1>5 DEF m

LEMMA ScanFacts ==
    ASSUME NEW u \in Seq(Cuts), Sorted(u), NEW start \in Times, NEW end \in Times, start < end
    PROVE  LET scan == Scan(u, start, end)
           IN /\ scan.at \in start .. end /\ scan.misses \in Seq(Misses)
              /\ \A t \in start .. scan.at - 1 :
                    t \in Covered(scan.misses) \/ \E i \in 1 .. Len(u) : t \in Within(u[i])
              /\ Covered(scan.misses) \subseteq start .. end - 1
              /\ \A i \in 1 .. Len(u) : \A t \in Within(u[i]) :
                    t \notin Covered(scan.misses) /\ (t < scan.at \/ t >= end)
  <1> DEFINE n == Len(u)
  <1>1. n \in Nat /\ \A i \in 1 .. n : u[i] \in Cuts /\ u[i].start \in Nat /\ u[i].end \in Int
    <2>1. n \in Nat /\ \A i \in 1 .. n : u[i] \in Cuts
      OBVIOUS
    <2>2. QED
      BY <2>1, TimesFacts DEF Cuts
  <1>2. start \in Nat /\ end \in Nat
    BY TimesFacts
  <1>3. \A i, j \in 1 .. n : i <= j => u[i].start <= u[j].start
    BY DEF Sorted
  <1>4. PICK r : /\ \A k \in 0 .. n : r[k] \in [at : start .. end, misses : Seq(Misses)]
                 /\ r[0] = [at |-> start, misses |-> <<>>]
                 /\ \A k \in 1 .. n : r[k] = Pass(r[k - 1], u[k], start, end)
                 /\ Scan(u, start, end) = r[n]
    BY ScanRun
  <1> HIDE DEF n
  <1> DEFINE Known(k) == \A t \in start .. r[k].at - 1 :
                 t \in Covered(r[k].misses) \/ \E i \in 1 .. k : t \in Within(u[i])
             Asked(k) == \A t \in Covered(r[k].misses) : start <= t /\ t < end /\ t \in Int
             Apart(k) == \A i \in 1 .. n : \A t \in Within(u[i]) : t \notin Covered(r[k].misses)
             Passed(k) == \A i \in 1 .. k : \A t \in Within(u[i]) : t < r[k].at \/ t >= end
             Fits(k) == Known(k) /\ Asked(k) /\ Apart(k) /\ Passed(k)
             T == {k \in 0 .. n : Fits(k)}
  <1>5. 0 \in T
    <2>1. Covered(r[0].misses) = {}
      BY <1>4 DEF Covered, Range
    <2>2. r[0].at = start
      BY <1>4
    <2>3. Known(0) /\ Passed(0)
      BY <1>2, <2>2
    <2>4. QED
      BY <1>1, <2>1, <2>3
  <1>6. ASSUME NEW k \in 1 .. n, k - 1 \in T
        PROVE  k \in T
    <2> DEFINE d == u[k]
               s == r[k - 1]
               p == r[k]
    <2>1. /\ s \in [at : start .. end, misses : Seq(Misses)] /\ d \in Cuts
          /\ p = Pass(s, d, start, end)
      BY <1>1, <1>4
    <2>2. Known(k - 1) /\ Asked(k - 1) /\ Apart(k - 1) /\ Passed(k - 1)
      BY <1>6
    <2> HIDE DEF d, s, p, Known, Asked, Apart, Passed
    <2>3. /\ p \in [at : start .. end, misses : Seq(Misses)]
          /\ p.at >= s.at
          /\ \/ (d.end <= start \/ d.start >= end) /\ p = s
             \/ /\ d.end > start /\ d.start < end
                /\ p.at >= d.end \/ p.at = end
                /\ p.at = s.at \/ p.at <= d.end
                /\ \/ s.at >= d.start /\ p.misses = s.misses
                   \/ /\ s.at < d.start
                      /\ p.misses = Append(s.misses, [start |-> s.at, end |-> d.start])
      BY <2>1, PassFacts
    <2>4. s.at \in start .. end /\ p.at \in start .. end /\ d.start \in Nat /\ d.end \in Int
      BY <1>1, <2>1, <2>3 DEF d
    <2>5. /\ \A t : t \in Within(d) <=> t \in Int /\ d.start <= t /\ t < d.end
          /\ \A i \in 1 .. k : i = k \/ i \in 1 .. k - 1
          /\ \A i \in 1 .. k - 1 : i \in 1 .. k
          /\ k \in 1 .. k
      BY <1>1, <2>4 DEF Within
    <2>6. Passed(k)
      <3>1. \A i \in 1 .. k - 1 : \A t \in Within(u[i]) : t < s.at \/ t >= end
        BY <2>2 DEF Passed, s
      <3>2. \A i \in 1 .. k - 1 : \A t \in Within(u[i]) : t \in Int
        BY DEF Within
      <3>3. \A i \in 1 .. k - 1 : \A t \in Within(u[i]) : t < p.at \/ t >= end
        <4>1. \A t \in Int : t < s.at => t < p.at
          BY <1>2, <2>3, <2>4
        <4>2. QED
          BY <3>1, <3>2, <4>1
      <3>4. \A t \in Within(d) : t < p.at \/ t >= end
        BY <1>2, <2>3, <2>4, <2>5
      <3>5. QED
        BY <2>5, <3>3, <3>4 DEF Passed, d, p
    <2>7. Known(k) /\ Asked(k) /\ Apart(k)
      <3>1. \A t \in start .. s.at - 1 :
                t \in Covered(s.misses) \/ \E i \in 1 .. k - 1 : t \in Within(u[i])
        BY <2>2 DEF Known, s
      <3>2. \A t \in Covered(s.misses) : start <= t /\ t < end /\ t \in Int
        BY <2>2 DEF Asked, s
      <3>3. \A i \in 1 .. n : \A t \in Within(u[i]) : t \notin Covered(s.misses)
        BY <2>2 DEF Apart, s
      <3>4. CASE p = s
        <4>1. Known(k)
          BY <2>5, <3>1, <3>4 DEF Known, p
        <4>2. QED
          BY <3>2, <3>3, <3>4, <4>1 DEF Asked, Apart, p
      <3>5. \A t \in start .. p.at - 1 : t >= s.at /\ t >= d.start /\ p.at <= d.end => t \in Within(d)
        BY <2>4, <2>5
      <3>6. CASE /\ p.at = s.at \/ p.at <= d.end
                 /\ s.at >= d.start /\ p.misses = s.misses
        <4>1. \A t \in start .. p.at - 1 :
                  t \in Covered(p.misses) \/ \E i \in 1 .. k : t \in Within(u[i])
          <5>1. ASSUME NEW t \in start .. p.at - 1
                PROVE  t \in Covered(p.misses) \/ \E i \in 1 .. k : t \in Within(u[i])
            <6>1. CASE t < s.at
              <7>1. t \in start .. s.at - 1
                BY <1>2, <2>4, <6>1
              <7>2. QED
                BY <2>5, <3>1, <3>6, <7>1
            <6>2. CASE ~ (t < s.at)
              <7>1. t >= s.at /\ t >= d.start /\ p.at <= d.end
                BY <1>2, <2>4, <3>6, <6>2
              <7>2. QED
                BY <2>5, <3>5, <7>1 DEF d
            <6>3. QED
              BY <6>1, <6>2
          <5>2. QED
            BY <5>1
        <4>2. QED
          BY <3>2, <3>3, <3>6, <4>1 DEF Known, Asked, Apart, p
      <3>7. CASE /\ d.start < end
                 /\ p.at = s.at \/ p.at <= d.end
                 /\ s.at < d.start
                 /\ p.misses = Append(s.misses, [start |-> s.at, end |-> d.start])
        <4> DEFINE miss == [start |-> s.at, end |-> d.start]
        <4>1. miss \in Misses /\ s.misses \in Seq(Misses)
          BY <1>2, <2>1, <2>4, TimesFacts, QueryRangeCacheAssumption DEF Misses, Cuts, Times
        <4>2. Covered(p.misses) = Covered(s.misses) \cup Within(miss)
          BY <3>7, <4>1, CoveredAppend
        <4>3. \A t : t \in Within(miss) <=> t \in Int /\ s.at <= t /\ t < d.start
          BY <2>4 DEF Within
        <4> HIDE DEF miss
        <4>4. \A t \in start .. p.at - 1 :
                  t \in Covered(p.misses) \/ \E i \in 1 .. k : t \in Within(u[i])
          <5>1. ASSUME NEW t \in start .. p.at - 1
                PROVE  t \in Covered(p.misses) \/ \E i \in 1 .. k : t \in Within(u[i])
            <6>1. CASE t < s.at
              <7>1. t \in start .. s.at - 1
                BY <1>2, <2>4, <6>1
              <7>2. QED
                BY <2>5, <3>1, <4>2, <7>1
            <6>2. CASE s.at <= t /\ t < d.start
              BY <1>2, <2>4, <4>2, <4>3, <6>2
            <6>3. CASE s.at <= t /\ d.start <= t
              <7>1. t >= s.at /\ t >= d.start /\ p.at <= d.end
                BY <1>2, <2>4, <3>7, <6>3
              <7>2. QED
                BY <2>5, <3>5, <7>1 DEF d
            <6>4. t < s.at \/ (s.at <= t /\ t < d.start) \/ (s.at <= t /\ d.start <= t)
              BY <1>2, <2>4
            <6>5. QED
              BY <6>1, <6>2, <6>3, <6>4
          <5>2. QED
            BY <5>1
        <4>5. \A t \in Covered(p.misses) : start <= t /\ t < end /\ t \in Int
          BY <1>2, <2>4, <3>2, <3>7, <4>2, <4>3
        <4>6. \A i \in 1 .. n : \A t \in Within(u[i]) : t \notin Covered(p.misses)
          <5>1. ASSUME NEW i \in 1 .. n, NEW t \in Within(u[i]), t \in Within(miss)
                PROVE  FALSE
            <6>1. t \in Int /\ u[i].start <= t /\ s.at <= t /\ t < d.start
              BY <1>1, <4>3, <5>1 DEF Within
            <6>2. CASE i \in 1 .. k - 1
              <7>1. t < s.at \/ t >= end
                BY <2>2, <6>2 DEF Passed, s
              <7>2. QED
                BY <1>2, <2>4, <3>7, <6>1, <7>1
            <6>3. CASE i >= k
              <7>1. d.start <= u[i].start
                BY <1>3, <6>3 DEF d
              <7>2. QED
                BY <1>1, <2>4, <6>1, <7>1
            <6>4. i \in 1 .. k - 1 \/ i >= k
              BY <1>1
            <6>5. QED
              BY <6>2, <6>3, <6>4
          <5>2. QED
            BY <3>3, <4>2, <5>1
        <4>7. QED
          BY <4>4, <4>5, <4>6 DEF Known, Asked, Apart, p
      <3>8. QED
        BY <2>3, <3>4, <3>6, <3>7
    <2>8. QED
      BY <1>1, <2>6, <2>7
  <1> HIDE DEF T
  <1>7. n \in T
    <2>1. \A k \in 1 .. n : k - 1 \in T => k \in T
      BY <1>6
    <2>2. \A k \in 0 .. n : k \in T
      BY <1>1, <1>5, <2>1, UpTo
    <2>3. QED
      BY <1>1, <2>2
  <1>8. Fits(n) /\ r[n] \in [at : start .. end, misses : Seq(Misses)]
    BY <1>1, <1>4, <1>7 DEF T
  <1>9. Covered(r[n].misses) \subseteq start .. end - 1
    BY <1>2, <1>8
  <1>10. QED
    BY <1>4, <1>8, <1>9 DEF n

LEMMA FindFacts ==
    ASSUME NEW list \in Seq(Pieces), NEW start \in Times, NEW end \in Times, start < end,
           now \in Nat
    PROVE  LET misses == FindMissingTimeRanges(list, start, end)
               asked == start .. end - 1
           IN /\ misses \in Seq(Misses)
              /\ asked \ Covered(list) \subseteq Covered(misses)
              /\ Covered(misses) \subseteq asked
              /\ \A t \in Covered(misses) \cap Covered(list) : t >= Boundary
  <1> DEFINE u == Usable(list)
             scan == Scan(u, start, end)
             rest == [start |-> scan.at, end |-> end]
             misses == FindMissingTimeRanges(list, start, end)
  <1>1. /\ u \in Seq(Cuts) /\ Sorted(u)
        /\ \A i \in 1 .. Len(u) : Within(u[i]) \subseteq Covered(list)
        /\ \A t \in Covered(list) : t >= Boundary \/ \E i \in 1 .. Len(u) : t \in Within(u[i])
    BY UsableFacts
  <1> HIDE DEF u
  <1>2. /\ scan.at \in start .. end /\ scan.misses \in Seq(Misses)
        /\ \A t \in start .. scan.at - 1 :
              t \in Covered(scan.misses) \/ \E i \in 1 .. Len(u) : t \in Within(u[i])
        /\ Covered(scan.misses) \subseteq start .. end - 1
        /\ \A i \in 1 .. Len(u) : \A t \in Within(u[i]) :
              t \notin Covered(scan.misses) /\ (t < scan.at \/ t >= end)
    BY <1>1, ScanFacts
  <1>3. misses = IF scan.at < end THEN Append(scan.misses, rest) ELSE scan.misses
    BY DEF FindMissingTimeRanges, Scan, u
  <1>4. start \in Nat /\ end \in Nat
    BY TimesFacts
  <1> HIDE DEF scan, misses
  <1>5. rest \in Misses
    BY <1>2, <1>4, QueryRangeCacheAssumption DEF Misses, Times
  <1>6. \A t : t \in Within(rest) <=> t \in Int /\ scan.at <= t /\ t < end
    BY <1>2, <1>4 DEF Within
  <1> HIDE DEF rest
  <1>7. /\ misses \in Seq(Misses)
        /\ \A t : t \in Covered(misses)
                    <=> t \in Covered(scan.misses) \/ (t \in Int /\ scan.at <= t /\ t < end)
    <2>1. CASE scan.at < end
      <3>1. Covered(misses) = Covered(scan.misses) \cup Within(rest)
        BY <1>2, <1>3, <1>5, <2>1, CoveredAppend
      <3>2. misses \in Seq(Misses)
        BY <1>2, <1>3, <1>5, <2>1
      <3>3. QED
        BY <1>6, <3>1, <3>2
    <2>2. CASE ~ (scan.at < end)
      <3>1. \A t \in Int : ~ (scan.at <= t /\ t < end)
        BY <1>2, <1>4, <2>2
      <3>2. QED
        BY <1>2, <1>3, <2>2, <3>1
    <2>3. QED
      BY <2>1, <2>2
  <1>8. Covered(misses) \subseteq start .. end - 1
    BY <1>2, <1>4, <1>7
  <1>9. ASSUME NEW t \in start .. end - 1, t \notin Covered(list)
        PROVE  t \in Covered(misses)
    <2>1. CASE t < scan.at
      <3>1. t \in start .. scan.at - 1
        BY <1>2, <1>4, <2>1
      <3>2. QED
        BY <1>1, <1>2, <1>7, <1>9, <3>1
    <2>2. CASE ~ (t < scan.at)
      BY <1>2, <1>4, <1>7, <2>2
    <2>3. QED
      BY <2>1, <2>2
  <1>10. ASSUME NEW t \in Covered(misses), t \in Covered(list)
         PROVE  t >= Boundary
    <2>1. ASSUME NEW i \in 1 .. Len(u), t \in Within(u[i])
          PROVE  FALSE
      <3>1. t \notin Covered(scan.misses) /\ (t < scan.at \/ t >= end)
        BY <1>2, <2>1
      <3>2. t \in Int /\ scan.at <= t /\ t < end
        BY <1>7, <3>1
      <3>3. QED
        BY <1>2, <1>4, <3>1, <3>2
    <2>2. QED
      BY <1>1, <1>10, <2>1
  <1>11. QED
    BY <1>7, <1>8, <1>9, <1>10 DEF misses

-----------------------------------------------------------------------------
(* The inductive invariant. *)
Lists == Seq(Pieces) \cup {None}

Requests ==
    [pc : {"idle", "fetch", "retrieve", "store", "answered"}, at : Nat,
     start : Times, end : Times, misses : Seq(Misses), fetched : Seq(Pieces),
     existing : Lists, series : Data, disturbed : BOOLEAN]

CacheTyped ==
    /\ now \in Nat
    /\ cache \in Lists
    /\ req \in [Clients -> Requests]

Sound(list, E) == list # None => AllComplete(list, E)

Asked(q) == q.start .. q.end - 1

(* Every timestamp that was asked for is in a cached interval, or still to *)
(* be fetched, or fetched; an answer has its points but for those of early. *)
Accounted(q, list, E) ==
    ~ q.disturbed =>
        /\ q.pc \in {"fetch", "retrieve"} =>
             Asked(q) \subseteq Cached(list) \cup Covered(q.misses) \cup Covered(q.fetched)
        /\ q.pc = "store" => Asked(q) \subseteq Cached(q.existing) \cup Covered(q.fetched)
        /\ q.pc = "answered" => Asked(q) \ E \subseteq DOMAIN q.series

UnderWay(q, list, E) ==
    /\ AllComplete(q.fetched, E) /\ Sound(q.existing, E)
    /\ q.pc = "fetch" => q.misses # <<>>
    /\ q.pc = "retrieve" => q.misses = <<>>
    /\ Accounted(q, list, E)

CacheInv ==
    /\ CacheTyped
    /\ Sound(cache, early)
    /\ \A c \in Clients : UnderWay(req[c], cache, early)

LEMMA EmptyFacts ==
    /\ Covered(<<>>) = {} /\ Cached(None) = {}
    /\ \A E : AllComplete(<<>>, E) /\ Sound(None, E)
    /\ <<>> \in Seq(Pieces) /\ <<>> \in Seq(Misses) /\ None \in Lists /\ 0 \in Times
  <1>1. /\ Covered(<<>>) = {} /\ Cached(None) = {}
        /\ \A E : AllComplete(<<>>, E) /\ Sound(None, E)
    BY DEF Covered, Range, AllComplete, Sound, Cached
  <1>2. <<>> \in Seq(Pieces) /\ <<>> \in Seq(Misses) /\ None \in Lists
    BY DEF Lists
  <1>3. 0 \in Times
    BY QueryRangeCacheAssumption DEF Times
  <1>4. QED
    BY <1>1, <1>2, <1>3

LEMMA ListFacts ==
    ASSUME NEW list \in Seq(Pieces)
    PROVE  list # None /\ list \in Lists /\ Cached(list) = Covered(list)
  BY NoneIsNoList DEF Lists, Cached

LEMMA NoQueryFacts == NoQuery \in Requests /\ \A list, E : UnderWay(NoQuery, list, E)
  <1>1. NoQuery \in Requests
    BY EmptyFacts, NoData DEF NoQuery, Requests
  <1>2. (\A E : AllComplete(NoQuery.fetched, E) /\ Sound(NoQuery.existing, E)) /\ NoQuery.pc = "idle"
    BY EmptyFacts DEF NoQuery
  <1>3. QED
    BY <1>1, <1>2 DEF UnderWay, Accounted

(* What the others do to the cache. *)
LEMMA StillUnderWay ==
    ASSUME NEW q \in Requests, NEW list, NEW list2, NEW E, UnderWay(q, list, E)
    PROVE  /\ Cached(list) \subseteq Cached(list2) => UnderWay(q, list2, E)
           /\ q.pc \notin {"fetch", "retrieve"} => UnderWay(q, list2, E)
           /\ /\ [q EXCEPT !.disturbed = TRUE] \in Requests
              /\ UnderWay([q EXCEPT !.disturbed = TRUE], list2, E)
  <1>1. Cached(list) \subseteq Cached(list2) => UnderWay(q, list2, E)
    BY DEF UnderWay, Accounted
  <1>2. q.pc \notin {"fetch", "retrieve"} => UnderWay(q, list2, E)
    BY DEF UnderWay, Accounted
  <1> DEFINE p == [q EXCEPT !.disturbed = TRUE]
  <1>3. /\ p \in Requests
        /\ p.disturbed /\ p.pc = q.pc /\ p.misses = q.misses /\ p.fetched = q.fetched
        /\ p.existing = q.existing
    BY DEF Requests
  <1> HIDE DEF p
  <1>4. UnderWay(p, list2, E)
    BY <1>3 DEF UnderWay, Accounted
  <1>5. QED
    BY <1>1, <1>2, <1>3, <1>4 DEF p

(* ... and to the timestamps that were fetched too early. *)
LEMMA GrownUnderWay ==
    ASSUME NEW E, NEW F, E \subseteq F
    PROVE  /\ \A q, list : UnderWay(q, list, E) => UnderWay(q, list, F)
           /\ \A list : Sound(list, E) => Sound(list, F)
  <1>1. \A d : Complete(d, E) => Complete(d, F)
    BY DEF Complete
  <1>2. \A list : AllComplete(list, E) => AllComplete(list, F)
    BY <1>1 DEF AllComplete
  <1>3. \A list : Sound(list, E) => Sound(list, F)
    BY <1>2 DEF Sound
  <1>4. \A q, list : Accounted(q, list, E) => Accounted(q, list, F)
    BY DEF Accounted
  <1>5. QED
    BY <1>2, <1>3, <1>4 DEF UnderWay

LEMMA CoveredRest ==
    ASSUME NEW s \in Seq(Misses), s # <<>>
    PROVE  /\ Head(s) \in Misses /\ Tail(s) \in Seq(Misses)
           /\ Covered(s) = Within(Head(s)) \cup Covered(Tail(s))
  <1> DEFINE n == Len(s)
             m == Tail(s)
  <1>1. /\ n \in Nat /\ n >= 1 /\ Head(s) = s[1] /\ s[1] \in Misses
        /\ m \in Seq(Misses) /\ Len(m) = n - 1
        /\ \A i \in 1 .. n - 1 : m[i] = s[i + 1]
    OBVIOUS
  <1> HIDE DEF m
  <1>2. \A t : t \in Covered(m) <=> \E i \in 1 .. n - 1 : t \in Within(m[i])
    BY <1>1, CoveredFacts
  <1>3. \A t : t \in Covered(s) <=> \E i \in 1 .. n : t \in Within(s[i])
    BY CoveredFacts
  <1> HIDE DEF n
  <1>4. /\ \A i \in 1 .. n : i = 1 \/ (i - 1 \in 1 .. n - 1 /\ (i - 1) + 1 = i)
        /\ \A i \in 1 .. n - 1 : i + 1 \in 1 .. n
        /\ 1 \in 1 .. n
    BY <1>1
  <1>5. \A i \in 1 .. n : i = 1 \/ \E j \in 1 .. n - 1 : m[j] = s[i]
    BY <1>1, <1>4
  <1>6. \A t : t \in Covered(s) <=> t \in Within(s[1]) \/ t \in Covered(m)
    <2>1. \A t : t \in Covered(s) => t \in Within(s[1]) \/ t \in Covered(m)
      BY <1>2, <1>3, <1>5
    <2>2. \A i \in 1 .. n - 1 : m[i] = s[i + 1] /\ i + 1 \in 1 .. n
      BY <1>1, <1>4
    <2>3. \A t : t \in Covered(m) => t \in Covered(s)
      BY <1>2, <1>3, <2>2
    <2>4. \A t \in Within(s[1]) : t \in Covered(s)
      BY <1>3, <1>4
    <2>5. QED
      BY <2>1, <2>3, <2>4
  <1>7. QED
    BY <1>1, <1>6 DEF m

LEMMA IntervalFacts ==
    ASSUME NEW miss \in Misses, NEW at \in Nat, NEW E,
           {t \in Within(miss) : t >= at} \subseteq E
    PROVE  LET d == Interval(miss.start, miss.end, at)
           IN d \in Pieces /\ Complete(d, E) /\ Within(d) = Within(miss)
  <1> DEFINE T == miss.start .. Min({miss.end, at}) - 1
             f == [t \in T |-> at]
             d == Interval(miss.start, miss.end, at)
  <1>1. miss.start \in Times /\ miss.end \in Times
    BY DEF Misses
  <1>2. miss.start \in Int /\ miss.end \in Int /\ at \in Int
    <2>1. Times \subseteq Nat
      BY TimesFacts
    <2>2. miss.start \in Nat /\ miss.end \in Nat
      BY <1>1, <2>1
    <2>3. QED
      BY <2>2
  <1>3. Min({miss.end, at}) = IF miss.end <= at THEN miss.end ELSE at
    BY <1>2, PairFacts
  <1>4. T \in SUBSET Times
    BY <1>1, <1>3, QueryRangeCacheAssumption DEF Times
  <1>5. \A t : t \in T <=> t \in Int /\ miss.start <= t /\ t < miss.end /\ t < at
    BY <1>2, <1>3
  <1>6. d = [start |-> miss.start, end |-> miss.end, data |-> f]
    BY DEF Interval
  <1> HIDE DEF T, d
  <1>7. f \in Data /\ DOMAIN f = T
    BY <1>4 DEF Data
  <1> HIDE DEF f
  <1>8. d \in Pieces
    BY <1>1, <1>6, <1>7 DEF Pieces, Data
  <1>9. Within(d) = Within(miss) /\ DOMAIN d.data = T
    BY <1>6, <1>7 DEF Within
  <1>10. \A t : t \in Within(miss) <=> t \in Int /\ miss.start <= t /\ t < miss.end
    BY <1>2 DEF Within
  <1>11. T \subseteq Within(miss) /\ Within(miss) \ E \subseteq T
    BY <1>2, <1>5, <1>10
  <1>12. QED
    BY <1>8, <1>9, <1>11 DEF Complete, d

(* The steps of a query. *)
LEMMA AfterFacts ==
    ASSUME NEW misses
    PROVE  /\ AfterMisses(misses) \in {"fetch", "retrieve"}
           /\ AfterMisses(misses) = "fetch" => misses # <<>>
           /\ AfterMisses(misses) = "retrieve" => misses = <<>>
  BY DEF AfterMisses

LEMMA FindMissed ==
    ASSUME now \in Nat, cache \in Lists, NEW reads \in BOOLEAN,
           NEW start \in Times, NEW end \in Times, start < end
    PROVE  LET list == IF reads /\ cache # None THEN cache ELSE <<>>
               misses == FindMissingTimeRanges(list, start, end)
               seen == IF reads THEN Cached(cache) ELSE {}
               asked == start .. end - 1
           IN /\ misses \in Seq(Misses)
              /\ asked \ seen \subseteq Covered(misses)
              /\ Covered(misses) \subseteq asked
              /\ \A t \in Covered(misses) \cap seen : t >= Boundary
  <1> DEFINE list == IF reads /\ cache # None THEN cache ELSE <<>>
             seen == IF reads THEN Cached(cache) ELSE {}
  <1>1. list \in Seq(Pieces) /\ Covered(list) = seen
    BY EmptyFacts DEF Lists, Cached
  <1> HIDE DEF list, seen
  <1>2. LET misses == FindMissingTimeRanges(list, start, end)
            asked == start .. end - 1
        IN /\ misses \in Seq(Misses)
           /\ asked \ Covered(list) \subseteq Covered(misses)
           /\ Covered(misses) \subseteq asked
           /\ \A t \in Covered(misses) \cap Covered(list) : t >= Boundary
    BY <1>1, FindFacts
  <1>3. QED
    BY <1>1, <1>2 DEF list, seen

LEMMA FindBegins ==
    ASSUME CacheTyped, NEW c \in Clients, NEW start \in Times, NEW end \in Times,
           NEW reads \in BOOLEAN, Find(c, start, end, reads)
    PROVE  /\ req' = [req EXCEPT ![c] = req'[c]]
           /\ req'[c] \in Requests /\ UnderWay(req'[c], cache, early)
           /\ LET asked == Asked(req'[c])
                  missed == Covered(req'[c].misses)
                  seen == IF req'[c].disturbed THEN {} ELSE Cached(cache)
              IN /\ asked \ seen \subseteq missed
                 /\ missed \subseteq asked
                 /\ \A t \in missed \cap seen : t >= Boundary
  <1> DEFINE list == IF reads /\ cache # None THEN cache ELSE <<>>
             misses == FindMissingTimeRanges(list, start, end)
             seen == IF reads THEN Cached(cache) ELSE {}
             q == [NoQuery EXCEPT !.pc = AfterMisses(misses), !.at = now, !.start = start,
                                  !.end = end, !.misses = misses, !.disturbed = ~ reads]
  <1>1. start < end /\ req' = [req EXCEPT ![c] = q]
    BY DEF Find
  <1>2. now \in Nat /\ cache \in Lists /\ DOMAIN req = Clients
    BY DEF CacheTyped
  <1>3. /\ misses \in Seq(Misses)
        /\ start .. end - 1 \ seen \subseteq Covered(misses)
        /\ Covered(misses) \subseteq start .. end - 1
        /\ \A t \in Covered(misses) \cap seen : t >= Boundary
    BY <1>1, <1>2, FindMissed
  <1> HIDE DEF misses
  <1>4. /\ q \in Requests /\ q.start = start /\ q.end = end /\ q.misses = misses
        /\ q.pc = AfterMisses(misses) /\ q.disturbed = ~ reads
        /\ q.fetched = <<>> /\ q.existing = None
    <2>1. NoQuery \in Requests /\ AfterMisses(misses) \in {"fetch", "retrieve"}
      BY NoQueryFacts, AfterFacts
    <2>2. NoQuery.fetched = <<>> /\ NoQuery.existing = None
      BY DEF NoQuery
    <2>3. QED
      BY <1>2, <1>3, <2>1, <2>2 DEF Requests
  <1> HIDE DEF q
  <1>5. Asked(q) = start .. end - 1
    BY <1>4 DEF Asked
  <1>6. UnderWay(q, cache, early)
    <2>1. ~ q.disturbed => seen = Cached(cache)
      BY <1>4
    <2>2. Accounted(q, cache, early)
      BY <1>3, <1>4, <1>5, <2>1, AfterFacts DEF Accounted
    <2>3. QED
      BY <1>4, <2>2, AfterFacts, EmptyFacts DEF UnderWay
  <1>7. req'[c] = q
    BY <1>1, <1>2
  <1>8. (IF q.disturbed THEN {} ELSE Cached(cache)) = seen
    BY <1>4
  <1>9. QED
    BY <1>1, <1>3, <1>4, <1>5, <1>6, <1>7, <1>8

LEMMA FetchGoesOn ==
    ASSUME CacheInv, NEW c \in Clients, Fetch(c)
    PROVE  /\ req' = [req EXCEPT ![c] = req'[c]]
           /\ early \subseteq early'
           /\ req'[c] \in Requests /\ UnderWay(req'[c], cache, early')
  <1> DEFINE q == req[c]
             miss == Head(q.misses)
             rest == Tail(q.misses)
             d == Interval(miss.start, miss.end, now)
             p == [q EXCEPT !.pc = AfterMisses(rest), !.misses = rest,
                            !.fetched = Append(@, d)]
  <1>1. /\ q.pc = "fetch" /\ q \in Requests /\ now \in Nat /\ UnderWay(q, cache, early)
        /\ DOMAIN req = Clients
    BY DEF CacheInv, CacheTyped, Fetch
  <1>2. req' = [req EXCEPT ![c] = p] /\ req'[c] = p
    BY <1>1 DEF Fetch
  <1>3. q.misses \in Seq(Misses) /\ q.misses # <<>> /\ q.fetched \in Seq(Pieces)
    BY <1>1 DEF Requests, UnderWay
  <1>4. miss \in Misses /\ rest \in Seq(Misses)
        /\ Covered(q.misses) = Within(miss) \cup Covered(rest)
    BY <1>3, CoveredRest
  <1>5. early' = early \cup {t \in Within(miss) : t >= now}
    BY DEF Fetch
  <1>6. early \subseteq early' /\ {t \in Within(miss) : t >= now} \subseteq early'
    BY <1>5
  <1>7. UnderWay(q, cache, early')
    BY <1>1, <1>6, GrownUnderWay
  <1>8. d \in Pieces /\ Complete(d, early') /\ Within(d) = Within(miss)
    BY <1>1, <1>4, <1>6, IntervalFacts
  <1> HIDE DEF q, miss, rest, d
  <1> DEFINE longer == Append(q.fetched, d)
  <1>9. longer \in Seq(Pieces) /\ Covered(longer) = Covered(q.fetched) \cup Within(d)
    BY <1>3, <1>8, CoveredAppend
  <1>10. AllComplete(longer, early')
    <2>1. AllComplete(q.fetched, early')
      BY <1>7 DEF UnderWay
    <2>2. /\ Len(longer) = Len(q.fetched) + 1 /\ Len(q.fetched) \in Nat
          /\ \A i \in 1 .. Len(q.fetched) : longer[i] = q.fetched[i]
          /\ longer[Len(q.fetched) + 1] = d
      BY <1>3, <1>8
    <2> HIDE DEF longer
    <2>3. \A i \in 1 .. Len(longer) : i \in 1 .. Len(q.fetched) \/ i = Len(q.fetched) + 1
      BY <2>2
    <2>4. QED
      BY <1>8, <2>1, <2>2, <2>3 DEF AllComplete
  <1> HIDE DEF longer
  <1>11. /\ p \in Requests /\ p.pc = AfterMisses(rest) /\ p.misses = rest /\ p.fetched = longer
        /\ p.start = q.start /\ p.end = q.end /\ p.existing = q.existing
        /\ p.disturbed = q.disturbed
    <2>1. AfterMisses(rest) \in {"fetch", "retrieve"}
      BY AfterFacts
    <2>2. p = [q EXCEPT !.pc = AfterMisses(rest), !.misses = rest, !.fetched = longer]
      BY DEF longer
    <2> HIDE DEF p
    <2>3. QED
      BY <1>1, <1>4, <1>9, <2>1, <2>2 DEF Requests
  <1> HIDE DEF p
  <1>12. Accounted(p, cache, early')
    <2>1. Asked(p) = Asked(q)
      BY <1>11 DEF Asked
    <2>2. ~ q.disturbed =>
            Asked(q) \subseteq Cached(cache) \cup Covered(q.misses) \cup Covered(q.fetched)
      BY <1>1 DEF UnderWay, Accounted
    <2>3. p.pc \in {"fetch", "retrieve"}
      BY <1>11, AfterFacts
    <2>4. QED
      BY <1>4, <1>8, <1>9, <1>11, <2>1, <2>2, <2>3 DEF Accounted
  <1>13. UnderWay(p, cache, early')
    BY <1>10, <1>11, <1>12, <1>7, AfterFacts DEF UnderWay
  <1>14. QED
    BY <1>2, <1>11, <1>13, <1>6

LEMMA RetrieveGoesOn ==
    ASSUME CacheInv, NEW c \in Clients, NEW reads \in BOOLEAN, Retrieve(c, reads)
    PROVE  /\ req' = [req EXCEPT ![c] = req'[c]]
           /\ req'[c] \in Requests /\ UnderWay(req'[c], cache, early)
  <1> DEFINE q == req[c]
             kept == IF reads THEN cache ELSE None
             p == [q EXCEPT !.pc = "store", !.existing = kept, !.disturbed = @ \/ ~ reads]
  <1>1. /\ q.pc = "retrieve" /\ q \in Requests /\ UnderWay(q, cache, early)
        /\ DOMAIN req = Clients /\ cache \in Lists /\ Sound(cache, early)
    BY DEF CacheInv, CacheTyped, Retrieve
  <1>2. req' = [req EXCEPT ![c] = p] /\ req'[c] = p
    BY <1>1 DEF Retrieve
  <1>3. kept \in Lists /\ Sound(kept, early) /\ (reads => kept = cache)
    BY <1>1, EmptyFacts
  <1> HIDE DEF q, kept
  <1>4. /\ p \in Requests /\ p.pc = "store" /\ p.misses = q.misses /\ p.fetched = q.fetched
        /\ p.start = q.start /\ p.end = q.end /\ p.existing = kept
        /\ ~ p.disturbed => ~ q.disturbed /\ reads
    BY <1>1, <1>3 DEF Requests
  <1> HIDE DEF p
  <1>5. Accounted(p, cache, early)
    <2>1. Asked(p) = Asked(q)
      BY <1>4 DEF Asked
    <2>2. Covered(q.misses) = {}
      BY <1>1, EmptyFacts DEF UnderWay
    <2>3. ~ q.disturbed =>
            Asked(q) \subseteq Cached(cache) \cup Covered(q.misses) \cup Covered(q.fetched)
      BY <1>1 DEF UnderWay, Accounted
    <2>4. QED
      BY <1>3, <1>4, <2>1, <2>2, <2>3 DEF Accounted
  <1>6. UnderWay(p, cache, early)
    BY <1>1, <1>3, <1>4, <1>5 DEF UnderWay
  <1>7. QED
    BY <1>2, <1>4, <1>6

LEMMA StoreAnswers ==
    ASSUME CacheInv, NEW c \in Clients, NEW stores \in BOOLEAN, Store(c, stores)
    PROVE  /\ cache' \in Lists /\ Sound(cache', early)
           /\ req'[c] \in Requests /\ UnderWay(req'[c], cache', early) /\ req'[c].pc = "answered"
           /\ \/ /\ req' = [Disturb(Clients \ {c}) EXCEPT ![c] = req'[c]]
              \/ /\ req' = [req EXCEPT ![c] = req'[c]]
                 /\ Cached(cache) \subseteq Cached(cache')
  <1> DEFINE q == req[c]
             merged == MergeWithCachedSeriesData(q.existing, q.fetched)
             lost == stores /\ ~ (Cached(cache) \subseteq Covered(merged))
             series == GetSeriesFromCachedData(merged, q.start, q.end)
             p == [NoQuery EXCEPT !.pc = "answered", !.at = q.at, !.start = q.start,
                                  !.end = q.end, !.series = series, !.disturbed = q.disturbed]
             all == Disturb(Clients \ {c})
  <1>1. /\ q.pc = "store" /\ q \in Requests /\ UnderWay(q, cache, early)
        /\ DOMAIN req = Clients /\ cache \in Lists /\ Sound(cache, early)
    BY DEF CacheInv, CacheTyped, Store
  <1>2. /\ cache' = IF stores THEN merged ELSE cache
        /\ req' = [(IF lost THEN all ELSE req) EXCEPT ![c] = p]
    BY DEF Store
  <1>3. DOMAIN all = Clients
    BY DEF Disturb
  <1>4. req'[c] = p
    BY <1>1, <1>2, <1>3
  <1>5. merged \in Seq(Pieces) /\ AllComplete(merged, early)
        /\ Covered(merged) = Cached(q.existing) \cup Covered(q.fetched)
    <2>1. q.existing \in Seq(Pieces) \cup {None} /\ q.fetched \in Seq(Pieces)
      BY <1>1 DEF Requests, Lists
    <2>2. AllComplete(q.fetched, early) /\ (q.existing # None => AllComplete(q.existing, early))
      BY <1>1 DEF UnderWay, Sound
    <2> HIDE DEF q
    <2>3. QED
      BY <2>1, <2>2, MergeFacts
  <1>6. q.start \in Times /\ q.end \in Times /\ q.start \in Nat /\ q.end \in Nat
    BY <1>1, TimesFacts DEF Requests
  <1> HIDE DEF merged, q, all
  <1>7. /\ series \in Data
        /\ \A t \in Covered(merged) \ early : q.start <= t /\ t <= q.end => t \in DOMAIN series
    BY <1>5, <1>6, SeriesFacts
  <1> HIDE DEF series
  <1>8. /\ p \in Requests /\ p.pc = "answered" /\ p.start = q.start /\ p.end = q.end
        /\ p.fetched = <<>> /\ p.existing = None /\ p.series = series
        /\ p.disturbed = q.disturbed
    <2>1. NoQuery \in Requests /\ NoQuery.fetched = <<>> /\ NoQuery.existing = None
      BY NoQueryFacts DEF NoQuery
    <2>2. QED
      BY <1>1, <1>7, <2>1 DEF Requests
  <1> HIDE DEF p
  <1>9. \A list : UnderWay(p, list, early)
    <2>1. Asked(p) = Asked(q) /\ \A t \in Asked(q) : q.start <= t /\ t <= q.end
      BY <1>6, <1>8 DEF Asked
    <2>2. ~ q.disturbed => Asked(q) \subseteq Covered(merged)
      BY <1>1, <1>5 DEF UnderWay, Accounted
    <2>3. ~ p.disturbed => Asked(p) \ early \subseteq DOMAIN p.series
      BY <1>7, <1>8, <2>1, <2>2
    <2>4. QED
      BY <1>8, <2>3, EmptyFacts DEF UnderWay, Accounted
  <1>10. cache' \in Lists /\ Sound(cache', early) /\ (stores => Cached(cache') = Covered(merged))
    BY <1>1, <1>2, <1>5, ListFacts DEF Sound
  <1>11. CASE lost
    BY <1>2, <1>4, <1>8, <1>9, <1>10, <1>11 DEF all
  <1>12. CASE ~ lost
    <2>1. Cached(cache) \subseteq Cached(cache')
      BY <1>2, <1>10, <1>12
    <2>2. req' = [req EXCEPT ![c] = p]
      BY <1>2, <1>12
    <2>3. QED
      BY <1>4, <1>8, <1>9, <1>10, <2>1, <2>2
  <1>13. QED
    BY <1>11, <1>12

LEMMA Disturbed ==
    ASSUME CacheInv, NEW others \in SUBSET Clients, NEW list
    PROVE  /\ Disturb(others) \in [Clients -> Requests]
           /\ \A c \in others : UnderWay(Disturb(others)[c], list, early)
           /\ \A c \in Clients : Disturb(others)[c].pc = req[c].pc
  <1>1. req \in [Clients -> Requests] /\ \A c \in Clients : UnderWay(req[c], cache, early)
    BY DEF CacheInv, CacheTyped
  <1>2. ASSUME NEW c \in Clients
        PROVE  /\ Disturb(others)[c] \in Requests
               /\ c \in others => UnderWay(Disturb(others)[c], list, early)
               /\ Disturb(others)[c].pc = req[c].pc
    <2> DEFINE q == req[c]
    <2>1. q \in Requests /\ UnderWay(q, cache, early)
      BY <1>1
    <2>2. Disturb(others)[c] = IF c \in others /\ q.pc \in {"fetch", "retrieve"}
                               THEN [q EXCEPT !.disturbed = TRUE]
                               ELSE q
      BY DEF Disturb
    <2>3. [q EXCEPT !.disturbed = TRUE].pc = q.pc
      BY <2>1 DEF Requests
    <2> HIDE DEF q
    <2>4. /\ q.pc \notin {"fetch", "retrieve"} => UnderWay(q, list, early)
          /\ [q EXCEPT !.disturbed = TRUE] \in Requests
          /\ UnderWay([q EXCEPT !.disturbed = TRUE], list, early)
      BY <2>1, StillUnderWay
    <2>5. QED
      BY <2>1, <2>2, <2>3, <2>4 DEF q
  <1>3. Disturb(others) = [c \in Clients |-> Disturb(others)[c]]
    BY DEF Disturb
  <1>4. Disturb(others) \in [Clients -> Requests]
    BY <1>2, <1>3
  <1>5. QED
    BY <1>2, <1>4

LEMMA CacheInvInit == CacheInit => CacheInv
  <1> SUFFICES ASSUME CacheInit PROVE CacheInv
    OBVIOUS
  <1>1. now = Start /\ cache = None /\ req = [c \in Clients |-> NoQuery]
    BY DEF CacheInit
  <1>2. now \in Nat
    BY <1>1, QueryRangeCacheAssumption
  <1>3. QED
    BY <1>1, <1>2, EmptyFacts, NoQueryFacts DEF CacheInv, CacheTyped

(* One query changes, the cache does not. *)
LEMMA OneQuery ==
    ASSUME CacheInv, NEW c \in Clients, UNCHANGED <<now, cache>>,
           early \subseteq early', req' = [req EXCEPT ![c] = req'[c]],
           req'[c] \in Requests, UnderWay(req'[c], cache, early')
    PROVE  CacheInv'
  <1>1. /\ now \in Nat /\ cache \in Lists /\ req \in [Clients -> Requests] /\ Sound(cache, early)
        /\ \A d \in Clients : UnderWay(req[d], cache, early)
    BY DEF CacheInv, CacheTyped
  <1>2. /\ req' \in [Clients -> Requests]
        /\ \A d \in Clients : d # c => req'[d] = req[d]
    BY <1>1
  <1>3. now' \in Nat /\ cache' \in Lists /\ Sound(cache', early')
    BY <1>1, GrownUnderWay
  <1>4. \A d \in Clients : UnderWay(req[d], cache, early')
    BY <1>1, GrownUnderWay
  <1>5. \A d \in Clients : UnderWay(req'[d], cache', early')
    BY <1>2, <1>4
  <1>6. QED
    BY <1>2, <1>3, <1>5 DEF CacheInv, CacheTyped

LEMMA CacheInvNext == CacheInv /\ [CacheNext]_cacheVars => CacheInv'
  <1> SUFFICES ASSUME CacheInv, [CacheNext]_cacheVars PROVE CacheInv'
    OBVIOUS
  <1>1. /\ now \in Nat /\ cache \in Lists /\ req \in [Clients -> Requests] /\ Sound(cache, early)
        /\ \A d \in Clients : UnderWay(req[d], cache, early)
    BY DEF CacheInv, CacheTyped
  <1>2. CASE Tick
    <2>1. now' \in Nat /\ cache' = cache /\ req' = req /\ early' = early
      BY <1>1, <1>2 DEF Tick
    <2>2. QED
      BY <1>1, <2>1 DEF CacheInv, CacheTyped
  <1>3. ASSUME NEW c \in Clients, NEW start \in Times, NEW end \in Times, NEW reads \in BOOLEAN,
               Find(c, start, end, reads)
        PROVE  CacheInv'
    <2>1. UNCHANGED <<now, cache, early>>
      BY <1>3 DEF Find
    <2>2. CacheTyped
      BY DEF CacheInv
    <2>3. /\ req' = [req EXCEPT ![c] = req'[c]]
          /\ req'[c] \in Requests /\ UnderWay(req'[c], cache, early)
      BY <1>3, <2>2, FindBegins
    <2>4. QED
      BY <2>1, <2>3, OneQuery
  <1>4. ASSUME NEW c \in Clients, Fetch(c)
        PROVE  CacheInv'
    <2>1. UNCHANGED <<now, cache>>
      BY <1>4 DEF Fetch
    <2>2. /\ req' = [req EXCEPT ![c] = req'[c]]
          /\ early \subseteq early'
          /\ req'[c] \in Requests /\ UnderWay(req'[c], cache, early')
      BY <1>4, FetchGoesOn
    <2>3. QED
      BY <2>1, <2>2, OneQuery
  <1>5. ASSUME NEW c \in Clients, FetchFails(c) \/ Answer(c)
        PROVE  CacheInv'
    <2>1. UNCHANGED <<now, cache, early>> /\ req' = [req EXCEPT ![c] = NoQuery]
      BY <1>5 DEF FetchFails, Answer
    <2>2. /\ req' = [req EXCEPT ![c] = req'[c]] /\ req'[c] = NoQuery
      BY <1>1, <2>1
    <2>3. req'[c] \in Requests /\ UnderWay(req'[c], cache, early)
      BY <2>2, NoQueryFacts
    <2>4. QED
      BY <2>1, <2>2, <2>3, OneQuery
  <1>6. ASSUME NEW c \in Clients, NEW reads \in BOOLEAN, Retrieve(c, reads)
        PROVE  CacheInv'
    <2>1. UNCHANGED <<now, cache, early>>
      BY <1>6 DEF Retrieve
    <2>2. /\ req' = [req EXCEPT ![c] = req'[c]]
          /\ req'[c] \in Requests /\ UnderWay(req'[c], cache, early)
      BY <1>6, RetrieveGoesOn
    <2>3. QED
      BY <2>1, <2>2, OneQuery
  <1>7. ASSUME NEW c \in Clients, NEW stores \in BOOLEAN, Store(c, stores)
        PROVE  CacheInv'
    <2>1. now' = now /\ early' = early
      BY <1>7 DEF Store
    <2>2. /\ cache' \in Lists /\ Sound(cache', early)
          /\ req'[c] \in Requests /\ UnderWay(req'[c], cache', early)
          /\ \/ /\ req' = [Disturb(Clients \ {c}) EXCEPT ![c] = req'[c]]
             \/ /\ req' = [req EXCEPT ![c] = req'[c]]
                /\ Cached(cache) \subseteq Cached(cache')
      BY <1>7, StoreAnswers
    <2>3. CASE req' = [Disturb(Clients \ {c}) EXCEPT ![c] = req'[c]]
      <3> DEFINE all == Disturb(Clients \ {c})
      <3>1. Clients \ {c} \in SUBSET Clients
        OBVIOUS
      <3>2. all \in [Clients -> Requests] /\ \A d \in Clients \ {c} : UnderWay(all[d], cache', early)
        BY <3>1, Disturbed
      <3> HIDE DEF all
      <3>3. req' = [all EXCEPT ![c] = req'[c]]
        BY <2>3 DEF all
      <3>4. req' \in [Clients -> Requests] /\ \A d \in Clients : d # c => req'[d] = all[d]
        BY <2>2, <3>2, <3>3
      <3>5. \A d \in Clients : UnderWay(req'[d], cache', early)
        BY <2>2, <3>2, <3>4
      <3>6. QED
        BY <1>1, <2>1, <2>2, <3>4, <3>5 DEF CacheInv, CacheTyped
    <2>4. CASE /\ req' = [req EXCEPT ![c] = req'[c]]
               /\ Cached(cache) \subseteq Cached(cache')
      <3>1. req' \in [Clients -> Requests] /\ \A d \in Clients : d # c => req'[d] = req[d]
        BY <1>1, <2>2, <2>4
      <3>2. ASSUME NEW d \in Clients
            PROVE  UnderWay(req'[d], cache', early)
        <4>1. req[d] \in Requests /\ UnderWay(req[d], cache, early)
          BY <1>1
        <4>2. UnderWay(req[d], cache', early)
          BY <2>4, <4>1, StillUnderWay
        <4>3. QED
          BY <2>2, <3>1, <4>2
      <3>3. QED
        BY <1>1, <2>1, <2>2, <3>1, <3>2 DEF CacheInv, CacheTyped
    <2>5. QED
      BY <2>2, <2>3, <2>4
  <1>8. CASE Expire
    <2>1. now' = now /\ cache' = None /\ req' = Disturb(Clients) /\ early' = early
      BY <1>8 DEF Expire
    <2>2. /\ Disturb(Clients) \in [Clients -> Requests]
          /\ \A d \in Clients : UnderWay(Disturb(Clients)[d], None, early)
      <3>1. Clients \in SUBSET Clients
        OBVIOUS
      <3>2. QED
        BY <3>1, Disturbed
    <2>3. QED
      BY <1>1, <2>1, <2>2, EmptyFacts DEF CacheInv, CacheTyped
  <1>9. CASE UNCHANGED cacheVars
    BY <1>1, <1>9 DEF cacheVars, CacheInv, CacheTyped
  <1>10. QED
    BY <1>2, <1>3, <1>4, <1>5, <1>6, <1>7, <1>8, <1>9 DEF CacheNext, Times

(* What queries and the cache are at every state: the invariant from which *)
(* the promises of the query cache follow.                                 *)
THEOREM CacheInvHolds == CacheSpec => []CacheInv
  <1>1. QED
    BY CacheInvInit, CacheInvNext, PTL DEF CacheSpec

(* Every cached interval has all of its points, whatever queries           *)
(* interleave (CacheComplete).                                             *)
THEOREM CacheCompleteHolds == CacheSpec => []CacheComplete
  <1>1. CacheInv => CacheComplete
    <2> SUFFICES ASSUME CacheInv, cache # None
                 PROVE  \A d \in Range(cache) : Complete(d, early)
      BY DEF CacheComplete, Complete
    <2>1. cache \in Seq(Pieces) /\ AllComplete(cache, early)
      BY DEF CacheInv, CacheTyped, Lists, Sound
    <2>2. Range(cache) = Elements(cache)
      BY <2>1, ElementsRange
    <2>3. QED
      BY <2>1, <2>2 DEF AllComplete, Elements
  <1>2. QED
    BY <1>1, CacheInvHolds, PTL

(* An answer has every point that was asked for (ServedCovers).            *)
THEOREM ServedCoversHolds == CacheSpec => []ServedCovers
  <1>1. CacheInv => ServedCovers
    BY DEF CacheInv, UnderWay, Accounted, ServedCovers, Asked
  <1>2. QED
    BY <1>1, CacheInvHolds, PTL

(* What a look-up finds missing (MissesExact).                             *)
THEOREM MissesExactHolds == CacheSpec => MissesExact
  <1> DEFINE Exact(c) ==
        req[c].pc = "idle" /\ req'[c].pc \in {"fetch", "retrieve"} =>
            LET asked == req'[c].start .. req'[c].end - 1
                missed == Covered(req'[c].misses)
                seen == IF req'[c].disturbed THEN {} ELSE Cached(cache)
            IN /\ asked \ seen \subseteq missed
               /\ missed \subseteq asked
               /\ \A t \in missed \cap seen : t >= Boundary
  <1>1. ASSUME CacheInv, CacheNext, NEW c \in Clients,
               req[c].pc = "idle", req'[c].pc \in {"fetch", "retrieve"}
        PROVE  Exact(c)
    <2>0. /\ CacheTyped /\ DOMAIN req = Clients
      BY <1>1 DEF CacheInv, CacheTyped
    <2>1. ASSUME NEW start \in Times, NEW end \in Times, NEW reads \in BOOLEAN,
                 Find(c, start, end, reads)
          PROVE  Exact(c)
      BY <2>0, <2>1, FindBegins DEF Asked
    <2>2. CASE Tick
      BY <1>1, <2>2 DEF Tick
    <2>3. ASSUME NEW d \in Clients,
                 \/ \E start, end \in Times, reads \in BOOLEAN :
                       d # c /\ Find(d, start, end, reads)
                 \/ Fetch(d)
                 \/ FetchFails(d)
                 \/ \E reads \in BOOLEAN : Retrieve(d, reads)
                 \/ Answer(d)
          PROVE  FALSE
      <3>1. CASE d # c
        <4>1. \E q : req' = [req EXCEPT ![d] = q]
          BY <2>3, <3>1 DEF Find, Fetch, FetchFails, Retrieve, Answer
        <4>2. QED
          BY <1>1, <2>0, <3>1, <4>1
      <3>2. CASE d = c
        <4>1. req[c].pc # "idle"
          BY <2>3, <3>2 DEF Fetch, FetchFails, Retrieve, Answer
        <4>2. QED
          BY <1>1, <4>1
      <3>3. QED
        BY <3>1, <3>2
    <2>4. ASSUME NEW d \in Clients, NEW stores \in BOOLEAN, Store(d, stores)
          PROVE  FALSE
      <3>1. /\ req'[d].pc = "answered"
            /\ \/ req' = [Disturb(Clients \ {d}) EXCEPT ![d] = req'[d]]
               \/ req' = [req EXCEPT ![d] = req'[d]]
        BY <1>1, <2>4, StoreAnswers
      <3>2. c # d
        BY <1>1, <3>1
      <3>3. DOMAIN Disturb(Clients \ {d}) = Clients /\ Disturb(Clients \ {d})[c].pc = req[c].pc
        <4>1. Clients \ {d} \in SUBSET Clients
          OBVIOUS
        <4>2. QED
          BY <1>1, <4>1, Disturbed
      <3>4. req'[c] = Disturb(Clients \ {d})[c] \/ req'[c] = req[c]
        BY <2>0, <3>1, <3>2, <3>3
      <3>5. QED
        BY <1>1, <3>3, <3>4
    <2>5. CASE Expire
      <3>1. Clients \in SUBSET Clients /\ req' = Disturb(Clients)
        BY <2>5 DEF Expire
      <3>2. req'[c].pc = req[c].pc
        BY <1>1, <3>1, Disturbed
      <3>3. QED
        BY <1>1, <3>2
    <2>6. QED
      BY <1>1, <2>1, <2>2, <2>3, <2>4, <2>5 DEF CacheNext, Times
  <1>2. CacheInv /\ [CacheNext]_cacheVars => [\A c \in Clients : Exact(c)]_cacheVars
    BY <1>1
  <1>3. QED
    BY <1>2, CacheInvHolds, PTL DEF CacheSpec, MissesExact
=============================================================================
