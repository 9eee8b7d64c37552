------------------------------ MODULE Notifier ------------------------------
(***************************************************************************)
(* The alert notifier (integrations/alertManager/notifier.go): tasks call  *)
(* Send, which appends to a bounded queue under a mutex and leaves a token *)
(* in the channel "more"; one goroutine runs Run, which takes batches off  *)
(* the queue and posts each to every Alertmanager at once.                 *)
(*                                                                         *)
(* A notification is the number of its place in the order of all sent.     *)
(***************************************************************************)
EXTENDS Integers, Sequences, FiniteSets

CONSTANTS
    Alertmanagers,  \* NotifierOptions.AlertManagerURLs
    QueueCapacity,  \* NotifierOptions.QueueCapacity
    MaxBatchSize,   \* maxBatchSize
    SendSizes,      \* bound: how many alerts one call of Send may carry
    MaxSent         \* bound: notifications sent in all

ASSUME NotifierAssumption ==
    /\ Alertmanagers # {}
    /\ QueueCapacity \in Nat
    /\ MaxBatchSize \in Nat \ {0}
    /\ SendSizes \subseteq Nat \ {0}
    /\ MaxSent \in Nat

VARIABLES
    queue,      \* Notifier.queue
    more,       \* whether Notifier.more holds its one token
    pc,         \* where Run is
    batch,      \* the alerts Run took off the queue
    posting,    \* the Alertmanagers that have not answered sendAll yet
    numSuccess, \* sendAll's numSuccess
    cancelled,  \* Notifier.ctx
    received,   \* per Alertmanager, the notifications that reached it
    \* Not in the code.
    sent        \* notifications sent so far

vars == <<queue, more, pc, batch, posting, numSuccess, cancelled, received, sent>>

Numbers(from, to) == [i \in 1 .. to - from + 1 |-> from + i - 1]

Init ==
    /\ queue = <<>>
    /\ more = FALSE
    /\ pc = "select"
    /\ batch = <<>>
    /\ posting = {}
    /\ numSuccess = 0
    /\ cancelled = FALSE
    /\ received = [am \in Alertmanagers |-> <<>>]
    /\ sent = 0

-----------------------------------------------------------------------------
(* s[d:] of a slice, all of it for d <= 0. *)
DropFirst(s, d) == IF d > 0 THEN SubSeq(s, d + 1, Len(s)) ELSE s

(* Mutant: a full queue drops what comes in. *)
EnqueuedKeepOld(q, alerts) ==
    LET room == QueueCapacity - Len(q)
    IN q \o (IF Len(alerts) <= room THEN alerts ELSE SubSeq(alerts, 1, room))

(* Send drops what is over the capacity: first of the new alerts, then of  *)
(* the oldest in the queue.                                                *)
Enqueued(q, alerts) ==
    LET fit == DropFirst(alerts, Len(alerts) - QueueCapacity)
    IN DropFirst(q, Len(q) + Len(fit) - QueueCapacity) \o fit

(* A task sends n alerts.  The token is left before the mutex is released. *)
Send(n) ==
    /\ sent + n <= MaxSent
    /\ sent' = sent + n
    /\ queue' = Enqueued(queue, Numbers(sent + 1, sent + n))
    /\ more' = TRUE
    /\ UNCHANGED <<pc, batch, posting, numSuccess, cancelled, received>>

(* Run's select takes the token ... *)
TakeMore ==
    /\ pc = "select"
    /\ more
    /\ more' = FALSE
    /\ pc' = "take"
    /\ UNCHANGED <<queue, batch, posting, numSuccess, cancelled, received, sent>>

(* ... or sees the context done; with both ready it takes either. *)
Return ==
    /\ pc = "select"
    /\ cancelled
    /\ pc' = "returned"
    /\ UNCHANGED <<queue, more, batch, posting, numSuccess, cancelled, received, sent>>

BatchLen == IF Len(queue) > MaxBatchSize THEN MaxBatchSize ELSE Len(queue)

(* Mutant: the batch stays in the queue. *)
NextBatchKept ==
    /\ pc = "take"
    /\ batch' = SubSeq(queue, 1, BatchLen)
    /\ posting' = Alertmanagers
    /\ numSuccess' = 0
    /\ pc' = "sendAll"
    /\ UNCHANGED <<queue, more, cancelled, received, sent>>

(* nextBatch, and the start of sendAll: a post to every Alertmanager, of   *)
(* an empty batch too.                                                     *)
NextBatch ==
    /\ pc = "take"
    /\ batch' = SubSeq(queue, 1, BatchLen)
    /\ queue' = SubSeq(queue, BatchLen + 1, Len(queue))
    /\ posting' = Alertmanagers
    /\ numSuccess' = 0
    /\ pc' = "sendAll"
    /\ UNCHANGED <<more, cancelled, received, sent>>

(* sendOne: the post is answered with 2xx, or it fails (another status, a  *)
(* timeout, the context cancelled) before or after it reached the other    *)
(* side.                                                                   *)
SendOne(am, arrives, ok) ==
    /\ pc = "sendAll"
    /\ am \in posting
    /\ ok => arrives
    /\ posting' = posting \ {am}
    /\ received' = IF arrives THEN [received EXCEPT ![am] = @ \o batch] ELSE received
    /\ numSuccess' = IF ok THEN numSuccess + 1 ELSE numSuccess
    /\ UNCHANGED <<queue, more, pc, batch, cancelled, sent>>

(* All have answered: the batch is done with, sent or dropped. *)
SendAllReturns ==
    /\ pc = "sendAll"
    /\ posting = {}
    /\ batch' = <<>>
    /\ pc' = "check"
    /\ UNCHANGED <<queue, more, posting, numSuccess, cancelled, received, sent>>

(* Mutant: the rest of the queue waits for the next Send. *)
CheckQueueNoMore ==
    /\ pc = "check"
    /\ pc' = "select"
    /\ UNCHANGED <<queue, more, batch, posting, numSuccess, cancelled, received, sent>>

(* The end of Run's loop.  A Send between queueLen and setMore leaves the  *)
(* token itself, so that the two can be one step.                          *)
CheckQueue ==
    /\ pc = "check"
    /\ more' = (more \/ Len(queue) > 0)
    /\ pc' = "select"
    /\ UNCHANGED <<queue, batch, posting, numSuccess, cancelled, received, sent>>

Stop ==
    /\ ~ cancelled
    /\ cancelled' = TRUE
    /\ UNCHANGED <<queue, more, pc, batch, posting, numSuccess, received, sent>>

RunStep ==
    \/ TakeMore
    \/ Return
    \/ NextBatch
    \/ SendAllReturns
    \/ CheckQueue

Next ==
    \/ \E n \in SendSizes : Send(n)
    \/ RunStep
    \/ \E am \in Alertmanagers, arrives, ok \in BOOLEAN : SendOne(am, arrives, ok)
    \/ Stop

Spec == Init /\ [][Next]_vars

(* Run's goroutine is scheduled, and every post ends: sendAll gives each   *)
(* request a timeout.  Nothing obliges anyone to send or to stop.          *)
FairSpec ==
    /\ Spec
    /\ WF_vars(RunStep)
    /\ \A am \in Alertmanagers :
         WF_vars(\E arrives, ok \in BOOLEAN : SendOne(am, arrives, ok))

-----------------------------------------------------------------------------
TypeOK ==
    /\ queue \in Seq(Nat)
    /\ more \in BOOLEAN
    /\ pc \in {"select", "take", "sendAll", "check", "returned"}
    /\ batch \in Seq(Nat)
    /\ posting \subseteq Alertmanagers
    /\ numSuccess \in 0 .. Cardinality(Alertmanagers)
    /\ cancelled \in BOOLEAN
    /\ received \in [Alertmanagers -> Seq(Nat)]
    /\ sent \in Nat

(* No wakeup is lost: Run never waits for the token while the queue holds  *)
(* alerts and no token is there, however Send interleaves with its loop.   *)
NoLostWakeup ==
    pc = "select" /\ queue # <<>> => more

(* The queue holds the newest notifications, in order, and never more than *)
(* its capacity: a full queue loses old news, not what replaced it.        *)
NewestKept ==
    /\ Len(queue) <= QueueCapacity
    /\ \A i \in 1 .. Len(queue) : queue[i] = sent - Len(queue) + i

(* Every notification leaves the queue, posted or displaced by newer ones, *)
(* unless the notifier was stopped.                                        *)
QueueDrains ==
    \A n \in 1 .. MaxSent :
        (sent >= n) ~> ((\A i \in 1 .. Len(queue) : queue[i] # n) \/ cancelled)

Contract == INSTANCE NotifierContract WITH settled <- sent - Len(queue)

(* The notifier keeps its contract: in order, at most once each.           *)
KeepsContract == Contract!Spec
=============================================================================
