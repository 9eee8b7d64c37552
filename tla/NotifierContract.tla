-------------------------- MODULE NotifierContract --------------------------
(***************************************************************************)
(* What the rules may count on when they hand notifications to the         *)
(* notifier: notifications (numbered as they are sent) leave the queue in  *)
(* order, each Alertmanager gets each at most once and in order, and only  *)
(* once it has left the queue.  Any of them may be lost on the way.        *)
(***************************************************************************)
EXTENDS Naturals, Sequences

CONSTANT Alertmanagers

VARIABLES
    sent,      \* notifications sent so far
    settled,   \* those that have left the queue: 1 .. settled
    received   \* what each Alertmanager has received

vars == <<sent, settled, received>>

Init ==
    /\ sent = 0
    /\ settled = 0
    /\ received = [am \in Alertmanagers |-> <<>>]

LastReceived(am) ==
    IF received[am] = <<>> THEN 0 ELSE received[am][Len(received[am])]

(* A batch is sent; the oldest notifications may be dropped to make room. *)
Accept ==
    /\ sent' > sent
    /\ settled' \in settled .. sent'
    /\ UNCHANGED received

Settle ==
    /\ settled < sent
    /\ settled' \in settled + 1 .. sent
    /\ UNCHANGED <<sent, received>>

(* One Alertmanager receives consecutive notifications it never received. *)
Deliver(am) ==
    /\ \E from \in LastReceived(am) + 1 .. settled :
         \E to \in from .. settled :
            received' = [received EXCEPT
                           ![am] = @ \o [i \in 1 .. to - from + 1 |-> from + i - 1]]
    /\ UNCHANGED <<sent, settled>>

Next ==
    \/ Accept
    \/ Settle
    \/ \E am \in Alertmanagers : Deliver(am)

Spec == Init /\ [][Next]_vars
=============================================================================
