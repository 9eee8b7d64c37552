----------------------------- MODULE NotifierMC -----------------------------
(* An instance of Notifier for TLC: two Alertmanagers, calls of Send that   *)
(* fill and overfill the queue.                                             *)
EXTENDS Notifier

CONSTANTS am1, am2
=============================================================================
