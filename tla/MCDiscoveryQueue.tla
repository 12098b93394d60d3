-------------------------- MODULE MCDiscoveryQueue --------------------------
(***************************************************************************)
(* Two providers and two workers: a provider may be enqueued while a       *)
(* worker is at it, with the other worker looking for something to do.     *)
(* One administrative call or restart may come at any moment.  The cap on  *)
(* yielding is twice the pause, so that a fetch may yield twice.           *)
(***************************************************************************)
EXTENDS DiscoveryQueue

CONSTANTS p1, p2, w1, w2

(* A first start; saved snapshots are met after a restart.                 *)
FirstStart == DiscoveryInit /\ snapshot = [p \in Provider |-> "none"]

FromFirstStart == FirstStart /\ [][Next]_vars /\ Fairness
=============================================================================
