--------------------------- MODULE MCNotifications ---------------------------
(* Finite instances of Notifications for TLC.  The permuted sets occur in    *)
(* neither Fairness nor JobsEnd, whose truth on a behaviour therefore does   *)
(* not depend on which of two permuted states it goes through: the symmetry  *)
(* is sound for the liveness property, too.  Workers and Ids occur there and *)
(* are not permuted.                                                         *)
EXTENDS Notifications, TLC

CONSTANTS n1, t1, t2, f1, f2, p1, p2, w1, w2

MCSymmetry == Permutations(Templates) \cup Permutations(Preferences)
                \cup Permutations(Requests)
=============================================================================
