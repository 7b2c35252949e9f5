--------------------------- MODULE MCRegistration ---------------------------
(* Finite instances of Registration for TLC. *)
EXTENDS Registration, TLC

CONSTANTS i1, i2, ana, luis, u1, u2, p1, p2, p3

MCSymmetry == Permutations(Invitations) \cup Permutations(Recipients)
                \cup Permutations(Ids) \cup Permutations(Requests)
=============================================================================
