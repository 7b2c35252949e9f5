------------------------------ MODULE MCAccess ------------------------------
(* Finite instances of Access for TLC. *)
EXTENDS Access, TLC

CONSTANTS u1, u2, u3, t0, t1, t2, p1, p2, p3

MCSymmetry == Permutations(Users) \cup Permutations(Requests)
=============================================================================
