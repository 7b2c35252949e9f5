-------------------------- MODULE MCAuthentication --------------------------
(* Finite instances of Authentication for TLC. *)
EXTENDS Authentication, TLC

CONSTANTS owner, admin, s1, s2, t1, t2, t3, old, new, r1, r2, v1, v2, p1, p2

MCSymmetry == Permutations(Sessions) \cup Permutations(Tokens) \cup Permutations(Resets)
                \cup Permutations(Verifications) \cup Permutations(Requests)
=============================================================================
