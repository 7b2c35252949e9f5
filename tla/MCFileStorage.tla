--------------------------- MODULE MCFileStorage ---------------------------
(* Finite instances of FileStorage for TLC. *)
EXTENDS FileStorage, TLC

CONSTANTS f1, f2, s1, s2, n1, n2, a, b, c1, c2, w1, w2

MCSizes == (a :> 1) @@ (b :> 2)
MCSizeOfA == a :> 1

(* All clients send the same name, or each its own. *)
MCSameName == [c \in Clients |-> Names]
MCOwnName == (c1 :> {n1}) @@ (c2 :> {n2})

MCSymmetry == Permutations(Files) \cup Permutations(Slots)
                \cup Permutations(Clients) \cup Permutations(ScanWorkers)

(* With MCOwnName a client is exchanged together with its name. *)
MCPairSymmetry == Permutations(Files) \cup Permutations(Slots)
    \cup {(c1 :> c2) @@ (c2 :> c1) @@ (n1 :> n2) @@ (n2 :> n1)}
=============================================================================
