----------------------------- MODULE MCRuntime ------------------------------
(* Small instances of Runtime for TLC. *)
EXTENDS RuntimeSafety, TLC

CONSTANTS w1, w2, m1, o1, o2, j1, j2, a1

OneAccount  == [j \in Jobs |-> a1]
AllOfJob1   == [i \in Items |-> j1]
SplitItems  == [i \in Items |-> IF i = 1 THEN j1 ELSE j2]

WorkerSymmetry   == Permutations(Workers)
OperatorSymmetry == Permutations(Operators)
=============================================================================
