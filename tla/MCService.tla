----------------------------- MODULE MCService -----------------------------
EXTENDS Service, OperatorInvariants, TLC
CONSTANTS c1, o1, r1, r2, s1, s2

(* Requests differ in nothing but their name, and so do the good specs.    *)
Symmetry == Permutations({r1, r2}) \cup Permutations({s1, s2})
=============================================================================
