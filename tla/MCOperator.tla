----------------------------- MODULE MCOperator -----------------------------
EXTENDS OperatorInvariants, TLC
CONSTANTS c1, c2, o1, o2, s1, s2, bad, broken
=============================================================================
