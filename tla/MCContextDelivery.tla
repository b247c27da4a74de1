------------------------- MODULE MCContextDelivery -------------------------
(* Instances of the context sessions for TLC.                              *)
EXTENDS ContextDelivery, TLC

CONSTANTS p1, p2, t1, t2, r1, r2, g1, g2, s1, s2, i1, q1, q2

MCCost == [t \in Tasks |-> IF t = t1 THEN 1 ELSE 2]
MCSpend == [r \in Results |-> IF r = r1 THEN 0 ELSE 1]

ProcSymmetry == Permutations(Procs)

=============================================================================
