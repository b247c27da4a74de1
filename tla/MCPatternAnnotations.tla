------------------------ MODULE MCPatternAnnotations ------------------------
(* An instance of the pattern annotations for TLC.                         *)
EXTENDS PatternAnnotations

CONSTANTS o1, o2, h1, h2, a1, a2

\* The second pattern is below the evidence floor in the second artifact.
MCActive == [a \in Artifacts |-> IF a = a1 THEN {h1, h2} ELSE {h1}]

OperatorSymmetry == Permutations(Operators)

=============================================================================
