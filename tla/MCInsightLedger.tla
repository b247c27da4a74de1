-------------------------- MODULE MCInsightLedger --------------------------
(* Two writers and two insights for TLC.                                   *)
EXTENDS InsightLedger, TLC

CONSTANTS a, b, x, y, k

\* The evidence of every insight is there, then that of one is gone.
MCAvailable == [n \in Contexts |-> IF n = 0 THEN {x, y} ELSE {x}]

WriterSymmetry == Permutations(Writers)

\* What most properties are about: nothing is claimed once the lock was passed by.
InOrder == strays = {}

=============================================================================
