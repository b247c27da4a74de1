------------------------- MODULE MCOperationIntents -------------------------
(* Four manifests for TLC: the empty one, two that share their sources and  *)
(* differ in their recipes only, and one whose sources differ from theirs   *)
(* although the conversations are the same.                                 *)
EXTENDS OperationIntents

CONSTANTS m0, m1, m2, m3

MCManifests == {m0, m1, m2, m3}
MCSourcesOf == [m \in MCManifests |->
    CASE m = m0 -> "s0" [] m \in {m1, m2} -> "s1" [] m = m3 -> "s3"]
MCContentOf == [m \in MCManifests |->
    CASE m = m0 -> "c0" [] m \in {m1, m2, m3} -> "c1"]

=============================================================================
