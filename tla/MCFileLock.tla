----------------------------- MODULE MCFileLock -----------------------------
(* Two processes for TLC: one hosts a single caller, the other one or two. *)
EXTENDS FileLock, TLC

CONSTANTS a, b, c, p, q, i1, i2, i3, i4

MCPidOf == [x \in Clients |-> IF x = a THEN p ELSE q]

\* Inodes are interchangeable.
InodeSymmetry == Permutations(Inodes)

\* What the properties are about: nothing is claimed once a limit was too short.
InTime == lapses = {}

=============================================================================
