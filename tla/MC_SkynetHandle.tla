-------------------------- MODULE MC_SkynetHandle --------------------------
(* Instances of SkynetHandle for TLC.                                      *)
EXTENDS SkynetHandle

CONSTANTS c1, c2, c3, t1, t2

\* One memory block is as good as another.
Blocks == Permutations(Contexts)

=============================================================================
