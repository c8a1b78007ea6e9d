------------------------- MODULE MC_SkynetDispatch -------------------------
(* Instances of SkynetDispatch for TLC.                                    *)
EXTENDS SkynetDispatch, TLC

CONSTANTS s1, s2, w1, w2, c1

\* Worker 1 takes one message a turn, worker 2 all there are.
MCWeight == [w \in Workers |-> IF w = w1 THEN -1 ELSE 0]

\* Both take all there are: the workers can be told apart by nothing.
SameWeight == [w \in Workers |-> 0]
Alike      == Permutations(Workers)

=============================================================================
