------------------------------ MODULE MC_Harbor ------------------------------
(* Instances of Harbor for TLC: this harbor is 1.                         *)
EXTENDS Harbor

CONSTANTS x1, x2

\* The second message of harbor 2 is too long.
MCInbound == [r \in HarborIds |-> IF r = 2 THEN <<6, 9>> ELSE <<>>]

=============================================================================
