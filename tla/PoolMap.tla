------------------------------ MODULE PoolMap ------------------------------
(***************************************************************************)
(* What a pool of nodes found by key promises: a map of limited size.  A   *)
(* node belongs to its key, and keeps what is written into it, until the   *)
(* key is freed; a node just allocated is blank.  An allocation fails only *)
(* if the key has a node already or the pool is full.                      *)
(***************************************************************************)
EXTENDS Naturals, FiniteSets, TLC

CONSTANTS Keys, Values, Blank, Capacity

VARIABLES
  values,   \* the value of each key that is allocated
  ok,       \* whether the last operation succeeded
  count,    \* the number of keys
  visited   \* the keys an iteration over the pool sees

poolVars == <<values, ok, count, visited>>

Counted == count = Cardinality(DOMAIN values) /\ visited = DOMAIN values

Init == values = <<>> /\ ok = TRUE /\ Counted

Alloc(k) ==
  IF k \in DOMAIN values \/ Cardinality(DOMAIN values) = Capacity
  THEN ok' = FALSE /\ UNCHANGED values
  ELSE ok' = TRUE  /\ values' = values @@ (k :> Blank)

Write(k, x) ==
  /\ k \in DOMAIN values
  /\ values' = [values EXCEPT ![k] = x]
  /\ ok' = TRUE

Free(k) ==
  /\ ok' = (k \in DOMAIN values)
  /\ values' = [j \in DOMAIN values \ {k} |-> values[j]]

Next == /\ \E k \in Keys : \/ Alloc(k) \/ Free(k)
                           \/ \E x \in Values : Write(k, x)
        /\ Counted'

Spec == Init /\ [][Next]_poolVars

=============================================================================
