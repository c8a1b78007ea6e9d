----------------------------- MODULE HashMemPool -----------------------------
(***************************************************************************)
(* The pool that holds the online players of a game server: a hash table   *)
(* over blocks of one size that are cut from a single piece of memory.     *)
(* FixedMemPool hands out the blocks, from its free list or, while it is   *)
(* empty, from memory never used; HashMemPool links them into buckets.     *)
(* The operations run under the lock of PlayerDataMgr, one step each.      *)
(*                                                                         *)
(* The code links blocks by their offset from the header.  Here block i is *)
(* the i-th of the memory, 0 the offset no block has.                      *)
(***************************************************************************)
EXTENDS Integers, FiniteSets, Sequences, TLC

CONSTANTS
  PoolKeys,     \* keys, natural numbers
  PoolValues,   \* what the owner of a node writes into it
  Blank,        \* the value after memset
  BucketNum,    \* bucket_num: 16000 in the configuration
  MaxNode       \* max_node: 16000 in the configuration

ASSUME PoolAssumption ==
  /\ PoolKeys \subseteq Nat
  /\ BucketNum \in Nat \ {0}
  /\ MaxNode \in Nat \ {0}
  /\ Blank \notin PoolValues

USED    == 0         \* AllocBlock.next of a block that is allocated
INVALID == -1        \* INVALID_POINTER: the end of the free list
Blocks  == 1..MaxNode

VARIABLES
  alloc_node,   \* blocks ever cut from the memory (alloc_size says the same)
  free_list,    \* the first free block
  free_next,    \* AllocBlock.next of each block
  buckets,      \* the first block of each bucket
  node,         \* HashNode of each block: key, value, next
  node_num,     \* the number of nodes in the table
  done          \* whether the last operation returned a node, or OK

pool == <<alloc_node, free_list, free_next, buckets, node, node_num, done>>

\* HashMemPool::Init without a header to check, and FixedMemPool::Init.  What
\* the memory held before is of no use: blocks are read once they are cut.
PoolInit ==
  /\ alloc_node = 0
  /\ free_list = INVALID
  /\ free_next = [b \in Blocks |-> USED]
  /\ buckets = [i \in 0..(BucketNum - 1) |-> 0]
  /\ node = [b \in Blocks |-> [key |-> 0, value |-> Blank, next |-> 0]]
  /\ node_num = 0
  /\ done = TRUE

Index(k) == k % BucketNum

\* The blocks of a bucket, from the first; no chain is longer than the memory.
Chain(i) ==
  LET from[p \in 0..MaxNode, n \in 0..MaxNode] ==
        IF p = 0 \/ n = 0 THEN <<>> ELSE <<p>> \o from[node[p].next, n - 1]
  IN from[buckets[i], MaxNode]

\* The places in its bucket where a key is found; the code takes the first.
Places(k) == LET chain == Chain(Index(k)) IN {j \in DOMAIN chain : node[chain[j]].key = k}

-----------------------------------------------------------------------------
\* FixedMemPool::Alloc: a block of the free list, else one never used.
Cut(b) ==
  IF free_list # INVALID
  THEN b = free_list /\ free_list' = free_next[b] /\ UNCHANGED alloc_node
  ELSE /\ alloc_node < MaxNode /\ b = alloc_node + 1
       /\ alloc_node' = b /\ UNCHANGED free_list

Full == free_list = INVALID /\ alloc_node = MaxNode

\* IsValidBlock fails for the block the free list hands out: it was never cut.
Corrupt == free_list > alloc_node

\* HashMemPool::Alloc of a key that is new: the node goes first in its bucket.
AllocNode(k) ==
  /\ Places(k) = {} /\ ~Full /\ ~Corrupt
  /\ \E b \in Blocks :
       /\ Cut(b)
       /\ free_next' = [free_next EXCEPT ![b] = USED]
       /\ node' = [node EXCEPT ![b] =
                     [key |-> k, value |-> Blank, next |-> buckets[Index(k)]]]
       /\ buckets' = [buckets EXCEPT ![Index(k)] = b]
  /\ node_num' = node_num + 1
  /\ done' = TRUE

\* ... of a key that has a node, when the memory is used up, or with a block
\* that fails its check, which is lost.
AllocFails(k) ==
  /\ Places(k) # {} \/ Full \/ Corrupt
  /\ free_list' = IF Places(k) = {} /\ Corrupt THEN free_next[free_list] ELSE free_list
  /\ done' = FALSE
  /\ UNCHANGED <<alloc_node, free_next, buckets, node, node_num>>

\* The owner of a node writes through the pointer Alloc or Get returned.
WriteValue(k, x) ==
  /\ Places(k) # {}
  /\ \E j \in Places(k) :
       node' = [node EXCEPT ![Chain(Index(k))[j]].value = x]
  /\ done' = TRUE
  /\ UNCHANGED <<alloc_node, free_list, free_next, buckets, node_num>>

\* The definitions named Bug... are wrong variants of the definition that
\* follows; no specification uses them.

\* The bucket always starts behind the freed node.
BugUnlink(k, j) ==
  LET chain == Chain(Index(k)) IN
  /\ buckets' = [buckets EXCEPT ![Index(k)] = node[chain[j]].next]
  /\ UNCHANGED node

\* The predecessor, or the bucket, is linked to what follows the node.
Unlink(k, j) ==
  LET chain == Chain(Index(k))
      after == node[chain[j]].next
  IN IF j > 1
     THEN /\ node' = [node EXCEPT ![chain[j - 1]].next = after]
          /\ UNCHANGED buckets
     ELSE /\ buckets' = [buckets EXCEPT ![Index(k)] = after]
          /\ UNCHANGED node

\* HashMemPool::Free of a key that has a node, and FixedMemPool::Free.
FreeNode(k) ==
  /\ \E j \in Places(k) :
       LET b == Chain(Index(k))[j] IN
       /\ Unlink(k, j)
       /\ IF b <= alloc_node /\ free_next[b] = USED
          THEN /\ free_next' = [free_next EXCEPT ![b] = free_list]
               /\ free_list' = b
               /\ done' = TRUE
          ELSE done' = FALSE /\ UNCHANGED <<free_next, free_list>>
  /\ node_num' = node_num - 1
  /\ UNCHANGED alloc_node

FreeFails(k) ==
  /\ Places(k) = {}
  /\ done' = FALSE
  /\ UNCHANGED <<alloc_node, free_list, free_next, buckets, node, node_num>>

PoolNext ==
  \E k \in PoolKeys :
    \/ AllocNode(k) \/ AllocFails(k) \/ FreeNode(k) \/ FreeFails(k)
    \/ \E x \in PoolValues : WriteValue(k, x)

PoolSpec == PoolInit /\ [][PoolNext]_pool

-----------------------------------------------------------------------------
\* The keys whose nodes GetNextNode visits: every block that has been cut and is
\* not free.
Visited == {node[b].key : b \in {c \in 1..alloc_node : free_next[c] = USED}}

KeysFound == {k \in PoolKeys : Places(k) # {}}

AsMap == INSTANCE PoolMap WITH
  Keys <- PoolKeys, Values <- PoolValues, Capacity <- MaxNode,
  values <- [k \in KeysFound |-> LET chain == Chain(Index(k)) IN
               node[chain[CHOOSE j \in Places(k) : \A i \in Places(k) : j <= i]].value],
  ok <- done,
  count <- node_num,
  visited <- Visited

\* The pool is a map of MaxNode entries, however keys share buckets and blocks
\* are freed and used again; an iteration sees what is in it and nothing else.
IsMap == AsMap!Spec

=============================================================================
