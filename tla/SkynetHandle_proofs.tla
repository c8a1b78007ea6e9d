---------------------------- MODULE SkynetHandle_proofs ----------------------------
(***************************************************************************)
(* Theorems about SkynetHandle: the table and its counter, the sweep of    *)
(* skynet_handle_retireall, and the binary search in the array of names.   *)
(***************************************************************************)
EXTENDS SkynetHandle, FiniteSetTheorems, WellFoundedInduction, TLAPS

\* The hypothesis of the theorems about lookups: the table is not doubled while a
\* context that is in it has no handle yet.  (Two launches at the same time can
\* break it, and RegisterAssertions, and GrabFinds.)
ExpandsAlone == DOMAIN slot' # DOMAIN slot => \A t \in Threads : pc[t] # "publish"

-----------------------------------------------------------------------------
(* The invariant.                                                          *)

PC == {"idle", "register", "publish", "sweep", "sweepretire", "swept"}

\* The types of all but the names.
Types ==
  /\ Size \in Nat \ {0} /\ (Mask + 1) % Size = 0
  /\ slot \in [0..(Size - 1) -> Contexts \cup {NULL}]
  /\ index \in 1..(Mask + 1)
  /\ handle \in [Contexts -> Handles]
  /\ aborted \in BOOLEAN
  /\ pc \in [Threads -> PC]
  /\ ctx \in [Threads -> Contexts \cup {NULL}]
  /\ got \in [Threads -> Handles]
  /\ i \in [Threads -> Nat]
  /\ n \in [Threads -> {0, 1}]
  /\ ever \subseteq Handles
  /\ due \in [Threads -> SUBSET Handles]

\* A thread has a context in hand while it launches it; the context is in the
\* table from skynet_handle_register on and has no handle until that is assigned.
Launches ==
  /\ \A t \in Threads :
       /\ ctx[t] # NULL <=> pc[t] \in {"register", "publish"}
       /\ ctx[t] # NULL => handle[ctx[t]] = 0
       /\ pc[t] = "register" => t \in Launchers /\ ctx[t] \notin Registered
       /\ pc[t] = "publish" => t \in Launchers
       /\ pc[t] = "sweepretire" => got[t] # 0
  /\ \A t, u \in Threads : ctx[t] # NULL /\ ctx[t] = ctx[u] => t = u

\* The handles given since the counter wrapped are below it.
EverBelow == \A h \in ever : h < index

\* Every context is in the slot of its handle, and there alone: of the handle it
\* has, or of the one that its launcher is about to assign.
Located ==
  /\ \A k \in DOMAIN slot : slot[k] \in Published => Hash(handle[slot[k]], Size) = k
  /\ \A t \in Threads : pc[t] = "publish" =>
       \A k \in DOMAIN slot : slot[k] = ctx[t] <=> k = Hash(got[t], Size)

\* What the sweep of t must retire is in the table.  As long as it has retired
\* nothing in this pass, what is left of it is in the slots that are still to be
\* looked at, or has just been read.
SweepOf(t) ==
  /\ pc[t] \notin {"sweep", "sweepretire"} => due[t] = {} /\ i[t] = 0
  /\ \A h \in due[t] :
       /\ h # 0 /\ Grab(h) # NULL
       /\ n[t] = 0 =>
            /\ Hash(h, Size) >= i[t]
            /\ pc[t] = "sweepretire" => h = got[t] \/ Hash(h, Size) > i[t]

Sweeps == \A t \in Threads : SweepOf(t)

HandleInv == Types /\ Launches /\ EverBelow
LookupInv == HandleInv /\ Located /\ Sweeps

-----------------------------------------------------------------------------
(* Arithmetic of remainders, and the least element.                        *)

LEMMA ModFacts ==
  ASSUME NEW S \in Nat \ {0}, NEW x \in Nat
  PROVE  x % S \in 0..(S - 1) /\ x \div S \in Nat /\ x = (x \div S) * S + (x % S)
OBVIOUS

LEMMA ModUnique ==
  ASSUME NEW S \in Nat \ {0}, NEW q \in Nat, NEW r \in 0..(S - 1)
  PROVE  (q * S + r) % S = r
OBVIOUS

LEMMA ProductNat ==
  ASSUME NEW a \in Nat, NEW b \in Nat
  PROVE  a * b \in Nat
OBVIOUS

LEMMA Associate ==
  ASSUME NEW a \in Nat, NEW b \in Nat, NEW c \in Nat
  PROVE  a * (b * c) = (a * b) * c
OBVIOUS

LEMMA Distribute ==
  ASSUME NEW a \in Nat, NEW b \in Nat, NEW c \in Nat
  PROVE  (a + b) * c = a * c + b * c
OBVIOUS

\* A divisor goes in a number of times.
LEMMA Quotient ==
  ASSUME NEW S \in Nat \ {0}, NEW M \in Nat \ {0}, M % S = 0
  PROVE  \E q \in Nat \ {0} : M = q * S
<1> DEFINE q == M \div S
<1>1. q \in Nat /\ M = q * S
  BY ModFacts
<1>2. q # 0
  BY <1>1
<1> QED BY <1>1, <1>2

\* The remainder by M and then by a divisor of M.
LEMMA ModOfMod ==
  ASSUME NEW S \in Nat \ {0}, NEW M \in Nat \ {0}, M % S = 0, NEW x \in Nat
  PROVE  (x % M) % S = x % S
<1>1. PICK q \in Nat \ {0} : M = q * S
  BY Quotient
<1> DEFINE d == x \div M
           y == x % M
           e == y \div S
           r == y % S
<1>2. y \in Nat /\ d \in Nat /\ x = d * M + y
  BY ModFacts
<1>3. e \in Nat /\ r \in 0..(S - 1) /\ y = e * S + r
  BY <1>2, ModFacts
<1> HIDE DEF d, y, e, r
<1>4. d * q \in Nat /\ d * q + e \in Nat
  BY <1>1, <1>2, <1>3, ProductNat
<1>5. x = (d * q + e) * S + r
  <2>1. d * (q * S) = (d * q) * S
    BY <1>1, <1>2, Associate
  <2>2. (d * q + e) * S = (d * q) * S + e * S
    BY <1>3, <1>4, Distribute
  <2>3. x = d * (q * S) + (e * S + r)
    BY <1>1, <1>2, <1>3
  <2>4. d * (q * S) \in Nat /\ (d * q) * S \in Nat /\ e * S \in Nat
    BY <1>1, <1>2, <1>3, <1>4, ProductNat
  <2> QED BY <2>1, <2>2, <2>3, <2>4, <1>3
<1>6. x % S = r
  BY <1>3, <1>4, <1>5, ModUnique
<1> QED BY <1>6 DEF y, r

\* Among S numbers in a row there is one of each remainder.
LEMMA Reach ==
  ASSUME NEW S \in Nat \ {0}, NEW a \in Nat, NEW r \in 0..(S - 1)
  PROVE  \E k \in 0..(S - 1) : (k + a) % S = r
<1> DEFINE q == a \div S
           b == a % S
<1>1. q \in Nat /\ b \in 0..(S - 1) /\ a = q * S + b
  BY ModFacts
<1> HIDE DEF q, b
<1>2. CASE b <= r
  <2>1. (r - b) \in 0..(S - 1) /\ (r - b) + a = q * S + r
    BY <1>1, <1>2
  <2> QED BY <2>1, <1>1, ModUnique
<1>3. CASE b > r
  <2>1. (S + r - b) \in 0..(S - 1) /\ (S + r - b) + a = (q + 1) * S + r
    BY <1>1, <1>3
  <2>2. q + 1 \in Nat
    BY <1>1
  <2> QED BY <2>1, <2>2, ModUnique
<1> QED BY <1>1, <1>2, <1>3

\* A divisor is not larger.
LEMMA DivisorSmaller ==
  ASSUME NEW S \in Nat \ {0}, NEW M \in Nat \ {0}, M % S = 0
  PROVE  S <= M
<1>1. PICK q \in Nat \ {0} : M = q * S
  BY Quotient
<1>2. (q - 1) * S \in Nat
  BY <1>1
<1>3. q * S = (q - 1) * S + S
  BY <1>1
<1> QED BY <1>1, <1>2, <1>3

\* Twice a divisor of a power of 2 divides it, if it is not larger.
LEMMA DivisorDoubled ==
  ASSUME NEW M, Power2(M), NEW S \in Nat \ {0}, M % S = 0, 2 * S <= M
  PROVE  M % (2 * S) = 0
<1>0. M \in Nat \ {0}
  BY DEF Power2
<1>1. PICK q \in Nat \ {0} : M = q * S
  BY <1>0, Quotient
<1>2. q >= 2 /\ q <= M
  <2>1. q # 1
    BY <1>1
  <2>2. q * (S - 1) \in Nat
    BY <1>1
  <2>3. q * S = q * (S - 1) + q
    BY <1>1
  <2> QED BY <1>1, <2>1, <2>2, <2>3
<1>3. M % q = 0
  <2>1. M = S * q + 0
    BY <1>1
  <2> QED BY <2>1, <1>1, ModUnique
<1>4. q % 2 = 0
  BY <1>0, <1>2, <1>3 DEF Power2
<1>5. PICK r \in Nat : q = 2 * r
  BY <1>1, <1>4
<1>6. M = r * (2 * S) + 0
  BY <1>1, <1>5
<1>7. 2 * S \in Nat \ {0} /\ 0 \in 0..(2 * S - 1)
  OBVIOUS
<1> DEFINE D == 2 * S
<1>8. M = r * D + 0 /\ D \in Nat \ {0} /\ 0 \in 0..(D - 1)
  BY <1>6, <1>7
<1> HIDE DEF D
<1>9. M % D = 0
  BY <1>5, <1>8, ModUnique
<1> QED BY <1>9 DEF D

\* The remainder by twice the number.
LEMMA ModTwice ==
  ASSUME NEW S \in Nat \ {0}, NEW x \in Nat
  PROVE  x % (2 * S) = x % S \/ x % (2 * S) = (x % S) + S
<1>1. (2 * S) % S = 0
  <2>1. 2 * S = 2 * S + 0
    OBVIOUS
  <2> QED BY <2>1, ModUnique
<1>2. 2 * S \in Nat \ {0}
  OBVIOUS
<1>3. (x % (2 * S)) % S = x % S
  BY <1>1, <1>2, ModOfMod
<1> DEFINE y == x % (2 * S)
<1>4. y \in 0..(2 * S - 1)
  BY <1>2, ModFacts
<1>5. CASE y < S
  <2>1. y = 0 * S + y
    BY <1>4
  <2>2. y % S = y
    BY <2>1, <1>4, <1>5, ModUnique
  <2> QED BY <2>2, <1>3
<1>6. CASE y >= S
  <2>1. y = 1 * S + (y - S) /\ y - S \in 0..(S - 1)
    BY <1>4, <1>6
  <2>2. y % S = y - S
    BY <2>1, ModUnique
  <2> QED BY <2>2, <1>3, <1>4
<1> QED BY <1>4, <1>5, <1>6

\* A set of numbers has a least element.
LEMMA MinIn ==
  ASSUME NEW T \in SUBSET Nat, T # {}
  PROVE  Min(T) \in T
<1>1. IsWellFoundedOn(OpToRel(<, Nat), Nat)
  BY NatLessThanWellFounded
<1>2. PICK x \in T : \A y \in T : ~ (<<y, x>> \in OpToRel(<, Nat))
  BY <1>1, WFMin
<1>3. \A y \in T : x <= y
  <2> SUFFICES ASSUME NEW y \in T, y < x PROVE FALSE
    OBVIOUS
  <2>1. <<y, x>> \in OpToRel(<, Nat)
    BY DEF OpToRel
  <2> QED BY <2>1, <1>2
<1> QED BY <1>2, <1>3 DEF Min

LEMMA SizeOf ==
  ASSUME NEW S \in Nat, NEW f, DOMAIN f = 0..(S - 1)
  PROVE  Cardinality(DOMAIN f) = S
<1>1. 0 \in Int /\ S - 1 \in Int
  OBVIOUS
<1>2. Cardinality(0..(S - 1)) = IF 0 > S - 1 THEN 0 ELSE S - 1 - 0 + 1
  BY <1>1, FS_Interval
<1> QED BY <1>2

-----------------------------------------------------------------------------
(* The search for a free slot, and the doubling of the table.              *)

IsTable(T, S) ==
  /\ S \in Nat \ {0} /\ (Mask + 1) % S = 0
  /\ T \in [0..(S - 1) -> Contexts \cup {NULL}]

LEMMA MaskFacts == Mask \in Nat /\ Mask + 1 \in Nat \ {0} /\ Power2(Mask + 1)
BY HandleAssumption DEF Power2

LEMMA SlotTable ==
  ASSUME Types
  PROVE  IsTable(slot, Size) /\ DOMAIN slot = 0..(Size - 1)
BY DEF Types, IsTable

LEMMA HashRange ==
  ASSUME NEW T, NEW S, IsTable(T, S), NEW x \in Nat
  PROVE  Hash(x, S) \in 0..(S - 1)
BY ModFacts DEF IsTable, Hash

\* What is tried in round k, and where.
LEMMA TryHash ==
  ASSUME Types, NEW T, NEW S, IsTable(T, S), NEW k \in Nat
  PROVE  Try(k) \in Handles /\ Hash(Try(k), S) = (k + index) % S
<1>1. index \in Nat /\ k + index \in Nat
  BY MaskFacts DEF Types
<1>2. Try(k) \in 0..((Mask + 1) - 1)
  BY <1>1, MaskFacts, ModFacts DEF Try
<1>3. ((k + index) % (Mask + 1)) % S = (k + index) % S
  BY <1>1, MaskFacts, ModOfMod DEF IsTable
<1> QED BY <1>2, <1>3, MaskFacts DEF Handles, Hash, Try

\* A search over a table with a free slot finds one.
LEMMA FreeTry ==
  ASSUME Types, NEW T, NEW S, IsTable(T, S), NEW r \in 0..(S - 1), T[r] = NULL
  PROVE  FreeTries(T, S) # {}
<1>1. index \in Nat /\ S \in Nat \ {0}
  BY MaskFacts DEF Types, IsTable
<1>2. PICK k \in 0..(S - 1) : (k + index) % S = r
  BY <1>1, Reach
<1>3. Hash(Try(k), S) = r
  <2>1. k \in Nat
    BY <1>1
  <2> QED BY <2>1, <1>2, TryHash
<1> QED BY <1>3 DEF FreeTries

LEMMA TryFacts ==
  ASSUME Types, NEW T, NEW S, IsTable(T, S), FreeTries(T, S) # {},
         NEW h, h = Try(Min(FreeTries(T, S)))
  PROVE  h \in Handles /\ Hash(h, S) \in 0..(S - 1) /\ T[Hash(h, S)] = NULL
<1>1. FreeTries(T, S) \subseteq Nat
  BY DEF FreeTries, IsTable
<1>2. PICK k : k = Min(FreeTries(T, S))
  OBVIOUS
<1>3. k \in FreeTries(T, S) /\ k \in Nat /\ h = Try(k)
  BY <1>1, <1>2, MinIn
<1>4. T[Hash(h, S)] = NULL
  BY <1>3 DEF FreeTries
<1>5. h \in Handles /\ h \in Nat
  BY <1>3, TryHash, MaskFacts DEF Handles
<1> QED BY <1>4, <1>5, HashRange

\* A table that is doubled is full.
LEMMA FullTable ==
  ASSUME Types, FreeTries(slot, Size) = {}, NEW k \in 0..(Size - 1)
  PROVE  slot[k] \in Contexts
<1>1. slot[k] # NULL
  BY FreeTry, SlotTable
<1> QED BY <1>1 DEF Types

LEMMA NewHashRange ==
  ASSUME Types, FreeTries(slot, Size) = {}, NEW k \in 0..(Size - 1)
  PROVE  NewHash(k) \in 0..(2 * Size - 1)
<1>1. handle[slot[k]] \in Nat
  BY FullTable, MaskFacts DEF Types, Handles
<1>2. 2 * Size \in Nat \ {0}
  BY DEF Types
<1> QED BY <1>1, <1>2, ModFacts DEF NewHash, Hash

\* The new table has every context where it belongs, and free slots.
Doubles ==
  /\ IsTable(Doubled, 2 * Size)
  /\ FreeTries(Doubled, 2 * Size) # {}
  /\ \A k \in 0..(Size - 1) : Doubled[NewHash(k)] = slot[k]
  /\ \A m \in 0..(2 * Size - 1) : Doubled[m] # NULL =>
       \E k \in 0..(Size - 1) : NewHash(k) = m

LEMMA DoubledFacts ==
  ASSUME Types, FreeTries(slot, Size) = {}, 2 * Size - 1 <= Mask, ~Collision
  PROVE  Doubles
<1> DEFINE D == 0..(Size - 1)
           E == 0..(2 * Size - 1)
<1>1. Size \in Nat \ {0} /\ DOMAIN slot = D
  BY SlotTable DEF IsTable
<1>2. \A k \in D : NewHash(k) \in E
  BY NewHashRange
<1>3. \A k, l \in D : NewHash(k) = NewHash(l) => k = l
  BY <1>1 DEF Collision
<1>4. \A k \in D : slot[k] \in Contexts
  BY FullTable
<1>5. Doubled = [m \in E |-> IF \E l \in D : NewHash(l) = m
                             THEN slot[CHOOSE l \in D : NewHash(l) = m] ELSE NULL]
  BY <1>1 DEF Doubled
<1> HIDE DEF D, E
<1>6. \A k \in D : Doubled[NewHash(k)] = slot[k]
  <2> SUFFICES ASSUME NEW k \in D PROVE Doubled[NewHash(k)] = slot[k]
    OBVIOUS
  <2>1. NewHash(k) \in E /\ \E l \in D : NewHash(l) = NewHash(k)
    BY <1>2
  <2>2. PICK l : l = CHOOSE c \in D : NewHash(c) = NewHash(k)
    OBVIOUS
  <2>3. l \in D /\ NewHash(l) = NewHash(k)
    BY <2>1, <2>2
  <2>4. l = k
    BY <2>3, <1>3
  <2> QED BY <2>1, <2>2, <2>4, <1>5
<1>7. \A m \in E : Doubled[m] # NULL => \E k \in D : NewHash(k) = m
  BY <1>5
<1>8. Doubled \in [E -> Contexts \cup {NULL}]
  <2>1. \A m \in E : Doubled[m] \in Contexts \cup {NULL}
    <3> SUFFICES ASSUME NEW m \in E, Doubled[m] # NULL PROVE Doubled[m] \in Contexts
      OBVIOUS
    <3>1. PICK k \in D : NewHash(k) = m
      BY <1>7
    <3> QED BY <3>1, <1>4, <1>6
  <2>2. DOMAIN Doubled = E /\ Doubled = [m \in E |-> Doubled[m]]
    BY <1>5
  <2> QED BY <2>1, <2>2
<1>9. \E m \in E : Doubled[m] = NULL
  <2> SUFFICES ASSUME \A m \in E : \E k \in D : NewHash(k) = m PROVE FALSE
    BY <1>7
  <2> DEFINE f == [m \in E |-> CHOOSE k \in D : NewHash(k) = m]
  <2>1. \A m \in E : f[m] \in D /\ NewHash(f[m]) = m
    OBVIOUS
  <2>2. f \in [E -> D]
    BY <2>1
  <2>3. IsFiniteSet(D) /\ Cardinality(D) = Size
    <3>1. 0 \in Int /\ Size - 1 \in Int
      BY <1>1
    <3>2. IsFiniteSet(D)
      BY <3>1, FS_Interval DEF D
    <3>3. Cardinality(D) = Size
      BY <1>1 DEF Size
    <3> QED BY <3>2, <3>3
  <2>4. IsFiniteSet(E) /\ Cardinality(E) = 2 * Size
    <3>1. 0 \in Int /\ 2 * Size - 1 \in Int
      BY <1>1
    <3>2. /\ IsFiniteSet(E)
          /\ Cardinality(E) = IF 0 > 2 * Size - 1 THEN 0 ELSE 2 * Size - 1 - 0 + 1
      BY <3>1, FS_Interval DEF E
    <3> QED BY <3>2, <1>1
  <2>5. Cardinality(D) < Cardinality(E)
    BY <1>1, <2>3, <2>4
  <2> HIDE DEF f
  <2>6. \E x, y \in E : x # y /\ f[x] = f[y]
    BY <2>2, <2>3, <2>4, <2>5, FS_PigeonHole
  <2> QED BY <2>1, <2>6
<1>10. IsTable(Doubled, 2 * Size)
  <2>1. (Mask + 1) % (2 * Size) = 0
    <3>1. (Mask + 1) % Size = 0
      BY DEF Types
    <3>2. 2 * Size <= Mask + 1
      BY <1>1, MaskFacts
    <3> QED BY <1>1, <3>1, <3>2, MaskFacts, DivisorDoubled
  <2> QED BY <1>1, <1>8, <2>1 DEF IsTable, E
<1>11. FreeTries(Doubled, 2 * Size) # {}
  BY <1>9, <1>10, FreeTry DEF E
<1> QED BY <1>6, <1>7, <1>10, <1>11 DEF Doubles, D, E

\* What skynet_handle_register does with the table it ends with, T of S slots.
Enters(t, T, S, h) ==
  /\ IsTable(T, S) /\ h \in Handles
  /\ Hash(h, S) \in 0..(S - 1) /\ T[Hash(h, S)] = NULL
  /\ slot' = [T EXCEPT ![Hash(h, S)] = ctx[t]]
  /\ index' = h + 1
  /\ got' = [got EXCEPT ![t] = h]
  /\ pc' = [pc EXCEPT ![t] = "publish"]
  /\ ever' = IF h < index THEN {h} ELSE ever \cup {h}
  /\ UNCHANGED <<aborted, ctx>>

LEMMA EnterIs ==
  ASSUME Types, NEW t, NEW T, NEW S, IsTable(T, S), FreeTries(T, S) # {}, Enter(t, T)
  PROVE  \E h : Enters(t, T, S, h)
<1>1. Cardinality(DOMAIN T) = S
  BY SizeOf DEF IsTable
<1>2. PICK h : h = Try(Min(FreeTries(T, S)))
  OBVIOUS
<1>3. h \in Handles /\ Hash(h, S) \in 0..(S - 1) /\ T[Hash(h, S)] = NULL
  BY <1>2, TryFacts
<1>4. /\ slot' = [T EXCEPT ![Hash(h, S)] = ctx[t]]
      /\ index' = h + 1
      /\ got' = [got EXCEPT ![t] = h]
      /\ pc' = [pc EXCEPT ![t] = "publish"]
      /\ ever' = IF h < index THEN {h} ELSE ever \cup {h}
      /\ UNCHANGED <<aborted, ctx>>
  BY <1>1, <1>2 DEF Enter
<1> QED BY <1>3, <1>4 DEF Enters

\* The ways a registration may go.
LEMMA RegisterCases ==
  ASSUME Types, NEW t, Register(t)
  PROVE  \/ Abort
         \/ \E h : Enters(t, slot, Size, h)
         \/ /\ FreeTries(slot, Size) = {} /\ Doubles
            /\ \E h : Enters(t, Doubled, 2 * Size, h)
<1>1. CASE FreeTries(slot, Size) # {} /\ Enter(t, slot)
  BY <1>1, SlotTable, EnterIs
<1>2. CASE FreeTries(slot, Size) = {} /\ Abort
  BY <1>2
<1>3. CASE /\ FreeTries(slot, Size) = {}
           /\ ~(2 * Size - 1 > Mask \/ Collision)
           /\ Enter(t, Doubled)
  <2>1. 2 * Size - 1 <= Mask
    BY <1>3, MaskFacts DEF Types
  <2>2. Doubles
    BY <1>3, <2>1, DoubledFacts
  <2>3. \E h : Enters(t, Doubled, 2 * Size, h)
    BY <1>3, <2>2, EnterIs DEF Doubles
  <2> QED BY <1>3, <2>2, <2>3
<1> QED BY <1>1, <1>2, <1>3 DEF Register

-----------------------------------------------------------------------------
(* The types and the launches.                                             *)

LEMMA SameSize ==
  ASSUME DOMAIN slot' = DOMAIN slot
  PROVE  Size' = Size
BY DEF Size

LEMMA EntersTypes ==
  ASSUME Types, NEW t \in Threads, NEW T, NEW S, NEW h, Enters(t, T, S, h),
         ctx[t] \in Contexts, UNCHANGED <<handle, i, n, due>>
  PROVE  Types' /\ Size' = S /\ DOMAIN slot' = 0..(S - 1)
<1>1. slot' \in [0..(S - 1) -> Contexts \cup {NULL}]
  BY DEF Enters, IsTable
<1>2. Size' = S /\ DOMAIN slot' = 0..(S - 1)
  BY <1>1, SizeOf DEF Size, Enters, IsTable
<1>3. index' \in 1..(Mask + 1)
  BY MaskFacts DEF Enters, Handles
<1>4. S \in Nat \ {0} /\ (Mask + 1) % S = 0
  BY DEF Enters, IsTable
<1>5. /\ got' \in [Threads -> Handles]
      /\ pc' \in [Threads -> PC]
      /\ ever' \subseteq Handles
      /\ aborted' \in BOOLEAN /\ ctx' \in [Threads -> Contexts \cup {NULL}]
  BY DEF Enters, Types, PC
<1> QED BY <1>1, <1>2, <1>3, <1>4, <1>5 DEF Types

\* A service leaves the table.
LEMMA RetireTypes ==
  ASSUME Types, NEW h \in Handles, RetireFound(h)
  PROVE  /\ slot' \in [0..(Size - 1) -> Contexts \cup {NULL}] /\ Size' = Size
         /\ due' \in [Threads -> SUBSET Handles]
         /\ DOMAIN slot' = DOMAIN slot
<1>1. DOMAIN slot' = DOMAIN slot /\ slot' \in [0..(Size - 1) -> Contexts \cup {NULL}]
  BY DEF RetireFound, Types
<1>2. due' \in [Threads -> SUBSET Handles]
  BY DEF RetireFound, Types
<1> QED BY <1>1, <1>2, SameSize

LEMMA TypesStep ==
  ASSUME Types, Launches, [Next]_vars
  PROVE  Types'
<1>1. CASE UNCHANGED vars
  BY <1>1, SameSize DEF vars, storage, local, Types
<1>2. ASSUME NEW t \in Threads, NEW c \in Contexts, NewContext(t, c)
      PROVE  Types'
  <2>1. Size' = Size /\ 0 \in Handles
    BY <1>2, SameSize, MaskFacts DEF NewContext, storage, Handles
  <2>2. UNCHANGED <<slot, index, aborted, got, i, n, ever, due>>
    BY <1>2 DEF NewContext, storage
  <2>3. handle' \in [Contexts -> Handles] /\ ctx' \in [Threads -> Contexts \cup {NULL}]
    BY <1>2, <2>1 DEF NewContext, Types
  <2>4. pc' \in [Threads -> PC]
    BY <1>2 DEF NewContext, Types, PC
  <2> QED BY <2>1, <2>2, <2>3, <2>4 DEF Types
<1>3. ASSUME NEW t \in Threads, Register(t)
      PROVE  Types'
  <2>1. ctx[t] \in Contexts
    BY <1>3 DEF Register, Launches, Types
  <2>2. UNCHANGED <<handle, i, n, due>>
    BY <1>3 DEF Register
  <2>3. CASE Abort
    BY <2>2, <2>3, SameSize DEF Abort, Types
  <2> QED BY <1>3, <2>1, <2>2, <2>3, RegisterCases, EntersTypes
<1>4. ASSUME NEW t \in Threads, Publish(t)
      PROVE  Types'
  <2>1. Size' = Size /\ 0 \in Handles
    BY <1>4, SameSize, MaskFacts DEF Publish, storage, Handles
  <2>2. UNCHANGED <<slot, index, aborted, i, n, ever, due>>
    BY <1>4 DEF Publish, storage
  <2>3. handle' \in [Contexts -> Handles] /\ ctx' \in [Threads -> Contexts \cup {NULL}]
    BY <1>4 DEF Publish, Types
  <2>4. pc' \in [Threads -> PC] /\ got' \in [Threads -> Handles]
    BY <1>4, <2>1 DEF Publish, Types, PC
  <2> QED BY <2>1, <2>2, <2>3, <2>4 DEF Types
<1>5. ASSUME NEW t \in Threads, NEW h \in Handles, Retire(t, h)
      PROVE  Types'
  <2>1. RetireFound(h) /\ UNCHANGED <<index, aborted, handle, pc, ctx, got, i, n, ever>>
    BY <1>5 DEF Retire, local
  <2> QED BY <2>1, RetireTypes DEF Types
<1>6. ASSUME NEW t \in Threads, SweepStart(t)
      PROVE  Types'
  <2>1. UNCHANGED <<slot, index, aborted, handle, ctx, got, i, n, ever>> /\ Size' = Size
    BY <1>6, SameSize DEF SweepStart, storage
  <2>2. pc' \in [Threads -> PC]
    BY <1>6 DEF SweepStart, Types, PC
  <2>3. {handle[c] : c \in Published} \ {0} \subseteq Handles
    BY DEF Types, Published, Registered, Range
  <2>4. due' \in [Threads -> SUBSET Handles]
    BY <1>6, <2>3 DEF SweepStart, Types
  <2> QED BY <2>1, <2>2, <2>4 DEF Types
<1>7. ASSUME NEW t \in Threads, SweepRead(t)
      PROVE  Types'
  <2>1. UNCHANGED <<slot, index, aborted, handle, ctx, n, ever, due>> /\ Size' = Size
    BY <1>7, SameSize DEF SweepRead, storage
  <2>2. i[t] \in 0..(Size - 1)
    BY <1>7 DEF SweepRead, Types
  <2>3. pc' \in [Threads -> PC]
    BY <1>7 DEF SweepRead, Types, PC
  <2>4. i' \in [Threads -> Nat]
    BY <1>7, <2>2 DEF SweepRead, Types
  <2>5. got' \in [Threads -> Handles]
    <3>1. slot[i[t]] # NULL => handle[slot[i[t]]] \in Handles
      BY <2>2 DEF Types
    <3> QED BY <1>7, <3>1 DEF SweepRead, Types
  <2> QED BY <2>1, <2>3, <2>4, <2>5 DEF Types
<1>8. ASSUME NEW t \in Threads, SweepRetire(t)
      PROVE  Types'
  <2>1. UNCHANGED <<index, aborted, handle, ctx, ever>> /\ 0 \in Handles
    BY <1>8, MaskFacts DEF SweepRetire, Handles
  <2>2. pc' \in [Threads -> PC] /\ got' \in [Threads -> Handles] /\ i' \in [Threads -> Nat]
    BY <1>8, <2>1 DEF SweepRetire, Types, PC
  <2>3. CASE RetireFound(got[t]) /\ n' = [n EXCEPT ![t] = 1]
    <3>1. got[t] \in Handles
      BY DEF Types
    <3>2. n' \in [Threads -> {0, 1}]
      BY <2>3 DEF Types
    <3> QED BY <2>1, <2>2, <2>3, <3>1, <3>2, RetireTypes DEF Types
  <2>4. CASE UNCHANGED <<slot, names, n, due>>
    BY <2>1, <2>2, <2>4, SameSize DEF Types
  <2> QED BY <1>8, <2>3, <2>4 DEF SweepRetire
<1>9. ASSUME NEW t \in Threads, SweepEnd(t) \/ SweepReturn(t)
      PROVE  Types'
  <2>1. UNCHANGED <<slot, index, aborted, handle, ctx, got, ever>> /\ Size' = Size
    BY <1>9, SameSize DEF SweepEnd, SweepReturn, storage
  <2>2. pc' \in [Threads -> PC]
    BY <1>9 DEF SweepEnd, SweepReturn, Types, PC
  <2>4. i' \in [Threads -> Nat] /\ n' \in [Threads -> {0, 1}]
    <3>1. CASE SweepEnd(t)
      BY <3>1 DEF SweepEnd, Types
    <3>2. CASE SweepReturn(t)
      BY <3>2 DEF SweepReturn, Types
    <3> QED BY <1>9, <3>1, <3>2
  <2>3. due' \in [Threads -> SUBSET Handles]
    BY <1>9 DEF SweepEnd, SweepReturn, Types
  <2> QED BY <2>1, <2>2, <2>3, <2>4 DEF Types
<1>10. ASSUME NEW t \in Threads, NEW h \in Handles, NEW c \in Names, NameHandle(t, h, c)
       PROVE  Types'
  BY <1>10, SameSize DEF NameHandle, local, Types
<1> QED BY <1>1, <1>2, <1>3, <1>4, <1>5, <1>6, <1>7, <1>8, <1>9, <1>10 DEF Next

\* A registration adds the new context to the table and loses none.
LEMMA EntersRegistered ==
  ASSUME Types, NEW t \in Threads, ctx[t] \in Contexts, UNCHANGED <<handle, i, n, due>>,
         NEW h,
         \/ Enters(t, slot, Size, h)
         \/ Doubles /\ Enters(t, Doubled, 2 * Size, h)
  PROVE  Registered' = Registered \cup {ctx[t]}
<1>0. NULL \notin Contexts /\ DOMAIN slot = 0..(Size - 1)
  BY HandleAssumption DEF Types
<1>1. CASE Enters(t, slot, Size, h)
  <2>1. PICK k : k = Hash(h, Size)
    OBVIOUS
  <2>2. k \in DOMAIN slot /\ slot[k] = NULL /\ slot' = [slot EXCEPT ![k] = ctx[t]]
    BY <1>0, <1>1, <2>1 DEF Enters
  <2>3. slot'[k] = ctx[t] /\ DOMAIN slot' = DOMAIN slot
    BY <2>2
  <2>4. \A l \in DOMAIN slot : l # k => slot'[l] = slot[l]
    BY <2>2
  <2>5. Registered' = {slot'[l] : l \in DOMAIN slot'} \ {NULL}
    BY DEF Registered, Range
  <2>6. Registered = {slot[l] : l \in DOMAIN slot} \ {NULL}
    BY DEF Registered, Range
  <2>7. Registered' \subseteq Registered \cup {ctx[t]}
    BY <2>2, <2>3, <2>4, <2>5, <2>6
  <2>8. Registered \cup {ctx[t]} \subseteq Registered'
    BY <1>0, <2>2, <2>3, <2>4, <2>5, <2>6
  <2> QED BY <2>7, <2>8
<1>2. CASE Doubles /\ Enters(t, Doubled, 2 * Size, h)
  <2>1. PICK k : k = Hash(h, 2 * Size)
    OBVIOUS
  <2>2. /\ k \in 0..(2 * Size - 1) /\ Doubled[k] = NULL
        /\ slot' = [Doubled EXCEPT ![k] = ctx[t]]
    BY <1>2, <2>1 DEF Enters
  <2>3. DOMAIN Doubled = 0..(2 * Size - 1)
    BY <1>2 DEF Doubles, IsTable
  <2>4. slot'[k] = ctx[t] /\ DOMAIN slot' = 0..(2 * Size - 1)
    BY <2>2, <2>3
  <2>5. \A l \in 0..(2 * Size - 1) : l # k => slot'[l] = Doubled[l]
    BY <2>2, <2>3
  <2>6. Registered' = {slot'[l] : l \in DOMAIN slot'} \ {NULL}
    BY DEF Registered, Range
  <2>7. Registered = {slot[l] : l \in DOMAIN slot} \ {NULL}
    BY DEF Registered, Range
  <2>8. \A l \in 0..(2 * Size - 1) : Doubled[l] # NULL => Doubled[l] \in Registered
    <3> SUFFICES ASSUME NEW l \in 0..(2 * Size - 1), Doubled[l] # NULL
                 PROVE  Doubled[l] \in Registered
      OBVIOUS
    <3>1. PICK m \in 0..(Size - 1) : NewHash(m) = l
      BY <1>2 DEF Doubles
    <3>2. Doubled[l] = slot[m]
      BY <1>2, <3>1 DEF Doubles
    <3> QED BY <1>0, <2>7, <3>2
  <2>9. Registered' \subseteq Registered \cup {ctx[t]}
    BY <2>4, <2>5, <2>6, <2>8
  <2>10. \A c \in Registered : c \in Registered'
    <3> SUFFICES ASSUME NEW c \in Registered PROVE c \in Registered'
      OBVIOUS
    <3>1. PICK m \in 0..(Size - 1) : slot[m] = c /\ c # NULL
      BY <1>0, <2>7
    <3>2. Doubled[NewHash(m)] = c
      BY <1>2, <3>1 DEF Doubles
    <3>3. NewHash(m) \in 0..(2 * Size - 1)
      <4>1. handle[slot[m]] \in Nat
        BY <3>1, MaskFacts DEF Types, Handles
      <4>2. 2 * Size \in Nat \ {0}
        BY DEF Types
      <4> QED BY <4>1, <4>2, ModFacts DEF NewHash, Hash
    <3>4. slot'[NewHash(m)] = c
      BY <2>2, <2>5, <3>1, <3>2, <3>3
    <3> QED BY <2>4, <2>6, <3>1, <3>3, <3>4
  <2>11. ctx[t] \in Registered'
    BY <1>0, <2>2, <2>4, <2>6
  <2> QED BY <2>9, <2>10, <2>11
<1> QED BY <1>1, <1>2

LEMMA RetireRegistered ==
  ASSUME Types, NEW h, RetireFound(h)
  PROVE  Registered' \subseteq Registered
<1>1. DOMAIN slot' = DOMAIN slot
  BY DEF RetireFound
<1>2. \A k \in DOMAIN slot : slot'[k] = NULL \/ slot'[k] = slot[k]
  BY DEF RetireFound
<1> QED BY <1>1, <1>2 DEF Registered, Range

LEMMA LaunchesStep ==
  ASSUME Types, Launches, [Next]_vars
  PROVE  Launches'
<1>0. NULL \notin Contexts
  BY HandleAssumption
<1>1. CASE UNCHANGED vars
  BY <1>1 DEF vars, storage, local, Launches, Registered, Range
<1>2. ASSUME NEW t \in Threads, NEW c \in Contexts, NewContext(t, c)
      PROVE  Launches'
  <2>1. Registered' = Registered /\ UNCHANGED got
    BY <1>2 DEF NewContext, storage, Registered, Range
  <2>2. /\ t \in Launchers /\ c \notin Registered /\ c # NULL
        /\ \A u \in Threads : ctx[u] # c
    BY <1>0, <1>2 DEF NewContext, Launching
  <2>3. /\ ctx' = [ctx EXCEPT ![t] = c] /\ pc' = [pc EXCEPT ![t] = "register"]
        /\ handle' = [handle EXCEPT ![c] = 0]
    BY <1>2 DEF NewContext
  <2>4. /\ ctx'[t] = c /\ pc'[t] = "register" /\ handle'[c] = 0
        /\ \A u \in Threads : u # t => ctx'[u] = ctx[u] /\ pc'[u] = pc[u]
        /\ \A d \in Contexts : d # c => handle'[d] = handle[d]
    BY <2>3 DEF Types
  <2>5. \A u \in Threads : ctx[u] # NULL => ctx[u] \in Contexts
    BY DEF Types
  <2> QED BY <2>1, <2>2, <2>4, <2>5 DEF Launches
<1>3. ASSUME NEW t \in Threads, Register(t)
      PROVE  Launches'
  <2>1. ctx[t] \in Contexts /\ t \in Launchers /\ pc[t] = "register"
    BY <1>3 DEF Register, Launches, Types
  <2>2. UNCHANGED <<handle, i, n, due>>
    BY <1>3 DEF Register
  <2>3. CASE Abort
    BY <2>2, <2>3 DEF Abort, Launches, Registered, Range
  <2>4. ASSUME NEW h, NEW T, NEW S, Enters(t, T, S, h), Registered' = Registered \cup {ctx[t]}
        PROVE  Launches'
    <3>1. UNCHANGED ctx /\ got' = [got EXCEPT ![t] = h]
          /\ pc' = [pc EXCEPT ![t] = "publish"]
      BY <2>4 DEF Enters
    <3>2. /\ pc'[t] = "publish"
          /\ \A u \in Threads : u # t => got'[u] = got[u] /\ pc'[u] = pc[u]
      BY <3>1 DEF Types
    <3>3. \A u \in Threads : u # t => ctx[u] # ctx[t]
      BY <1>0, <2>1 DEF Launches
    <3> QED BY <2>1, <2>2, <2>4, <3>1, <3>2, <3>3 DEF Launches
  <2> QED BY <1>3, <2>1, <2>2, <2>3, <2>4, RegisterCases, EntersRegistered
<1>4. ASSUME NEW t \in Threads, Publish(t)
      PROVE  Launches'
  <2>1. Registered' = Registered
    BY <1>4 DEF Publish, storage, Registered, Range
  <2>2. /\ ctx' = [ctx EXCEPT ![t] = NULL] /\ pc' = [pc EXCEPT ![t] = "idle"]
        /\ got' = [got EXCEPT ![t] = 0]
        /\ handle' = [handle EXCEPT ![ctx[t]] = got[t]]
    BY <1>4 DEF Publish
  <2>3. /\ ctx'[t] = NULL /\ pc'[t] = "idle"
        /\ \A u \in Threads : u # t => ctx'[u] = ctx[u] /\ pc'[u] = pc[u] /\ got'[u] = got[u]
        /\ \A d \in Contexts : d # ctx[t] => handle'[d] = handle[d]
    BY <2>2 DEF Types
  <2>4. \A u \in Threads : ctx[u] # NULL => ctx[u] \in Contexts
    BY DEF Types
  <2> QED BY <2>1, <2>3, <2>4 DEF Launches
<1>5. ASSUME NEW t \in Threads, NEW h \in Handles, Retire(t, h)
      PROVE  Launches'
  <2>1. RetireFound(h) /\ UNCHANGED <<handle, pc, ctx, got>>
    BY <1>5 DEF Retire, local
  <2>2. Registered' \subseteq Registered
    BY <2>1, RetireRegistered
  <2> QED BY <2>1, <2>2 DEF Launches
<1>6. ASSUME NEW t \in Threads, SweepStart(t) \/ SweepEnd(t) \/ SweepReturn(t)
      PROVE  Launches'
  <2>1. UNCHANGED <<handle, ctx, got>> /\ Registered' = Registered
    BY <1>6 DEF SweepStart, SweepEnd, SweepReturn, storage, Registered, Range
  <2>2. /\ pc[t] \notin {"register", "publish"}
        /\ pc'[t] \notin {"register", "publish", "sweepretire"}
        /\ \A u \in Threads : u # t => pc'[u] = pc[u]
    BY <1>6 DEF SweepStart, SweepEnd, SweepReturn, Types
  <2> QED BY <2>1, <2>2 DEF Launches
<1>7. ASSUME NEW t \in Threads, SweepRead(t)
      PROVE  Launches'
  <2>1. UNCHANGED <<handle, ctx>> /\ Registered' = Registered
    BY <1>7 DEF SweepRead, storage, Registered, Range
  <2>2. /\ pc[t] \notin {"register", "publish"}
        /\ pc'[t] \notin {"register", "publish"}
        /\ pc'[t] = "sweepretire" => got'[t] # 0
        /\ \A u \in Threads : u # t => pc'[u] = pc[u] /\ got'[u] = got[u]
    BY <1>7 DEF SweepRead, Types
  <2> QED BY <2>1, <2>2 DEF Launches
<1>8. ASSUME NEW t \in Threads, SweepRetire(t)
      PROVE  Launches'
  <2>1. UNCHANGED <<handle, ctx>>
    BY <1>8 DEF SweepRetire
  <2>2. /\ pc[t] \notin {"register", "publish"} /\ pc'[t] = "sweep"
        /\ \A u \in Threads : u # t => pc'[u] = pc[u] /\ got'[u] = got[u]
    BY <1>8 DEF SweepRetire, Types
  <2>3. Registered' \subseteq Registered
    BY <1>8, RetireRegistered DEF SweepRetire, Registered, Range
  <2> QED BY <2>1, <2>2, <2>3 DEF Launches
<1>9. ASSUME NEW t \in Threads, NEW h \in Handles, NEW c \in Names, NameHandle(t, h, c)
      PROVE  Launches'
  BY <1>9 DEF NameHandle, local, Launches, Registered, Range
<1> QED BY <1>1, <1>2, <1>3, <1>4, <1>5, <1>6, <1>7, <1>8, <1>9 DEF Next

-----------------------------------------------------------------------------
(* The counter.                                                            *)

LEMMA InitHandle ==
  ASSUME Init
  PROVE  HandleInv
<1>1. slot \in [0..(SlotSize - 1) -> Contexts \cup {NULL}] /\ DOMAIN slot = 0..(SlotSize - 1)
  BY DEF Init
<1>2. Size = SlotSize
  BY <1>1, HandleAssumption, SizeOf DEF Size
<1>3. Size \in Nat \ {0} /\ (Mask + 1) % Size = 0
  BY <1>2, HandleAssumption
<1>4. 0 \in Handles /\ index \in 1..(Mask + 1)
  BY MaskFacts DEF Init, Handles
<1>5. Types
  BY <1>1, <1>2, <1>3, <1>4 DEF Init, Types, PC
<1>6. Launches
  BY DEF Init, Launches
<1>7. EverBelow
  BY DEF Init, EverBelow
<1> QED BY <1>5, <1>6, <1>7 DEF HandleInv

\* Who is given a handle gets the one below the counter's new value.
LEMMA GivenHandle ==
  ASSUME Types, Launches, NEW t \in Threads, Register(t)
  PROVE  \/ Abort
         \/ \E h \in Handles :
              /\ index' = h + 1 /\ got' = [got EXCEPT ![t] = h]
              /\ pc' = [pc EXCEPT ![t] = "publish"]
              /\ ever' = IF h < index THEN {h} ELSE ever \cup {h}
BY RegisterCases DEF Enters

\* Only a registration touches the counter, and makes somebody publish.
LEMMA CounterKept ==
  ASSUME Types, [Next]_vars, \A t \in Threads : ~Register(t)
  PROVE  /\ UNCHANGED <<index, ever>>
         /\ \A u \in Threads : pc[u] = "register" => pc'[u] # "publish"
<1>1. CASE UNCHANGED vars
  BY <1>1 DEF vars, storage, local
<1>2. ASSUME NEW t \in Threads, NEW c \in Contexts, NewContext(t, c)
      PROVE  UNCHANGED <<index, ever>> /\ \A u \in Threads : pc'[u] # "publish" \/ pc'[u] = pc[u]
  BY <1>2 DEF NewContext, storage, Types
<1>3. ASSUME NEW t \in Threads, Publish(t) \/ SweepStart(t) \/ SweepEnd(t) \/ SweepReturn(t)
      PROVE  UNCHANGED <<index, ever>> /\ \A u \in Threads : pc'[u] # "publish" \/ pc'[u] = pc[u]
  BY <1>3 DEF Publish, SweepStart, SweepEnd, SweepReturn, storage, Types
<1>4. ASSUME NEW t \in Threads, SweepRead(t)
      PROVE  UNCHANGED <<index, ever>> /\ \A u \in Threads : pc'[u] # "publish" \/ pc'[u] = pc[u]
  BY <1>4 DEF SweepRead, storage, Types
<1>5. ASSUME NEW t \in Threads, SweepRetire(t)
      PROVE  UNCHANGED <<index, ever>> /\ \A u \in Threads : pc'[u] # "publish" \/ pc'[u] = pc[u]
  BY <1>5 DEF SweepRetire, Types
<1>6. ASSUME NEW t \in Threads, NEW h \in Handles, Retire(t, h)
      PROVE  UNCHANGED <<index, ever, pc>>
  BY <1>6 DEF Retire, local
<1>7. ASSUME NEW t \in Threads, NEW h \in Handles, NEW c \in Names, NameHandle(t, h, c)
      PROVE  UNCHANGED <<index, ever, pc>>
  BY <1>7 DEF NameHandle, local
<1> QED BY <1>1, <1>2, <1>3, <1>4, <1>5, <1>6, <1>7 DEF Next

LEMMA EverStep ==
  ASSUME HandleInv, [Next]_vars
  PROVE  EverBelow'
<1>1. CASE \A t \in Threads : ~Register(t)
  BY <1>1, CounterKept DEF HandleInv, EverBelow
<1>2. ASSUME NEW t \in Threads, Register(t)
      PROVE  EverBelow'
  <2>1. CASE Abort
    BY <1>2, <2>1 DEF Register, Abort, HandleInv, EverBelow
  <2>2. ASSUME NEW h \in Handles, index' = h + 1,
               ever' = IF h < index THEN {h} ELSE ever \cup {h}
        PROVE  EverBelow'
    <3>1. h \in Nat /\ index \in Nat /\ \A g \in ever : g \in Nat /\ g < index
      BY MaskFacts DEF HandleInv, Types, Handles, EverBelow
    <3> QED BY <2>2, <3>1 DEF EverBelow
  <2> QED BY <1>2, <2>1, <2>2, GivenHandle DEF HandleInv
<1> QED BY <1>1, <1>2

LEMMA HandleStep == HandleInv /\ [Next]_vars => HandleInv'
BY TypesStep, LaunchesStep, EverStep DEF HandleInv

\* The contexts in the table are those that skynet_handle_register put there, each
\* without a handle exactly as long as its launcher has not assigned one; the
\* handles given since the counter wrapped are below it.
THEOREM HandleInvariant == Spec => []HandleInv
<1>1. Init => HandleInv
  BY InitHandle
<1> QED BY <1>1, HandleStep, PTL DEF Spec

LEMMA FreshStep ==
  ASSUME HandleInv, [Next]_vars
  PROVE  \A t \in Threads :
           pc[t] = "register" /\ pc'[t] = "publish" =>
             index' <= index \/ got'[t] \notin ever
<1>1. CASE \A t \in Threads : ~Register(t)
  BY <1>1, CounterKept DEF HandleInv
<1>2. ASSUME NEW t \in Threads, Register(t),
             NEW u \in Threads, pc[u] = "register", pc'[u] = "publish"
      PROVE  index' <= index \/ got'[u] \notin ever
  <2>1. CASE Abort
    BY <1>2, <2>1 DEF Abort
  <2>2. ASSUME NEW h \in Handles, index' = h + 1, got' = [got EXCEPT ![t] = h],
               pc' = [pc EXCEPT ![t] = "publish"]
        PROVE  index' <= index \/ got'[u] \notin ever
    <3>1. h \in Nat /\ index \in Nat /\ \A g \in ever : g < index
      BY MaskFacts DEF HandleInv, Types, Handles, EverBelow
    <3>2. u = t /\ got'[t] = h
      BY <1>2, <2>2 DEF HandleInv, Types
    <3>3. h < index \/ h \notin ever
      BY <3>1
    <3> QED BY <2>2, <3>1, <3>2, <3>3
  <2> QED BY <1>2, <2>1, <2>2, GivenHandle DEF HandleInv
<1> QED BY <1>1, <1>2

\* FreshHandles, of skynet_handle_register: until the counter wraps no handle is
\* given twice.
THEOREM HandlesFresh == Spec => FreshHandles
<1>1. HandleInv /\ [Next]_vars =>
        [\A t \in Threads :
           pc[t] = "register" /\ pc'[t] = "publish" =>
             index' <= index \/ got'[t] \notin ever]_vars
  BY FreshStep
<1> QED BY <1>1, HandleInvariant, PTL DEF Spec, FreshHandles

-----------------------------------------------------------------------------
(* Lookups.                                                                *)

\* Who is in the table and who is not, for one thread after the other.
LEMMA WhoIsPublished ==
  ASSUME Types
  PROVE  /\ DOMAIN slot = 0..(Size - 1) /\ NULL \notin Contexts
         /\ \A k \in 0..(Size - 1) : slot[k] # NULL => slot[k] \in Registered
         /\ \A k \in 0..(Size - 1) : slot[k] \in Published <=>
              slot[k] # NULL /\ \A t \in Threads : ctx[t] # slot[k]
         /\ \A c \in Published : c \in Contexts /\ \E k \in 0..(Size - 1) : slot[k] = c
<1>1. DOMAIN slot = 0..(Size - 1) /\ NULL \notin Contexts
  BY HandleAssumption DEF Types
<1>2. Registered = {slot[k] : k \in 0..(Size - 1)} \ {NULL}
  BY <1>1 DEF Registered, Range
<1>3. \A c : c \in Launching <=> c # NULL /\ \E t \in Threads : ctx[t] = c
  BY DEF Launching
<1> QED BY <1>1, <1>2, <1>3 DEF Published, Types

\* The same after a step.
LEMMA WhoIsPublishedNext ==
  ASSUME Types'
  PROVE  \A k \in 0..(Size' - 1) : slot'[k] \in Published' <=>
           slot'[k] # NULL /\ \A t \in Threads : ctx'[t] # slot'[k]
<1>1. DOMAIN slot' = 0..(Size' - 1)
  BY DEF Types
<1>2. Registered' = {slot'[k] : k \in 0..(Size' - 1)} \ {NULL}
  BY <1>1 DEF Registered, Range
<1>3. \A c : c \in Launching' <=> c # NULL /\ \E t \in Threads : ctx'[t] = c
  BY DEF Launching
<1> QED BY <1>1, <1>2, <1>3 DEF Published

\* A step that leaves the table, the handles and the launches alone.
LEMMA LocatedKept ==
  ASSUME Located, UNCHANGED <<slot, handle, ctx>>,
         \A t \in Threads : pc'[t] = "publish" => pc[t] = "publish" /\ got'[t] = got[t]
  PROVE  Located'
<1>1. Size' = Size /\ Published' = Published
  BY DEF Size, Published, Registered, Launching, Range
<1> QED BY <1>1 DEF Located, Hash

LEMMA LocatedEnters ==
  ASSUME HandleInv, Located, NEW t \in Threads, pc[t] = "register", ctx[t] \in Contexts,
         NEW h, Enters(t, slot, Size, h), UNCHANGED <<handle, i, n, due>>
  PROVE  Located'
<1>0. Types /\ Launches /\ Types' /\ Size' = Size
  BY EntersTypes DEF HandleInv
<1>1. PICK k0 : k0 = Hash(h, Size)
  OBVIOUS
<1>2. /\ k0 \in 0..(Size - 1) /\ slot[k0] = NULL
      /\ slot' = [slot EXCEPT ![k0] = ctx[t]]
      /\ got' = [got EXCEPT ![t] = h] /\ pc' = [pc EXCEPT ![t] = "publish"]
      /\ UNCHANGED ctx
  BY <1>1 DEF Enters
<1>3. DOMAIN slot = 0..(Size - 1) /\ DOMAIN slot' = 0..(Size - 1)
  BY <1>0, <1>2, WhoIsPublished
<1>4. slot'[k0] = ctx[t] /\ \A k \in 0..(Size - 1) : k # k0 => slot'[k] = slot[k]
  BY <1>2, <1>3
<1>5. /\ pc'[t] = "publish" /\ got'[t] = h
      /\ \A u \in Threads : u # t => pc'[u] = pc[u] /\ got'[u] = got[u]
  BY <1>0, <1>2 DEF Types
<1>6. \A k \in 0..(Size - 1) : slot[k] # ctx[t]
  <2>1. ctx[t] \notin Registered
    BY <1>0 DEF Launches
  <2>2. ctx[t] # NULL
    BY <1>0, WhoIsPublished
  <2> QED BY <1>0, <2>1, <2>2, WhoIsPublished
<1>7. ASSUME NEW k \in DOMAIN slot', slot'[k] \in Published'
      PROVE  Hash(handle'[slot'[k]], Size') = k
  <2>1. slot'[k] # NULL /\ \A u \in Threads : ctx'[u] # slot'[k]
    BY <1>0, <1>3, <1>7, WhoIsPublishedNext
  <2>2. k # k0 /\ slot'[k] = slot[k]
    BY <1>2, <1>3, <1>4, <2>1
  <2>3. slot[k] \in Published
    BY <1>0, <1>2, <1>3, <2>1, <2>2, WhoIsPublished
  <2> QED BY <1>0, <1>3, <2>2, <2>3 DEF Located, Hash
<1>8. ASSUME NEW u \in Threads, pc'[u] = "publish", NEW k \in DOMAIN slot'
      PROVE  slot'[k] = ctx'[u] <=> k = Hash(got'[u], Size')
  <2>1. CASE u = t
    BY <1>0, <1>1, <1>2, <1>3, <1>4, <1>5, <1>6, <2>1
  <2>2. CASE u # t
    <3>1. pc[u] = "publish" /\ got'[u] = got[u] /\ ctx'[u] = ctx[u]
      BY <1>2, <1>5, <1>8, <2>2
    <3>2. ctx[u] # NULL /\ ctx[u] # ctx[t]
      BY <1>0, <2>2, <3>1 DEF Launches
    <3>3. \A l \in 0..(Size - 1) : slot[l] = ctx[u] <=> l = Hash(got[u], Size)
      BY <1>3, <3>1 DEF Located
    <3> QED BY <1>0, <1>2, <1>3, <1>4, <3>1, <3>2, <3>3 DEF Hash
  <2> QED BY <2>1, <2>2
<1> QED BY <1>7, <1>8 DEF Located

\* When the table is doubled with nobody about to publish, every context in it has
\* its handle, and goes to the slot of it.
LEMMA LocatedDoubles ==
  ASSUME HandleInv, Located, NEW t \in Threads, pc[t] = "register", ctx[t] \in Contexts,
         NEW h, Doubles, Enters(t, Doubled, 2 * Size, h), UNCHANGED <<handle, i, n, due>>,
         \A u \in Threads : pc[u] # "publish"
  PROVE  Located'
<1>0. Types /\ Launches /\ Types' /\ Size' = 2 * Size /\ DOMAIN slot' = 0..(2 * Size - 1)
  BY EntersTypes DEF HandleInv
<1>1. PICK k0 : k0 = Hash(h, 2 * Size)
  OBVIOUS
<1>2. /\ k0 \in 0..(2 * Size - 1)
      /\ slot' = [Doubled EXCEPT ![k0] = ctx[t]]
      /\ got' = [got EXCEPT ![t] = h] /\ pc' = [pc EXCEPT ![t] = "publish"]
      /\ UNCHANGED ctx
  BY <1>1 DEF Enters
<1>3. DOMAIN Doubled = 0..(2 * Size - 1)
  BY DEF Doubles, IsTable
<1>4. slot'[k0] = ctx[t] /\ \A k \in 0..(2 * Size - 1) : k # k0 => slot'[k] = Doubled[k]
  BY <1>2, <1>3
<1>5. /\ pc'[t] = "publish" /\ got'[t] = h
      /\ \A u \in Threads : u # t => pc'[u] # "publish"
  BY <1>0, <1>2 DEF Types
<1>6. \A k \in 0..(2 * Size - 1) : Doubled[k] # NULL =>
        \E l \in 0..(Size - 1) : NewHash(l) = k /\ Doubled[k] = slot[l]
  BY DEF Doubles
<1>7. \A l \in 0..(Size - 1) : slot[l] # ctx[t]
  <2>1. ctx[t] \notin Registered
    BY <1>0 DEF Launches
  <2>2. ctx[t] # NULL
    BY <1>0, WhoIsPublished
  <2> QED BY <1>0, <2>1, <2>2, WhoIsPublished
<1>8. ASSUME NEW k \in DOMAIN slot', slot'[k] \in Published'
      PROVE  Hash(handle'[slot'[k]], Size') = k
  <2>1. slot'[k] # NULL /\ \A u \in Threads : ctx'[u] # slot'[k]
    BY <1>0, <1>8, WhoIsPublishedNext
  <2>2. k # k0 /\ slot'[k] = Doubled[k]
    BY <1>0, <1>2, <1>4, <2>1
  <2>3. PICK l \in 0..(Size - 1) : NewHash(l) = k /\ Doubled[k] = slot[l]
    BY <1>0, <1>6, <2>1, <2>2
  <2> QED BY <1>0, <2>2, <2>3 DEF NewHash
<1>9. ASSUME NEW u \in Threads, pc'[u] = "publish", NEW k \in DOMAIN slot'
      PROVE  slot'[k] = ctx'[u] <=> k = Hash(got'[u], Size')
  <2>1. u = t /\ ctx'[u] = ctx[t] /\ Hash(got'[u], Size') = k0
    BY <1>0, <1>1, <1>2, <1>5, <1>9
  <2>2. CASE k # k0
    <3>1. slot'[k] = Doubled[k]
      BY <1>0, <1>4, <2>2
    <3>2. Doubled[k] # ctx[t]
      <4>1. ctx[t] # NULL
        BY <1>0, WhoIsPublished
      <4> QED BY <1>0, <1>6, <1>7, <4>1
    <3> QED BY <2>1, <2>2, <3>1, <3>2
  <2> QED BY <1>4, <2>1, <2>2
<1> QED BY <1>8, <1>9 DEF Located

\* A service that is retired has its handle.
LEMMA LocatedRetire ==
  ASSUME HandleInv, Located, NEW h \in Handles, Grab(h) # NULL, RetireFound(h),
         h # 0 \/ Grab(h) \notin Launching, UNCHANGED <<handle, ctx>>,
         \A t \in Threads : pc'[t] = "publish" => pc[t] = "publish" /\ got'[t] = got[t]
  PROVE  Located'
<1>0. Types /\ Launches /\ Size' = Size /\ DOMAIN slot' = DOMAIN slot
  BY RetireTypes DEF HandleInv
<1>1. PICK k0 : k0 = Hash(h, Size)
  OBVIOUS
<1>2. DOMAIN slot = 0..(Size - 1)
  BY <1>0, WhoIsPublished
<1>3. k0 \in 0..(Size - 1)
  BY <1>0, <1>1, MaskFacts, SlotTable, HashRange DEF Handles
<1>4. slot[k0] # NULL /\ handle[slot[k0]] = h /\ slot[k0] = Grab(h)
  BY <1>1 DEF Grab
<1>5. slot'[k0] = NULL /\ \A k \in DOMAIN slot : k # k0 => slot'[k] = slot[k]
  BY <1>1, <1>2, <1>3 DEF RetireFound
<1>6. Published' \subseteq Published
  BY <1>0, RetireRegistered DEF Published, Launching
<1>7. ASSUME NEW k \in DOMAIN slot', slot'[k] \in Published'
      PROVE  Hash(handle'[slot'[k]], Size') = k
  <2>1. slot'[k] # NULL
    BY <1>7 DEF Published, Registered
  <2>2. slot'[k] = slot[k] /\ slot[k] \in Published
    BY <1>0, <1>5, <1>6, <1>7, <2>1
  <2> QED BY <1>0, <2>2 DEF Located
<1>8. ASSUME NEW u \in Threads, pc'[u] = "publish", NEW k \in DOMAIN slot'
      PROVE  slot'[k] = ctx'[u] <=> k = Hash(got'[u], Size')
  <2>1. /\ pc[u] = "publish" /\ got'[u] = got[u] /\ ctx'[u] = ctx[u]
        /\ ctx[u] # NULL /\ handle[ctx[u]] = 0
    BY <1>0, <1>8 DEF Launches
  <2>2. \A l \in DOMAIN slot : slot[l] = ctx[u] <=> l = Hash(got[u], Size)
    BY <2>1 DEF Located
  <2>3. slot[k0] # ctx[u]
    BY <1>4, <2>1 DEF Launching
  <2> QED BY <1>0, <1>2, <1>3, <1>5, <2>1, <2>2, <2>3
<1> QED BY <1>7, <1>8 DEF Located

LEMMA LocatedStep ==
  ASSUME HandleInv, Located, [Next]_vars, [ExpandsAlone]_vars
  PROVE  Located'
<1>0. Types /\ Launches /\ Types'
  BY HandleStep DEF HandleInv
<1>1. CASE UNCHANGED vars
  BY <1>1, LocatedKept DEF vars, storage, local
<1>2. ASSUME NEW t \in Threads, NEW c \in Contexts, NewContext(t, c)
      PROVE  Located'
  <2>1. UNCHANGED <<slot, got>> /\ Size' = Size /\ DOMAIN slot = 0..(Size - 1)
    BY <1>0, <1>2, WhoIsPublished DEF NewContext, storage, Size
  <2>2. /\ \A d \in Contexts : d # c => handle'[d] = handle[d]
        /\ ctx'[t] = c /\ \A u \in Threads : u # t => ctx'[u] = ctx[u]
        /\ pc'[t] # "publish" /\ \A u \in Threads : u # t => pc'[u] = pc[u]
        /\ ctx[t] = NULL
    BY <1>0, <1>2 DEF NewContext, Types, Launches
  <2>3. \A k \in DOMAIN slot : slot[k] # c
    BY <1>0, <1>2, <2>1, WhoIsPublished DEF NewContext
  <2>4. \A k \in DOMAIN slot : slot[k] \in Published' => slot[k] \in Published /\ slot[k] \in Contexts
    BY <1>0, <2>1, <2>2, WhoIsPublished, WhoIsPublishedNext
  <2>5. \A u \in Threads : pc'[u] = "publish" => u # t /\ pc[u] = "publish"
    BY <2>2
  <2> QED BY <2>1, <2>2, <2>3, <2>4, <2>5 DEF Located, Hash
<1>3. ASSUME NEW t \in Threads, Register(t)
      PROVE  Located'
  <2>1. ctx[t] \in Contexts /\ pc[t] = "register" /\ UNCHANGED <<handle, i, n, due>>
    BY <1>0, <1>3 DEF Register, Launches, Types
  <2>2. CASE Abort
    BY <2>1, <2>2, LocatedKept DEF Abort
  <2>3. ASSUME NEW h, Enters(t, slot, Size, h)
        PROVE  Located'
    BY <2>1, <2>3, LocatedEnters
  <2>4. ASSUME NEW h, Doubles, Enters(t, Doubled, 2 * Size, h)
        PROVE  Located'
    <3>1. Size' = 2 * Size
      BY <1>0, <2>1, <2>4, EntersTypes
    <3>2. DOMAIN slot' # DOMAIN slot
      BY <1>0, <3>1, SameSize DEF Types
    <3>3. \A u \in Threads : pc[u] # "publish"
      BY <3>2 DEF ExpandsAlone, vars, storage
    <3> QED BY <2>1, <2>4, <3>3, LocatedDoubles
  <2> QED BY <1>0, <1>3, <2>2, <2>3, <2>4, RegisterCases
<1>4. ASSUME NEW t \in Threads, Publish(t)
      PROVE  Located'
  <2>1. UNCHANGED slot /\ Size' = Size /\ DOMAIN slot = 0..(Size - 1)
    BY <1>0, <1>4, WhoIsPublished DEF Publish, storage, Size
  <2>2. ctx[t] \in Contexts /\ pc[t] = "publish"
    BY <1>0, <1>4 DEF Publish, Types, Launches
  <2>3. /\ handle'[ctx[t]] = got[t]
        /\ \A d \in Contexts : d # ctx[t] => handle'[d] = handle[d]
        /\ ctx'[t] = NULL /\ pc'[t] # "publish"
        /\ \A u \in Threads : u # t => ctx'[u] = ctx[u] /\ pc'[u] = pc[u] /\ got'[u] = got[u]
    BY <1>0, <1>4, <2>2 DEF Publish, Types
  <2>4. ASSUME NEW k \in DOMAIN slot, slot[k] \in Published'
        PROVE  Hash(handle'[slot[k]], Size) = k
    <3>1. slot[k] # NULL /\ \A u \in Threads : ctx'[u] # slot[k]
      BY <1>0, <2>1, <2>4, WhoIsPublishedNext
    <3>2. CASE slot[k] = ctx[t]
      BY <2>2, <2>3, <3>2 DEF Located
    <3>3. CASE slot[k] # ctx[t]
      <4>1. slot[k] \in Published /\ slot[k] \in Contexts
        BY <1>0, <2>1, <2>3, <3>1, <3>3, WhoIsPublished
      <4> QED BY <2>3, <3>3, <4>1 DEF Located
    <3> QED BY <3>2, <3>3
  <2>5. \A u \in Threads : pc'[u] = "publish" => u # t /\ pc[u] = "publish"
    BY <2>3
  <2> QED BY <2>1, <2>3, <2>4, <2>5 DEF Located, Hash
<1>5. ASSUME NEW t \in Threads, NEW h \in Handles, Retire(t, h)
      PROVE  Located'
  <2>1. Grab(h) # NULL /\ Grab(h) \notin Launching
    BY <1>5 DEF Retire, Published, Registered
  <2> QED BY <1>5, <2>1, LocatedRetire DEF Retire, local
<1>6. ASSUME NEW t \in Threads, SweepStart(t) \/ SweepEnd(t) \/ SweepReturn(t)
      PROVE  Located'
  <2>1. UNCHANGED <<slot, handle, ctx, got>>
    BY <1>6 DEF SweepStart, SweepEnd, SweepReturn, storage
  <2>2. \A u \in Threads : pc'[u] = "publish" => pc[u] = "publish"
    BY <1>0, <1>6 DEF SweepStart, SweepEnd, SweepReturn, Types
  <2> QED BY <2>1, <2>2, LocatedKept
<1>7. ASSUME NEW t \in Threads, SweepRead(t)
      PROVE  Located'
  <2>1. UNCHANGED <<slot, handle, ctx>>
    BY <1>7 DEF SweepRead, storage
  <2>2. \A u \in Threads : pc'[u] = "publish" => pc[u] = "publish" /\ got'[u] = got[u]
    BY <1>0, <1>7 DEF SweepRead, Types
  <2> QED BY <2>1, <2>2, LocatedKept
<1>8. ASSUME NEW t \in Threads, SweepRetire(t)
      PROVE  Located'
  <2>1. UNCHANGED <<handle, ctx>> /\ got[t] # 0 /\ got[t] \in Handles
    BY <1>0, <1>8 DEF SweepRetire, Launches, Types
  <2>2. \A u \in Threads : pc'[u] = "publish" => pc[u] = "publish" /\ got'[u] = got[u]
    BY <1>0, <1>8 DEF SweepRetire, Types
  <2> QED BY <1>8, <2>1, <2>2, LocatedKept, LocatedRetire DEF SweepRetire
<1>9. ASSUME NEW t \in Threads, NEW h \in Handles, NEW c \in Names, NameHandle(t, h, c)
      PROVE  Located'
  BY <1>9, LocatedKept DEF NameHandle, local
<1> QED BY <1>1, <1>2, <1>3, <1>4, <1>5, <1>6, <1>7, <1>8, <1>9 DEF Next

\* A context that is where its handle says is found there.
LEMMA LocatedFound ==
  ASSUME HandleInv, Located
  PROVE  GrabFinds
<1> SUFFICES ASSUME NEW c \in Published PROVE Grab(handle[c]) = c
  BY DEF GrabFinds
<1>1. PICK k \in 0..(Size - 1) : slot[k] = c
  BY WhoIsPublished DEF HandleInv
<1>2. c # NULL /\ k \in DOMAIN slot
  BY WhoIsPublished DEF HandleInv
<1>3. Hash(handle[c], Size) = k
  BY <1>1, <1>2 DEF Located
<1> QED BY <1>1, <1>2, <1>3 DEF Grab

-----------------------------------------------------------------------------
(* skynet_handle_retireall.                                                *)

\* h is found, and not before the slot it was found in.
StillFound(h) == Grab(h)' # NULL /\ Hash(h, Size') >= Hash(h, Size)

\* The steps of others leave the sweep of u what it has to do, as long as they do not
\* lose what it must retire.
LEMMA SweepOfKept ==
  ASSUME Types, Types', NEW u \in Threads, SweepOf(u),
         i'[u] = i[u], n'[u] = n[u], due'[u] \subseteq due[u],
         \/ pc'[u] = pc[u] /\ got'[u] = got[u]
         \/ {pc[u], pc'[u]} \cap {"sweep", "sweepretire"} = {},
         \A h \in due'[u] : h # 0 /\ Grab(h) # NULL => StillFound(h)
  PROVE  SweepOf(u)'
<1>1. i[u] \in Nat /\ \A h \in due'[u] : h \in Handles
  BY DEF Types
<1>2. \A h \in due[u] : h \in Nat /\ Hash(h, Size) \in 0..(Size - 1)
  BY MaskFacts, SlotTable, HashRange DEF Types, Handles
<1>3. CASE pc[u] \notin {"sweep", "sweepretire"} /\ pc'[u] \notin {"sweep", "sweepretire"}
  <2>1. due'[u] = {} /\ i'[u] = 0
    BY <1>3 DEF SweepOf
  <2> QED BY <2>1 DEF SweepOf
<1>4. CASE pc'[u] = pc[u] /\ got'[u] = got[u]
  <2>1. pc'[u] \notin {"sweep", "sweepretire"} => due'[u] = {} /\ i'[u] = 0
    BY <1>4 DEF SweepOf
  <2>2. ASSUME NEW h \in due'[u]
        PROVE  /\ h # 0 /\ Grab(h)' # NULL
               /\ n'[u] = 0 =>
                    /\ Hash(h, Size') >= i'[u]
                    /\ pc'[u] = "sweepretire" => h = got'[u] \/ Hash(h, Size') > i'[u]
    <3>1. h # 0 /\ Grab(h) # NULL /\ h \in due[u]
      BY <2>2 DEF SweepOf
    <3>2. Grab(h)' # NULL /\ Hash(h, Size') >= Hash(h, Size)
      BY <2>2, <3>1 DEF StillFound
    <3>3. n[u] = 0 =>
            /\ Hash(h, Size) >= i[u]
            /\ pc[u] = "sweepretire" => h = got[u] \/ Hash(h, Size) > i[u]
      BY <3>1 DEF SweepOf
    <3>4. Hash(h, Size') \in Int
      <4>1. h \in Nat /\ Size' \in Nat \ {0}
        BY <1>2, <3>1 DEF Types
      <4>2. h % Size' \in 0..(Size' - 1)
        BY <4>1, ModFacts
      <4> QED BY <4>1, <4>2 DEF Hash
    <3>5. Hash(h, Size) \in Int /\ i[u] \in Int
      BY <1>1, <1>2, <3>1
    <3> QED BY <1>4, <3>1, <3>2, <3>3, <3>4, <3>5
  <2> QED BY <2>1, <2>2 DEF SweepOf, Hash
<1> QED BY <1>3, <1>4

\* A service that is found is found until it is retired.
LEMMA FoundEnters ==
  ASSUME HandleInv, NEW t \in Threads, ctx[t] \in Contexts, NEW g,
         UNCHANGED <<handle, i, n, due>>,
         \/ Enters(t, slot, Size, g)
         \/ Doubles /\ Enters(t, Doubled, 2 * Size, g),
         NEW h \in Handles, Grab(h) # NULL
  PROVE  StillFound(h)
<1>0. Types /\ h \in Nat /\ Size \in Nat \ {0}
  BY MaskFacts DEF HandleInv, Types, Handles
<1>1. PICK k : k = Hash(h, Size)
  OBVIOUS
<1>2. k \in 0..(Size - 1) /\ slot[k] # NULL /\ handle[slot[k]] = h
  <2>1. Hash(h, Size) \in 0..(Size - 1)
    BY <1>0, SlotTable, HashRange
  <2> QED BY <1>1, <2>1 DEF Grab
<1>3. CASE Enters(t, slot, Size, g)
  <2>1. Size' = Size
    BY <1>0, <1>3, EntersTypes
  <2>2. slot'[k] = slot[k]
    BY <1>2, <1>3 DEF Enters, IsTable
  <2>3. Grab(h)' # NULL
    BY <1>1, <1>2, <2>1, <2>2 DEF Grab
  <2>4. Hash(h, Size) >= Hash(h, Size)
    BY <1>1, <1>2
  <2> QED BY <2>1, <2>3, <2>4 DEF StillFound
<1>4. CASE Doubles /\ Enters(t, Doubled, 2 * Size, g)
  <2>1. Size' = 2 * Size
    BY <1>0, <1>4, EntersTypes
  <2>2. PICK m : m = Hash(h, 2 * Size)
    OBVIOUS
  <2>3. m = NewHash(k)
    BY <1>2, <2>2 DEF NewHash
  <2>4. m \in 0..(2 * Size - 1) /\ m >= k
    <3>1. h % (2 * Size) = h % Size \/ h % (2 * Size) = (h % Size) + Size
      BY <1>0, ModTwice
    <3>2. m = k \/ m = k + Size
      BY <1>1, <2>2, <3>1 DEF Hash
    <3> QED BY <1>0, <1>2, <3>2
  <2>5. Doubled[m] = slot[k]
    BY <1>2, <1>4, <2>3 DEF Doubles
  <2>6. slot'[m] = slot[k]
    BY <1>2, <1>4, <2>4, <2>5 DEF Enters, IsTable
  <2>7. Grab(h)' # NULL
    BY <1>2, <2>1, <2>2, <2>6 DEF Grab
  <2> QED BY <1>1, <2>1, <2>2, <2>4, <2>7 DEF StillFound
<1> QED BY <1>3, <1>4

LEMMA FoundRetire ==
  ASSUME HandleInv, NEW g \in Handles, Grab(g) # NULL, RetireFound(g), UNCHANGED handle,
         NEW h \in Handles \ {g}, Grab(h) # NULL
  PROVE  StillFound(h)
<1>0. Types /\ h \in Nat /\ g \in Nat /\ Size' = Size
  BY MaskFacts, RetireTypes DEF HandleInv, Handles
<1>1. PICK k : k = Hash(h, Size)
  OBVIOUS
<1>2. PICK m : m = Hash(g, Size)
  OBVIOUS
<1>3. k \in 0..(Size - 1) /\ m \in 0..(Size - 1)
  BY <1>0, <1>1, <1>2, SlotTable, HashRange
<1>4. slot[k] # NULL /\ handle[slot[k]] = h /\ handle[slot[m]] = g
  BY <1>1, <1>2 DEF Grab
<1>5. k # m
  BY <1>4
<1>6. slot' = [slot EXCEPT ![m] = NULL]
  BY <1>2 DEF RetireFound
<1>7. slot'[k] = slot[k]
  BY <1>3, <1>5, <1>6, <1>0 DEF Types
<1>8. Grab(h)' # NULL
  BY <1>0, <1>1, <1>4, <1>7 DEF Grab
<1>9. Hash(h, Size) >= Hash(h, Size)
  BY <1>1, <1>3
<1> QED BY <1>0, <1>8, <1>9 DEF StillFound

\* So it is when the table stays and the context keeps its handle.
LEMMA FoundKept ==
  ASSUME HandleInv, NEW h \in Handles, h # 0, Grab(h) # NULL, UNCHANGED slot,
         \A c \in Registered : handle[c] = h => handle'[c] = h
  PROVE  StillFound(h)
<1>0. Types /\ h \in Nat /\ Size' = Size
  BY MaskFacts, SameSize DEF HandleInv, Handles
<1>1. PICK k : k = Hash(h, Size)
  OBVIOUS
<1>2. k \in 0..(Size - 1)
  BY <1>0, <1>1, SlotTable, HashRange
<1>3. slot[k] # NULL /\ handle[slot[k]] = h
  BY <1>1 DEF Grab
<1>4. slot[k] \in Registered
  BY <1>0, <1>2, <1>3, WhoIsPublished
<1>5. Grab(h)' # NULL
  BY <1>0, <1>1, <1>3, <1>4 DEF Grab
<1>6. Hash(h, Size) >= Hash(h, Size)
  BY <1>1, <1>2
<1> QED BY <1>0, <1>5, <1>6 DEF StillFound

\* The steps of the sweep itself, under which the table and the handles stay.
LEMMA SweepStartStep ==
  ASSUME HandleInv, Types', Located, Sweeps, NEW t \in Threads, SweepStart(t)
  PROVE  SweepOf(t)'
<1>0. Types
  BY DEF HandleInv
<1>1. /\ pc[t] = "idle" /\ pc'[t] = "sweep"
      /\ due'[t] = {handle[c] : c \in Published} \ {0}
      /\ UNCHANGED <<slot, handle, i, n>>
  BY <1>0 DEF SweepStart, storage, Types
<1>2. i[t] = 0
  BY <1>1 DEF Sweeps, SweepOf
<1>3. GrabFinds
  BY LocatedFound
<1>4. ASSUME NEW h \in due'[t]
      PROVE  h # 0 /\ Grab(h) # NULL /\ Hash(h, Size) >= 0
  <2>1. PICK c \in Published : handle[c] = h
    BY <1>1, <1>4
  <2>2. c # NULL /\ Grab(h) = c
    BY <1>0, <1>3, <2>1, WhoIsPublished DEF GrabFinds
  <2>3. h \in Nat /\ h # 0
    <3>1. c \in Contexts
      BY <1>0, WhoIsPublished
    <3>2. h \in Handles
      BY <1>0, <2>1, <3>1 DEF Types
    <3> QED BY <1>1, <1>4, <3>2, MaskFacts DEF Handles
  <2>4. Hash(h, Size) \in 0..(Size - 1)
    BY <1>0, <2>3, SlotTable, HashRange
  <2> QED BY <2>2, <2>3, <2>4
<1>5. Size' = Size
  BY <1>1, SameSize
<1>6. \A h \in due'[t] : Grab(h)' # NULL /\ Hash(h, Size') >= i'[t]
  BY <1>1, <1>2, <1>4, <1>5 DEF Grab
<1> QED BY <1>1, <1>4, <1>6 DEF SweepOf

LEMMA SweepReadStep ==
  ASSUME HandleInv, Types', Sweeps, NEW t \in Threads, SweepRead(t)
  PROVE  SweepOf(t)'
<1>0. Types /\ Size' = Size
  BY SameSize DEF HandleInv, SweepRead, storage
<1>1. /\ pc[t] = "sweep" /\ i[t] < Size /\ i[t] \in Nat
      /\ UNCHANGED <<slot, handle, n, due>>
  BY <1>0 DEF SweepRead, storage, Types
<1>2. PICK c : c = slot[i[t]]
  OBVIOUS
<1>3. ASSUME NEW h \in due[t]
      PROVE  /\ h # 0 /\ Grab(h)' # NULL /\ Hash(h, Size) \in Nat
             /\ n[t] = 0 => Hash(h, Size) >= i[t]
             /\ Hash(h, Size) = i[t] => c # NULL /\ handle[c] = h
  <2>1. h # 0 /\ Grab(h) # NULL /\ (n[t] = 0 => Hash(h, Size) >= i[t])
    BY DEF Sweeps, SweepOf
  <2>2. h \in Nat
    BY <1>0, MaskFacts DEF Types, Handles
  <2>3. Hash(h, Size) \in 0..(Size - 1)
    BY <1>0, <2>2, SlotTable, HashRange
  <2>4. Grab(h)' # NULL
    BY <1>0, <1>1, <2>1 DEF Grab
  <2>5. slot[Hash(h, Size)] # NULL /\ handle[slot[Hash(h, Size)]] = h
    BY <2>1 DEF Grab
  <2> QED BY <1>2, <2>1, <2>3, <2>4, <2>5
<1>4. CASE c # NULL /\ handle[c] # 0
  <2>1. got'[t] = handle[c] /\ pc'[t] = "sweepretire" /\ UNCHANGED i
    BY <1>0, <1>2, <1>4 DEF SweepRead, Types
  <2>2. \A h \in due'[t] :
          /\ h # 0 /\ Grab(h)' # NULL
          /\ n'[t] = 0 => Hash(h, Size') >= i'[t] /\ (h = got'[t] \/ Hash(h, Size') > i'[t])
    BY <1>0, <1>1, <1>3, <2>1
  <2> QED BY <2>1, <2>2 DEF SweepOf
<1>5. CASE ~(c # NULL /\ handle[c] # 0)
  <2>1. i'[t] = i[t] + 1 /\ UNCHANGED <<got, pc>>
    BY <1>0, <1>2, <1>5 DEF SweepRead, Types
  <2>2. \A h \in due'[t] :
          h # 0 /\ Grab(h)' # NULL /\ (n'[t] = 0 => Hash(h, Size') >= i'[t])
    BY <1>0, <1>1, <1>3, <1>5, <2>1
  <2> QED BY <1>1, <2>1, <2>2 DEF SweepOf
<1> QED BY <1>4, <1>5

\* What was read is retired, unless somebody else has done it.
LEMMA SweepRetireStep ==
  ASSUME HandleInv, Types', Sweeps, NEW t \in Threads, SweepRetire(t)
  PROVE  SweepOf(t)'
<1>0. Types
  BY DEF HandleInv
<1>1. /\ pc[t] = "sweepretire" /\ pc'[t] = "sweep" /\ i'[t] = i[t] + 1 /\ i[t] \in Nat
      /\ UNCHANGED handle
      /\ got[t] \in Handles
  BY <1>0 DEF SweepRetire, Types
<1>2. ASSUME NEW h \in due[t]
      PROVE  /\ h # 0 /\ Grab(h) # NULL /\ h \in Handles /\ Hash(h, Size) \in Nat
             /\ n[t] = 0 => h = got[t] \/ Hash(h, Size) > i[t]
  <2>1. h # 0 /\ Grab(h) # NULL /\ (n[t] = 0 => h = got[t] \/ Hash(h, Size) > i[t])
    BY <1>1 DEF Sweeps, SweepOf
  <2>2. h \in Nat /\ h \in Handles
    BY <1>0, MaskFacts DEF Types, Handles
  <2>3. Hash(h, Size) \in 0..(Size - 1)
    BY <1>0, <2>2, SlotTable, HashRange
  <2> QED BY <2>1, <2>2, <2>3
<1>3. CASE Grab(got[t]) # NULL
  <2>1. RetireFound(got[t]) /\ n'[t] = 1
    BY <1>0, <1>3 DEF SweepRetire, Types
  <2>2. due'[t] = due[t] \ {got[t]}
    BY <2>1 DEF RetireFound
  <2>3. \A h \in due'[t] : h # 0 /\ Grab(h)' # NULL
    BY <1>1, <1>2, <1>3, <2>1, <2>2, FoundRetire DEF StillFound
  <2> QED BY <1>1, <2>1, <2>3 DEF SweepOf
<1>4. CASE Grab(got[t]) = NULL
  <2>1. UNCHANGED <<slot, n, due>> /\ Size' = Size
    BY <1>4, SameSize DEF SweepRetire
  <2>2. \A h \in due'[t] : /\ h # 0 /\ Grab(h)' # NULL
                           /\ n'[t] = 0 => Hash(h, Size') >= i'[t]
    <3> SUFFICES ASSUME NEW h \in due[t]
                 PROVE  /\ h # 0 /\ Grab(h)' # NULL
                        /\ n[t] = 0 => Hash(h, Size) >= i[t] + 1
      BY <1>1, <2>1
    <3>1. Grab(h)' = Grab(h)
      BY <1>1, <2>1 DEF Grab
    <3>2. h # got[t]
      BY <1>2, <1>4
    <3> QED BY <1>1, <1>2, <3>1, <3>2
  <2> QED BY <1>1, <2>2 DEF SweepOf
<1> QED BY <1>3, <1>4

\* A pass that retired nothing has looked at every slot.
LEMMA SweepEndStep ==
  ASSUME HandleInv, Types', Sweeps, NEW t \in Threads, SweepEnd(t)
  PROVE  SweepOf(t)'
<1>0. Types /\ Size' = Size
  BY SameSize DEF HandleInv, SweepEnd, storage
<1>1. /\ pc[t] = "sweep" /\ i[t] >= Size /\ i[t] \in Nat /\ i'[t] = 0
      /\ pc'[t] = (IF n[t] = 0 THEN "swept" ELSE "sweep")
      /\ UNCHANGED <<slot, handle, due>>
  BY <1>0 DEF SweepEnd, storage, Types
<1>2. ASSUME NEW h \in due[t]
      PROVE  h # 0 /\ Grab(h)' # NULL /\ n[t] # 0 /\ Hash(h, Size) >= 0
  <2>1. h # 0 /\ Grab(h) # NULL /\ (n[t] = 0 => Hash(h, Size) >= i[t])
    BY DEF Sweeps, SweepOf
  <2>2. h \in Nat
    BY <1>0, MaskFacts DEF Types, Handles
  <2>3. Hash(h, Size) \in 0..(Size - 1) /\ Size \in Nat
    BY <1>0, <2>2, SlotTable, HashRange DEF Types
  <2>4. Grab(h)' # NULL
    BY <1>0, <1>1, <2>1 DEF Grab
  <2> QED BY <1>1, <2>1, <2>3, <2>4
<1>3. n[t] = 0 => due'[t] = {}
  BY <1>1, <1>2
<1>4. \A h \in due'[t] : h # 0 /\ Grab(h)' # NULL /\ Hash(h, Size') >= i'[t]
  BY <1>0, <1>1, <1>2
<1> QED BY <1>1, <1>3, <1>4 DEF SweepOf

LEMMA SweepsStep ==
  ASSUME HandleInv, Located, Sweeps, [Next]_vars
  PROVE  Sweeps'
<1>0. Types /\ Launches /\ Types'
  BY HandleStep DEF HandleInv
<1>1. \A u \in Threads : SweepOf(u) /\ due[u] \subseteq Handles
  BY <1>0 DEF Sweeps, Types
<1>2. CASE UNCHANGED vars
  <2>1. UNCHANGED <<slot, handle, pc, got, i, n, due>>
    BY <1>2 DEF vars, storage, local
  <2>2. \A h \in Handles : h # 0 /\ Grab(h) # NULL => StillFound(h)
    BY <2>1, FoundKept
  <2>3. \A u \in Threads : SweepOf(u)'
    BY <1>0, <1>1, <2>1, <2>2, SweepOfKept
  <2> QED BY <2>3 DEF Sweeps
<1>3. ASSUME NEW t \in Threads, NEW c \in Contexts, NewContext(t, c)
      PROVE  Sweeps'
  <2>1. UNCHANGED <<slot, got, i, n, due>>
    BY <1>3 DEF NewContext, storage
  <2>2. \A d \in Registered : handle'[d] = handle[d]
    BY <1>0, <1>3 DEF NewContext, Types, Registered, Range
  <2>3. \A h \in Handles : h # 0 /\ Grab(h) # NULL => StillFound(h)
    BY <2>1, <2>2, FoundKept
  <2>4. \A u \in Threads : \/ pc'[u] = pc[u] /\ got'[u] = got[u]
                           \/ {pc[u], pc'[u]} \cap {"sweep", "sweepretire"} = {}
    BY <1>0, <1>3, <2>1 DEF NewContext, Types
  <2>5. \A u \in Threads : SweepOf(u)'
    BY <1>0, <1>1, <2>1, <2>3, <2>4, SweepOfKept
  <2> QED BY <2>5 DEF Sweeps
<1>4. ASSUME NEW t \in Threads, Register(t)
      PROVE  Sweeps'
  <2>1. ctx[t] \in Contexts /\ pc[t] = "register" /\ UNCHANGED <<handle, i, n, due>>
    BY <1>0, <1>4 DEF Register, Launches, Types
  <2>2. CASE Abort
    <3>1. UNCHANGED <<slot, pc, got>>
      BY <2>2 DEF Abort
    <3>2. \A h \in Handles : h # 0 /\ Grab(h) # NULL => StillFound(h)
      BY <2>1, <3>1, FoundKept
    <3>3. \A u \in Threads : SweepOf(u)'
      BY <1>0, <1>1, <2>1, <3>1, <3>2, SweepOfKept
    <3> QED BY <3>3 DEF Sweeps
  <2>3. ASSUME NEW g, \/ Enters(t, slot, Size, g)
                      \/ Doubles /\ Enters(t, Doubled, 2 * Size, g)
        PROVE  Sweeps'
    <3>1. \A h \in Handles : h # 0 /\ Grab(h) # NULL => StillFound(h)
      BY <2>1, <2>3, FoundEnters
    <3>2. pc' = [pc EXCEPT ![t] = "publish"] /\ got' = [got EXCEPT ![t] = g]
      BY <2>3 DEF Enters
    <3>3. \A u \in Threads : \/ pc'[u] = pc[u] /\ got'[u] = got[u]
                             \/ {pc[u], pc'[u]} \cap {"sweep", "sweepretire"} = {}
      BY <1>0, <2>1, <3>2 DEF Types
    <3>4. \A u \in Threads : SweepOf(u)'
      BY <1>0, <1>1, <2>1, <3>1, <3>3, SweepOfKept
    <3> QED BY <3>4 DEF Sweeps
  <2> QED BY <1>0, <1>4, <2>2, <2>3, RegisterCases
<1>5. ASSUME NEW t \in Threads, Publish(t)
      PROVE  Sweeps'
  <2>1. UNCHANGED <<slot, i, n, due>>
    BY <1>5 DEF Publish, storage
  <2>2. \A h \in Handles \ {0} : \A d \in Registered : handle[d] = h => handle'[d] = h
    BY <1>0, <1>5 DEF Publish, Types, Registered, Range, Launches
  <2>3. \A h \in Handles : h # 0 /\ Grab(h) # NULL => StillFound(h)
    BY <2>1, <2>2, FoundKept
  <2>4. \A u \in Threads : \/ pc'[u] = pc[u] /\ got'[u] = got[u]
                           \/ {pc[u], pc'[u]} \cap {"sweep", "sweepretire"} = {}
    BY <1>0, <1>5 DEF Publish, Types
  <2>5. \A u \in Threads : SweepOf(u)'
    BY <1>0, <1>1, <2>1, <2>3, <2>4, SweepOfKept
  <2> QED BY <2>5 DEF Sweeps
<1>6. ASSUME NEW t \in Threads, NEW g \in Handles, Retire(t, g)
      PROVE  Sweeps'
  <2>1. RetireFound(g) /\ Grab(g) # NULL /\ UNCHANGED <<handle, pc, got, i, n>>
    BY <1>6 DEF Retire, local, Published, Registered
  <2>2. \A u \in Threads : due'[u] = due[u] \ {g}
    BY <2>1 DEF RetireFound
  <2>3. \A h \in Handles \ {g} : h # 0 /\ Grab(h) # NULL => StillFound(h)
    BY <2>1, FoundRetire
  <2>4. \A u \in Threads : SweepOf(u)'
    BY <1>0, <1>1, <2>1, <2>2, <2>3, SweepOfKept
  <2> QED BY <2>4 DEF Sweeps
<1>7. ASSUME NEW t \in Threads, SweepRetire(t)
      PROVE  Sweeps'
  <2>1. /\ UNCHANGED handle /\ got[t] \in Handles
        /\ \A u \in Threads \ {t} : pc'[u] = pc[u] /\ got'[u] = got[u] /\ i'[u] = i[u]
    BY <1>0, <1>7 DEF SweepRetire, Types
  <2>2. CASE Grab(got[t]) # NULL
    <3>1. RetireFound(got[t]) /\ \A u \in Threads \ {t} : n'[u] = n[u]
      BY <1>0, <1>7, <2>2 DEF SweepRetire, Types
    <3>2. \A u \in Threads : due'[u] = due[u] \ {got[t]}
      BY <3>1 DEF RetireFound
    <3>3. \A h \in Handles \ {got[t]} : h # 0 /\ Grab(h) # NULL => StillFound(h)
      BY <2>1, <2>2, <3>1, FoundRetire
    <3>4. \A u \in Threads \ {t} : SweepOf(u)'
      BY <1>0, <1>1, <2>1, <3>1, <3>2, <3>3, SweepOfKept
    <3> QED BY <1>0, <1>7, <3>4, SweepRetireStep DEF Sweeps
  <2>3. CASE Grab(got[t]) = NULL
    <3>1. UNCHANGED <<slot, n, due>>
      BY <1>7, <2>3 DEF SweepRetire
    <3>2. \A h \in Handles : h # 0 /\ Grab(h) # NULL => StillFound(h)
      BY <2>1, <3>1, FoundKept
    <3>3. \A u \in Threads \ {t} : SweepOf(u)'
      BY <1>0, <1>1, <2>1, <3>1, <3>2, SweepOfKept
    <3> QED BY <1>0, <1>7, <3>3, SweepRetireStep DEF Sweeps
  <2> QED BY <2>2, <2>3
<1>8. ASSUME NEW t \in Threads,
             SweepStart(t) \/ SweepRead(t) \/ SweepEnd(t) \/ SweepReturn(t)
      PROVE  Sweeps'
  <2>1. UNCHANGED <<slot, handle>>
    BY <1>8 DEF SweepStart, SweepRead, SweepEnd, SweepReturn, storage
  <2>2. \A h \in Handles : h # 0 /\ Grab(h) # NULL => StillFound(h)
    BY <2>1, FoundKept
  <2>3. \A u \in Threads \ {t} : /\ pc'[u] = pc[u] /\ got'[u] = got[u] /\ i'[u] = i[u]
                                 /\ n'[u] = n[u] /\ due'[u] = due[u]
    BY <1>0, <1>8 DEF SweepStart, SweepRead, SweepEnd, SweepReturn, Types
  <2>4. \A u \in Threads \ {t} : SweepOf(u)'
    BY <1>0, <1>1, <2>2, <2>3, SweepOfKept
  <2>5. CASE SweepReturn(t)
    <3>1. /\ pc[t] = "swept" /\ pc'[t] = "idle" /\ due'[t] = {} /\ i'[t] = i[t]
      BY <1>0, <2>5 DEF SweepReturn, Types
    <3>2. i[t] = 0
      BY <1>1, <3>1 DEF SweepOf
    <3>3. SweepOf(t)'
      BY <3>1, <3>2 DEF SweepOf
    <3> QED BY <2>4, <3>3 DEF Sweeps
  <2>6. CASE SweepStart(t) \/ SweepRead(t) \/ SweepEnd(t)
    <3>1. SweepOf(t)'
      BY <1>0, <2>6, SweepStartStep, SweepReadStep, SweepEndStep
    <3> QED BY <2>4, <3>1 DEF Sweeps
  <2> QED BY <1>8, <2>5, <2>6
<1>9. ASSUME NEW t \in Threads, NEW g \in Handles, NEW c \in Names, NameHandle(t, g, c)
      PROVE  Sweeps'
  <2>1. UNCHANGED <<slot, handle, pc, got, i, n, due>>
    BY <1>9 DEF NameHandle, local
  <2>2. \A h \in Handles : h # 0 /\ Grab(h) # NULL => StillFound(h)
    BY <2>1, FoundKept
  <2>3. \A u \in Threads : SweepOf(u)'
    BY <1>0, <1>1, <2>1, <2>2, SweepOfKept
  <2> QED BY <2>3 DEF Sweeps
<1> QED BY <1>2, <1>3, <1>4, <1>5, <1>6, <1>7, <1>8, <1>9 DEF Next

LEMMA LookupStep == LookupInv /\ [Next]_vars /\ [ExpandsAlone]_vars => LookupInv'
BY HandleStep, LocatedStep, SweepsStep DEF LookupInv

LEMMA InitLookup ==
  ASSUME Init
  PROVE  LookupInv
<1>1. HandleInv
  BY InitHandle
<1>2. \A k \in DOMAIN slot : slot[k] = NULL
  BY DEF Init
<1>3. Located
  BY <1>2 DEF Init, Located, Published, Registered
<1>4. Sweeps
  BY DEF Init, Sweeps, SweepOf
<1> QED BY <1>1, <1>3, <1>4 DEF LookupInv

\* skynet_handle_register and the sweep of skynet_handle_retireall: every context is
\* in the slot of its handle, and what a sweep must retire is still ahead of it, or
\* it will go round again.
THEOREM LookupInvariant == Spec /\ [][ExpandsAlone]_vars => []LookupInv
<1>1. Init => LookupInv
  BY InitLookup
<1> QED BY <1>1, LookupStep, PTL DEF Spec

\* GrabFinds, of skynet_handle_grab: a service in the storage is found by its handle,
\* as long as the table is never doubled between the two steps of a launch.
THEOREM LookupsFind == Spec /\ [][ExpandsAlone]_vars => []GrabFinds
<1>1. LookupInv => GrabFinds
  BY LocatedFound DEF LookupInv
<1> QED BY <1>1, LookupInvariant, PTL

\* RetireAllComplete, of skynet_handle_retireall: nobody who was in the storage when
\* it began is left when it returns, under the same hypothesis.
THEOREM SweepsComplete == Spec /\ [][ExpandsAlone]_vars => []RetireAllComplete
<1>1. LookupInv => RetireAllComplete
  BY DEF LookupInv, Sweeps, SweepOf, RetireAllComplete
<1> QED BY <1>1, LookupInvariant, PTL

\* The assertion of skynet_handle_register that the slots of a new table are free.
CollisionInLaunch ==
  aborted' /\ ~aborted => \/ 2 * Size - 1 > Mask
                          \/ \E t \in Threads : pc[t] = "publish"

\* Nobody in the middle of a launch: all of the table are where their handles say, and
\* differ by the old size already.
LEMMA NoCollision ==
  ASSUME HandleInv, Located, \A t \in Threads : pc[t] # "publish", FreeTries(slot, Size) = {}
  PROVE  ~Collision
<1>0. Types /\ Launches /\ DOMAIN slot = 0..(Size - 1) /\ Size \in Nat \ {0}
  BY SlotTable DEF HandleInv, IsTable
<1>1. ASSUME NEW k \in 0..(Size - 1)
      PROVE  NewHash(k) % Size = k
  <2>1. slot[k] \in Contexts /\ slot[k] # NULL /\ slot[k] \in Registered
    BY <1>0, FullTable, WhoIsPublished
  <2>2. \A t \in Threads : ctx[t] # slot[k]
    BY <1>0, <2>1 DEF Launches
  <2>3. Hash(handle[slot[k]], Size) = k
    BY <1>0, <2>1, <2>2, WhoIsPublished DEF Located
  <2>4. handle[slot[k]] \in Nat
    BY <1>0, <2>1, MaskFacts DEF Types, Handles
  <2>5. 2 * Size \in Nat \ {0} /\ (2 * Size) % Size = 0
    <3>1. 2 * Size = 2 * Size + 0 /\ 0 \in 0..(Size - 1)
      BY <1>0
    <3> QED BY <1>0, <3>1, ModUnique
  <2> QED BY <1>0, <2>3, <2>4, <2>5, ModOfMod DEF NewHash, Hash
<1>2. ASSUME NEW k \in DOMAIN slot, NEW l \in DOMAIN slot, NewHash(k) = NewHash(l)
      PROVE  k = l
  BY <1>0, <1>1, <1>2
<1> QED BY <1>2 DEF Collision

LEMMA CollisionStep ==
  ASSUME LookupInv, [Next]_vars
  PROVE  CollisionInLaunch
<1>1. ASSUME NEW t \in Threads, Register(t)
      PROVE  CollisionInLaunch
  BY <1>1, NoCollision DEF Register, Enter, LookupInv, CollisionInLaunch
<1>2. ASSUME \A t \in Threads : ~Register(t)
      PROVE  aborted' = aborted
  BY <1>2 DEF Next, vars, storage, NewContext, Publish, SweepStart, SweepRead, SweepRetire,
              SweepEnd, SweepReturn, Retire, NameHandle
<1> QED BY <1>1, <1>2 DEF CollisionInLaunch

\* The assertion of skynet_handle_register fails only while somebody launches a service
\* as well, or when all handles are in use, as long as no table was doubled
\* between the two steps of a launch before.
THEOREM CollisionsOnlyInLaunches ==
  Spec /\ [][ExpandsAlone]_vars => [][CollisionInLaunch]_vars
<1>1. LookupInv /\ [Next]_vars => [CollisionInLaunch]_vars
  BY CollisionStep
<1> QED BY <1>1, LookupInvariant, PTL DEF Spec

\* With one thread that launches services the hypothesis holds.
OneLauncher == \A t, u \in Launchers : t = u

LEMMA TableKept ==
  ASSUME Types, [Next]_vars, \A t \in Threads : ~Register(t)
  PROVE  DOMAIN slot' = DOMAIN slot
<1>1. CASE UNCHANGED vars
  BY <1>1 DEF vars, storage
<1>2. ASSUME NEW t \in Threads, \/ \E c \in Contexts : NewContext(t, c)
                                \/ Publish(t) \/ SweepStart(t) \/ SweepRead(t)
                                \/ SweepEnd(t) \/ SweepReturn(t)
      PROVE  UNCHANGED slot
  BY <1>2 DEF NewContext, Publish, SweepStart, SweepRead, SweepEnd, SweepReturn, storage
<1>3. ASSUME NEW t \in Threads, SweepRetire(t)
      PROVE  DOMAIN slot' = DOMAIN slot
  BY <1>3 DEF SweepRetire, RetireFound
<1>4. ASSUME NEW t \in Threads, NEW h \in Handles, Retire(t, h)
      PROVE  DOMAIN slot' = DOMAIN slot
  BY <1>4 DEF Retire, RetireFound
<1>5. ASSUME NEW t \in Threads, NEW h \in Handles, NEW c \in Names, NameHandle(t, h, c)
      PROVE  UNCHANGED slot
  BY <1>5 DEF NameHandle
<1> QED BY <1>1, <1>2, <1>3, <1>4, <1>5 DEF Next

LEMMA AloneStep ==
  ASSUME OneLauncher, HandleInv, [Next]_vars
  PROVE  ExpandsAlone
<1>1. CASE \A t \in Threads : ~Register(t)
  BY <1>1, TableKept DEF HandleInv, ExpandsAlone
<1>2. ASSUME NEW t \in Threads, Register(t)
      PROVE  ExpandsAlone
  <2>1. t \in Launchers /\ pc[t] = "register"
    BY <1>2 DEF Register, HandleInv, Launches
  <2>2. \A u \in Threads : pc[u] = "publish" => u \in Launchers
    BY DEF HandleInv, Launches
  <2>3. \A u \in Threads : pc[u] # "publish"
    BY <2>1, <2>2 DEF OneLauncher
  <2> QED BY <2>3 DEF ExpandsAlone
<1> QED BY <1>1, <1>2

\* So the storage of a node with one such thread is right without more.
THEOREM OneLauncherFinds == OneLauncher /\ Spec => [](GrabFinds /\ RetireAllComplete)
<1>1. OneLauncher /\ HandleInv /\ [Next]_vars => [ExpandsAlone]_vars
  BY AloneStep
<1>2. OneLauncher => [](OneLauncher)
  OBVIOUS
<1>3. OneLauncher /\ Spec => [][ExpandsAlone]_vars
  BY <1>1, <1>2, HandleInvariant, PTL DEF Spec
<1> QED BY <1>3, LookupsFind, SweepsComplete, PTL

-----------------------------------------------------------------------------
(* The names.                                                              *)

Entry == [name : Names, handle : Handles]

\* The names are in order, each once.
Sorted ==
  /\ names \in Seq(Entry)
  /\ \A k, l \in 1..Len(names) : k < l => names[k].name < names[l].name

\* Induction over the numbers, in the form of a set.
LEMMA SetInduction ==
  ASSUME NEW S, 0 \in S, \A k \in Nat : k \in S => k + 1 \in S
  PROVE  \A k \in Nat : k \in S
<1> DEFINE T == {k \in Nat : k \notin S}
<1> SUFFICES ASSUME T # {} PROVE FALSE
  OBVIOUS
<1>1. IsWellFoundedOn(OpToRel(<, Nat), Nat)
  BY NatLessThanWellFounded
<1>2. PICK x \in T : \A y \in T : ~ (<<y, x>> \in OpToRel(<, Nat))
  BY <1>1, WFMin
<1>3. x # 0 /\ x \in Nat
  OBVIOUS
<1>4. x - 1 \in Nat /\ x - 1 \notin T
  <2>1. x - 1 \in Nat /\ x - 1 < x
    BY <1>3
  <2>2. <<x - 1, x>> \in OpToRel(<, Nat)
    BY <2>1, <1>3 DEF OpToRel
  <2> QED BY <2>1, <2>2, <1>2
<1>5. x - 1 \in S
  BY <1>4
<1> QED BY <1>3, <1>4, <1>5

\* A finite set of numbers can be enumerated in order.
LEMMA InOrder ==
  ASSUME NEW N \in Nat, NEW K \in SUBSET (1..N)
  PROVE  \E f \in [1..Cardinality(K) -> K] :
           \A k, l \in 1..Cardinality(K) : k < l => f[k] < f[l]
<1> DEFINE C(m) == Cardinality(K \cap 1..m)
           P(m, f) == /\ IsFiniteSet(K \cap 1..m) /\ C(m) \in Nat
                      /\ f \in [1..C(m) -> K \cap 1..m]
                      /\ \A k, l \in 1..C(m) : k < l => f[k] < f[l]
           S == {m \in Nat : \E f : P(m, f)}
<1>1. 0 \in S
  <2>1. K \cap 1..0 = {} /\ IsFiniteSet({}) /\ Cardinality({}) = 0
    BY FS_EmptySet
  <2>2. [k \in {} |-> 0] \in [1..0 -> {}]
    OBVIOUS
  <2>3. P(0, [k \in {} |-> 0])
    BY <2>1, <2>2
  <2> QED BY <2>3
<1>2. ASSUME NEW m \in Nat, m \in S
      PROVE  m + 1 \in S
  <2>1. PICK f : P(m, f)
    BY <1>2
  <2>2. CASE m + 1 \in K
    <3> DEFINE g == [k \in 1..(C(m) + 1) |-> IF k <= C(m) THEN f[k] ELSE m + 1]
    <3>1. K \cap 1..(m + 1) = (K \cap 1..m) \cup {m + 1}
      BY <2>2
    <3>2. m + 1 \notin K \cap 1..m
      OBVIOUS
    <3>3. IsFiniteSet(K \cap 1..(m + 1)) /\ C(m + 1) = C(m) + 1
      <4>1. PICK T : T = K \cap 1..m
        OBVIOUS
      <4>2. IsFiniteSet(T) /\ m + 1 \notin T
        BY <2>1, <3>2, <4>1
      <4>3. IsFiniteSet(T \cup {m + 1}) /\ Cardinality(T \cup {m + 1}) = Cardinality(T) + 1
        BY <4>2, FS_AddElement
      <4> QED BY <3>1, <4>1, <4>3
    <3> HIDE DEF C
    <3>4. \A k \in 1..C(m) : f[k] \in K \cap 1..m
      BY <2>1
    <3>5. g \in [1..(C(m) + 1) -> K \cap 1..(m + 1)]
      <4>1. \A k \in 1..(C(m) + 1) : g[k] \in K \cap 1..(m + 1)
        <5> SUFFICES ASSUME NEW k \in 1..(C(m) + 1) PROVE g[k] \in K \cap 1..(m + 1)
          OBVIOUS
        <5>1. CASE k <= C(m)
          <6>1. f[k] \in K \cap 1..m
            BY <2>1, <3>4, <5>1
          <6> QED BY <3>1, <5>1, <6>1
        <5>2. CASE ~(k <= C(m))
          BY <3>1, <5>2
        <5> QED BY <5>1, <5>2
      <4> QED BY <4>1
    <3>6. ASSUME NEW k \in 1..(C(m) + 1), NEW l \in 1..(C(m) + 1), k < l
          PROVE  g[k] < g[l]
      <4>1. C(m) \in Nat /\ k \in 1..C(m) /\ g[k] = f[k]
        BY <2>1, <3>6
      <4>2. CASE l \in 1..C(m)
        BY <2>1, <3>6, <4>1, <4>2
      <4>3. CASE l \notin 1..C(m)
        <5>1. g[l] = m + 1
          BY <4>1, <4>3
        <5>2. f[k] \in 1..m
          BY <3>4, <4>1
        <5> QED BY <4>1, <5>1, <5>2
      <4> QED BY <4>2, <4>3
    <3> HIDE DEF g
    <3>7. P(m + 1, g)
      <4>1. C(m + 1) \in Nat /\ 1..C(m + 1) = 1..(C(m) + 1)
        BY <2>1, <3>3
      <4>2. g \in [1..C(m + 1) -> K \cap 1..(m + 1)]
        BY <3>5, <4>1
      <4>3. \A k, l \in 1..C(m + 1) : k < l => g[k] < g[l]
        BY <3>6, <4>1
      <4> QED BY <3>3, <4>1, <4>2, <4>3
    <3> QED BY <3>7
  <2>3. CASE m + 1 \notin K
    <3>1. K \cap 1..(m + 1) = K \cap 1..m
      BY <2>3
    <3>2. C(m + 1) = C(m)
      BY <3>1
    <3> HIDE DEF C
    <3>3. f \in [1..C(m + 1) -> K \cap 1..(m + 1)]
      BY <2>1, <3>1, <3>2
    <3>4. P(m + 1, f)
      BY <2>1, <3>1, <3>2, <3>3
    <3> QED BY <3>4
  <2> QED BY <2>2, <2>3
<1> HIDE DEF S
<1>3. N \in S
  BY <1>1, <1>2, SetInduction
<1>4. K \cap 1..N = K
  OBVIOUS
<1> QED BY <1>3, <1>4 DEF S

\* What is left of the names when a handle is retired.
LEMMA WithoutFacts ==
  ASSUME Sorted, NEW h
  PROVE  /\ NamesWithout(h) \in Seq(Entry)
         /\ \A k \in 1..Len(NamesWithout(h)) : NamesWithout(h)[k].handle # h
         /\ \A k, l \in 1..Len(NamesWithout(h)) :
              k < l => NamesWithout(h)[k].name < NamesWithout(h)[l].name
<1> DEFINE K == {k \in DOMAIN names : names[k].handle # h}
           c == Cardinality(K)
<1>1. Len(names) \in Nat /\ DOMAIN names = 1..Len(names)
  BY DEF Sorted
<1>2. IsFiniteSet(1..Len(names)) /\ K \in SUBSET (1..Len(names))
  <2>1. 1 \in Int /\ Len(names) \in Int
    BY <1>1
  <2> QED BY <1>1, <2>1, FS_Interval
<1>3. c \in Nat
  BY <1>2, FS_Subset, FS_CardinalityType
<1>4. \E f \in [1..c -> K] : \A k, l \in 1..c : k < l => f[k] < f[l]
  BY <1>1, <1>2, InOrder
<1>5. PICK f : f = CHOOSE g \in [1..c -> K] : \A k, l \in 1..c : k < l => g[k] < g[l]
  OBVIOUS
<1>6. f \in [1..c -> K] /\ \A k, l \in 1..c : k < l => f[k] < f[l]
  BY <1>4, <1>5
<1>7. NamesWithout(h) = [k \in 1..c |-> names[f[k]]]
  BY <1>5 DEF NamesWithout
<1>8. \A k \in 1..c : f[k] \in 1..Len(names) /\ names[f[k]].handle # h
  BY <1>1, <1>6
<1> HIDE DEF K, c
<1>9. \A k \in 1..c : names[f[k]] \in Entry
  BY <1>8 DEF Sorted
<1>10. NamesWithout(h) \in Seq(Entry) /\ Len(NamesWithout(h)) = c
  BY <1>3, <1>7, <1>9
<1>11. \A k, l \in 1..c : k < l => names[f[k]].name < names[f[l]].name
  BY <1>6, <1>8 DEF Sorted
<1> QED BY <1>7, <1>8, <1>10, <1>11

\* The binary search, one step of it with q for the rest.
Ranges == (0..Len(names)) \X (-1..(Len(names) - 1))

Probe(q, name, r) ==
  LET begin == r[1]
      end   == r[2]
      mid   == (begin + end) \div 2
      at    == names[mid + 1].name
  IN IF begin > end THEN [found |-> FALSE, at |-> begin]
     ELSE IF at = name THEN [found |-> TRUE, at |-> mid]
     ELSE IF at < name THEN q[<<mid + 1, end>>] ELSE q[<<begin, mid - 1>>]

LEMMA Middle ==
  ASSUME NEW b \in Int, NEW e \in Int, b <= e
  PROVE  (b + e) \div 2 \in b..e
OBVIOUS

\* It looks at smaller ranges only.
LEMMA ProbeSmaller ==
  ASSUME Len(names) \in Nat, NEW name, NEW r \in Ranges, NEW q, NEW p,
         \A s \in Ranges : s[2] - s[1] < r[2] - r[1] => q[s] = p[s]
  PROVE  Probe(q, name, r) = Probe(p, name, r)
<1>1. PICK b \in 0..Len(names), e \in -1..(Len(names) - 1) : r = <<b, e>>
  BY DEF Ranges
<1>2. r[1] = b /\ r[2] = e
  BY <1>1
<1>3. CASE b > e
  BY <1>2, <1>3 DEF Probe
<1>4. CASE b <= e
  <2>1. PICK m \in b..e : m = (b + e) \div 2
    BY <1>4, Middle
  <2>2. <<m + 1, e>> \in Ranges /\ <<b, m - 1>> \in Ranges
    BY DEF Ranges
  <2>3. <<m + 1, e>>[2] - <<m + 1, e>>[1] < e - b /\ <<b, m - 1>>[2] - <<b, m - 1>>[1] < e - b
    BY <2>1
  <2>4. q[<<m + 1, e>>] = p[<<m + 1, e>>] /\ q[<<b, m - 1>>] = p[<<b, m - 1>>]
    BY <1>2, <2>2, <2>3
  <2> QED BY <1>2, <1>4, <2>1, <2>4 DEF Probe
<1> QED BY <1>3, <1>4

\* So there is a function that does it.
LEMMA ProbeExists ==
  ASSUME Len(names) \in Nat, NEW name
  PROVE  \E q : q = [r \in Ranges |-> Probe(q, name, r)]
<1> DEFINE P(m, q) == /\ q = [r \in Ranges |-> q[r]]
                      /\ \A r \in Ranges : r[2] - r[1] < m => q[r] = Probe(q, name, r)
           S == {m \in Nat : \E q : P(m, q)}
<1>1. 0 \in S
  <2> DEFINE q == [r \in Ranges |-> [found |-> FALSE, at |-> r[1]]]
  <2>1. \A r \in Ranges : r[2] - r[1] < 0 => q[r] = Probe(q, name, r)
    <3> SUFFICES ASSUME NEW r \in Ranges, r[2] - r[1] < 0 PROVE q[r] = Probe(q, name, r)
      OBVIOUS
    <3>1. r[1] > r[2]
      BY DEF Ranges
    <3> QED BY <3>1 DEF Probe
  <2>2. q = [r \in Ranges |-> q[r]]
    OBVIOUS
  <2> QED BY <2>1, <2>2
<1>2. ASSUME NEW m \in Nat, m \in S
      PROVE  m + 1 \in S
  <2>1. PICK p : P(m, p)
    BY <1>2
  <2> DEFINE q == [r \in Ranges |-> IF r[2] - r[1] < m THEN p[r] ELSE Probe(p, name, r)]
  <2>2. \A r \in Ranges : q[r] = Probe(p, name, r)
    BY <2>1
  <2>3. \A r \in Ranges : r[2] - r[1] < m => q[r] = p[r]
    OBVIOUS
  <2>4. q = [r \in Ranges |-> q[r]]
    OBVIOUS
  <2> HIDE DEF q
  <2>5. ASSUME NEW r \in Ranges, r[2] - r[1] < m + 1
        PROVE  q[r] = Probe(q, name, r)
    <3>1. \A s \in Ranges : s[2] - s[1] < r[2] - r[1] => p[s] = q[s]
      <4> SUFFICES ASSUME NEW s \in Ranges, s[2] - s[1] < r[2] - r[1] PROVE p[s] = q[s]
        OBVIOUS
      <4>1. s[2] - s[1] < m
        BY <2>5 DEF Ranges
      <4> QED BY <2>3, <4>1
    <3>2. Probe(p, name, r) = Probe(q, name, r)
      BY <3>1, ProbeSmaller
    <3> QED BY <2>2, <3>2
  <2>6. P(m + 1, q)
    BY <2>4, <2>5
  <2> QED BY <2>6
<1> HIDE DEF S
<1>3. Len(names) + 1 \in S
  BY <1>1, <1>2, SetInduction
<1>4. PICK q : P(Len(names) + 1, q)
  BY <1>3 DEF S
<1>5. \A r \in Ranges : r[2] - r[1] < Len(names) + 1
  BY DEF Ranges
<1>6. \A r \in Ranges : q[r] = Probe(q, name, r)
  BY <1>4, <1>5
<1>7. q = [r \in Ranges |-> Probe(q, name, r)]
  BY <1>4, <1>6
<1> QED BY <1>7

LEMMA SearchIs ==
  ASSUME Len(names) \in Nat, NEW name
  PROVE  \E q : /\ \A r \in Ranges : q[r] = Probe(q, name, r)
                /\ Search(name) = q[<<0, Len(names) - 1>>]
<1>1. PICK q : q = CHOOSE p : p = [r \in Ranges |-> Probe(p, name, r)]
  OBVIOUS
<1>2. q = [r \in Ranges |-> Probe(q, name, r)]
  BY <1>1, ProbeExists
<1>3. Search(name) = q[<<0, Len(names) - 1>>]
  BY <1>1 DEF Search, Probe, Ranges
<1> QED BY <1>2, <1>3

\* A right answer over the range from b to e: the name is there, or all before the
\* place are less and all from it on are greater.
Answer(a, name, b, e) ==
  \/ /\ a.found = TRUE /\ a.at \in b..e /\ names[a.at + 1].name = name
  \/ /\ a.found = FALSE /\ a.at \in b..(e + 1)
     /\ \A k \in b..(a.at - 1) : names[k + 1].name < name
     /\ \A k \in a.at..e : names[k + 1].name > name

LEMMA SearchAnswers ==
  ASSUME Sorted, NEW name \in Names
  PROVE  Answer(Search(name), name, 0, Len(names) - 1)
<1>0. Len(names) \in Nat /\ name \in Nat
  BY HandleAssumption DEF Sorted
<1>1. PICK q : /\ \A r \in Ranges : q[r] = Probe(q, name, r)
               /\ Search(name) = q[<<0, Len(names) - 1>>]
  BY <1>0, SearchIs
<1>2. \A k \in 0..(Len(names) - 1) : names[k + 1].name \in Nat
  <2> SUFFICES ASSUME NEW k \in 0..(Len(names) - 1) PROVE names[k + 1].name \in Nat
    OBVIOUS
  <2>1. k + 1 \in 1..Len(names)
    BY <1>0
  <2>2. names[k + 1] \in Entry
    BY <2>1 DEF Sorted
  <2> QED BY <2>2, HandleAssumption DEF Entry
<1>3. \A k, l \in 0..(Len(names) - 1) : k < l => names[k + 1].name < names[l + 1].name
  BY <1>0 DEF Sorted
<1> DEFINE S == {m \in Nat : \A b \in 0..Len(names), e \in -1..(Len(names) - 1) :
                   b <= e + 1 /\ e - b < m => Answer(q[<<b, e>>], name, b, e)}
<1>4. ASSUME NEW b \in 0..Len(names), NEW e \in -1..(Len(names) - 1), b = e + 1
      PROVE  Answer(q[<<b, e>>], name, b, e)
  <2>1. q[<<b, e>>] = Probe(q, name, <<b, e>>)
    BY <1>1 DEF Ranges
  <2>2. q[<<b, e>>] = [found |-> FALSE, at |-> b]
    BY <1>4, <2>1 DEF Probe
  <2> QED BY <1>0, <1>4, <2>2 DEF Answer
<1>5. 0 \in S
  BY <1>0, <1>4
<1>6. ASSUME NEW m \in Nat, m \in S
      PROVE  m + 1 \in S
  <2>1. ASSUME NEW b \in 0..Len(names), NEW e \in -1..(Len(names) - 1),
               b <= e, e - b < m + 1
        PROVE  Answer(q[<<b, e>>], name, b, e)
    <3>1. PICK d \in b..e : d = (b + e) \div 2
      BY <2>1, Middle
    <3>2. q[<<b, e>>] = Probe(q, name, <<b, e>>)
      BY <1>1 DEF Ranges
    <3>3. PICK x : x = names[d + 1].name
      OBVIOUS
    <3>4. x \in Nat
      BY <1>2, <3>3
    <3>5. CASE x = name
      <4>1. q[<<b, e>>] = [found |-> TRUE, at |-> d]
        <5>1. ~(b > e)
          BY <2>1
        <5>2. Probe(q, name, <<b, e>>) =
                IF b > e THEN [found |-> FALSE, at |-> b]
                ELSE IF names[d + 1].name = name THEN [found |-> TRUE, at |-> d]
                ELSE IF names[d + 1].name < name THEN q[<<d + 1, e>>]
                                                 ELSE q[<<b, d - 1>>]
          BY <3>1, Zenon DEF Probe
        <5> QED BY <3>2, <3>3, <3>5, <5>1, <5>2, Zenon
      <4>2. q[<<b, e>>].found = TRUE /\ q[<<b, e>>].at = d
        <5>1. PICK a : a = [found |-> TRUE, at |-> d]
          OBVIOUS
        <5>2. a.found = TRUE /\ a.at = d
          BY <5>1
        <5>3. q[<<b, e>>] = a
          BY <4>1, <5>1, Zenon
        <5> QED BY <5>2, <5>3
      <4> QED BY <3>1, <3>3, <3>5, <4>2 DEF Answer
    <3>6. CASE x < name
      <4>1. q[<<b, e>>] = q[<<d + 1, e>>]
        BY <1>0, <2>1, <3>1, <3>2, <3>3, <3>4, <3>6 DEF Probe
      <4>2. d + 1 \in 0..Len(names) /\ d + 1 <= e + 1 /\ e - (d + 1) < m
        BY <1>0, <2>1
      <4>3. Answer(q[<<d + 1, e>>], name, d + 1, e)
        BY <1>6, <4>2
      <4>4. \A k \in b..d : names[k + 1].name < name
        <5> SUFFICES ASSUME NEW k \in b..d PROVE names[k + 1].name < name
          OBVIOUS
        <5>1. k \in 0..(Len(names) - 1) /\ d \in 0..(Len(names) - 1)
          BY <1>0
        <5>2. names[k + 1].name \in Nat /\ names[k + 1].name <= x
          BY <1>2, <1>3, <3>3, <3>4, <5>1
        <5> QED BY <1>0, <3>4, <3>6, <5>2
      <4>5. PICK a : a = q[<<d + 1, e>>]
        OBVIOUS
      <4>6. Answer(a, name, d + 1, e)
        BY <4>3, <4>5
      <4>7. Answer(a, name, b, e)
        <5>1. CASE a.found = TRUE /\ a.at \in (d + 1)..e /\ names[a.at + 1].name = name
          BY <5>1 DEF Answer
        <5>2. CASE /\ a.found = FALSE /\ a.at \in (d + 1)..(e + 1)
                   /\ \A k \in (d + 1)..(a.at - 1) : names[k + 1].name < name
                   /\ \A k \in a.at..e : names[k + 1].name > name
          <6>1. \A k \in b..(a.at - 1) : k \in b..d \/ k \in (d + 1)..(a.at - 1)
            OBVIOUS
          <6>2. \A k \in b..(a.at - 1) : names[k + 1].name < name
            BY <4>4, <5>2, <6>1
          <6>3. a.at \in b..(e + 1)
            BY <5>2
          <6> QED BY <5>2, <6>2, <6>3 DEF Answer
        <5> QED BY <4>6, <5>1, <5>2 DEF Answer
      <4> QED BY <4>1, <4>5, <4>7
    <3>7. CASE x > name
      <4>1. q[<<b, e>>] = q[<<b, d - 1>>]
        BY <1>0, <2>1, <3>1, <3>2, <3>3, <3>4, <3>7 DEF Probe
      <4>2. d - 1 \in -1..(Len(names) - 1) /\ b <= (d - 1) + 1 /\ (d - 1) - b < m
        BY <1>0, <2>1
      <4>3. Answer(q[<<b, d - 1>>], name, b, d - 1)
        BY <1>6, <4>2
      <4>4. \A k \in d..e : names[k + 1].name > name
        <5> SUFFICES ASSUME NEW k \in d..e PROVE names[k + 1].name > name
          OBVIOUS
        <5>1. k \in 0..(Len(names) - 1) /\ d \in 0..(Len(names) - 1)
          BY <1>0
        <5>2. names[k + 1].name \in Nat /\ names[k + 1].name >= x
          BY <1>2, <1>3, <3>3, <3>4, <5>1
        <5> QED BY <1>0, <3>4, <3>7, <5>2
      <4>5. PICK a : a = q[<<b, d - 1>>]
        OBVIOUS
      <4>6. Answer(a, name, b, d - 1)
        BY <4>3, <4>5
      <4>7. Answer(a, name, b, e)
        <5>1. CASE a.found = TRUE /\ a.at \in b..(d - 1) /\ names[a.at + 1].name = name
          BY <5>1 DEF Answer
        <5>2. CASE /\ a.found = FALSE /\ a.at \in b..((d - 1) + 1)
                   /\ \A k \in b..(a.at - 1) : names[k + 1].name < name
                   /\ \A k \in a.at..(d - 1) : names[k + 1].name > name
          <6>1. \A k \in a.at..e : k \in a.at..(d - 1) \/ k \in d..e
            BY <5>2
          <6>2. \A k \in a.at..e : names[k + 1].name > name
            BY <4>4, <5>2, <6>1
          <6>3. a.at \in b..(e + 1)
            BY <5>2
          <6> QED BY <5>2, <6>2, <6>3 DEF Answer
        <5> QED BY <4>6, <5>1, <5>2 DEF Answer
      <4> QED BY <4>1, <4>5, <4>7
    <3> QED BY <1>0, <3>4, <3>5, <3>6, <3>7
  <2>2. \A b \in 0..Len(names), e \in -1..(Len(names) - 1) :
          b <= e + 1 /\ e - b < m + 1 => Answer(q[<<b, e>>], name, b, e)
    <3> SUFFICES ASSUME NEW b \in 0..Len(names), NEW e \in -1..(Len(names) - 1),
                        b <= e + 1, e - b < m + 1
                 PROVE  Answer(q[<<b, e>>], name, b, e)
      OBVIOUS
    <3>1. b = e + 1 \/ b <= e
      BY <1>0
    <3> QED BY <1>4, <2>1, <3>1
  <2> QED BY <2>2
<1>7. Len(names) \in S
  <2> HIDE DEF S
  <2> QED BY <1>0, <1>5, <1>6, SetInduction
<1>8. 0 \in 0..Len(names) /\ Len(names) - 1 \in -1..(Len(names) - 1)
  BY <1>0
<1>9. Answer(q[<<0, Len(names) - 1>>], name, 0, Len(names) - 1)
  BY <1>0, <1>7, <1>8
<1> QED BY <1>1, <1>9

LEMMA SortedComplete ==
  ASSUME Sorted
  PROVE  SearchComplete
<1> SUFFICES ASSUME NEW name \in Names
             PROVE  LET at == {k \in DOMAIN names : names[k].name = name}
                    IN /\ Cardinality(at) <= 1
                       /\ Search(name).found <=> at # {}
                       /\ FindName(name) \in {names[k].handle : k \in at} \cup {0}
  BY DEF SearchComplete
<1> DEFINE at == {k \in DOMAIN names : names[k].name = name}
<1>0. Len(names) \in Nat /\ DOMAIN names = 1..Len(names)
  BY DEF Sorted
<1>1. \A k \in 1..Len(names) : names[k].name \in Nat
  <2>1. \A k \in 1..Len(names) : names[k] \in Entry
    BY DEF Sorted
  <2> QED BY <2>1, HandleAssumption DEF Entry
<1>2. PICK a : a = Search(name)
  OBVIOUS
<1>3. Answer(a, name, 0, Len(names) - 1)
  BY <1>2, SearchAnswers
<1>4. \A k, l \in at : k = l
  <2> SUFFICES ASSUME NEW k \in at, NEW l \in at, k < l PROVE FALSE
    BY <1>0
  <2>1. names[k].name < names[l].name
    BY <1>0 DEF Sorted
  <2> QED BY <1>0, <1>1, <2>1
<1>5. Cardinality(at) <= 1
  <2>1. CASE at = {}
    <3>1. Cardinality(at) = 0
      BY <2>1, FS_EmptySet
    <3> QED BY <3>1
  <2>2. CASE at # {}
    <3>1. PICK k : k \in at
      BY <2>2
    <3>2. at = {k}
      BY <1>4, <3>1
    <3>3. Cardinality(at) = 1
      BY <3>2, FS_Singleton
    <3> QED BY <3>3
  <2> QED BY <2>1, <2>2
<1>6. CASE a.found = TRUE /\ a.at \in 0..(Len(names) - 1) /\ names[a.at + 1].name = name
  <2>1. a.at + 1 \in at
    BY <1>0, <1>6
  <2>2. FindName(name) = names[a.at + 1].handle
    BY <1>2, <1>6 DEF FindName
  <2>3. FindName(name) \in {names[k].handle : k \in at} \cup {0}
    BY <2>1, <2>2
  <2>4. Search(name).found
    BY <1>2, <1>6
  <2> QED BY <1>5, <2>1, <2>3, <2>4
<1>7. CASE /\ a.found = FALSE /\ a.at \in 0..(Len(names) - 1 + 1)
           /\ \A k \in 0..(a.at - 1) : names[k + 1].name < name
           /\ \A k \in a.at..(Len(names) - 1) : names[k + 1].name > name
  <2>1. ~Search(name).found
    BY <1>2, <1>7
  <2>2. at = {}
    <3> SUFFICES ASSUME NEW k \in 1..Len(names), names[k].name = name PROVE FALSE
      BY <1>0
    <3>1. k - 1 \in 0..(a.at - 1) \/ k - 1 \in a.at..(Len(names) - 1)
      BY <1>0, <1>7
    <3>2. names[(k - 1) + 1].name < name \/ names[(k - 1) + 1].name > name
      BY <1>7, <3>1
    <3>3. (k - 1) + 1 = k
      BY <1>0
    <3> QED BY <1>1, <3>2, <3>3
  <2>3. FindName(name) = 0
    BY <2>1 DEF FindName
  <2> QED BY <1>5, <2>1, <2>2, <2>3
<1> QED BY <1>3, <1>6, <1>7 DEF Answer

\* A new name goes where the search stopped.
LEMMA SortedInsert ==
  ASSUME Sorted, NEW h \in Handles, NEW name \in Names, ~Search(name).found,
         names' = InsertAt(names, Search(name).at + 1, [name |-> name, handle |-> h])
  PROVE  Sorted'
<1>0. Len(names) \in Nat /\ name \in Nat
  BY HandleAssumption DEF Sorted
<1>1. PICK p : p = Search(name).at
  OBVIOUS
<1>2. /\ p \in 0..Len(names)
      /\ \A k \in 0..(p - 1) : names[k + 1].name < name
      /\ \A k \in p..(Len(names) - 1) : names[k + 1].name > name
  <2>1. Answer(Search(name), name, 0, Len(names) - 1)
    BY SearchAnswers
  <2>2. PICK a : a = Search(name)
    OBVIOUS
  <2>3. Answer(a, name, 0, Len(names) - 1) /\ ~a.found /\ a.at = p
    BY <1>1, <2>1, <2>2
  <2>4. a.found # TRUE
    BY <2>3
  <2>5. Len(names) - 1 + 1 = Len(names)
    BY <1>0
  <2> QED BY <2>3, <2>4, <2>5 DEF Answer
<1>3. PICK x \in Entry : x = [name |-> name, handle |-> h] /\ x.name = name
  BY DEF Entry
<1>4. names' = SubSeq(names, 1, p) \o <<x>> \o SubSeq(names, p + 1, Len(names))
  <2>1. (p + 1) - 1 = p
    BY <1>2
  <2> QED BY <1>1, <1>3, <2>1 DEF InsertAt
<1> DEFINE s1 == SubSeq(names, 1, p)
           s2 == SubSeq(names, p + 1, Len(names))
<1>5. names \in Seq(Entry)
  BY DEF Sorted
<1>6. s1 \in Seq(Entry) /\ Len(s1) = p /\ \A k \in 1..p : s1[k] = names[k]
  BY <1>0, <1>2, <1>5
<1>7. /\ s2 \in Seq(Entry) /\ Len(s2) = Len(names) - p
      /\ \A k \in 1..(Len(names) - p) : s2[k] = names[k + p]
  BY <1>0, <1>2, <1>5
<1>8. /\ names' \in Seq(Entry) /\ Len(names') = Len(names) + 1
      /\ \A k \in 1..p : names'[k] = names[k]
      /\ names'[p + 1] = x
      /\ \A k \in (p + 2)..(Len(names) + 1) : names'[k] = names[k - 1]
  <2> HIDE DEF s1, s2
  <2>1. names' = s1 \o <<x>> \o s2
    BY <1>4 DEF s1, s2
  <2>2. <<x>> \in Seq(Entry) /\ Len(<<x>>) = 1 /\ <<x>>[1] = x
    OBVIOUS
  <2>3. PICK s3 : s3 = s1 \o <<x>>
    OBVIOUS
  <2>4. /\ s3 \in Seq(Entry) /\ Len(s3) = p + 1
        /\ \A k \in 1..p : s3[k] = names[k]
        /\ s3[p + 1] = x
    BY <1>2, <1>6, <2>2, <2>3
  <2>5. names' = s3 \o s2
    BY <2>1, <2>3
  <2>6. names' \in Seq(Entry) /\ Len(names') = Len(names) + 1
    <3>0. s3 \in Seq(Entry) /\ s2 \in Seq(Entry)
      BY <1>7, <2>4
    <3>1. s3 \o s2 \in Seq(Entry) /\ Len(s3 \o s2) = Len(s3) + Len(s2)
      BY <3>0
    <3>2. Len(s3) = p + 1 /\ Len(s2) = Len(names) - p
      BY <1>7, <2>4
    <3>3. Len(s3) + Len(s2) = Len(names) + 1
      BY <1>0, <1>2, <3>2
    <3> QED BY <2>5, <3>1, <3>3
  <2>7. \A k \in 1..(p + 1) : names'[k] = s3[k]
    BY <1>2, <1>7, <2>4, <2>5
  <2>8. \A k \in (p + 2)..(Len(names) + 1) : names'[k] = s2[k - (p + 1)]
    <3>1. \A k \in (Len(s3) + 1)..(Len(s3) + Len(s2)) : (s3 \o s2)[k] = s2[k - Len(s3)]
      BY <1>7, <2>4
    <3>2. Len(s3) + 1 = p + 2 /\ Len(s3) + Len(s2) = Len(names) + 1
      BY <1>0, <1>2, <1>7, <2>4
    <3> QED BY <2>4, <2>5, <3>1, <3>2
  <2>9. \A k \in (p + 2)..(Len(names) + 1) : names'[k] = names[k - 1]
    <3> SUFFICES ASSUME NEW k \in (p + 2)..(Len(names) + 1) PROVE names'[k] = names[k - 1]
      OBVIOUS
    <3>1. k - (p + 1) \in 1..(Len(names) - p) /\ (k - (p + 1)) + p = k - 1
      BY <1>0, <1>2
    <3>2. s2[k - (p + 1)] = names[k - 1]
      BY <1>7, <3>1
    <3> QED BY <2>8, <3>2
  <2> QED BY <1>2, <2>4, <2>6, <2>7, <2>9
<1>9. ASSUME NEW k \in 1..Len(names'), NEW l \in 1..Len(names'), k < l
      PROVE  names'[k].name < names'[l].name
  <2>1. \A c, d \in 1..Len(names) : c < d => names[c].name < names[d].name
    BY DEF Sorted
  <2>2. \A c \in 1..p : names[c].name < name
    <3> SUFFICES ASSUME NEW c \in 1..p PROVE names[c].name < name
      OBVIOUS
    <3>1. c - 1 \in 0..(p - 1) /\ (c - 1) + 1 = c
      BY <1>2
    <3> QED BY <1>2, <3>1
  <2>3. \A c \in (p + 1)..Len(names) : name < names[c].name
    <3> SUFFICES ASSUME NEW c \in (p + 1)..Len(names) PROVE name < names[c].name
      OBVIOUS
    <3>1. c - 1 \in p..(Len(names) - 1) /\ (c - 1) + 1 = c
      BY <1>0, <1>2
    <3>2. names[c].name > name
      BY <1>2, <3>1
    <3>3. names[c].name \in Nat
      <4>1. names[c] \in Entry
        BY <1>0, <1>2, <1>5
      <4> QED BY <4>1, HandleAssumption DEF Entry
    <3> QED BY <1>0, <3>2, <3>3
  <2>4. CASE k <= p /\ l <= p
    BY <1>0, <1>2, <1>8, <1>9, <2>1, <2>4
  <2>5. CASE k <= p /\ l = p + 1
    BY <1>0, <1>2, <1>3, <1>8, <1>9, <2>2, <2>5
  <2>6. CASE k <= p /\ l > p + 1
    <3>1. l - 1 \in 1..Len(names) /\ k \in 1..Len(names) /\ k < l - 1
      BY <1>0, <1>2, <1>8, <1>9, <2>6
    <3>2. names'[k] = names[k] /\ names'[l] = names[l - 1]
      BY <1>0, <1>2, <1>8, <1>9, <2>6
    <3> QED BY <2>1, <3>1, <3>2
  <2>7. CASE k = p + 1 /\ l > p + 1
    <3>1. l - 1 \in (p + 1)..Len(names)
      BY <1>0, <1>2, <1>8, <1>9, <2>7
    <3>2. names'[k] = x /\ names'[l] = names[l - 1]
      BY <1>0, <1>2, <1>8, <1>9, <2>7
    <3> QED BY <1>3, <2>3, <3>1, <3>2
  <2>8. CASE k > p + 1 /\ l > p + 1
    <3>1. l - 1 \in 1..Len(names) /\ k - 1 \in 1..Len(names) /\ k - 1 < l - 1
      BY <1>0, <1>2, <1>8, <1>9, <2>8
    <3>2. k \in (p + 2)..(Len(names) + 1) /\ l \in (p + 2)..(Len(names) + 1)
      BY <1>0, <1>2, <1>8, <2>8
    <3>3. names'[k] = names[k - 1] /\ names'[l] = names[l - 1]
      BY <1>8, <3>2
    <3> QED BY <2>1, <3>1, <3>3
  <2> QED BY <1>0, <1>2, <1>8, <1>9, <2>4, <2>5, <2>6, <2>7, <2>8
<1> QED BY <1>8, <1>9 DEF Sorted, Entry

LEMMA SortedStep ==
  ASSUME Sorted, [Next]_vars
  PROVE  Sorted'
<1>1. ASSUME UNCHANGED names
      PROVE  Sorted'
  BY <1>1 DEF Sorted
<1>2. ASSUME NEW h, RetireFound(h)
      PROVE  Sorted'
  <2>1. names' = NamesWithout(h)
    BY <1>2 DEF RetireFound
  <2> QED BY <2>1, WithoutFacts DEF Sorted
<1>3. CASE UNCHANGED vars
  BY <1>1, <1>3 DEF vars, storage
<1>4. ASSUME NEW t \in Threads, \/ \E c \in Contexts : NewContext(t, c)
                                \/ Publish(t) \/ SweepStart(t) \/ SweepRead(t)
                                \/ SweepEnd(t) \/ SweepReturn(t) \/ Register(t)
      PROVE  Sorted'
  <2>1. UNCHANGED names
    BY <1>4 DEF NewContext, Publish, SweepStart, SweepRead, SweepEnd, SweepReturn,
                Register, storage
  <2> QED BY <1>1, <2>1
<1>5. ASSUME NEW t \in Threads, SweepRetire(t)
      PROVE  Sorted'
  BY <1>1, <1>2, <1>5 DEF SweepRetire
<1>6. ASSUME NEW t \in Threads, NEW h \in Handles, Retire(t, h)
      PROVE  Sorted'
  BY <1>2, <1>6 DEF Retire
<1>7. ASSUME NEW t \in Threads, NEW h \in Handles, NEW name \in Names, NameHandle(t, h, name)
      PROVE  Sorted'
  BY <1>7, SortedInsert DEF NameHandle
<1> QED BY <1>3, <1>4, <1>5, <1>6, <1>7 DEF Next

LEMMA InitSorted == Init => Sorted
BY DEF Init, Sorted

\* Who leaves the storage takes the names along.
LEMMA NamesLeave ==
  ASSUME HandleInv, Sorted, [Next]_vars,
         NEW c \in Published, c \notin Published'
  PROVE  \A k \in DOMAIN names' : names'[k].handle # handle[c]
<1>0. Types /\ Launches
  BY DEF HandleInv
<1>1. c \in Registered /\ c \notin Launching
  BY DEF Published
<1>2. ASSUME c \in Registered', c \notin Launching'
      PROVE  FALSE
  BY <1>2 DEF Published
<1>3. ASSUME NEW h, Grab(h) # NULL, RetireFound(h), UNCHANGED ctx
      PROVE  \A k \in DOMAIN names' : names'[k].handle # handle[c]
  <2>1. PICK k \in DOMAIN slot : slot[k] = c /\ c # NULL
    BY <1>1 DEF Registered, Range
  <2>2. c \notin Registered'
    BY <1>1, <1>2, <1>3 DEF Launching
  <2>3. k = Hash(h, Size)
    <3> SUFFICES ASSUME k # Hash(h, Size) PROVE FALSE
      OBVIOUS
    <3>1. slot'[k] = c /\ k \in DOMAIN slot'
      BY <1>3, <2>1 DEF RetireFound
    <3> QED BY <2>1, <2>2, <3>1 DEF Registered, Range
  <2>4. handle[c] = h
    BY <1>3, <2>1, <2>3 DEF Grab
  <2>5. names' = NamesWithout(h)
    BY <1>3 DEF RetireFound
  <2>6. DOMAIN names' = 1..Len(names')
    BY <2>5, WithoutFacts
  <2> QED BY <2>4, <2>5, <2>6, WithoutFacts
<1>4. ASSUME UNCHANGED <<slot, ctx>>
      PROVE  FALSE
  BY <1>1, <1>2, <1>4 DEF Registered, Launching, Range
<1>5. CASE UNCHANGED vars
  BY <1>4, <1>5 DEF vars, storage, local
<1>6. ASSUME NEW t \in Threads, NEW d \in Contexts, NewContext(t, d)
      PROVE  FALSE
  <2>1. UNCHANGED slot /\ ctx' = [ctx EXCEPT ![t] = d] /\ d \notin Registered
    BY <1>6 DEF NewContext, storage
  <2>2. Launching' \subseteq Launching \cup {d}
    BY <1>0, <2>1 DEF Launching, Types
  <2> QED BY <1>1, <1>2, <2>1, <2>2 DEF Registered, Range
<1>7. ASSUME NEW t \in Threads, Register(t)
      PROVE  FALSE
  <2>1. ctx[t] \in Contexts /\ UNCHANGED <<handle, i, n, due>>
    BY <1>0, <1>7 DEF Register, Launches, Types
  <2>2. CASE Abort
    BY <1>4, <2>2 DEF Abort
  <2>3. ASSUME NEW g, \/ Enters(t, slot, Size, g)
                      \/ Doubles /\ Enters(t, Doubled, 2 * Size, g)
        PROVE  FALSE
    <3>1. Registered' = Registered \cup {ctx[t]}
      BY <1>0, <2>1, <2>3, EntersRegistered
    <3>2. Launching' = Launching
      BY <2>3 DEF Enters, Launching
    <3> QED BY <1>1, <1>2, <3>1, <3>2
  <2> QED BY <1>0, <1>7, <2>2, <2>3, RegisterCases
<1>8. ASSUME NEW t \in Threads, Publish(t)
      PROVE  FALSE
  <2>1. UNCHANGED slot /\ ctx' = [ctx EXCEPT ![t] = NULL]
    BY <1>8 DEF Publish, storage
  <2>2. Launching' \subseteq Launching
    BY <1>0, <2>1 DEF Launching, Types
  <2> QED BY <1>1, <1>2, <2>1, <2>2 DEF Registered, Range
<1>9. ASSUME NEW t \in Threads, NEW h \in Handles, Retire(t, h)
      PROVE  \A k \in DOMAIN names' : names'[k].handle # handle[c]
  BY <1>3, <1>9 DEF Retire, local, Published, Registered
<1>10. ASSUME NEW t \in Threads, SweepRetire(t)
       PROVE  \A k \in DOMAIN names' : names'[k].handle # handle[c]
  BY <1>3, <1>4, <1>10 DEF SweepRetire
<1>11. ASSUME NEW t \in Threads, \/ SweepStart(t) \/ SweepRead(t) \/ SweepEnd(t)
                                 \/ SweepReturn(t)
       PROVE  FALSE
  BY <1>4, <1>11 DEF SweepStart, SweepRead, SweepEnd, SweepReturn, storage
<1>12. ASSUME NEW t \in Threads, NEW h \in Handles, NEW name \in Names, NameHandle(t, h, name)
       PROVE  FALSE
  BY <1>4, <1>12 DEF NameHandle, local
<1> QED BY <1>5, <1>6, <1>7, <1>8, <1>9, <1>10, <1>11, <1>12 DEF Next

\* NamesExact, of skynet_handle_namehandle, _findname and _retire: the binary search
\* finds exactly the names set, and those of a service go with it.
THEOREM NamesAreExact == Spec => NamesExact
<1>1. Sorted /\ [Next]_vars => Sorted'
  BY SortedStep
<1>2. Spec => []Sorted
  BY <1>1, InitSorted, PTL DEF Spec
<1>3. Sorted => SearchComplete
  BY SortedComplete
<1>4. HandleInv /\ Sorted /\ [Next]_vars =>
        \A c \in Published : c \notin Published' =>
          \A k \in DOMAIN names' : names'[k].handle # handle[c]
  BY NamesLeave
<1> QED BY <1>2, <1>3, <1>4, HandleInvariant, PTL DEF Spec, NamesExact

-----------------------------------------------------------------------------
(* The types.                                                              *)

\* A sweep is at a slot of the table, or behind the last.
Walks == \A t \in Threads : /\ i[t] <= Size
                            /\ pc[t] = "sweepretire" => i[t] < Size

\* The table never shrinks.
LEMMA TableGrows ==
  ASSUME HandleInv, [Next]_vars
  PROVE  Size' \in Nat /\ Size <= Size'
<1>1. Types /\ Launches
  BY DEF HandleInv
<1>2. Size \in Nat /\ Size' \in Nat
  BY <1>1, TypesStep DEF Types
<1>3. CASE \A t \in Threads : ~Register(t)
  BY <1>1, <1>2, <1>3, TableKept, SameSize
<1>4. ASSUME NEW t \in Threads, Register(t)
      PROVE  Size <= Size'
  <2>1. ctx[t] \in Contexts /\ UNCHANGED <<handle, i, n, due>>
    BY <1>1, <1>4 DEF Register, Launches, Types
  <2>2. CASE Abort
    BY <1>2, <2>2, SameSize DEF Abort
  <2>3. ASSUME NEW h, Enters(t, slot, Size, h)
        PROVE  Size <= Size'
    BY <1>1, <1>2, <2>1, <2>3, EntersTypes
  <2>4. ASSUME NEW h, Enters(t, Doubled, 2 * Size, h)
        PROVE  Size <= Size'
    <3>1. Size' = 2 * Size
      BY <1>1, <2>1, <2>4, EntersTypes
    <3> QED BY <1>2, <3>1
  <2> QED BY <1>1, <1>4, <2>2, <2>3, <2>4, RegisterCases
<1> QED BY <1>2, <1>3, <1>4

LEMMA WalksStep ==
  ASSUME HandleInv, Walks, [Next]_vars
  PROVE  Walks'
<1>1. Types /\ Types' /\ Size \in Nat /\ Size' \in Nat /\ Size <= Size'
  BY TypesStep, TableGrows DEF HandleInv, Types
<1>2. /\ i \in [Threads -> Nat] /\ i' \in [Threads -> Nat]
      /\ pc \in [Threads -> PC]
  BY <1>1 DEF Types
<1>3. ASSUME UNCHANGED i,
             \A u \in Threads : pc'[u] = "sweepretire" => pc[u] = "sweepretire"
      PROVE  Walks'
  BY <1>1, <1>2, <1>3 DEF Walks
<1>4. CASE UNCHANGED vars
  BY <1>3, <1>4 DEF vars, local
<1>5. ASSUME NEW t \in Threads, \/ \E c \in Contexts : NewContext(t, c)
                                \/ Publish(t) \/ SweepStart(t) \/ SweepReturn(t)
      PROVE  Walks'
  BY <1>2, <1>3, <1>5 DEF NewContext, Publish, SweepStart, SweepReturn
<1>6. ASSUME NEW t \in Threads, Register(t)
      PROVE  Walks'
  BY <1>2, <1>3, <1>6 DEF Register, Enter, Abort
<1>7. ASSUME NEW t \in Threads, SweepRead(t)
      PROVE  Walks'
  BY <1>1, <1>2, <1>7 DEF SweepRead, Walks
<1>8. ASSUME NEW t \in Threads, SweepRetire(t)
      PROVE  Walks'
  BY <1>1, <1>2, <1>8 DEF SweepRetire, Walks
<1>9. ASSUME NEW t \in Threads, SweepEnd(t)
      PROVE  Walks'
  BY <1>1, <1>2, <1>9 DEF SweepEnd, Walks
<1>10. ASSUME NEW t \in Threads, NEW h \in Handles,
              Retire(t, h) \/ \E name \in Names : NameHandle(t, h, name)
       PROVE  Walks'
  BY <1>3, <1>10 DEF Retire, NameHandle, local
<1> QED BY <1>4, <1>5, <1>6, <1>7, <1>8, <1>9, <1>10 DEF Next

LEMMA InitWalks == Init => Walks
<1> SUFFICES ASSUME Init PROVE Walks
  OBVIOUS
<1>1. Size \in Nat
  BY InitHandle DEF HandleInv, Types
<1> QED BY <1>1 DEF Init, Walks

\* Every variable of the handle storage keeps its type: in particular the size of
\* the table divides the number of handles, so one hash serves all sizes, and a
\* sweep never reads behind the table.
THEOREM HandleTypes == Spec => []TypeOK
<1>1. Walks /\ HandleInv /\ [Next]_vars => Walks'
  BY WalksStep
<1>2. Sorted /\ [Next]_vars => Sorted'
  BY SortedStep
<1>3. Types /\ Sorted /\ Walks => TypeOK
  <2> SUFFICES ASSUME Types, Sorted, Walks PROVE TypeOK
    OBVIOUS
  <2>1. Size \in Nat \ {0} /\ Size <= Mask + 1
    BY MaskFacts, DivisorSmaller DEF Types
  <2>2. i \in [Threads -> 0..(Mask + 1)]
    BY <2>1, MaskFacts DEF Types, Walks
  <2> QED BY <2>2 DEF Types, Sorted, Entry, TypeOK, PC
<1>4. HandleInv => Types
  BY DEF HandleInv
<1> QED BY <1>1, <1>2, <1>3, <1>4, InitWalks, InitSorted, HandleInvariant, PTL DEF Spec

=============================================================================
