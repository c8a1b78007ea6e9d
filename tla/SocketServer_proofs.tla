------------------------- MODULE SocketServer_proofs -------------------------
(* Proofs about module SocketServer: what a peer is sent stays whole and in  *)
(* order; and, until an earlier socket of a slot is taken for a later one,   *)
(* no assertion fails, data waits for an event unless the socket was made by *)
(* bind, the last such event is the last, and ends are reported and final.   *)
EXTENDS SocketServer, FiniteSetTheorems, TLAPS

-----------------------------------------------------------------------------
(* Lists of parts.                                                         *)

\* The parts of message m in q are those after the first n, Size of them.
Block(q, n, m) ==
  /\ n + Size <= Len(q)
  /\ \A j \in 1..Len(q) : q[j] = m <=> (n < j /\ j <= n + Size)

\* Every message of q is there whole and in one piece.
Whole(q) == \A j \in 1..Len(q) : \E n \in Nat : Block(q, n, q[j])

\* Messages that are both in L, or both not in it, are in order.
InOrder(q, L) ==
  \A i, j \in 1..Len(q) : i < j /\ (q[i] \in L <=> q[j] \in L) => q[i] <= q[j]

\* No message has parts in a and parts in b.
Apart(a, b) == \A i \in 1..Len(a), j \in 1..Len(b) : a[i] # b[j]

\* Nothing is cut in two between part c and the next one.
Boundary(q, c) ==
  \A i, j \in 1..Len(q) : i <= c /\ c < j => q[i] # q[j]

Below(q, m) == \A j \in 1..Len(q) : q[j] < m

\* Two lists put together.
LEMMA Joined ==
  ASSUME NEW a \in Seq(Nat), NEW b \in Seq(Nat)
  PROVE  /\ a \o b \in Seq(Nat)
         /\ Len(a \o b) = Len(a) + Len(b)
         /\ \A j \in 1..Len(a) : (a \o b)[j] = a[j]
         /\ \A j \in 1..Len(b) : (a \o b)[Len(a) + j] = b[j]
         /\ \A j \in 1..(Len(a) + Len(b)) :
              j <= Len(a) \/ (j - Len(a) \in 1..Len(b) /\ (a \o b)[j] = b[j - Len(a)])
  OBVIOUS

\* Two lists of numbers with the same elements are the same.
LEMMA SameList ==
  ASSUME NEW a \in Seq(Nat), NEW b \in Seq(Nat), Len(a) = Len(b),
         \A j \in 1..Len(a) : a[j] = b[j]
  PROVE  a = b
  OBVIOUS

\* A list cut after part c.
LEMMA Cut ==
  ASSUME NEW q \in Seq(Nat), NEW c \in 0..Len(q)
  PROVE  /\ SubSeq(q, 1, c) \in Seq(Nat) /\ SubSeq(q, c + 1, Len(q)) \in Seq(Nat)
         /\ Len(SubSeq(q, 1, c)) = c
         /\ Len(SubSeq(q, c + 1, Len(q))) = Len(q) - c
         /\ \A j \in 1..c : SubSeq(q, 1, c)[j] = q[j]
         /\ \A j \in 1..(Len(q) - c) : SubSeq(q, c + 1, Len(q))[j] = q[c + j]
  OBVIOUS

\* Putting the pieces together again gives the list.
LEMMA CutJoined ==
  ASSUME NEW q \in Seq(Nat), NEW c \in 0..Len(q)
  PROVE  SubSeq(q, 1, c) \o SubSeq(q, c + 1, Len(q)) = q
<1> DEFINE a == SubSeq(q, 1, c)
           b == SubSeq(q, c + 1, Len(q))
<1>1. /\ a \in Seq(Nat) /\ b \in Seq(Nat)
      /\ Len(a) = c /\ Len(b) = Len(q) - c
      /\ \A j \in 1..c : a[j] = q[j]
      /\ \A j \in 1..(Len(q) - c) : b[j] = q[c + j]
  BY Cut
<1> HIDE DEF a, b
<1>2. a \o b \in Seq(Nat) /\ Len(a \o b) = Len(q)
  BY <1>1, Joined, SMTT(30)
<1>3. ASSUME NEW j \in 1..Len(q) PROVE (a \o b)[j] = q[j]
  <2>1. CASE j <= c
    BY <1>1, <2>1, Joined
  <2>2. CASE c < j
    <3>1. j - c \in 1..(Len(q) - c) /\ (a \o b)[j] = b[j - c]
      BY <1>1, <2>2, Joined, SMTT(30)
    <3> QED
      BY <1>1, <3>1
  <2>3. j <= c \/ c < j
    <3>1. c \in Int /\ j \in Int
      OBVIOUS
    <3> QED
      BY <3>1
  <2> QED
    BY <2>1, <2>2, <2>3
<1>4. a \o b = q
  BY <1>2, <1>3, SameList
<1> QED
  BY <1>4 DEF a, b

\* Concatenation is associative.
LEMMA JoinedTwice ==
  ASSUME NEW a \in Seq(Nat), NEW b \in Seq(Nat), NEW c \in Seq(Nat)
  PROVE  (a \o b) \o c = a \o (b \o c)
<1>1. /\ (a \o b) \o c \in Seq(Nat) /\ a \o (b \o c) \in Seq(Nat)
      /\ Len((a \o b) \o c) = Len(a \o (b \o c))
  BY Joined
<1>2. ASSUME NEW j \in 1..Len((a \o b) \o c)
      PROVE  ((a \o b) \o c)[j] = (a \o (b \o c))[j]
  <2> DEFINE ab == a \o b
             bc == b \o c
  <2>1. /\ ab \in Seq(Nat) /\ bc \in Seq(Nat)
        /\ Len(ab) = Len(a) + Len(b) /\ Len(bc) = Len(b) + Len(c)
        /\ Len(ab \o c) = Len(ab) + Len(c)
        /\ Len(a) \in Nat /\ Len(b) \in Nat /\ Len(c) \in Nat
    BY Joined
  <2>2. /\ \A l \in 1..Len(a) : ab[l] = a[l] /\ (a \o bc)[l] = a[l]
        /\ \A l \in 1..Len(b) : ab[Len(a) + l] = b[l] /\ bc[l] = b[l]
        /\ \A l \in 1..Len(bc) : (a \o bc)[Len(a) + l] = bc[l]
        /\ \A l \in 1..Len(ab) : (ab \o c)[l] = ab[l]
        /\ \A l \in 1..Len(c) : (ab \o c)[Len(ab) + l] = c[l] /\ bc[Len(b) + l] = c[l]
    BY <2>1, Joined
  <2>3. j \in 1..(Len(a) + Len(b) + Len(c))
    BY <2>1
  <2> HIDE DEF ab, bc
  <2>4. CASE j <= Len(a)
    <3>1. j \in 1..Len(a) /\ j \in 1..Len(ab)
      BY <2>1, <2>3, <2>4
    <3> QED
      BY <3>1, <2>2 DEF ab, bc
  <2>5. CASE Len(a) < j /\ j <= Len(a) + Len(b)
    <3>1. PICK l \in 1..Len(b) : j = Len(a) + l
      <4>1. j - Len(a) \in 1..Len(b) /\ j = Len(a) + (j - Len(a))
        BY <2>1, <2>3, <2>5
      <4> QED
        BY <4>1
    <3>2. l \in 1..Len(bc) /\ j \in 1..Len(ab)
      BY <2>1, <2>3, <2>5
    <3>3. (ab \o c)[j] = b[l] /\ (a \o bc)[j] = b[l]
      BY <3>1, <3>2, <2>2
    <3> QED
      BY <3>3 DEF ab, bc
  <2>6. CASE Len(a) + Len(b) < j
    <3>1. PICK l \in 1..Len(c) : j = Len(a) + Len(b) + l
      <4>1. /\ j - (Len(a) + Len(b)) \in 1..Len(c)
            /\ j = Len(a) + Len(b) + (j - (Len(a) + Len(b)))
        BY <2>1, <2>3, <2>6
      <4> QED
        BY <4>1
    <3>2. /\ Len(b) + l \in 1..Len(bc) /\ j = Len(a) + (Len(b) + l)
          /\ j = Len(ab) + l
      BY <2>1, <3>1
    <3>3. (ab \o c)[j] = c[l] /\ (a \o bc)[j] = c[l]
      BY <3>1, <3>2, <2>2
    <3> QED
      BY <3>3 DEF ab, bc
  <2> QED
    BY <2>1, <2>3, <2>4, <2>5, <2>6
<1> QED
  BY <1>1, <1>2, SameList

\* Whole messages put after whole messages.
LEMMA WholeJoined ==
  ASSUME NEW a \in Seq(Nat), NEW b \in Seq(Nat), Whole(a), Whole(b), Apart(a, b)
  PROVE  Whole(a \o b)
<1>s. Size \in Nat \ {0}
  BY SocketAssumption
<1> USE <1>s
<1> SUFFICES ASSUME NEW j \in 1..Len(a \o b)
             PROVE  \E n \in Nat : Block(a \o b, n, (a \o b)[j])
  BY DEF Whole
<1>a. ASSUME NEW n \in Nat, NEW m, m = (a \o b)[j], n + Size <= Len(a \o b),
             \A l \in 1..Len(a \o b) : (a \o b)[l] = m <=> (n < l /\ l <= n + Size)
      PROVE  \E x \in Nat : Block(a \o b, x, (a \o b)[j])
  BY <1>a DEF Block
<1>0. /\ a \o b \in Seq(Nat) /\ Len(a \o b) = Len(a) + Len(b)
      /\ Len(a) \in Nat /\ Len(b) \in Nat
  BY Joined
<1>1. CASE j <= Len(a)
  <2>1. j \in 1..Len(a) /\ (a \o b)[j] = a[j]
    BY <1>1, <1>0, Joined
  <2>2. PICK n \in Nat : Block(a, n, a[j])
    BY <2>1 DEF Whole
  <2>3. ASSUME NEW l \in 1..Len(a \o b)
        PROVE  (a \o b)[l] = a[j] <=> (n < l /\ l <= n + Size)
    <3>1. CASE l <= Len(a)
      BY <3>1, <1>0, <2>2, Joined DEF Block
    <3>2. CASE Len(a) < l
      <4>1. l - Len(a) \in 1..Len(b) /\ (a \o b)[l] = b[l - Len(a)]
        BY <3>2, <1>0, Joined
      <4> QED
        BY <4>1, <3>2, <2>1, <2>2, <1>0 DEF Block, Apart
    <3> QED
      BY <3>1, <3>2, <1>0
  <2>4. n + Size <= Len(a \o b)
    BY <2>2, <1>0 DEF Block
  <2> QED
    BY <2>1, <2>3, <2>4, <1>a
<1>2. CASE Len(a) < j
  <2>1. j - Len(a) \in 1..Len(b) /\ (a \o b)[j] = b[j - Len(a)]
    BY <1>2, <1>0, Joined
  <2>2. PICK n \in Nat : Block(b, n, b[j - Len(a)])
    BY <2>1 DEF Whole
  <2>3. ASSUME NEW l \in 1..Len(a \o b)
        PROVE  (a \o b)[l] = b[j - Len(a)] <=>
                 (n + Len(a) < l /\ l <= n + Len(a) + Size)
    <3>1. CASE l <= Len(a)
      BY <3>1, <1>0, <2>1, Joined DEF Apart
    <3>2. CASE Len(a) < l
      <4>1. l - Len(a) \in 1..Len(b) /\ (a \o b)[l] = b[l - Len(a)]
        BY <3>2, <1>0, Joined
      <4>2. b[l - Len(a)] = b[j - Len(a)] <=>
              (n < l - Len(a) /\ l - Len(a) <= n + Size)
        BY <4>1, <2>2 DEF Block
      <4> QED
        BY <4>1, <4>2, <1>0
    <3> QED
      BY <3>1, <3>2, <1>0
  <2>4. n + Len(a) \in Nat /\ n + Len(a) + Size <= Len(a \o b)
    BY <2>2, <1>0 DEF Block
  <2> QED
    BY <2>1, <2>3, <2>4, <1>a
<1> QED
  BY <1>1, <1>2, <1>0

\* The two pieces of a list of whole messages that is cut between messages.
LEMMA WholeCut ==
  ASSUME NEW q \in Seq(Nat), NEW c \in 0..Len(q), Whole(q), Boundary(q, c)
  PROVE  Whole(SubSeq(q, 1, c)) /\ Whole(SubSeq(q, c + 1, Len(q)))
<1>s. Size \in Nat \ {0}
  BY SocketAssumption
<1> USE <1>s
<1> DEFINE a == SubSeq(q, 1, c)
           b == SubSeq(q, c + 1, Len(q))
<1>0. /\ a \in Seq(Nat) /\ b \in Seq(Nat)
      /\ Len(a) = c /\ Len(b) = Len(q) - c
      /\ \A j \in 1..c : a[j] = q[j]
      /\ \A j \in 1..(Len(q) - c) : b[j] = q[c + j]
  BY Cut
<1> HIDE DEF a, b
<1>1. ASSUME NEW j \in 1..Len(a) PROVE \E n \in Nat : Block(a, n, a[j])
  <2>0. j \in 1..c
    BY <1>0
  <2>1. j \in 1..Len(q) /\ a[j] = q[j]
    <3>1. j \in 1..Len(q)
      BY <2>0, SMTT(30)
    <3>2. a[j] = q[j]
      BY <2>0, <1>0, SMTT(30)
    <3> QED
      BY <3>1, <3>2
  <2>2. PICK n \in Nat : Block(q, n, q[j])
    BY <2>1 DEF Whole
  <2>3. n + Size <= c
    <3>1. n + Size \in 1..Len(q) /\ q[n + Size] = q[j]
      BY <2>2 DEF Block
    <3> QED
      BY <3>1, <2>1, <1>0 DEF Boundary
  <2>4. ASSUME NEW l \in 1..Len(a)
        PROVE  a[l] = a[j] <=> (n < l /\ l <= n + Size)
    <3>1. l \in 1..Len(q) /\ a[l] = q[l]
      BY <1>0
    <3> QED
      BY <3>1, <2>1, <2>2 DEF Block
  <2>5. Block(a, n, a[j])
    BY <1>0, <2>3, <2>4 DEF Block
  <2> QED
    BY <2>5
<1>2. ASSUME NEW j \in 1..Len(b) PROVE \E n \in Nat : Block(b, n, b[j])
  <2>1. c + j \in 1..Len(q) /\ b[j] = q[c + j]
    BY <1>0
  <2>2. PICK n \in Nat : Block(q, n, q[c + j])
    BY <2>1 DEF Whole
  <2>3. c <= n
    <3>1. n + 1 \in 1..Len(q) /\ q[n + 1] = q[c + j]
      BY <2>2 DEF Block
    <3> QED
      BY <3>1, <2>1, <1>0 DEF Boundary
  <2>4. ASSUME NEW l \in 1..Len(b)
        PROVE  b[l] = b[j] <=> (n - c < l /\ l <= n - c + Size)
    <3>1. c + l \in 1..Len(q) /\ b[l] = q[c + l]
      BY <1>0
    <3>2. q[c + l] = q[c + j] <=> (n < c + l /\ c + l <= n + Size)
      BY <3>1, <2>2 DEF Block
    <3> QED
      BY <3>1, <3>2, <2>1, <1>0
  <2>5. n - c \in Nat /\ n - c + Size <= Len(b)
    BY <1>0, <2>2, <2>3 DEF Block
  <2>6. Block(b, n - c, b[j])
    BY <2>4, <2>5 DEF Block
  <2> QED
    BY <2>5, <2>6
<1>3. Whole(a) /\ Whole(b)
  BY <1>1, <1>2 DEF Whole
<1> QED
  BY <1>3 DEF a, b

\* The parts of one message.
LEMMA PartsWhole ==
  ASSUME NEW m \in Nat
  PROVE  /\ Parts(m) \in Seq(Nat) /\ Len(Parts(m)) = Size
         /\ \A j \in 1..Size : Parts(m)[j] = m
         /\ Whole(Parts(m))
<1>s. Size \in Nat \ {0}
  BY SocketAssumption
<1> USE <1>s
<1>1. /\ Parts(m) \in Seq(Nat) /\ Len(Parts(m)) = Size
      /\ \A j \in 1..Size : Parts(m)[j] = m
  BY DEF Parts
<1>2. Block(Parts(m), 0, m)
  BY <1>1 DEF Block
<1> QED
  BY <1>1, <1>2 DEF Whole

\* No list is uncomplete whose messages are whole.
LEMMA WholeComplete ==
  ASSUME NEW q \in Seq(Nat), Whole(q)
  PROVE  ~Uncomplete(q)
<1>s. Size \in Nat \ {0}
  BY SocketAssumption
<1> USE <1>s
<1> SUFFICES ASSUME q # <<>> PROVE Rest(q) = Size
  BY DEF Uncomplete
<1>1. 1 \in 1..Len(q) /\ Head(q) = q[1] /\ DOMAIN q = 1..Len(q)
  OBVIOUS
<1>2. PICK n \in Nat : Block(q, n, q[1])
  BY <1>1 DEF Whole
<1>3. {j \in DOMAIN q : q[j] = Head(q)} = 1..Size
  BY <1>1, <1>2 DEF Block
<1>4. Cardinality(1..Size) = Size
  BY FS_Interval
<1> QED
  BY <1>3, <1>4 DEF Rest

\* What send_list leaves of a list of whole messages: with the rest of its head
\* taken off where a part of it is gone, it is cut between messages.
LEMMA CutRaised ==
  ASSUME NEW q \in Seq(Nat), Whole(q), NEW n \in 0..Len(q),
         NEW p, p = SubSeq(q, n + 1, Len(q))
  PROVE  /\ p \in Seq(Nat)
         /\ ~Uncomplete(p) => Boundary(q, n)
         /\ Uncomplete(p) => /\ Rest(p) \in 0..Len(p)
                             /\ n + Rest(p) \in 0..Len(q)
                             /\ Boundary(q, n + Rest(p))
<1>s. Size \in Nat \ {0}
  BY SocketAssumption
<1> USE <1>s
<1>0. /\ p \in Seq(Nat) /\ Len(p) = Len(q) - n /\ Len(q) \in Nat
      /\ \A j \in 1..(Len(q) - n) : p[j] = q[n + j]
  BY Cut
<1>1. CASE p = <<>>
  <2>1. Len(p) = 0
    <3>1. Len(<<>>) = 0
      OBVIOUS
    <3> QED
      BY <3>1, <1>1
  <2>2. n = Len(q)
    BY <2>1, <1>0
  <2> QED
    BY <2>2, <1>1, <1>0 DEF Boundary, Uncomplete
<1>2. CASE p # <<>>
  <2>1. n + 1 \in 1..Len(q) /\ Head(p) = q[n + 1] /\ DOMAIN p = 1..Len(p)
    BY <1>0, <1>2
  <2>2. PICK b \in Nat : Block(q, b, q[n + 1])
    BY <2>1 DEF Whole
  <2>3. b <= n /\ n < b + Size /\ b + Size <= Len(q)
    BY <2>1, <2>2 DEF Block
  <2>4. {j \in DOMAIN p : p[j] = Head(p)} = 1..(b + Size - n)
    <3>1. ASSUME NEW j \in 1..Len(p)
          PROVE  p[j] = Head(p) <=> j <= b + Size - n
      <4>0. j \in 1..(Len(q) - n)
        BY <1>0
      <4>1. n + j \in 1..Len(q) /\ p[j] = q[n + j]
        <5>1. n + j \in 1..Len(q)
          BY <4>0, SMTT(30)
        <5>2. p[j] = q[n + j]
          BY <4>0, <1>0, SMTT(30)
        <5> QED
          BY <5>1, <5>2
      <4>2. q[n + j] = q[n + 1] <=> (b < n + j /\ n + j <= b + Size)
        BY <4>1, <2>2 DEF Block
      <4> QED
        BY <4>1, <4>2, <2>1, <2>3
    <3>2. ASSUME NEW j \in 1..Len(p), p[j] = Head(p)
          PROVE  j \in 1..(b + Size - n)
      <4>1. j <= b + Size - n /\ j \in Nat /\ 1 <= j
        BY <3>1, <3>2
      <4> QED
        BY <4>1, <2>3
    <3>3. ASSUME NEW j \in 1..(b + Size - n)
          PROVE  j \in 1..Len(p) /\ p[j] = Head(p)
      <4>1. j \in 1..Len(p) /\ j <= b + Size - n
        BY <1>0, <2>3
      <4> QED
        BY <4>1, <3>1
    <3>5. {l \in 1..Len(p) : p[l] = Head(p)} = 1..(b + Size - n)
      BY <3>2, <3>3, Zenon
    <3> QED
      BY <2>1, <3>5
  <2>5. Rest(p) = b + Size - n
    <3>1. Cardinality(1..(b + Size - n)) = b + Size - n
      <4>1. 1 \in Int /\ b + Size - n \in Int /\ 1 <= b + Size - n
        BY <2>3
      <4>2. b + Size - n - 1 + 1 = b + Size - n
        BY <2>3
      <4> QED
        BY <4>1, <4>2, FS_Interval
    <3> QED
      BY <3>1, <2>4 DEF Rest
  <2>6. Boundary(q, b) /\ Boundary(q, b + Size)
    <3>1. ASSUME NEW c \in {b, b + Size}, NEW i \in 1..Len(q), NEW j \in 1..Len(q),
                 i <= c, c < j, q[i] = q[j]
          PROVE  FALSE
      <4>1. PICK x \in Nat : Block(q, x, q[i])
        BY DEF Whole
      <4>2. x < i /\ j <= x + Size
        BY <4>1, <3>1 DEF Block
      <4>3. b + 1 \in 1..Len(q) /\ b + Size \in 1..Len(q)
        BY <2>3
      <4>4. q[b + 1] = q[n + 1] /\ q[b + Size] = q[n + 1]
        BY <4>3, <2>2 DEF Block
      <4>5. c \in 1..Len(q) /\ q[c] = q[i]
        <5>1. c \in Nat /\ x < c /\ c <= x + Size /\ x + Size <= Len(q)
          BY <4>1, <4>2, <3>1 DEF Block
        <5>2. c \in 1..Len(q)
          BY <5>1
        <5> QED
          BY <5>1, <5>2, <4>1 DEF Block
      <4>6. CASE c = b
        <5>1. b + 1 \in 1..Len(q) /\ q[b + 1] = q[i]
          BY <4>1, <4>2, <4>3, <4>6, <3>1 DEF Block
        <5>2. q[b] = q[n + 1]
          BY <5>1, <4>4, <4>5, <4>6
        <5> QED
          BY <5>2, <4>5, <4>6, <2>2 DEF Block
      <4>7. CASE c = b + Size
        <5>1. q[i] = q[n + 1]
          BY <4>4, <4>5, <4>7
        <5>2. q[j] = q[n + 1]
          BY <5>1, <3>1
        <5> QED
          BY <5>2, <4>7, <3>1, <2>2 DEF Block
      <4> QED
        BY <4>6, <4>7
    <3> QED
      BY <3>1 DEF Boundary
  <2>7. ~Uncomplete(p) => b = n
    BY <2>3, <2>5, <1>2 DEF Uncomplete
  <2>8. /\ Rest(p) \in 0..Len(p) /\ n + Rest(p) = b + Size
        /\ b + Size \in 0..Len(q)
    <3>1. b + Size - n \in 0..(Len(q) - n) /\ n + (b + Size - n) = b + Size
      BY <2>3, <1>0
    <3>2. b + Size \in 0..Len(q)
      BY <2>3, <1>0
    <3> QED
      BY <2>5, <3>1, <3>2, <1>0
  <2> QED
    BY <1>0, <2>3, <2>6, <2>7, <2>8
<1> QED
  BY <1>0, <1>1, <1>2

\* Where a list put together comes from.
LEMMA FromEither ==
  ASSUME NEW a \in Seq(Nat), NEW b \in Seq(Nat), NEW j \in 1..Len(a \o b)
  PROVE  \/ j \in 1..Len(a) /\ (a \o b)[j] = a[j]
         \/ Len(a) < j /\ \E l \in 1..Len(b) : j = Len(a) + l /\ (a \o b)[j] = b[l]
<1>1. Len(a) \in Nat /\ Len(b) \in Nat /\ Len(a \o b) = Len(a) + Len(b)
  BY Joined
<1>2. CASE j <= Len(a)
  BY <1>1, <1>2, Joined
<1>3. CASE Len(a) < j
  <2>1. j - Len(a) \in 1..Len(b) /\ j = Len(a) + (j - Len(a))
    BY <1>1, <1>3
  <2> QED
    BY <2>1, <1>3, Joined
<1>4. j <= Len(a) \/ Len(a) < j
  BY <1>1
<1> QED
  BY <1>2, <1>3, <1>4

LEMMA BelowJoined ==
  ASSUME NEW a \in Seq(Nat), NEW b \in Seq(Nat), NEW m, Below(a, m), Below(b, m)
  PROVE  Below(a \o b, m)
  BY FromEither DEF Below

LEMMA BelowCut ==
  ASSUME NEW q \in Seq(Nat), NEW c \in 0..Len(q), NEW m, Below(q, m)
  PROVE  Below(SubSeq(q, 1, c), m) /\ Below(SubSeq(q, c + 1, Len(q)), m)
<1>1. Len(q) \in Nat /\ \A j \in 1..(Len(q) - c) : c + j \in 1..Len(q)
  OBVIOUS
<1>2. \A j \in 1..c : j \in 1..Len(q)
  BY <1>1
<1> QED
  BY <1>1, <1>2, Cut, SMTT(30) DEF Below

LEMMA BelowParts ==
  ASSUME NEW m \in Nat, NEW x \in Nat, m < x
  PROVE  Below(Parts(m), x)
  BY PartsWhole DEF Below

\* Two lists in order, the second after the first.
LEMMA OrderJoined ==
  ASSUME NEW a \in Seq(Nat), NEW b \in Seq(Nat), NEW L, InOrder(a, L), InOrder(b, L),
         \A i \in 1..Len(a), j \in 1..Len(b) : (a[i] \in L <=> b[j] \in L) => a[i] <= b[j]
  PROVE  InOrder(a \o b, L)
<1> DEFINE ab == a \o b
<1> SUFFICES ASSUME NEW i \in 1..Len(ab), NEW j \in 1..Len(ab), i < j,
                    ab[i] \in L <=> ab[j] \in L
             PROVE  ab[i] <= ab[j]
  BY DEF InOrder
<1>0. Len(a) \in Nat /\ Len(b) \in Nat /\ Len(ab) = Len(a) + Len(b)
  BY Joined
<1>1. \/ i \in 1..Len(a) /\ ab[i] = a[i]
      \/ Len(a) < i /\ \E l \in 1..Len(b) : i = Len(a) + l /\ ab[i] = b[l]
  BY FromEither
<1>2. \/ j \in 1..Len(a) /\ ab[j] = a[j]
      \/ Len(a) < j /\ \E l \in 1..Len(b) : j = Len(a) + l /\ ab[j] = b[l]
  BY FromEither
<1> HIDE DEF ab
<1>3. CASE i \in 1..Len(a) /\ ab[i] = a[i] /\ j \in 1..Len(a) /\ ab[j] = a[j]
  BY <1>3 DEF InOrder
<1>4. CASE /\ i \in 1..Len(a) /\ ab[i] = a[i]
           /\ \E l \in 1..Len(b) : j = Len(a) + l /\ ab[j] = b[l]
  BY <1>4
<1>5. CASE /\ Len(a) < i /\ \E l \in 1..Len(b) : i = Len(a) + l /\ ab[i] = b[l]
           /\ Len(a) < j /\ \E l \in 1..Len(b) : j = Len(a) + l /\ ab[j] = b[l]
  <2>1. PICK k \in 1..Len(b) : i = Len(a) + k /\ ab[i] = b[k]
    BY <1>5
  <2>2. PICK l \in 1..Len(b) : j = Len(a) + l /\ ab[j] = b[l]
    BY <1>5
  <2>3. k < l
    BY <2>1, <2>2, <1>0
  <2> QED
    BY <2>1, <2>2, <2>3 DEF InOrder
<1>6. ~(Len(a) < i /\ j \in 1..Len(a))
  BY <1>0
<1> QED
  BY <1>1, <1>2, <1>3, <1>4, <1>5, <1>6

LEMMA OrderCut ==
  ASSUME NEW q \in Seq(Nat), NEW c \in 0..Len(q), NEW L, InOrder(q, L)
  PROVE  InOrder(SubSeq(q, 1, c), L) /\ InOrder(SubSeq(q, c + 1, Len(q)), L)
<1> DEFINE a == SubSeq(q, 1, c)
           b == SubSeq(q, c + 1, Len(q))
<1>0. /\ Len(a) = c /\ Len(b) = Len(q) - c /\ Len(q) \in Nat
      /\ \A j \in 1..c : a[j] = q[j]
      /\ \A j \in 1..(Len(q) - c) : b[j] = q[c + j]
  BY Cut
<1> HIDE DEF a, b
<1>1. \A j \in 1..c : j \in 1..Len(q)
  BY <1>0
<1>2. InOrder(a, L)
  BY <1>0, <1>1 DEF InOrder
<1>3. ASSUME NEW i \in 1..Len(b), NEW j \in 1..Len(b), i < j, b[i] \in L <=> b[j] \in L
      PROVE  b[i] <= b[j]
  <2>1. c + i \in 1..Len(q) /\ c + j \in 1..Len(q) /\ c + i < c + j
    BY <1>0, <1>3
  <2>2. b[i] = q[c + i] /\ b[j] = q[c + j]
    BY <1>0
  <2> QED
    BY <2>1, <2>2, <1>3 DEF InOrder
<1>4. InOrder(b, L)
  BY <1>3 DEF InOrder
<1> QED
  BY <1>2, <1>4 DEF a, b

-----------------------------------------------------------------------------
(* The stream of a socket.  What has been written and the high list are one  *)
(* list of whole messages, the low list is another, and each low message of  *)
(* the first was sent before those of the second.                            *)

Stream(h, l, L) ==
  /\ Whole(h) /\ Whole(l)
  /\ InOrder(h, L) /\ InOrder(l, L)
  /\ \A j \in 1..Len(l) : l[j] \in L
  /\ \A i \in 1..Len(h), j \in 1..Len(l) : h[i] \in L => h[i] < l[j]

\* Nothing is written and nothing waits.
LEMMA StreamEmpty ==
  ASSUME NEW L
  PROVE  Stream(<<>>, <<>>, L)
<1>1. Len(<<>>) = 0
  OBVIOUS
<1> QED
  BY <1>1 DEF Stream, Whole, InOrder

\* No message has parts in both lists.
LEMMA StreamApart ==
  ASSUME NEW h \in Seq(Nat), NEW l \in Seq(Nat), NEW L, Stream(h, l, L)
  PROVE  Apart(h, l)
<1> SUFFICES ASSUME NEW i \in 1..Len(h), NEW j \in 1..Len(l), h[i] = l[j] PROVE FALSE
  BY DEF Apart
<1>1. l[j] \in L /\ h[i] < l[j] /\ h[i] \in Nat
  BY DEF Stream
<1> QED
  BY <1>1

\* What StreamOrder says of the bytes of a socket.
LEMMA StreamBytes ==
  ASSUME NEW h \in Seq(Nat), NEW l \in Seq(Nat), NEW L, Stream(h, l, L),
         NEW b, b = h \o l
  PROVE  /\ \A m \in Range(b) : \E n \in 0..(Len(b) - Size) :
              {j \in DOMAIN b : b[j] = m} = (n + 1)..(n + Size)
         /\ \A i, j \in DOMAIN b : i < j /\ (b[i] \in L <=> b[j] \in L) => b[i] <= b[j]
<1>s. Size \in Nat \ {0}
  BY SocketAssumption
<1> USE <1>s
<1>0. b \in Seq(Nat) /\ DOMAIN b = 1..Len(b) /\ Len(b) \in Nat
  BY Joined
<1>1. Whole(b)
  BY StreamApart, WholeJoined DEF Stream
<1>2. InOrder(b, L)
  <2>1. \A i \in 1..Len(h), j \in 1..Len(l) :
          (h[i] \in L <=> l[j] \in L) => h[i] <= l[j]
    <3> SUFFICES ASSUME NEW i \in 1..Len(h), NEW j \in 1..Len(l),
                        h[i] \in L <=> l[j] \in L
                 PROVE  h[i] <= l[j]
      OBVIOUS
    <3>1. h[i] < l[j] /\ h[i] \in Nat /\ l[j] \in Nat
      BY DEF Stream
    <3> QED
      BY <3>1
  <2> QED
    BY <2>1, OrderJoined DEF Stream
<1>3. ASSUME NEW m \in Range(b)
      PROVE  \E n \in 0..(Len(b) - Size) :
               {j \in DOMAIN b : b[j] = m} = (n + 1)..(n + Size)
  <2>1. PICK x \in 1..Len(b) : b[x] = m
    BY <1>0 DEF Range
  <2>2. PICK n \in Nat : Block(b, n, m)
    BY <1>1, <2>1 DEF Whole
  <2>3. n \in 0..(Len(b) - Size)
    BY <1>0, <2>2 DEF Block
  <2>4. ASSUME NEW j \in 1..Len(b), b[j] = m PROVE j \in (n + 1)..(n + Size)
    BY <2>2, <2>4, <1>0 DEF Block
  <2>5. ASSUME NEW j \in (n + 1)..(n + Size) PROVE j \in 1..Len(b) /\ b[j] = m
    <3>1. j \in 1..Len(b) /\ n < j /\ j <= n + Size
      BY <2>3, <1>0
    <3> QED
      BY <3>1, <2>2 DEF Block
  <2>6. {j \in 1..Len(b) : b[j] = m} = (n + 1)..(n + Size)
    BY <2>4, <2>5, Zenon
  <2> QED
    BY <2>3, <2>6, <1>0
<1> QED
  BY <1>0, <1>2, <1>3 DEF InOrder

\* A message later than all goes to the end of the first list, if it has high
\* priority or nothing waits in the low list.
LEMMA StreamHigh ==
  ASSUME NEW h \in Seq(Nat), NEW l \in Seq(Nat), NEW L, Stream(h, l, L),
         NEW m \in Nat, Below(h, m), Below(l, m), m \notin L \/ l = <<>>
  PROVE  Stream(h \o Parts(m), l, L)
<1>s. Size \in Nat \ {0}
  BY SocketAssumption
<1> USE <1>s
<1> DEFINE p == Parts(m)
<1>0. /\ p \in Seq(Nat) /\ Len(p) = Size /\ Whole(p)
      /\ \A j \in 1..Len(p) : p[j] = m
  BY PartsWhole
<1> HIDE DEF p
<1>1. Apart(h, p)
  <2> SUFFICES ASSUME NEW i \in 1..Len(h), NEW j \in 1..Len(p), h[i] = p[j] PROVE FALSE
    BY DEF Apart
  <2>1. h[i] < m /\ p[j] = m
    BY <1>0 DEF Below
  <2> QED
    BY <2>1
<1>2. Whole(h \o p)
  BY <1>0, <1>1, WholeJoined DEF Stream
<1>3. InOrder(h \o p, L)
  <2>1. InOrder(p, L)
    BY <1>0 DEF InOrder
  <2>2. ASSUME NEW i \in 1..Len(h), NEW j \in 1..Len(p) PROVE h[i] <= p[j]
    <3>1. h[i] < m /\ p[j] = m /\ h[i] \in Nat
      BY <1>0 DEF Below
    <3> QED
      BY <3>1
  <2> QED
    BY <1>0, <2>1, <2>2, OrderJoined DEF Stream
<1>4. ASSUME NEW i \in 1..Len(h \o p), NEW j \in 1..Len(l), (h \o p)[i] \in L
      PROVE  (h \o p)[i] < l[j]
  <2>1. l # <<>>
    <3>1. Len(<<>>) = 0
      OBVIOUS
    <3> QED
      BY <3>1
  <2>2. m \notin L
    BY <2>1
  <2>3. \/ i \in 1..Len(h) /\ (h \o p)[i] = h[i]
        \/ \E x \in 1..Len(p) : (h \o p)[i] = p[x]
    BY <1>0, FromEither
  <2> QED
    BY <2>2, <2>3, <1>0, <1>4 DEF Stream
<1>5. Stream(h \o p, l, L)
  BY <1>2, <1>3, <1>4 DEF Stream
<1> QED
  BY <1>5 DEF p

\* A message of low priority, later than all, goes to the end of the low list.
LEMMA StreamLow ==
  ASSUME NEW h \in Seq(Nat), NEW l \in Seq(Nat), NEW L, Stream(h, l, L),
         NEW m \in Nat, Below(h, m), Below(l, m), m \in L
  PROVE  Stream(h, l \o Parts(m), L)
<1>s. Size \in Nat \ {0}
  BY SocketAssumption
<1> USE <1>s
<1> DEFINE p == Parts(m)
<1>0. /\ p \in Seq(Nat) /\ Len(p) = Size /\ Whole(p)
      /\ \A j \in 1..Len(p) : p[j] = m
  BY PartsWhole
<1> HIDE DEF p
<1>1. Apart(l, p)
  <2> SUFFICES ASSUME NEW i \in 1..Len(l), NEW j \in 1..Len(p), l[i] = p[j] PROVE FALSE
    BY DEF Apart
  <2>1. l[i] < m /\ p[j] = m
    BY <1>0 DEF Below
  <2> QED
    BY <2>1
<1>2. Whole(l \o p)
  BY <1>0, <1>1, WholeJoined DEF Stream
<1>3. InOrder(l \o p, L)
  <2>1. InOrder(p, L)
    BY <1>0 DEF InOrder
  <2>2. ASSUME NEW i \in 1..Len(l), NEW j \in 1..Len(p) PROVE l[i] <= p[j]
    <3>1. l[i] < m /\ p[j] = m /\ l[i] \in Nat
      BY <1>0 DEF Below
    <3> QED
      BY <3>1
  <2> QED
    BY <1>0, <2>1, <2>2, OrderJoined DEF Stream
<1>4. ASSUME NEW j \in 1..Len(l \o p)
      PROVE  /\ (l \o p)[j] \in L
             /\ \A i \in 1..Len(h) : h[i] \in L => h[i] < (l \o p)[j]
  <2>1. \/ j \in 1..Len(l) /\ (l \o p)[j] = l[j]
        \/ (l \o p)[j] = m
    BY <1>0, FromEither
  <2> QED
    BY <2>1 DEF Stream, Below
<1>5. Stream(h, l \o p, L)
  BY <1>2, <1>3, <1>4 DEF Stream
<1> QED
  BY <1>5 DEF p

\* Whole messages move from the head of the low list to the end of the first.
LEMMA StreamShift ==
  ASSUME NEW h \in Seq(Nat), NEW l \in Seq(Nat), NEW L, Stream(h, l, L),
         NEW c \in 0..Len(l), Boundary(l, c)
  PROVE  Stream(h \o SubSeq(l, 1, c), SubSeq(l, c + 1, Len(l)), L)
<1> DEFINE a == SubSeq(l, 1, c)
           b == SubSeq(l, c + 1, Len(l))
<1>0. /\ a \in Seq(Nat) /\ b \in Seq(Nat)
      /\ Len(a) = c /\ Len(b) = Len(l) - c /\ Len(l) \in Nat
      /\ \A j \in 1..c : a[j] = l[j]
      /\ \A j \in 1..(Len(l) - c) : b[j] = l[c + j]
  <2>1. Len(l) \in Nat
    OBVIOUS
  <2> QED
    BY <2>1, Cut, Zenon
<1>1. Whole(a) /\ Whole(b)
  BY WholeCut DEF Stream
<1>2. InOrder(a, L) /\ InOrder(b, L)
  BY OrderCut DEF Stream
<1> HIDE DEF a, b
<1>3. /\ \A j \in 1..Len(a) : j \in 1..Len(l) /\ a[j] = l[j]
      /\ \A j \in 1..Len(b) : c + j \in 1..Len(l) /\ b[j] = l[c + j]
  BY <1>0, SMTT(30)
<1>4. Apart(h, a)
  <2>1. Apart(h, l)
    BY StreamApart
  <2> QED
    BY <1>3, <2>1 DEF Apart
<1>5. Whole(h \o a)
  <2>1. Whole(h)
    BY DEF Stream
  <2> QED
    BY <1>0, <1>1, <1>4, <2>1, WholeJoined
<1>6. ASSUME NEW i \in 1..Len(h), NEW j \in 1..Len(l), h[i] \in L PROVE h[i] <= l[j]
  <2>1. h[i] < l[j] /\ h[i] \in Nat /\ l[j] \in Nat
    BY <1>6 DEF Stream
  <2> QED
    BY <2>1
<1>7. InOrder(h \o a, L)
  <2>1. ASSUME NEW i \in 1..Len(h), NEW j \in 1..Len(a), h[i] \in L <=> a[j] \in L
        PROVE  h[i] <= a[j]
    <3>1. j \in 1..Len(l) /\ a[j] = l[j] /\ a[j] \in L
      BY <1>3 DEF Stream
    <3> QED
      BY <3>1, <2>1, <1>6
  <2> QED
    BY <1>0, <1>2, <2>1, OrderJoined DEF Stream
<1>8. \A j \in 1..Len(b) : b[j] \in L
  BY <1>3 DEF Stream
<1>9. ASSUME NEW i \in 1..Len(h \o a), NEW j \in 1..Len(b), (h \o a)[i] \in L
      PROVE  (h \o a)[i] < b[j]
  <2>1. c + j \in 1..Len(l) /\ b[j] = l[c + j]
    BY <1>3
  <2>2. \/ i \in 1..Len(h) /\ (h \o a)[i] = h[i]
        \/ \E x \in 1..Len(a) : (h \o a)[i] = a[x]
    BY <1>0, FromEither
  <2>3. CASE i \in 1..Len(h) /\ (h \o a)[i] = h[i]
    BY <2>1, <2>3, <1>9 DEF Stream
  <2>4. CASE \E x \in 1..Len(a) : (h \o a)[i] = a[x]
    <3>1. PICK x \in 1..Len(a) : (h \o a)[i] = a[x]
      BY <2>4
    <3>2. x \in 1..Len(l) /\ a[x] = l[x] /\ x <= c
      BY <1>0, <1>3
    <3>3. x < c + j /\ l[x] \in L /\ l[c + j] \in L
      BY <2>1, <3>2, <1>0 DEF Stream
    <3>4. l[x] <= l[c + j]
      BY <2>1, <3>2, <3>3 DEF Stream, InOrder
    <3>5. l[x] # l[c + j]
      <4>1. x <= c /\ c < c + j
        BY <3>2, <1>0
      <4> QED
        BY <2>1, <3>2, <4>1 DEF Boundary
    <3>6. l[x] \in Nat /\ l[c + j] \in Nat
      <4>1. \A y \in 1..Len(l) : l[y] \in Nat
        OBVIOUS
      <4> QED
        BY <2>1, <3>2, <4>1
    <3> QED
      BY <3>1, <3>2, <3>4, <3>5, <3>6, <2>1
  <2> QED
    BY <2>2, <2>3, <2>4
<1>10. Stream(h \o a, b, L)
  BY <1>1, <1>2, <1>5, <1>7, <1>8, <1>9 DEF Stream
<1> QED
  BY <1>10 DEF a, b

\* A new message is neither list's, whatever its priority.
LEMMA StreamGrows ==
  ASSUME NEW h \in Seq(Nat), NEW l \in Seq(Nat), NEW L, Stream(h, l, L),
         NEW m \in Nat, Below(h, m), Below(l, m)
  PROVE  Stream(h, l, L \cup {m})
<1>1. \A j \in 1..Len(h) : h[j] # m
  BY DEF Below
<1>2. \A j \in 1..Len(l) : l[j] # m
  BY DEF Below
<1>3. InOrder(h, L \cup {m}) /\ InOrder(l, L \cup {m})
  BY <1>1, <1>2 DEF Stream, InOrder
<1> QED
  BY <1>1, <1>2, <1>3 DEF Stream

-----------------------------------------------------------------------------
(* A socket's fields, and what the operations on a socket make of them.    *)

SocketType == {"INVALID", "RESERVE", "PLISTEN", "LISTEN", "PACCEPT", "CONNECTING",
               "CONNECTED", "HALFCLOSE", "BIND"}

Sockets ==
  [type : SocketType, id : 0..MaxId, protocol : {"tcp", "udp"}, high : Seq(Nat),
   low : Seq(Nat), write : BOOLEAN, up : BOOLEAN, wire : Seq(Nat)]

LEMMA SocketFields ==
  ASSUME NEW k \in Sockets
  PROVE  /\ k.type \in SocketType /\ k.id \in 0..MaxId /\ k.protocol \in {"tcp", "udp"}
         /\ k.high \in Seq(Nat) /\ k.low \in Seq(Nat) /\ k.wire \in Seq(Nat)
         /\ k.write \in BOOLEAN /\ k.up \in BOOLEAN
  BY DEF Sockets

\* One field is given a value.
LEMMA TypeSet ==
  ASSUME NEW k \in Sockets, NEW t \in SocketType, NEW x, x = [k EXCEPT !.type = t]
  PROVE  /\ x \in Sockets /\ x.type = t /\ x.id = k.id /\ x.write = k.write
         /\ x.high = k.high /\ x.low = k.low /\ x.wire = k.wire
  BY DEF Sockets

LEMMA WriteSet ==
  ASSUME NEW k \in Sockets, NEW f \in BOOLEAN, NEW x, x = [k EXCEPT !.write = f]
  PROVE  /\ x \in Sockets /\ x.type = k.type /\ x.id = k.id /\ x.write = f
         /\ x.high = k.high /\ x.low = k.low /\ x.wire = k.wire
  BY DEF Sockets

LEMMA IdSet ==
  ASSUME NEW k \in Sockets, NEW j \in 0..MaxId, NEW x, x = [k EXCEPT !.id = j]
  PROVE  /\ x \in Sockets /\ x.type = k.type /\ x.id = j /\ x.write = k.write
         /\ x.high = k.high /\ x.low = k.low /\ x.wire = k.wire
  BY DEF Sockets

LEMMA UpSet ==
  ASSUME NEW k \in Sockets, NEW f \in BOOLEAN, NEW x, x = [k EXCEPT !.up = f]
  PROVE  /\ x \in Sockets /\ x.type = k.type /\ x.id = k.id /\ x.write = k.write
         /\ x.high = k.high /\ x.low = k.low /\ x.wire = k.wire
  BY DEF Sockets

\* force_close and new_fd.
LEMMA ForceCloseDoes ==
  ASSUME NEW k \in Sockets, NEW x, x = ForceClose(k)
  PROVE  /\ x \in Sockets /\ x.type = "INVALID" /\ x.id = k.id /\ ~x.write
         /\ x.high = <<>> /\ x.low = <<>> /\ x.wire = <<>>
<1>0. <<>> \in Seq(Nat)
  OBVIOUS
<1>1. PICK e \in Seq(Nat) : e = <<>>
  BY <1>0, Zenon
<1>2. PICK t \in SocketType : t = "INVALID"
  BY DEF SocketType
<1>3. PICK f \in BOOLEAN : f = FALSE
  OBVIOUS
<1>4. x = [k EXCEPT !.type = t, !.high = e, !.low = e, !.write = f, !.up = f, !.wire = e]
  BY <1>1, <1>2, <1>3, Zenon DEF ForceClose
<1>5. /\ x \in Sockets /\ x.type = t /\ x.id = k.id /\ x.write = f
      /\ x.high = e /\ x.low = e /\ x.wire = e
  BY <1>4 DEF Sockets
<1> QED
  BY <1>1, <1>2, <1>3, <1>5

LEMMA NewFdDoes ==
  ASSUME NEW k \in Sockets, NEW t \in SocketType, NEW p \in {"tcp", "udp"},
         NEW x, x = NewFd(k, t, p)
  PROVE  /\ x \in Sockets /\ x.type = t /\ x.id = k.id /\ x.write = (t = "CONNECTING")
         /\ x.high = k.high /\ x.low = k.low /\ x.wire = <<>>
<1>0. <<>> \in Seq(Nat)
  OBVIOUS
<1>1. PICK e \in Seq(Nat) : e = <<>>
  BY <1>0, Zenon
<1>2. PICK f \in BOOLEAN : f = (t = "CONNECTING")
  OBVIOUS
<1>3. PICK g \in BOOLEAN : g = (t = "CONNECTED")
  OBVIOUS
<1>4. x = [k EXCEPT !.type = t, !.protocol = p, !.write = f, !.up = g, !.wire = e]
  BY <1>1, <1>2, <1>3, Zenon DEF NewFd
<1>5. /\ x \in Sockets /\ x.type = t /\ x.id = k.id /\ x.write = f
      /\ x.high = k.high /\ x.low = k.low /\ x.wire = e
  BY <1>4 DEF Sockets
<1> QED
  BY <1>1, <1>2, <1>5

\* append_sendbuffer
LEMMA QueueDoes ==
  ASSUME NEW k \in Sockets, NEW p \in Seq(Nat), NEW q \in {"high", "low"},
         NEW x, x = Queue(k, q, p)
  PROVE  /\ x \in Sockets /\ x.type = k.type /\ x.id = k.id /\ x.write = k.write
         /\ q = "high" => x.high = k.high \o p /\ x.low = k.low
         /\ q = "low"  => x.low = k.low \o p /\ x.high = k.high
         /\ x.wire = k.wire
<1>0. k.high \in Seq(Nat) /\ k.low \in Seq(Nat)
  BY SocketFields
<1>1. CASE q = "high"
  <2> DEFINE v == k.high \o p
  <2>1. v \in Seq(Nat)
    BY <1>0
  <2>2. x = [k EXCEPT !.high = v, !.low = k.low]
    BY <1>1 DEF Queue, Sockets
  <2> HIDE DEF v
  <2> QED
    <3>1. /\ x \in Sockets /\ x.type = k.type /\ x.id = k.id /\ x.write = k.write
          /\ x.high = v /\ x.low = k.low /\ x.wire = k.wire
      BY <2>1, <2>2, <1>0 DEF Sockets
    <3> QED
      BY <3>1, <1>1 DEF v
<1>2. CASE q = "low"
  <2> DEFINE v == k.low \o p
  <2>1. v \in Seq(Nat)
    BY <1>0
  <2>2. x = [k EXCEPT !.high = k.high, !.low = v]
    BY <1>2 DEF Queue, Sockets
  <2> HIDE DEF v
  <2> QED
    <3>1. /\ x \in Sockets /\ x.type = k.type /\ x.id = k.id /\ x.write = k.write
          /\ x.high = k.high /\ x.low = v /\ x.wire = k.wire
      BY <2>1, <2>2, <1>0 DEF Sockets
    <3> QED
      BY <3>1, <1>2 DEF v
<1> QED
  BY <1>1, <1>2

\* What is queued in one of the lists leaves the other alone.
LEMMA QueueHigh ==
  ASSUME NEW k \in Sockets, NEW p \in Seq(Nat), NEW x, x = Queue(k, "high", p)
  PROVE  x \in Sockets /\ x.low = k.low /\ x.high = k.high \o p /\ x.wire = k.wire
BY QueueDoes, ZenonT(40)

LEMMA QueueLow ==
  ASSUME NEW k \in Sockets, NEW p \in Seq(Nat), NEW x, x = Queue(k, "low", p)
  PROVE  x \in Sockets /\ x.low = k.low \o p /\ x.high = k.high /\ x.wire = k.wire
BY QueueDoes, ZenonT(40)

\* send_list
LEMMA SendHighDoes ==
  ASSUME NEW k \in Sockets, NEW n \in 0..Len(k.high), NEW x, x = SendList(k, "high", n)
  PROVE  /\ x \in Sockets /\ x.type = k.type /\ x.id = k.id /\ x.write = k.write
         /\ x.high = SubSeq(k.high, n + 1, Len(k.high)) /\ x.low = k.low
         /\ x.wire = k.wire \o SubSeq(k.high, 1, n)
<1> DEFINE v == SubSeq(k.high, n + 1, Len(k.high))
           w == k.wire \o SubSeq(k.high, 1, n)
<1>0. k.high \in Seq(Nat) /\ k.wire \in Seq(Nat)
  BY SocketFields
<1>1. v \in Seq(Nat) /\ w \in Seq(Nat)
  BY <1>0
<1>2. x = [k EXCEPT !.high = v, !.wire = w]
  BY DEF SendList
<1> HIDE DEF v, w
<1>3. /\ x \in Sockets /\ x.type = k.type /\ x.id = k.id /\ x.write = k.write
      /\ x.high = v /\ x.low = k.low /\ x.wire = w
  BY <1>1, <1>2 DEF Sockets
<1> QED
  BY <1>3 DEF v, w

LEMMA SendLowDoes ==
  ASSUME NEW k \in Sockets, NEW n \in 0..Len(k.low), NEW x, x = SendList(k, "low", n)
  PROVE  /\ x \in Sockets /\ x.type = k.type /\ x.id = k.id /\ x.write = k.write
         /\ x.low = SubSeq(k.low, n + 1, Len(k.low)) /\ x.high = k.high
         /\ x.wire = k.wire \o SubSeq(k.low, 1, n)
<1> DEFINE v == SubSeq(k.low, n + 1, Len(k.low))
           w == k.wire \o SubSeq(k.low, 1, n)
<1>0. k.low \in Seq(Nat) /\ k.wire \in Seq(Nat)
  BY SocketFields
<1>1. v \in Seq(Nat) /\ w \in Seq(Nat)
  BY <1>0
<1>2. x = [k EXCEPT !.low = v, !.wire = w]
  BY DEF SendList
<1> HIDE DEF v, w
<1>3. /\ x \in Sockets /\ x.type = k.type /\ x.id = k.id /\ x.write = k.write
      /\ x.low = v /\ x.high = k.high /\ x.wire = w
  BY <1>1, <1>2 DEF Sockets
<1> QED
  BY <1>3 DEF v, w

-----------------------------------------------------------------------------
(* Writing keeps the stream.                                               *)

Kept(k, L) == Stream(k.wire \o k.high, k.low, L)

\* All the parts of socket k are of messages before m.
Older(k, m) == Below(k.wire, m) /\ Below(k.high, m) /\ Below(k.low, m)

\* Socket k may have become x by an attempt to write: the stream is kept, nothing
\* is in it that was not, and x is closed or what k was; it waits for the event k
\* waited for unless all is out.
Wrote(k, x, L) ==
  /\ x \in Sockets /\ x.id = k.id /\ Kept(x, L)
  /\ \A m : Older(k, m) => Older(x, m)
  /\ Empty(k) => Empty(x)
  /\ \/ x.type = "INVALID" /\ Empty(x) /\ ~x.write
     \/ /\ x.type = k.type
        /\ x.write = k.write \/ (Empty(x) /\ ~x.write /\ k.type # "HALFCLOSE")

LEMMA EmptyKept ==
  ASSUME NEW x, x.wire = <<>>, x.high = <<>>, x.low = <<>>, NEW L
  PROVE  Kept(x, L) /\ Empty(x) /\ \A m : Older(x, m)
<1>1. <<>> \o <<>> = <<>> /\ Len(<<>>) = 0
  OBVIOUS
<1>2. Kept(x, L)
  BY <1>1, StreamEmpty DEF Kept
<1> QED
  BY <1>1, <1>2 DEF Empty, Older, Below

LEMMA ForceCloseWrote ==
  ASSUME NEW k \in Sockets, NEW x, x = ForceClose(k), NEW L
  PROVE  Wrote(k, x, L) /\ x.type = "INVALID" /\ Empty(x) /\ ~x.write
<1>1. /\ x \in Sockets /\ x.type = "INVALID" /\ x.id = k.id /\ ~x.write
      /\ x.high = <<>> /\ x.low = <<>> /\ x.wire = <<>>
  BY ForceCloseDoes
<1>2. Kept(x, L) /\ Empty(x) /\ \A m : Older(x, m)
  BY <1>1, EmptyKept
<1> QED
  BY <1>1, <1>2 DEF Wrote

\* The high list is written as far as the kernel takes it.
LEMMA SendHighWrote ==
  ASSUME NEW k \in Sockets, NEW n \in 0..Len(k.high), NEW x, x = SendList(k, "high", n),
         NEW L, Kept(k, L)
  PROVE  Wrote(k, x, L) /\ x.type = k.type /\ x.write = k.write
<1> DEFINE a == SubSeq(k.high, 1, n)
           b == SubSeq(k.high, n + 1, Len(k.high))
<1>1. /\ x \in Sockets /\ x.type = k.type /\ x.id = k.id /\ x.write = k.write
      /\ x.high = b /\ x.low = k.low /\ x.wire = k.wire \o a
  BY SendHighDoes
<1>2. k.high \in Seq(Nat) /\ k.wire \in Seq(Nat) /\ k.low \in Seq(Nat)
  BY SocketFields
<1>3. a \in Seq(Nat) /\ b \in Seq(Nat) /\ a \o b = k.high
  BY <1>2, Cut, CutJoined
<1>4. \A m : Older(k, m) => Below(a, m) /\ Below(b, m)
  BY <1>2, BelowCut DEF Older
<1> HIDE DEF a, b
<1>5. x.wire \o x.high = k.wire \o k.high
  <2>1. (k.wire \o a) \o b = k.wire \o (a \o b)
    BY <1>2, <1>3, JoinedTwice
  <2> QED
    BY <1>1, <1>3, <2>1
<1>6. Kept(x, L)
  BY <1>5, <1>1 DEF Kept
<1>7. \A m : Older(k, m) => Older(x, m)
  BY <1>1, <1>2, <1>3, <1>4, BelowJoined DEF Older
<1>8. Empty(k) => Empty(x)
  <2>1. k.high = <<>> => Len(a) + Len(b) = 0
    BY <1>3, Joined
  <2>2. k.high = <<>> => b = <<>>
    BY <1>3, <2>1
  <2> QED
    BY <1>1, <2>2 DEF Empty
<1> QED
  BY <1>1, <1>6, <1>7, <1>8 DEF Wrote

LEMMA JoinedEmpty ==
  ASSUME NEW a \in Seq(Nat)
  PROVE  a \o <<>> = a /\ <<>> \o a = a
  OBVIOUS

\* List q is cut after part n into a and b.
Pieces(q, n, a, b) == a = SubSeq(q, 1, n) /\ b = SubSeq(q, n + 1, Len(q))

\* A list cut after part n and again r parts later.
LEMMA CutTwice ==
  ASSUME NEW q \in Seq(Nat), NEW n \in 0..Len(q), NEW a1, NEW p, Pieces(q, n, a1, p),
         NEW r \in 0..Len(p), NEW b1, NEW d1, Pieces(p, r, b1, d1)
  PROVE  n + r \in 0..Len(q) /\ Pieces(q, n + r, a1 \o b1, d1)
<1> USE DEF Pieces
<1>0. /\ p \in Seq(Nat) /\ Len(p) = Len(q) - n /\ Len(q) \in Nat
      /\ \A j \in 1..(Len(q) - n) : p[j] = q[n + j]
  BY Cut
<1>1. n + r \in 0..Len(q)
  <2> HIDE DEF Pieces
  <2>1. n \in Nat /\ r \in Nat /\ r <= Len(q) - n
    BY <1>0
  <2> QED
    BY <1>0, <2>1
<1> DEFINE a == SubSeq(q, 1, n)
           b == SubSeq(p, 1, r)
           c == SubSeq(q, 1, n + r)
           d == SubSeq(p, r + 1, Len(p))
           e == SubSeq(q, n + r + 1, Len(q))
<1>2. /\ a \in Seq(Nat) /\ Len(a) = n /\ \A j \in 1..n : a[j] = q[j]
      /\ b \in Seq(Nat) /\ Len(b) = r /\ \A j \in 1..r : b[j] = p[j]
      /\ c \in Seq(Nat) /\ Len(c) = n + r /\ \A j \in 1..(n + r) : c[j] = q[j]
  BY <1>0, <1>1, Cut
<1>3. /\ d \in Seq(Nat) /\ Len(d) = Len(p) - r
      /\ \A j \in 1..(Len(p) - r) : d[j] = p[r + j]
      /\ e \in Seq(Nat) /\ Len(e) = Len(q) - (n + r)
      /\ \A j \in 1..(Len(q) - (n + r)) : e[j] = q[n + r + j]
  BY <1>0, <1>1, Cut
<1> HIDE DEF a, b, c, d, e
<1>4. a \o b = c
  <2>1. a \o b \in Seq(Nat) /\ Len(a \o b) = n + r
    BY <1>2, Joined
  <2>2. ASSUME NEW j \in 1..(n + r) PROVE (a \o b)[j] = c[j]
    <3>1. \/ j \in 1..n /\ (a \o b)[j] = a[j]
          \/ n < j /\ \E l \in 1..r : j = n + l /\ (a \o b)[j] = b[l]
      <4>1. j \in 1..Len(a \o b)
        BY <2>1
      <4>2. \/ j \in 1..Len(a) /\ (a \o b)[j] = a[j]
            \/ Len(a) < j /\ \E l \in 1..Len(b) : j = Len(a) + l /\ (a \o b)[j] = b[l]
        BY <1>2, <4>1, FromEither
      <4> QED
        BY <1>2, <4>2
    <3>2. CASE j \in 1..n /\ (a \o b)[j] = a[j]
      BY <3>2, <1>2
    <3>3. CASE \E l \in 1..r : j = n + l /\ (a \o b)[j] = b[l]
      <4>1. PICK l \in 1..r : j = n + l /\ (a \o b)[j] = b[l]
        BY <3>3
      <4>2. l \in 1..(Len(q) - n)
        BY <1>0
      <4> QED
        BY <4>1, <4>2, <1>0, <1>2
    <3> QED
      BY <3>1, <3>2, <3>3
  <2> QED
    BY <2>1, <2>2, <1>2, SameList
<1>5. d = e
  <2>1. Len(d) = Len(e)
    BY <1>0, <1>3
  <2>2. ASSUME NEW j \in 1..Len(d) PROVE d[j] = e[j]
    <3>1. /\ r + j \in 1..(Len(q) - n) /\ n + (r + j) = n + r + j
          /\ j \in 1..(Len(p) - r) /\ j \in 1..(Len(q) - (n + r))
      BY <1>0, <1>3
    <3> QED
      BY <3>1, <1>0, <1>3
  <2> QED
    BY <2>1, <2>2, <1>3, SameList
<1> QED
  BY <1>1, <1>4, <1>5 DEF a, b, c, d, e

\* The low list is written; the rest of its head is raised.
LEMMA RaiseWrote ==
  ASSUME NEW k \in Sockets, NEW n \in 0..Len(k.low), NEW y, y = SendList(k, "low", n),
         NEW x, x = Raise(y), NEW L, Kept(k, L), k.high = <<>>, k.low # <<>>
  PROVE  Wrote(k, x, L) /\ x.type = k.type /\ x.write = k.write
<1> DEFINE a == SubSeq(k.low, 1, n)
           p == SubSeq(k.low, n + 1, Len(k.low))
<1>1. /\ y \in Sockets /\ y.type = k.type /\ y.id = k.id /\ y.write = k.write
      /\ y.low = p /\ y.high = <<>> /\ y.wire = k.wire \o a
  BY SendLowDoes
<1>2. k.wire \in Seq(Nat) /\ k.low \in Seq(Nat)
  BY SocketFields
<1>3. a \in Seq(Nat) /\ p \in Seq(Nat)
  BY <1>2, Cut
<1>4. \A m : Older(k, m) => Below(a, m) /\ Below(p, m) /\ Below(k.wire, m)
  BY <1>2, BelowCut DEF Older
<1>5. k.wire \o k.high = k.wire
  BY <1>2, JoinedEmpty
<1>6. Stream(k.wire, k.low, L) /\ Whole(k.low)
  BY <1>5 DEF Kept, Stream
<1>7. CASE ~Uncomplete(p)
  <2>1. x = y
    BY <1>1, <1>7 DEF Raise
  <2>2. Boundary(k.low, n)
    BY <1>2, <1>6, <1>7, CutRaised
  <2>3. Stream(k.wire \o a, p, L)
    BY <1>2, <1>6, <2>2, StreamShift
  <2>4. (k.wire \o a) \o <<>> = k.wire \o a
    BY <1>2, <1>3, Joined, JoinedEmpty
  <2>5. Kept(x, L)
    BY <1>1, <2>1, <2>3, <2>4 DEF Kept
  <2>6. \A m : Older(k, m) => Older(x, m)
    <3>1. \A m : Below(<<>>, m)
      BY EmptyKept DEF Below
    <3>2. \A m : Older(k, m) => Below(k.wire \o a, m)
      BY <1>2, <1>3, <1>4, BelowJoined
    <3> QED
      BY <1>1, <1>4, <2>1, <3>1, <3>2 DEF Older
  <2> QED
    BY <1>1, <2>1, <2>5, <2>6 DEF Wrote, Empty
<1>8. CASE Uncomplete(p)
  <2> DEFINE r == Rest(p)
             b == SubSeq(p, 1, r)
             d == SubSeq(p, r + 1, Len(p))
  <2>1. r \in 0..Len(p) /\ n + r \in 0..Len(k.low) /\ Boundary(k.low, n + r)
    BY <1>2, <1>6, <1>8, CutRaised
  <2>2. /\ a \o b = SubSeq(k.low, 1, n + r)
        /\ d = SubSeq(k.low, n + r + 1, Len(k.low))
    <3>1. Pieces(k.low, n, a, p) /\ Pieces(p, r, b, d)
      BY DEF Pieces
    <3> HIDE DEF a, p, b, d, r
    <3>2. Pieces(k.low, n + r, a \o b, d)
      BY <1>2, <2>1, <3>1, CutTwice
    <3> QED
      BY <3>2 DEF Pieces
  <2>3. b \in Seq(Nat) /\ d \in Seq(Nat)
    BY <1>3, <2>1, Cut
  <2>4. x = [y EXCEPT !.high = b, !.low = d]
    BY <1>1, <1>8 DEF Raise
  <2>5. Stream(k.wire \o (a \o b), d, L)
    BY <1>2, <1>6, <2>1, <2>2, StreamShift
  <2>6. \A m : Below(p, m) => Below(b, m) /\ Below(d, m)
    BY <1>3, <2>1, BelowCut
  <2> HIDE DEF b, d, r
  <2> HIDE DEF a, p
  <2>7. /\ x \in Sockets /\ x.type = y.type /\ x.id = y.id /\ x.write = y.write
        /\ x.high = b /\ x.low = d /\ x.wire = y.wire
    BY <1>1, <2>3, <2>4 DEF Sockets
  <2>8. x.wire \o x.high = k.wire \o (a \o b)
    <3>1. (k.wire \o a) \o b = k.wire \o (a \o b)
      BY <1>2, <1>3, <2>3, JoinedTwice
    <3> QED
      BY <1>1, <2>7, <3>1
  <2>9. Kept(x, L)
    BY <2>5, <2>7, <2>8 DEF Kept
  <2>10. \A m : Older(k, m) => Older(x, m)
    BY <1>1, <1>2, <1>3, <1>4, <2>6, <2>7, BelowJoined DEF Older
  <2> QED
    BY <1>1, <2>7, <2>9, <2>10 DEF Wrote, Empty
<1> QED
  BY <1>7, <1>8

\* One attempt after another.
LEMMA WroteTwice ==
  ASSUME NEW k, NEW y, NEW x, NEW L, Wrote(k, y, L), y.type = k.type,
         y.write = k.write, Wrote(y, x, L)
  PROVE  Wrote(k, x, L)
  BY DEF Wrote

\* What is left to do once the high list is empty.
LEMMA SendLowWrote ==
  ASSUME NEW k \in Sockets, NEW L, Kept(k, L), k.high = <<>>, NEW x \in SendLow(k)
  PROVE  Wrote(k, x, L)
<1>1. CASE k.low # <<>>
  <2>1. PICK n \in Takes(k, "low") : x = Raise(SendList(k, "low", n))
    BY <1>1 DEF SendLow
  <2>2. n \in 0..Len(k.low)
    BY <2>1 DEF Takes
  <2> QED
    BY <1>1, <2>1, <2>2, RaiseWrote
<1>2. CASE k.low = <<>> /\ k.type = "HALFCLOSE"
  BY <1>2, ForceCloseWrote DEF SendLow
<1>3. CASE k.low = <<>> /\ k.type # "HALFCLOSE"
  <2>1. x = [k EXCEPT !.write = FALSE]
    BY <1>3 DEF SendLow
  <2>2. /\ x \in Sockets /\ x.type = k.type /\ x.id = k.id /\ ~x.write
        /\ x.high = k.high /\ x.low = k.low /\ x.wire = k.wire
    <3>1. PICK f \in BOOLEAN : f = FALSE
      OBVIOUS
    <3> QED
      BY <2>1, <3>1, WriteSet
  <2> QED
    BY <2>2, <1>3 DEF Wrote, Kept, Older, Empty
<1> QED
  BY <1>1, <1>2, <1>3

\* send_buffer keeps the stream.
LEMMA SendBufferWrote ==
  ASSUME NEW k \in Sockets, NEW L, Kept(k, L), NEW x \in SendBuffer(k)
  PROVE  Wrote(k, x, L)
<1> DEFINE sentHigh == {SendList(k, "high", n) : n \in Takes(k, "high")}
<1>1. Wrote(k, k, L)
  BY DEF Wrote
<1>2. ASSUME NEW y \in sentHigh
      PROVE  y \in Sockets /\ Wrote(k, y, L) /\ y.type = k.type /\ y.write = k.write
  <2>1. PICK n \in Takes(k, "high") : y = SendList(k, "high", n)
    OBVIOUS
  <2>2. n \in 0..Len(k.high)
    BY <2>1 DEF Takes
  <2> QED
    BY <2>1, <2>2, SendHighWrote DEF Wrote
<1>3. \/ x = k \/ x = ForceClose(k) \/ x \in sentHigh
      \/ \E y \in sentHigh : y.high = <<>> /\ x \in SendLow(y)
  BY DEF SendBuffer
<1>4. CASE \E y \in sentHigh : y.high = <<>> /\ x \in SendLow(y)
  <2>1. PICK y \in sentHigh : y.high = <<>> /\ x \in SendLow(y)
    BY <1>4
  <2>2. y \in Sockets /\ Wrote(k, y, L) /\ y.type = k.type /\ y.write = k.write
    BY <1>2
  <2>3. Wrote(y, x, L)
    BY <2>1, <2>2, SendLowWrote DEF Wrote
  <2> QED
    BY <2>2, <2>3, WroteTwice
<1> QED
  BY <1>1, <1>2, <1>3, <1>4, ForceCloseWrote

-----------------------------------------------------------------------------
(* Queueing a message keeps the stream.                                    *)

\* Socket k may become x where the only new message, if any, is b.
Follows(k, x, L, b) ==
  /\ x \in Sockets /\ Kept(x, L)
  /\ \A m \in Nat : Older(k, m) /\ b < m => Older(x, m)

LEMMA WroteFollows ==
  ASSUME NEW k, NEW x, NEW L, NEW b, Wrote(k, x, L)
  PROVE  Follows(k, x, L, b)
  BY DEF Wrote, Follows

\* A change of other fields.
LEMMA SameFollows ==
  ASSUME NEW k, NEW x \in Sockets, NEW L, NEW b, Kept(k, L),
         x.high = k.high, x.low = k.low, x.wire = k.wire
  PROVE  Follows(k, x, L, b)
  BY DEF Follows, Kept, Older

\* Nothing is left, or nothing is there yet.
LEMMA EmptyFollows ==
  ASSUME NEW k, NEW x \in Sockets, NEW L, NEW b, x.wire = <<>>, Empty(x)
  PROVE  Follows(k, x, L, b)
  BY EmptyKept DEF Follows, Empty

\* The list of the message's priority, among the low messages L.
ListOf(m, L) == IF m \in L THEN "low" ELSE "high"

LEMMA QueueFollows ==
  ASSUME NEW k \in Sockets, NEW L, NEW m \in Nat, Kept(k, L), Older(k, m),
         NEW x, x = Queue(k, ListOf(m, L), Parts(m))
  PROVE  Follows(k, x, L, m)
<1> DEFINE p == Parts(m)
<1>1. p \in Seq(Nat)
  BY PartsWhole
<1>2. k.wire \in Seq(Nat) /\ k.high \in Seq(Nat) /\ k.low \in Seq(Nat)
  BY SocketFields
<1>3. Below(k.wire \o k.high, m) /\ k.wire \o k.high \in Seq(Nat)
  BY <1>2, BelowJoined, Joined DEF Older
<1>4. \A y \in Nat : m < y => Below(p, y)
  BY BelowParts
<1>5. CASE m \in L
  <2>1. /\ x \in Sockets /\ x.low = k.low \o p /\ x.high = k.high /\ x.wire = k.wire
    <3>1. x = Queue(k, "low", p)
      BY <1>5 DEF ListOf
    <3> HIDE DEF p
    <3> QED
      BY <1>1, <3>1, QueueLow
  <2>2. Stream(k.wire \o k.high, k.low \o p, L)
    BY <1>2, <1>3, <1>5, StreamLow DEF Kept, Older
  <2> HIDE DEF p
  <2>3. Kept(x, L)
    BY <2>1, <2>2 DEF Kept
  <2>4. \A y \in Nat : Older(k, y) /\ m < y => Older(x, y)
    BY <1>1, <1>2, <1>4, <2>1, BelowJoined DEF Older
  <2> QED
    BY <2>1, <2>3, <2>4 DEF Follows
<1>6. CASE m \notin L
  <2>1. /\ x \in Sockets /\ x.low = k.low /\ x.high = k.high \o p /\ x.wire = k.wire
    <3>1. x = Queue(k, "high", p)
      BY <1>6 DEF ListOf
    <3> HIDE DEF p
    <3> QED
      BY <1>1, <3>1, QueueHigh
  <2>2. Stream((k.wire \o k.high) \o p, k.low, L)
    <3>1. Stream(k.wire \o k.high, k.low, L) /\ Below(k.low, m)
      BY DEF Kept, Older
    <3> QED
      BY <1>2, <1>3, <1>6, <3>1, StreamHigh
  <2> HIDE DEF p
  <2>3. Kept(x, L)
    <3>1. (k.wire \o k.high) \o p = k.wire \o (k.high \o p)
      BY <1>1, <1>2, JoinedTwice
    <3> QED
      BY <2>1, <2>2, <3>1 DEF Kept
  <2>4. \A y \in Nat : Older(k, y) /\ m < y => Older(x, y)
    BY <1>1, <1>2, <1>4, <2>1, BelowJoined DEF Older
  <2> QED
    BY <2>1, <2>3, <2>4 DEF Follows
<1> QED
  BY <1>5, <1>6

LEMMA QueueHighDoes ==
  ASSUME NEW k \in Sockets, NEW p \in Seq(Nat), NEW x, x = Queue(k, "high", p)
  PROVE  /\ x \in Sockets /\ x.type = k.type /\ x.id = k.id /\ x.write = k.write
         /\ x.high = k.high \o p /\ x.low = k.low /\ x.wire = k.wire
<1>1. PICK q \in {"high", "low"} : q = "high"
  OBVIOUS
<1>2. x = Queue(k, q, p)
  BY <1>1
<1> QED
  BY <1>1, <1>2, QueueDoes

\* Socket k with u written to it, v put into the high list, and the event f.
Given(k, u, v, f, x) ==
  \E y : y = Queue(k, "high", v) /\ x = [y EXCEPT !.wire = y.wire \o u, !.write = f]

LEMMA GivenDoes ==
  ASSUME NEW k \in Sockets, NEW u \in Seq(Nat), NEW v \in Seq(Nat), NEW f \in BOOLEAN,
         NEW x, Given(k, u, v, f, x)
  PROVE  /\ x \in Sockets /\ x.type = k.type /\ x.id = k.id /\ x.write = f
         /\ x.high = k.high \o v /\ x.low = k.low /\ x.wire = k.wire \o u
<1>1. PICK y : y = Queue(k, "high", v) /\ x = [y EXCEPT !.wire = y.wire \o u, !.write = f]
  BY DEF Given
<1>2. /\ y \in Sockets /\ y.type = k.type /\ y.id = k.id
      /\ y.high = k.high \o v /\ y.low = k.low /\ y.wire = k.wire
  <2>1. y = Queue(k, "high", v)
    BY <1>1, Zenon
  <2> QED
    BY <2>1, QueueHighDoes
<1>3. y.wire \in Seq(Nat)
  BY <1>2, SocketFields
<1>4. y.wire \o u \in Seq(Nat)
  BY <1>3
<1>5. PICK w \in Seq(Nat) : w = y.wire \o u
  BY <1>4
<1>6. x = [y EXCEPT !.wire = w, !.write = f]
  BY <1>1, <1>5
<1>7. /\ x \in Sockets /\ x.type = y.type /\ x.id = y.id /\ x.write = f
      /\ x.high = y.high /\ x.low = y.low /\ x.wire = w
  BY <1>2, <1>5, <1>6 DEF Sockets
<1> QED
  BY <1>2, <1>5, <1>7

\* A message written to a socket that waits for nothing: some parts are written
\* and the others wait at the head, or all wait in the list of the priority, or
\* the socket is closed.
LEMMA SendNowFollows ==
  ASSUME NEW k \in Sockets, NEW L, NEW m \in Nat, Kept(k, L), Older(k, m), Empty(k),
         NEW x \in SendNow(k, ListOf(m, L), m)
  PROVE  /\ Follows(k, x, L, m) /\ x.id = k.id
         /\ \/ x.type = "INVALID" /\ Empty(x) /\ ~x.write
            \/ x.type = k.type /\ (Empty(x) \/ x.write)
<1> USE SocketAssumption
<1> DEFINE p == Parts(m)
<1>1. p \in Seq(Nat) /\ Len(p) = Size
  BY PartsWhole
<1>2. k.wire \in Seq(Nat) /\ k.high = <<>> /\ k.low = <<>>
  BY SocketFields DEF Empty
<1>3. k.wire \o k.high = k.wire
  BY <1>2, JoinedEmpty
<1>4. Stream(k.wire \o p, <<>>, L)
  <2>1. <<>> \in Seq(Nat) /\ \A y : Below(<<>>, y)
    BY EmptyKept DEF Below
  <2> QED
    BY <1>2, <1>3, <2>1, StreamHigh DEF Kept, Older
<1>5. \A y \in Nat : m < y => Below(p, y)
  BY BelowParts
<1>6. ASSUME NEW n \in 0..Size,
             x = [Queue(k, "high", SubSeq(p, n + 1, Size)) EXCEPT
                    !.wire = @ \o SubSeq(p, 1, n), !.write = @ \/ n < Size]
      PROVE  /\ Follows(k, x, L, m) /\ x.id = k.id /\ x.type = k.type
             /\ Empty(x) \/ x.write
  <2> DEFINE u == SubSeq(p, 1, n)
             v == SubSeq(p, n + 1, Size)
  <2>1. u \in Seq(Nat) /\ v \in Seq(Nat) /\ u \o v = p /\ Len(v) = Size - n
    BY <1>1, Cut, CutJoined
  <2>2. PICK f \in BOOLEAN : f = (Queue(k, "high", v).write \/ n < Size)
    <3>1. (Queue(k, "high", v).write \/ n < Size) \in BOOLEAN
      OBVIOUS
    <3> QED
      BY <3>1, Zenon
  <2>3. \A y \in Nat : m < y => Below(u, y) /\ Below(v, y)
    BY <1>1, <1>5, BelowCut
  <2>4. Given(k, u, v, f, x)
    BY <1>6, <2>2, Zenon DEF Given
  <2> HIDE DEF u, v, p
  <2>5. /\ x \in Sockets /\ x.type = k.type /\ x.id = k.id /\ x.write = f
        /\ x.high = k.high \o v /\ x.low = k.low /\ x.wire = k.wire \o u
    BY <2>1, <2>4, GivenDoes
  <2>6. x.high = v
    BY <1>2, <2>1, <2>5, JoinedEmpty
  <2>7. x.wire \o x.high = k.wire \o p
    <3>1. (k.wire \o u) \o v = k.wire \o (u \o v)
      BY <1>2, <2>1, JoinedTwice
    <3> QED
      BY <2>1, <2>5, <2>6, <3>1
  <2>8. Kept(x, L)
    BY <1>2, <1>4, <2>5, <2>7 DEF Kept
  <2>9. \A y \in Nat : Older(k, y) /\ m < y => Older(x, y)
    BY <1>2, <2>1, <2>3, <2>5, <2>6, BelowJoined DEF Older
  <2>10. n = Size => v = <<>>
    BY <2>1
  <2>11. f = FALSE => n = Size
    <3>1. n \in Nat /\ n <= Size /\ Size \in Nat
      OBVIOUS
    <3>2. n = Size \/ n < Size
      BY <3>1
    <3> QED
      BY <2>2, <3>2, Zenon
  <2>12. Empty(x) \/ x.write
    <3>1. f = TRUE \/ f = FALSE
      BY <2>2
    <3> QED
      BY <1>2, <2>5, <2>6, <2>10, <2>11, <3>1 DEF Empty
  <2> QED
    BY <2>5, <2>8, <2>9, <2>12 DEF Follows
<1>7. ASSUME x = [k EXCEPT !.wire = @ \o p]
      PROVE  Follows(k, x, L, m) /\ x.id = k.id /\ x.type = k.type /\ Empty(x)
  <2>1. PICK w \in Seq(Nat) : w = k.wire \o p
    BY <1>1, <1>2, Joined
  <2>2. /\ x \in Sockets /\ x.type = k.type /\ x.id = k.id
        /\ x.high = k.high /\ x.low = k.low /\ x.wire = w
    <3>1. x = [k EXCEPT !.wire = w]
      BY <1>7, <2>1
    <3> QED
      BY <3>1, <2>1 DEF Sockets
  <2> HIDE DEF p
  <2>3. x.wire \o x.high = k.wire \o p
    BY <1>2, <2>1, <2>2, JoinedEmpty
  <2>4. Kept(x, L)
    BY <1>2, <1>4, <2>2, <2>3 DEF Kept
  <2>5. \A y \in Nat : Older(k, y) /\ m < y => Older(x, y)
    BY <1>1, <1>2, <1>5, <2>1, <2>2, BelowJoined DEF Older
  <2> QED
    BY <1>2, <2>2, <2>4, <2>5 DEF Follows, Empty
<1>8. ASSUME x = [Queue(k, ListOf(m, L), p) EXCEPT !.write = TRUE]
      PROVE  Follows(k, x, L, m) /\ x.id = k.id /\ x.type = k.type /\ x.write
  <2>1. PICK y : y = Queue(k, ListOf(m, L), p)
    OBVIOUS
  <2>2. Follows(k, y, L, m) /\ y \in Sockets
    BY <2>1, QueueFollows DEF Follows
  <2>3. y.type = k.type /\ y.id = k.id
    BY <1>1, <2>1, QueueDoes DEF ListOf
  <2>4. /\ x \in Sockets /\ x.type = y.type /\ x.id = y.id /\ x.write = TRUE
        /\ x.high = y.high /\ x.low = y.low /\ x.wire = y.wire
    <3>1. x = [y EXCEPT !.write = TRUE]
      BY <1>8, <2>1
    <3> HIDE DEF p
    <3> QED
      BY <2>2, <3>1 DEF Sockets
  <2> QED
    BY <2>2, <2>3, <2>4 DEF Follows, Kept, Older
<1>9. x = ForceClose(k) => /\ Follows(k, x, L, m) /\ x.id = k.id
                           /\ x.type = "INVALID" /\ Empty(x) /\ ~x.write
  BY ForceCloseWrote, WroteFollows DEF Wrote
<1>10. \/ \E n \in 0..Size :
            x = [Queue(k, "high", SubSeq(p, n + 1, Size)) EXCEPT
                   !.wire = @ \o SubSeq(p, 1, n), !.write = @ \/ n < Size]
       \/ x = ForceClose(k)
       \/ x = [k EXCEPT !.wire = @ \o p]
       \/ x = [Queue(k, ListOf(m, L), p) EXCEPT !.write = TRUE]
  BY Zenon DEF SendNow
<1> QED
  BY <1>6, <1>7, <1>8, <1>9, <1>10

-----------------------------------------------------------------------------
(* The inductive invariant.                                                *)

Making  == {"O", "L", "B", "U"}
Sending == {"D", "P"}

Requests ==
  [op : Making \cup {"K", "S", "X"}, id : 0..MaxId]
    \cup [op : Sending, id : Ids, msg : Nat]

Sorts == {"none", "O", "L", "B", "U", "A", "F"}

SocketTypes ==
  /\ allocId \in 0..MaxId
  /\ slot \in [Slots -> Sockets]
  /\ pipe \in Seq(Requests)
  /\ pc \in [Workers -> {Idle} \cup [op : Making, id : Ids]]
  /\ sort \in [Ids -> Sorts]
  /\ sent \in Nat /\ lows \subseteq 1..sent
  /\ stale \in BOOLEAN

\* Messages wait in the pipe in the order in which they were sent.
PipeOrder ==
  /\ \A n \in 1..Len(pipe) : pipe[n].op \in Sending =>
       pipe[n].msg \in 1..sent /\ (pipe[n].op = "P" <=> pipe[n].msg \in lows)
  /\ \A a, b \in 1..Len(pipe) :
       a < b /\ pipe[a].op \in Sending /\ pipe[b].op \in Sending =>
         pipe[a].msg < pipe[b].msg

\* What socket k holds was sent before what is in the pipe.
Before(k) ==
  /\ Kept(k, lows) /\ Older(k, sent + 1)
  /\ \A n \in 1..Len(pipe) : pipe[n].op \in Sending => Older(k, pipe[n].msg)

StreamInv == PipeOrder /\ \A s \in Slots : Before(slot[s])

\* What a slot s may hold as long as no socket has been taken for another.
Fits(s, k) ==
  /\ k.id # 0 => HashId(k.id) = s
  /\ k.type \in {"INVALID", "RESERVE", "PACCEPT", "PLISTEN", "LISTEN"} => Empty(k)
  /\ k.type \notin {"INVALID", "RESERVE"} => k.id \in Known
  /\ k.type \in {"PLISTEN", "LISTEN"} => sort[k.id] = "L"
  /\ k.type = "BIND" => sort[k.id] = "B"
  /\ k.type = "CONNECTING" => k.write
  /\ k.type = "HALFCLOSE" \/ (k.type = "CONNECTED" /\ ~Empty(k)) =>
       k.write \/ sort[k.id] = "B"
  /\ k.write => k.type \in {"CONNECTING", "CONNECTED", "HALFCLOSE"}

\* Socket i is gone only if that has been reported; a slot that is free and has
\* been i's is as good as gone.
Reported(i) ==
  slot[HashId(i)].type = "INVALID" \/ slot[HashId(i)].id # i =>
    sort[i] = "F" \/ i \in ended

\* Socket i is gone for good.
Over(i) == Other(slot[HashId(i)], i) \/ slot[HashId(i)].type = "RESERVE"

\* A worker that has reserved a slot and not yet published the socket has it for
\* itself, and all the earlier sockets of the slot have ended.
Holds(w) == LET i == pc[w].id IN
  /\ i <= allocId /\ sort[i] = "none" /\ slot[HashId(i)].type = "RESERVE"
  /\ \A v \in Workers : pc[v] # Idle /\ HashId(pc[v].id) = HashId(i) => v = w
  /\ \A n \in 1..Len(pipe) : pipe[n].op \in Making => HashId(pipe[n].id) # HashId(i)
  /\ \A j \in Known : HashId(j) = HashId(i) => sort[j] = "F" \/ j \in ended

\* A request in the pipe finds the slot as its sender left it.
Waits(n) == LET r == pipe[n] IN
  /\ r.op \in Making =>
       /\ r.id \in Ids /\ sort[r.id] = r.op /\ r.id \notin ended
       /\ slot[HashId(r.id)].type = "RESERVE" /\ slot[HashId(r.id)].id = r.id
       /\ \A l \in 1..Len(pipe) :
            pipe[l].op \in Making /\ HashId(pipe[l].id) = HashId(r.id) => l = n
  /\ r.op \in Sending => sort[r.id] \notin {"none", "L"}
  /\ r.op \in {"K", "S"} => r.id \in Known

SlotInv ==
  /\ phase # "abort"
  /\ \A s \in Slots : Fits(s, slot[s])
  /\ \A i \in Known : Reported(i)
  /\ ended \subseteq Known /\ \A i \in ended : Over(i)
  /\ \A w \in Workers : pc[w] # Idle => Holds(w)
  /\ \A n \in 1..Len(pipe) : Waits(n)
  /\ \A i \in Ids : allocId < i => sort[i] = "none"

SocketInv == SocketTypes /\ StreamInv /\ (~stale => SlotInv)

-----------------------------------------------------------------------------
(* Slots and requests.                                                     *)

LEMMA HashInSlots ==
  ASSUME NEW i \in Nat
  PROVE  HashId(i) \in Slots
  BY SocketAssumption DEF HashId, Slots

LEMMA RequestFields ==
  ASSUME NEW r \in Requests
  PROVE  /\ r.id \in 0..MaxId
         /\ r.op \in Making \cup Sending \cup {"K", "S", "X"}
         /\ r.op \in Sending => r.msg \in Nat /\ r.id \in Ids
  BY SocketAssumption DEF Requests, Making, Sending, Ids

LEMMA PipeTail ==
  ASSUME pipe \in Seq(Requests), pipe # <<>>
  PROVE  /\ Head(pipe) = pipe[1] /\ pipe[1] \in Requests /\ Len(pipe) \in Nat \ {0}
         /\ Tail(pipe) \in Seq(Requests) /\ Len(Tail(pipe)) = Len(pipe) - 1
         /\ \A n \in 1..(Len(pipe) - 1) : Tail(pipe)[n] = pipe[n + 1]
  OBVIOUS

LEMMA PipeAppend ==
  ASSUME pipe \in Seq(Requests), NEW r \in Requests
  PROVE  /\ Append(pipe, r) \in Seq(Requests) /\ Len(Append(pipe, r)) = Len(pipe) + 1
         /\ \A n \in 1..Len(pipe) : Append(pipe, r)[n] = pipe[n]
         /\ Append(pipe, r)[Len(pipe) + 1] = r
         /\ Len(pipe) \in Nat
  OBVIOUS

\* Slot s, and no other, becomes what follows from it and message b.
Turns(s, b) ==
  /\ slot' \in [Slots -> Sockets]
  /\ \A t \in Slots \ {s} : slot'[t] = slot[t]
  /\ slot'[s].id = slot[s].id
  /\ Follows(slot[s], slot'[s], lows, b)

LEMMA BecomesTurns ==
  ASSUME SocketTypes, NEW s \in Slots, NEW x, NEW b, Follows(slot[s], x, lows, b),
         x.id = slot[s].id, slot' = [slot EXCEPT ![s] = x]
  PROVE  Turns(s, b) /\ slot'[s] = x
<1>1. x \in Sockets
  BY DEF Follows
<1> QED
  BY <1>1 DEF Turns, SocketTypes

LEMMA SameTurns ==
  ASSUME SocketTypes, NEW s \in Slots, NEW b, Kept(slot[s], lows), slot' = slot
  PROVE  Turns(s, b) /\ slot'[s] = slot[s]
<1>1. slot[s] \in Sockets
  BY DEF SocketTypes
<1>2. Follows(slot[s], slot[s], lows, b)
  BY <1>1, SameFollows
<1> QED
  BY <1>2 DEF Turns, SocketTypes

\* Nothing is taken back, and what is now reported is gone.
Ends ==
  /\ ended \subseteq ended'
  /\ \A i \in ended' : i \in ended \/ (i \in Known /\ Other(slot'[HashId(i)], i))

\* What slot s has become fits, and if it is now free that is reported.
Sound(s) ==
  /\ phase' # "abort" /\ Ends
  /\ Fits(s, slot'[s])
  /\ slot[s].type = "INVALID" => slot'[s].type = "INVALID"
  /\ slot'[s].type = "INVALID" =>
       slot[s].type = "INVALID" \/ slot[s].id \in ended' \/ sort'[slot[s].id] = "F"

\* No assertion has failed.
Lives == phase' = "abort" => phase = "abort"

\* Slot s, if it is reserved, is left alone.
Spares(s) == slot[s].type = "RESERVE" => slot'[s] = slot[s]

Sits(s) == Fits(s, slot[s]) /\ phase # "abort"

\* The slot that request r finds.
Meets(r, s) ==
  /\ Fits(s, slot[s]) /\ phase # "abort"
  /\ slot[s].type = "RESERVE" /\ slot[s].id = r.id /\ r.id \in Ids /\ sort[r.id] = r.op

\* A descriptor could not be had or made use of.
LEMMA FreedTurns ==
  ASSUME SocketTypes, NEW s \in Slots, NEW b, Kept(slot[s], lows),
         Becomes(s, [slot[s] EXCEPT !.type = "INVALID"])
  PROVE  /\ Turns(s, b) /\ Lives
         /\ slot'[s].type = "INVALID" /\ slot'[s].id = slot[s].id
         /\ Empty(slot[s]) => Empty(slot'[s])
         /\ slot'[s].write = slot[s].write
<1>1. slot[s] \in Sockets
  BY DEF SocketTypes
<1>2. PICK t \in SocketType : t = "INVALID"
  BY DEF SocketType
<1>3. PICK x : x = [slot[s] EXCEPT !.type = "INVALID"]
  OBVIOUS
<1>4. slot' = [slot EXCEPT ![s] = x] /\ Lives
  BY <1>3 DEF Becomes, Turn, Lives
<1>5. /\ x \in Sockets /\ x.type = "INVALID" /\ x.id = slot[s].id /\ x.write = slot[s].write
      /\ x.high = slot[s].high /\ x.low = slot[s].low /\ x.wire = slot[s].wire
  BY <1>1, <1>2, <1>3, TypeSet
<1>6. Follows(slot[s], x, lows, b)
  BY <1>5, SameFollows
<1> QED
  BY <1>4, <1>5, <1>6, BecomesTurns DEF Empty

\* new_fd
LEMMA NewFdTurns ==
  ASSUME SocketTypes, NEW s \in Slots, NEW b, Kept(slot[s], lows), Reserved(slot[s]),
         NEW t \in SocketType, NEW p \in {"tcp", "udp"}, Becomes(s, NewFd(slot[s], t, p))
  PROVE  /\ Turns(s, b) /\ Lives
         /\ slot'[s].type = t /\ slot'[s].id = slot[s].id /\ Empty(slot'[s])
         /\ slot'[s].write = (t = "CONNECTING")
<1>1. slot[s] \in Sockets
  BY DEF SocketTypes
<1>3. PICK x : x = NewFd(slot[s], t, p)
  OBVIOUS
<1>4. slot' = [slot EXCEPT ![s] = x] /\ Lives
  BY <1>3 DEF Becomes, Turn, Lives
<1>5. /\ x \in Sockets /\ x.type = t /\ x.id = slot[s].id /\ x.wire = <<>>
      /\ x.high = slot[s].high /\ x.low = slot[s].low /\ x.write = (t = "CONNECTING")
  BY <1>1, <1>3, NewFdDoes
<1>6. Empty(x)
  BY <1>5 DEF Reserved, Empty
<1>7. Follows(slot[s], x, lows, b)
  BY <1>5, <1>6, EmptyFollows
<1> QED
  BY <1>4, <1>5, <1>6, <1>7, BecomesTurns

LEMMA AbortTurns ==
  ASSUME SocketTypes, NEW s \in Slots, NEW b, Kept(slot[s], lows), Abort
  PROVE  Turns(s, b)
  BY SameTurns DEF Abort

-----------------------------------------------------------------------------
(* Requests that make sockets.                                             *)

\* What is reported, and what is not.
LEMMA EndsGoOn ==
  ASSUME GoOn
  PROVE  Ends
  BY DEF GoOn, Ends

LEMMA EndsEnd ==
  ASSUME NEW i \in Known, ended' = ended \cup {i}, Other(slot'[HashId(i)], i)
  PROVE  Ends
  BY DEF Ends

\* The socket that request r is to make.
LEMMA MetKnown ==
  ASSUME NEW r, NEW s, Meets(r, s), r.op \in Making
  PROVE  slot[s].id \in Known /\ slot[s].id = r.id /\ HashId(r.id) = s
  BY DEF Meets, Fits, Known, Making, Ids

LEMMA SitsKnown ==
  ASSUME NEW s, Sits(s), slot[s].type \notin {"INVALID", "RESERVE"}
  PROVE  slot[s].id \in Known /\ HashId(slot[s].id) = s
  BY DEF Sits, Fits, Known, Ids

LEMMA MetReserved ==
  ASSUME NEW r, NEW s, Meets(r, s)
  PROVE  Reserved(slot[s])
  BY DEF Meets, Fits, Reserved

LEMMA OpenTurns ==
  ASSUME SocketTypes, NEW r, NEW s \in Slots, Kept(slot[s], lows),
         OpenSocket(r, s, slot[s])
  PROVE  /\ Turns(s, 0)
         /\ Meets(r, s) /\ r.op = "O" => Sound(s)
<1>1. CASE Becomes(s, [slot[s] EXCEPT !.type = "INVALID"]) /\ End(r.id)
  <2>1. /\ Turns(s, 0) /\ Lives
        /\ slot'[s].type = "INVALID" /\ slot'[s].id = slot[s].id
        /\ Empty(slot[s]) => Empty(slot'[s])
        /\ slot'[s].write = slot[s].write
    BY <1>1, FreedTurns
  <2>2. ASSUME Meets(r, s), r.op = "O" PROVE Sound(s)
    <3>1. slot[s].id \in Known /\ slot[s].id = r.id /\ HashId(r.id) = s
      BY <2>2, MetKnown DEF Making
    <3>2. Ends
      BY <1>1, <2>1, <3>1, EndsEnd DEF End, Other
    <3> QED
      BY <1>1, <2>1, <2>2, <3>1, <3>2 DEF Meets, Sound, Fits, End, Lives
  <2> QED
    BY <2>1, <2>2
<1>2. CASE /\ Reserved(slot[s]) /\ GoOn
           /\ \E type \in {"CONNECTED", "CONNECTING"} : Becomes(s, NewFd(slot[s], type, "tcp"))
  <2>1. PICK type \in {"CONNECTED", "CONNECTING"} : Becomes(s, NewFd(slot[s], type, "tcp"))
    BY <1>2
  <2>2. type \in SocketType /\ "tcp" \in {"tcp", "udp"}
    BY DEF SocketType
  <2>3. /\ Turns(s, 0) /\ Lives
        /\ slot'[s].type = type /\ slot'[s].id = slot[s].id /\ Empty(slot'[s])
        /\ slot'[s].write = (type = "CONNECTING")
    BY <1>2, <2>1, <2>2, NewFdTurns
  <2>4. ASSUME Meets(r, s), r.op = "O" PROVE Sound(s)
    <3>1. slot[s].id \in Known /\ (slot[s].id # 0 => HashId(slot[s].id) = s)
      BY <2>4 DEF Meets, Fits, Known
    <3> QED
      BY <1>2, <2>3, <2>4, <3>1, EndsGoOn DEF Meets, Sound, Fits, Lives
  <2> QED
    BY <2>3, <2>4
<1>3. CASE ~Reserved(slot[s]) /\ Abort
  BY <1>3, AbortTurns, MetReserved
<1> QED
  BY <1>1, <1>2, <1>3 DEF OpenSocket

LEMMA ListenTurns ==
  ASSUME SocketTypes, NEW r, NEW s \in Slots, Kept(slot[s], lows),
         ListenSocket(s, slot[s])
  PROVE  /\ Turns(s, 0)
         /\ Meets(r, s) /\ r.op = "L" => Sound(s)
<1>2. CASE Reserved(slot[s]) /\ Becomes(s, NewFd(slot[s], "PLISTEN", "tcp")) /\ GoOn
  <2>2. "PLISTEN" \in SocketType /\ "tcp" \in {"tcp", "udp"}
    BY DEF SocketType
  <2>3. /\ Turns(s, 0) /\ Lives
        /\ slot'[s].type = "PLISTEN" /\ slot'[s].id = slot[s].id /\ Empty(slot'[s])
        /\ ~slot'[s].write
    BY <1>2, <2>2, NewFdTurns
  <2>4. ASSUME Meets(r, s), r.op = "L" PROVE Sound(s)
    <3>1. slot[s].id \in Known /\ (slot[s].id # 0 => HashId(slot[s].id) = s)
      BY <2>4 DEF Meets, Fits, Known
    <3> QED
      BY <1>2, <2>3, <2>4, <3>1, EndsGoOn DEF Meets, Sound, Fits, Lives
  <2> QED
    BY <2>3, <2>4
<1>3. CASE ~Reserved(slot[s]) /\ Abort
  BY <1>3, AbortTurns, MetReserved
<1> QED
  BY <1>2, <1>3 DEF ListenSocket

LEMMA BindTurns ==
  ASSUME SocketTypes, NEW r, NEW s \in Slots, Kept(slot[s], lows),
         BindSocket(r, s, slot[s])
  PROVE  /\ Turns(s, 0)
         /\ Meets(r, s) /\ r.op = "B" => Sound(s)
<1>1. CASE Becomes(s, [slot[s] EXCEPT !.type = "INVALID"]) /\ End(r.id)
  <2>1. /\ Turns(s, 0) /\ Lives
        /\ slot'[s].type = "INVALID" /\ slot'[s].id = slot[s].id
        /\ Empty(slot[s]) => Empty(slot'[s])
        /\ slot'[s].write = slot[s].write
    BY <1>1, FreedTurns
  <2>2. ASSUME Meets(r, s), r.op = "B" PROVE Sound(s)
    <3>1. slot[s].id \in Known /\ slot[s].id = r.id /\ HashId(r.id) = s
      BY <2>2, MetKnown DEF Making
    <3>2. Ends
      BY <1>1, <2>1, <3>1, EndsEnd DEF End, Other
    <3> QED
      BY <1>1, <2>1, <2>2, <3>1, <3>2 DEF Meets, Sound, Fits, End, Lives
  <2> QED
    BY <2>1, <2>2
<1>2. CASE Reserved(slot[s]) /\ Becomes(s, NewFd(slot[s], "BIND", "tcp")) /\ GoOn
  <2>2. "BIND" \in SocketType /\ "tcp" \in {"tcp", "udp"}
    BY DEF SocketType
  <2>3. /\ Turns(s, 0) /\ Lives
        /\ slot'[s].type = "BIND" /\ slot'[s].id = slot[s].id /\ Empty(slot'[s])
        /\ ~slot'[s].write
    BY <1>2, <2>2, NewFdTurns
  <2>4. ASSUME Meets(r, s), r.op = "B" PROVE Sound(s)
    <3>1. slot[s].id \in Known /\ (slot[s].id # 0 => HashId(slot[s].id) = s)
      BY <2>4 DEF Meets, Fits, Known
    <3> QED
      BY <1>2, <2>3, <2>4, <3>1, EndsGoOn DEF Meets, Sound, Fits, Lives
  <2> QED
    BY <2>3, <2>4
<1>3. CASE ~Reserved(slot[s]) /\ Abort
  BY <1>3, AbortTurns, MetReserved
<1> QED
  BY <1>1, <1>2, <1>3 DEF BindSocket

LEMMA UdpTurns ==
  ASSUME SocketTypes, NEW r, NEW s \in Slots, Kept(slot[s], lows),
         AddUdpSocket(s, slot[s]),
         slot'[s].type = "INVALID" => sort' = [sort EXCEPT ![r.id] = "F"]
  PROVE  /\ Turns(s, 0)
         /\ Meets(r, s) /\ r.op = "U" => Sound(s)
<1>1. CASE Becomes(s, [slot[s] EXCEPT !.type = "INVALID"]) /\ GoOn
  <2>1. /\ Turns(s, 0) /\ Lives
        /\ slot'[s].type = "INVALID" /\ slot'[s].id = slot[s].id
        /\ Empty(slot[s]) => Empty(slot'[s])
        /\ slot'[s].write = slot[s].write
    BY <1>1, FreedTurns
  <2>2. ASSUME Meets(r, s), r.op = "U" PROVE Sound(s)
    <3>1. sort'[slot[s].id] = "F"
      BY <2>1, <2>2 DEF Meets, SocketTypes
    <3> QED
      BY <1>1, <2>1, <2>2, <3>1, EndsGoOn DEF Meets, Sound, Fits, Lives
  <2> QED
    BY <2>1, <2>2
<1>2. CASE Reserved(slot[s]) /\ Becomes(s, NewFd(slot[s], "CONNECTED", "udp")) /\ GoOn
  <2>2. "CONNECTED" \in SocketType /\ "udp" \in {"tcp", "udp"}
    BY DEF SocketType
  <2>3. /\ Turns(s, 0) /\ Lives
        /\ slot'[s].type = "CONNECTED" /\ slot'[s].id = slot[s].id /\ Empty(slot'[s])
        /\ ~slot'[s].write
    BY <1>2, <2>2, NewFdTurns
  <2>4. ASSUME Meets(r, s), r.op = "U" PROVE Sound(s)
    <3>1. slot[s].id \in Known /\ (slot[s].id # 0 => HashId(slot[s].id) = s)
      BY <2>4 DEF Meets, Fits, Known
    <3> QED
      BY <1>2, <2>3, <2>4, <3>1, EndsGoOn DEF Meets, Sound, Fits, Lives
  <2> QED
    BY <2>3, <2>4
<1>3. CASE ~Reserved(slot[s]) /\ Abort
  BY <1>3, AbortTurns, MetReserved
<1> QED
  BY <1>1, <1>2, <1>3 DEF AddUdpSocket

-----------------------------------------------------------------------------
(* Requests about sockets, and events.                                     *)

LEMMA SameSound ==
  ASSUME SocketTypes, NEW s \in Slots, NEW b, Kept(slot[s], lows), Same, GoOn
  PROVE  /\ Turns(s, b)
         /\ Sits(s) => Sound(s) /\ Spares(s)
<1>1. Turns(s, b) /\ slot'[s] = slot[s] /\ Lives
  BY SameTurns DEF Same, Turn, Lives
<1> QED
  BY <1>1, EndsGoOn DEF Sits, Sound, Spares, Lives

\* The answer for a socket that is gone.
LEMMA OtherSound ==
  ASSUME SocketTypes, NEW s \in Slots, NEW b, Kept(slot[s], lows), Same,
         NEW i, End(i), Other(slot[s], i)
  PROVE  /\ Turns(s, b)
         /\ Sits(s) /\ i \in Known /\ s = HashId(i) => Sound(s) /\ Spares(s)
<1>1. Turns(s, b) /\ slot'[s] = slot[s] /\ Lives
  BY SameTurns DEF Same, Turn, Lives
<1>2. i \in Known /\ s = HashId(i) => Ends
  BY <1>1, EndsEnd DEF End
<1> QED
  BY <1>1, <1>2 DEF Sits, Sound, Spares, Lives

LEMMA StartTurns ==
  ASSUME SocketTypes, NEW r, NEW s \in Slots, Kept(slot[s], lows),
         StartSocket(r, s, slot[s])
  PROVE  /\ Turns(s, 0)
         /\ Sits(s) /\ r.id \in Known /\ s = HashId(r.id) => Sound(s) /\ Spares(s)
<1> DEFINE k == slot[s]
<1>1. CASE Other(k, r.id) /\ Same /\ End(r.id)
  BY <1>1, OtherSound
<1>2. CASE /\ ~Other(k, r.id) /\ k.type \in {"PACCEPT", "PLISTEN"}
           /\ Becomes(s, [k EXCEPT !.type = "INVALID"]) /\ End(r.id)
  <2>1. /\ Turns(s, 0) /\ Lives
        /\ slot'[s].type = "INVALID" /\ slot'[s].id = slot[s].id
        /\ Empty(slot[s]) => Empty(slot'[s])
        /\ slot'[s].write = slot[s].write
    BY <1>2, FreedTurns
  <2>2. r.id \in Known /\ s = HashId(r.id) => Ends
    BY <1>2, <2>1, EndsEnd DEF End, Other
  <2>3. slot[s].id = r.id /\ r.id \in ended'
    BY <1>2 DEF Other, End
  <2>4. Sits(s) => Fits(s, slot'[s])
    BY <1>2, <2>1 DEF Sits, Fits
  <2> QED
    BY <1>2, <2>1, <2>2, <2>3, <2>4 DEF Sits, Sound, Spares, Lives
<1>3. CASE /\ ~Other(k, r.id) /\ k.type \in {"PACCEPT", "PLISTEN"} /\ GoOn
           /\ Becomes(s, [k EXCEPT !.type = IF @ = "PACCEPT" THEN "CONNECTED" ELSE "LISTEN"])
  <2>1. PICK t \in SocketType : t = IF k.type = "PACCEPT" THEN "CONNECTED" ELSE "LISTEN"
    BY DEF SocketType
  <2>2. PICK x : x = [k EXCEPT !.type = t]
    OBVIOUS
  <2>3. slot' = [slot EXCEPT ![s] = x] /\ Lives
    BY <1>3, <2>1, <2>2 DEF Becomes, Turn, Lives
  <2>4. /\ x \in Sockets /\ x.type = t /\ x.id = k.id /\ x.write = k.write
        /\ x.high = k.high /\ x.low = k.low /\ x.wire = k.wire
    BY <2>2, TypeSet DEF SocketTypes
  <2>5. Follows(k, x, lows, 0)
    BY <2>4, SameFollows
  <2>6. Turns(s, 0) /\ slot'[s] = x
    BY <2>3, <2>4, <2>5, BecomesTurns
  <2>7. ASSUME Sits(s) PROVE Fits(s, x)
    BY <1>3, <2>1, <2>4, <2>7 DEF Sits, Fits, Empty
  <2> QED
    BY <1>3, <2>1, <2>3, <2>4, <2>6, <2>7, EndsGoOn DEF Sits, Sound, Spares, Lives
<1>4. CASE Same /\ GoOn
  BY <1>4, SameSound
<1> QED
  BY <1>1, <1>2, <1>3, <1>4 DEF StartSocket

\* What an attempt to write or to close leaves of a socket.
LEMMA OutcomeTurns ==
  ASSUME SocketTypes, NEW s \in Slots, NEW b, NEW i, NEW x, Outcome(s, x, i),
         Follows(slot[s], x, lows, b), x.id = slot[s].id
  PROVE  /\ Turns(s, b) /\ slot'[s] = x /\ Lives
         /\ IF x.type = "INVALID" THEN ended' = ended \cup {i} ELSE GoOn
<1>1. slot' = [slot EXCEPT ![s] = x] /\ Lives
  BY DEF Outcome, Becomes, Turn, Lives
<1>2. IF x.type = "INVALID" THEN ended' = ended \cup {i} ELSE GoOn
  BY DEF Outcome, End
<1> QED
  BY <1>1, <1>2, BecomesTurns

LEMMA OutcomeEnds ==
  ASSUME NEW s, NEW i \in Known, HashId(i) = s,
         IF slot'[s].type = "INVALID" THEN ended' = ended \cup {i} ELSE GoOn
  PROVE  Ends /\ (slot'[s].type = "INVALID" => i \in ended')
  BY EndsGoOn, EndsEnd DEF Other

LEMMA HalfCloseDoes ==
  ASSUME NEW k \in Sockets, NEW x, x = HalfClose(k)
  PROVE  /\ x \in Sockets /\ x.type = "HALFCLOSE" /\ x.id = k.id /\ x.write = k.write
         /\ x.high = k.high /\ x.low = k.low /\ x.wire = k.wire
<1>1. PICK t \in SocketType : t = "HALFCLOSE"
  BY DEF SocketType
<1>2. x = [k EXCEPT !.type = t]
  BY <1>1 DEF HalfClose
<1> QED
  BY <1>1, <1>2, TypeSet

LEMMA CloseTurns ==
  ASSUME SocketTypes, NEW r, NEW s \in Slots, Kept(slot[s], lows),
         CloseSocket(r, s, slot[s])
  PROVE  /\ Turns(s, 0)
         /\ Sits(s) /\ ~(slot[s].type = "RESERVE" /\ slot[s].id = r.id)
              /\ r.id \in Known /\ s = HashId(r.id) => Sound(s) /\ Spares(s)
<1> DEFINE k == slot[s]
<1>0. k \in Sockets
  BY DEF SocketTypes
<1>1. CASE Other(k, r.id) /\ Same /\ End(r.id)
  BY <1>1, OtherSound
<1>2. CASE ~Other(k, r.id)
  <2>1. PICK x \in IF Empty(k) THEN {k} ELSE SendBuffer(k) :
          LET gone == x.type = "INVALID" \/ Empty(x) IN
          IF gone /\ k.type = "RESERVE" THEN Abort
          ELSE Outcome(s, IF gone THEN ForceClose(x) ELSE HalfClose(x), r.id)
    BY <1>2 DEF CloseSocket
  <2>2. Wrote(k, x, lows) /\ (Empty(k) => x = k)
    <3>1. Wrote(k, k, lows)
      BY <1>0 DEF Wrote
    <3> QED
      BY <1>0, <2>1, <3>1, SendBufferWrote
  <2>3. x \in Sockets /\ x.id = k.id
    BY <2>2 DEF Wrote
  <2>4. CASE (x.type = "INVALID" \/ Empty(x)) /\ k.type = "RESERVE"
    <3>1. Abort
      BY <2>1, <2>4
    <3>2. k.id = r.id
      BY <1>2 DEF Other
    <3> QED
      BY <2>4, <3>1, <3>2, AbortTurns
  <2>5. CASE (x.type = "INVALID" \/ Empty(x)) /\ k.type # "RESERVE"
    <3>1. PICK y : y = ForceClose(x)
      OBVIOUS
    <3>2. Outcome(s, y, r.id)
      BY <2>1, <2>5, <3>1
    <3>3. /\ y \in Sockets /\ y.type = "INVALID" /\ y.id = x.id /\ ~y.write
          /\ y.high = <<>> /\ y.low = <<>> /\ y.wire = <<>>
      BY <2>3, <3>1, ForceCloseDoes
    <3>4. Follows(k, y, lows, 0) /\ Empty(y)
      BY <3>3, EmptyFollows DEF Empty
    <3>5. /\ Turns(s, 0) /\ slot'[s] = y /\ Lives
          /\ IF y.type = "INVALID" THEN ended' = ended \cup {r.id} ELSE GoOn
      BY <2>3, <3>2, <3>3, <3>4, OutcomeTurns
    <3>6. k.id = r.id
      BY <1>2 DEF Other
    <3>7. r.id \in Known /\ s = HashId(r.id) => Ends /\ r.id \in ended'
      BY <3>3, <3>5, OutcomeEnds
    <3>8. Sits(s) => Fits(s, y)
      BY <2>3, <3>3, <3>4 DEF Sits, Fits
    <3> QED
      BY <2>5, <3>3, <3>5, <3>6, <3>7, <3>8 DEF Sits, Sound, Spares, Lives
  <2>6. CASE x.type # "INVALID" /\ ~Empty(x)
    <3>1. PICK y : y = HalfClose(x)
      OBVIOUS
    <3>2. Outcome(s, y, r.id)
      BY <2>1, <2>6, <3>1
    <3>3. /\ y \in Sockets /\ y.type = "HALFCLOSE" /\ y.id = x.id /\ y.write = x.write
          /\ y.high = x.high /\ y.low = x.low /\ y.wire = x.wire
      BY <2>3, <3>1, HalfCloseDoes
    <3>4. Follows(k, y, lows, 0)
      BY <2>2, <3>3 DEF Wrote, Follows, Kept, Older
    <3>5. Turns(s, 0) /\ slot'[s] = y /\ Lives /\ GoOn
      BY <2>3, <3>2, <3>3, <3>4, OutcomeTurns
    <3>6. k.id = r.id /\ ~Empty(k) /\ x.type = k.type /\ x.write = k.write
      BY <1>2, <2>2, <2>6 DEF Other, Wrote
    <3>7. k.type \in SocketType
      BY <1>0, SocketFields
    <3>8. ASSUME Sits(s), k.type # "RESERVE" PROVE Fits(s, y)
      <4>1. k.type \in {"CONNECTING", "CONNECTED", "HALFCLOSE", "BIND"}
        BY <2>6, <3>6, <3>7, <3>8 DEF Sits, Fits, SocketType
      <4> QED
        BY <2>3, <3>3, <3>6, <3>8, <4>1 DEF Sits, Fits
    <3>9. k.type = "INVALID" => FALSE
      BY <1>2 DEF Other
    <3> QED
      BY <2>3, <3>3, <3>5, <3>6, <3>8, <3>9, EndsGoOn DEF Sits, Sound, Spares, Lives
  <2> QED
    BY <2>4, <2>5, <2>6
<1> QED
  BY <1>1, <1>2 DEF CloseSocket

LEMMA SendTurns ==
  ASSUME SocketTypes, NEW r, NEW s \in Slots, Kept(slot[s], lows), r.op \in Sending,
         r.msg \in Nat, Older(slot[s], r.msg), r.op = "P" <=> r.msg \in lows,
         SendSocket(r, s, slot[s])
  PROVE  /\ Turns(s, r.msg)
         /\ Sits(s) /\ ~(slot[s].type = "RESERVE" /\ slot[s].id = r.id)
              /\ sort[r.id] \notin {"none", "L"} => Sound(s) /\ Spares(s)
<1> DEFINE k == slot[s]
           q == IF r.op = "D" THEN "high" ELSE "low"
<1>0. k \in Sockets
  BY DEF SocketTypes
<1>q. q = ListOf(r.msg, lows)
  BY DEF ListOf, Sending
<1> HIDE DEF q
<1>1. CASE Same /\ GoOn
  BY <1>1, SameSound
<1>2. CASE ~Other(k, r.id) /\ k.type \in {"PLISTEN", "LISTEN"} /\ Abort
  BY <1>2, AbortTurns DEF Other, Sits, Fits
<1>3. CASE /\ ~Other(k, r.id) /\ k.type = "CONNECTED" /\ Empty(k)
           /\ \E x \in SendNow(k, q, r.msg) : Outcome(s, x, r.id)
  <2>1. PICK x \in SendNow(k, q, r.msg) : Outcome(s, x, r.id)
    BY <1>3
  <2>2. /\ Follows(k, x, lows, r.msg) /\ x.id = k.id
        /\ \/ x.type = "INVALID" /\ Empty(x) /\ ~x.write
           \/ x.type = k.type /\ (Empty(x) \/ x.write)
    BY <1>0, <1>q, <1>3, <2>1, SendNowFollows
  <2>3. /\ Turns(s, r.msg) /\ slot'[s] = x /\ Lives
        /\ IF x.type = "INVALID" THEN ended' = ended \cup {r.id} ELSE GoOn
    BY <2>1, <2>2, OutcomeTurns
  <2>4. k.id = r.id
    BY <1>3 DEF Other
  <2>5. Sits(s) => Ends /\ (x.type = "INVALID" => r.id \in ended')
    BY <1>3, <2>3, <2>4, SitsKnown, OutcomeEnds
  <2>6. Sits(s) => Fits(s, x)
    BY <1>3, <2>2 DEF Sits, Fits
  <2> QED
    BY <1>3, <2>3, <2>4, <2>5, <2>6 DEF Sits, Sound, Spares, Lives
<1>4. CASE /\ ~Other(k, r.id)
           /\ k.type \in {"RESERVE", "CONNECTING", "CONNECTED", "BIND"}
           /\ ~(k.type = "CONNECTED" /\ Empty(k))
           /\ Becomes(s, Queue(k, q, Parts(r.msg))) /\ GoOn
  <2>1. PICK x : x = Queue(k, q, Parts(r.msg))
    OBVIOUS
  <2>2. Follows(k, x, lows, r.msg)
    BY <1>0, <1>q, <2>1, QueueFollows
  <2>3. Parts(r.msg) \in Seq(Nat) /\ q \in {"high", "low"}
    BY PartsWhole DEF q
  <2>4. x.type = k.type /\ x.id = k.id /\ x.write = k.write
    BY <1>0, <2>1, <2>3, QueueDoes
  <2>5. slot' = [slot EXCEPT ![s] = x] /\ Lives
    BY <1>4, <2>1 DEF Becomes, Turn, Lives
  <2>6. Turns(s, r.msg) /\ slot'[s] = x
    BY <2>2, <2>4, <2>5, BecomesTurns
  <2>7. Sits(s) /\ k.type # "RESERVE" => Fits(s, x)
    BY <1>4, <2>4 DEF Sits, Fits
  <2> QED
    BY <1>4, <2>4, <2>5, <2>6, <2>7, EndsGoOn DEF Sits, Sound, Spares, Other, Lives
<1> QED
  BY <1>1, <1>2, <1>3, <1>4 DEF SendSocket, q

LEMMA ConnectTurns ==
  ASSUME SocketTypes, NEW s \in Slots, Kept(slot[s], lows),
         slot[s].type = "CONNECTING", ReportConnect(s, slot[s])
  PROVE  /\ Turns(s, 0)
         /\ Sits(s) => Sound(s) /\ Spares(s)
<1> DEFINE k == slot[s]
<1>0. k \in Sockets
  BY DEF SocketTypes
<1>1. CASE Becomes(s, ForceClose(k)) /\ ended' = ended \cup {k.id}
  <2>1. PICK x : x = ForceClose(k)
    OBVIOUS
  <2>2. slot' = [slot EXCEPT ![s] = x] /\ Lives
    BY <1>1, <2>1 DEF Becomes, Turn, Lives
  <2>3. x.type = "INVALID" /\ x.id = k.id /\ Empty(x) /\ ~x.write /\ Follows(k, x, lows, 0)
    BY <1>0, <2>1, ForceCloseWrote, WroteFollows DEF Wrote
  <2>4. Turns(s, 0) /\ slot'[s] = x
    BY <2>2, <2>3, BecomesTurns
  <2>5. Sits(s) => Ends
    BY <1>1, <2>3, <2>4, SitsKnown, EndsEnd DEF Other
  <2>6. Sits(s) => Fits(s, x)
    BY <2>3 DEF Sits, Fits
  <2> QED
    BY <1>1, <2>2, <2>3, <2>4, <2>5, <2>6 DEF Sits, Sound, Spares, Lives
<1>2. CASE /\ Becomes(s, [k EXCEPT !.type = "CONNECTED", !.write = @ /\ ~Empty(k)])
           /\ GoOn
  <2>1. PICK t \in SocketType : t = "CONNECTED"
    BY DEF SocketType
  <2>2. PICK f \in BOOLEAN : f = (k.write /\ ~Empty(k))
    <3>1. (k.write /\ ~Empty(k)) \in BOOLEAN
      OBVIOUS
    <3> QED
      BY <3>1, Zenon
  <2>3. PICK x : x = [k EXCEPT !.type = t, !.write = f]
    OBVIOUS
  <2>4. slot' = [slot EXCEPT ![s] = x] /\ Lives
    <3>1. x = [k EXCEPT !.type = "CONNECTED", !.write = @ /\ ~Empty(k)]
      BY <2>1, <2>2, <2>3, Zenon
    <3> QED
      BY <1>2, <3>1, Zenon DEF Becomes, Turn, Lives
  <2>5. /\ x \in Sockets /\ x.type = t /\ x.id = k.id /\ x.write = f
        /\ x.high = k.high /\ x.low = k.low /\ x.wire = k.wire
    BY <1>0, <2>3 DEF Sockets
  <2>6. Follows(k, x, lows, 0)
    BY <2>5, SameFollows
  <2>7. Turns(s, 0) /\ slot'[s] = x
    BY <2>4, <2>5, <2>6, BecomesTurns
  <2>8. ASSUME Sits(s) PROVE Fits(s, x)
    <3>1. k.write /\ k.id \in Known /\ (k.id # 0 => HashId(k.id) = s)
      BY <2>8 DEF Sits, Fits
    <3>2. ~Empty(k) => x.write
      BY <2>2, <2>5, <3>1, Zenon
    <3> QED
      BY <2>1, <2>5, <3>1, <3>2 DEF Fits, Empty
  <2> QED
    BY <1>2, <2>1, <2>4, <2>5, <2>7, <2>8, EndsGoOn DEF Sits, Sound, Spares, Lives
<1> QED
  BY <1>1, <1>2 DEF ReportConnect

LEMMA ForwardTurns ==
  ASSUME SocketTypes, NEW s \in Slots, Kept(slot[s], lows), ForwardMessage(s, slot[s])
  PROVE  /\ Turns(s, 0)
         /\ Sits(s) /\ slot[s].type \notin {"INVALID", "RESERVE"} => Sound(s) /\ Spares(s)
<1> DEFINE k == slot[s]
<1>0. k \in Sockets
  BY DEF SocketTypes
<1>1. CASE Same /\ GoOn
  BY <1>1, SameSound
<1>2. CASE Becomes(s, ForceClose(k)) /\ End(k.id)
  <2>1. PICK x : x = ForceClose(k)
    OBVIOUS
  <2>2. slot' = [slot EXCEPT ![s] = x] /\ Lives
    BY <1>2, <2>1 DEF Becomes, Turn, Lives
  <2>3. x.type = "INVALID" /\ x.id = k.id /\ Empty(x) /\ ~x.write /\ Follows(k, x, lows, 0)
    BY <1>0, <2>1, ForceCloseWrote, WroteFollows DEF Wrote
  <2>4. Turns(s, 0) /\ slot'[s] = x
    BY <2>2, <2>3, BecomesTurns
  <2>5. Sits(s) /\ k.type \notin {"INVALID", "RESERVE"} => Ends
    BY <1>2, <2>3, <2>4, SitsKnown, EndsEnd DEF End, Other
  <2>6. Sits(s) => Fits(s, x)
    BY <2>3 DEF Sits, Fits
  <2> QED
    BY <1>2, <2>2, <2>3, <2>4, <2>5, <2>6 DEF Sits, Sound, Spares, End, Lives
<1>3. CASE k.type = "RESERVE" /\ Abort
  BY <1>3, AbortTurns
<1> QED
  BY <1>1, <1>2, <1>3 DEF ForwardMessage

LEMMA FlushTurns ==
  ASSUME SocketTypes, NEW s \in Slots, Kept(slot[s], lows), FlushBuffer(s, slot[s]),
         slot[s].type \notin {"INVALID", "CONNECTING"}
  PROVE  /\ Turns(s, 0)
         /\ Sits(s) /\ slot[s].type \notin {"INVALID", "RESERVE"} => Sound(s) /\ Spares(s)
<1> DEFINE k == slot[s]
<1>0. k \in Sockets /\ ~Uncomplete(k.low)
  <2>1. k \in Sockets
    BY DEF SocketTypes
  <2>2. k.low \in Seq(Nat)
    BY <2>1, SocketFields
  <2> QED
    BY <2>1, <2>2, WholeComplete DEF Kept, Stream
<1>1. PICK x \in SendBuffer(k) :
        IF k.type = "RESERVE" /\ x.type = "INVALID" THEN Abort ELSE Outcome(s, x, k.id)
  BY <1>0 DEF FlushBuffer
<1>2. Wrote(k, x, lows)
  BY <1>0, SendBufferWrote
<1>3. CASE k.type = "RESERVE" /\ x.type = "INVALID"
  BY <1>1, <1>3, AbortTurns
<1>4. CASE ~(k.type = "RESERVE" /\ x.type = "INVALID")
  <2>1. Outcome(s, x, k.id)
    BY <1>1, <1>4
  <2>2. Follows(k, x, lows, 0) /\ x.id = k.id
    BY <1>2, WroteFollows DEF Wrote
  <2>3. /\ Turns(s, 0) /\ slot'[s] = x /\ Lives
        /\ IF x.type = "INVALID" THEN ended' = ended \cup {k.id} ELSE GoOn
    BY <2>1, <2>2, OutcomeTurns
  <2>4. ASSUME Sits(s), k.type # "RESERVE" PROVE Fits(s, x)
    <3>1. CASE x.type = "INVALID"
      BY <1>2, <2>2, <2>4, <3>1 DEF Wrote, Sits, Fits
    <3>2. CASE /\ x.type = k.type /\ x.type # "INVALID"
               /\ x.write = k.write \/ (Empty(x) /\ ~x.write /\ k.type # "HALFCLOSE")
      <4>1. x.id = k.id /\ (Empty(k) => Empty(x))
        BY <1>2 DEF Wrote
      <4> QED
        BY <2>4, <3>2, <4>1 DEF Sits, Fits
    <3> QED
      BY <1>2, <3>1, <3>2 DEF Wrote
  <2>5. Sits(s) /\ k.type # "RESERVE" => Ends /\ (x.type = "INVALID" => k.id \in ended')
    BY <2>3, SitsKnown, OutcomeEnds
  <2> QED
    BY <2>3, <2>4, <2>5 DEF Sits, Sound, Spares, Lives
<1> QED
  BY <1>3, <1>4

-----------------------------------------------------------------------------
(* Streams, from step to step.                                             *)

\* The pipe without its first c requests.
Shifted(c) ==
  /\ pipe' \in Seq(Requests) /\ Len(pipe') = Len(pipe) - c
  /\ \A n \in 1..Len(pipe') : pipe'[n] = pipe[n + c]

LEMMA TurnsFollow ==
  ASSUME SocketTypes, StreamInv, NEW s \in Slots, NEW b, Turns(s, b)
  PROVE  \A t \in Slots : Follows(slot[t], slot'[t], lows, b)
<1> SUFFICES ASSUME NEW t \in Slots, t # s PROVE Follows(slot[t], slot'[t], lows, b)
  BY DEF Turns
<1>1. slot'[t] = slot[t] /\ slot[t] \in Sockets /\ Kept(slot[t], lows)
  BY DEF Turns, SocketTypes, StreamInv, Before
<1> QED
  BY <1>1, SameFollows

LEMMA StreamShifts ==
  ASSUME SocketTypes, StreamInv, NEW c \in {0, 1}, NEW b \in 0..sent, Shifted(c),
         \A t \in Slots : Follows(slot[t], slot'[t], lows, b),
         \A n \in 1..Len(pipe) : c < n /\ pipe[n].op \in Sending => b < pipe[n].msg,
         UNCHANGED <<sent, lows>>
  PROVE  StreamInv'
<1>1. \A n \in 1..Len(pipe') : n + c \in 1..Len(pipe) /\ c < n + c /\ pipe'[n] = pipe[n + c]
  BY DEF Shifted, SocketTypes
<1>2. PipeOrder'
  <2>1. ASSUME NEW n \in 1..Len(pipe'), pipe'[n].op \in Sending
        PROVE  pipe'[n].msg \in 1..sent' /\ (pipe'[n].op = "P" <=> pipe'[n].msg \in lows')
    BY <1>1, <2>1 DEF StreamInv, PipeOrder
  <2>2. ASSUME NEW n \in 1..Len(pipe'), NEW m \in 1..Len(pipe'), n < m,
               pipe'[n].op \in Sending, pipe'[m].op \in Sending
        PROVE  pipe'[n].msg < pipe'[m].msg
    <3>1. n + c < m + c
      BY <2>2
    <3> QED
      BY <1>1, <2>2, <3>1 DEF StreamInv, PipeOrder
  <2> QED
    BY <2>1, <2>2 DEF PipeOrder
<1>3. ASSUME NEW s \in Slots PROVE Before(slot[s])'
  <2>1. Kept(slot'[s], lows') /\ \A m \in Nat : Older(slot[s], m) /\ b < m => Older(slot'[s], m)
    BY DEF Follows
  <2>2. Older(slot'[s], sent' + 1)
    <3>1. sent + 1 \in Nat /\ b < sent + 1
      BY DEF SocketTypes
    <3> QED
      BY <2>1, <3>1 DEF StreamInv, Before
  <2>3. ASSUME NEW n \in 1..Len(pipe'), pipe'[n].op \in Sending
        PROVE  Older(slot'[s], pipe'[n].msg)
    <3>1. pipe[n + c].msg \in 1..sent /\ Older(slot[s], pipe[n + c].msg)
      BY <1>1, <2>3 DEF StreamInv, PipeOrder, Before
    <3>2. b < pipe[n + c].msg
      BY <1>1, <2>3
    <3>3. pipe[n + c].msg \in Nat
      BY <3>1
    <3> QED
      BY <1>1, <2>1, <3>1, <3>2, <3>3
  <2> QED
    BY <2>1, <2>2, <2>3 DEF Before
<1> QED
  BY <1>2, <1>3 DEF StreamInv

LEMMA StreamAsks ==
  ASSUME SocketTypes, StreamInv, NEW r \in Requests, r.op \notin Sending,
         pipe' = Append(pipe, r), \A t \in Slots : Follows(slot[t], slot'[t], lows, 0),
         UNCHANGED <<sent, lows>>
  PROVE  StreamInv'
<1>0. /\ Len(pipe) \in Nat /\ Len(pipe') = Len(pipe) + 1
      /\ \A n \in 1..Len(pipe) : pipe'[n] = pipe[n]
      /\ pipe'[Len(pipe) + 1] = r
  BY PipeAppend DEF SocketTypes
<1>1. \A n \in 1..Len(pipe') : pipe'[n].op \in Sending =>
         n \in 1..Len(pipe) /\ pipe'[n] = pipe[n]
  <2>1. \A n \in 1..Len(pipe') : n \in 1..Len(pipe) \/ n = Len(pipe) + 1
    BY <1>0
  <2> QED
    BY <1>0, <2>1
<1>2. PipeOrder'
  BY <1>1 DEF StreamInv, PipeOrder
<1>3. ASSUME NEW s \in Slots PROVE Before(slot[s])'
  <2>1. Kept(slot'[s], lows') /\ \A m \in Nat : Older(slot[s], m) /\ 0 < m => Older(slot'[s], m)
    BY DEF Follows
  <2>2. Older(slot'[s], sent' + 1)
    <3>1. sent + 1 \in Nat /\ 0 < sent + 1
      BY DEF SocketTypes
    <3> QED
      BY <2>1, <3>1 DEF StreamInv, Before
  <2>3. ASSUME NEW n \in 1..Len(pipe'), pipe'[n].op \in Sending
        PROVE  Older(slot'[s], pipe'[n].msg)
    <3>1. pipe[n].msg \in 1..sent /\ Older(slot[s], pipe[n].msg)
      BY <1>1, <2>3 DEF StreamInv, PipeOrder, Before
    <3>3. pipe[n].msg \in Nat /\ 0 < pipe[n].msg
      BY <3>1
    <3> QED
      BY <1>1, <2>1, <2>3, <3>1, <3>3
  <2> QED
    BY <2>1, <2>2, <2>3 DEF Before
<1> QED
  BY <1>2, <1>3 DEF StreamInv

\* A message is sent: it is the newest, and has the priority it is sent with.
LEMMA StreamSends ==
  ASSUME SocketTypes, StreamInv, NEW r \in Requests, r.op \in Sending, r.msg = sent + 1,
         pipe' = Append(pipe, r), slot' = slot, sent' = sent + 1,
         lows' = IF r.op = "P" THEN lows \cup {sent + 1} ELSE lows
  PROVE  StreamInv'
<1>0. /\ Len(pipe) \in Nat /\ Len(pipe') = Len(pipe) + 1
      /\ \A n \in 1..Len(pipe) : pipe'[n] = pipe[n]
      /\ pipe'[Len(pipe) + 1] = r
  BY PipeAppend DEF SocketTypes
<1>1. \A n \in 1..Len(pipe') : \/ n \in 1..Len(pipe) /\ pipe'[n] = pipe[n]
                               \/ n = Len(pipe) + 1 /\ pipe'[n] = r
  BY <1>0
<1>2. sent \in Nat /\ lows \subseteq 1..sent
  BY DEF SocketTypes
<1>3. sent + 1 \notin lows /\ \A m \in 1..sent : m \in lows' <=> m \in lows
  BY <1>2
<1>4. \A n \in 1..Len(pipe) : pipe[n].op \in Sending =>
         pipe[n].msg \in 1..sent /\ (pipe[n].op = "P" <=> pipe[n].msg \in lows)
  BY DEF StreamInv, PipeOrder
<1>5. PipeOrder'
  <2>1. ASSUME NEW n \in 1..Len(pipe'), pipe'[n].op \in Sending
        PROVE  pipe'[n].msg \in 1..sent' /\ (pipe'[n].op = "P" <=> pipe'[n].msg \in lows')
    <3>1. CASE n \in 1..Len(pipe) /\ pipe'[n] = pipe[n]
      BY <1>2, <1>3, <1>4, <2>1, <3>1
    <3>2. CASE pipe'[n] = r
      BY <1>2, <1>3, <3>2
    <3> QED
      BY <1>1, <3>1, <3>2
  <2>2. ASSUME NEW n \in 1..Len(pipe'), NEW m \in 1..Len(pipe'), n < m,
               pipe'[n].op \in Sending, pipe'[m].op \in Sending
        PROVE  pipe'[n].msg < pipe'[m].msg
    <3>1. n \in 1..Len(pipe) /\ pipe'[n] = pipe[n] /\ pipe[n].msg \in 1..sent
      BY <1>0, <1>1, <1>4, <2>2
    <3>2. CASE m \in 1..Len(pipe) /\ pipe'[m] = pipe[m]
      BY <2>2, <3>1, <3>2 DEF StreamInv, PipeOrder
    <3>3. CASE pipe'[m] = r
      BY <1>2, <3>1, <3>3
    <3> QED
      BY <1>1, <3>2, <3>3
  <2> QED
    BY <2>1, <2>2 DEF PipeOrder
<1>6. ASSUME NEW s \in Slots PROVE Before(slot[s])'
  <2> DEFINE k == slot[s]
  <2>1. k \in Sockets /\ Kept(k, lows) /\ Older(k, sent + 1)
    BY DEF SocketTypes, StreamInv, Before
  <2>2. k.wire \in Seq(Nat) /\ k.high \in Seq(Nat) /\ k.low \in Seq(Nat)
    BY <2>1, SocketFields
  <2>3. k.wire \o k.high \in Seq(Nat) /\ Below(k.wire \o k.high, sent + 1)
    BY <2>1, <2>2, Joined, BelowJoined DEF Older
  <2>4. Kept(k, lows')
    <3>1. Stream(k.wire \o k.high, k.low, lows \cup {sent + 1})
      <4>1. sent + 1 \in Nat /\ Below(k.low, sent + 1)
        BY <1>2, <2>1 DEF Older
      <4>2. Stream(k.wire \o k.high, k.low, lows)
        BY <2>1 DEF Kept
      <4> QED
        BY <2>2, <2>3, <4>1, <4>2, StreamGrows
    <3>2. Stream(k.wire \o k.high, k.low, lows)
      BY <2>1 DEF Kept
    <3> QED
      BY <3>1, <3>2 DEF Kept
  <2>5. Older(k, sent + 2)
    <3>1. \A x \in Nat : x < sent + 1 => x < sent + 2
      BY <1>2
    <3>2. ASSUME NEW q \in Seq(Nat), Below(q, sent + 1) PROVE Below(q, sent + 2)
      BY <3>1, <3>2 DEF Below
    <3> QED
      BY <2>1, <2>2, <3>2 DEF Older
  <2>6. \A n \in 1..Len(pipe') : pipe'[n].op \in Sending => Older(k, pipe'[n].msg)
    BY <1>1, <2>1 DEF StreamInv, Before
  <2>7. sent' + 1 = sent + 2
    BY <1>2
  <2> QED
    BY <2>4, <2>5, <2>6, <2>7 DEF Before
<1> QED
  BY <1>5, <1>6 DEF StreamInv

-----------------------------------------------------------------------------
(* Slots, from step to step.                                               *)

\* Slot s is the one that the request taken from the pipe was to find.
Served(c, s) ==
  /\ c = 1 /\ pipe # <<>>
  /\ pipe[1].op \in Making /\ HashId(pipe[1].id) = s

\* A UDP socket that could not be added is marked by the request that was to make it.
SortTurns(c) ==
  \A j \in Ids :
    \/ sort'[j] = sort[j]
    \/ /\ c = 1 /\ pipe # <<>> /\ pipe[1].op = "U" /\ pipe[1].id = j
       /\ sort[j] = "U" /\ sort'[j] = "F"

LEMMA SlotShifts ==
  ASSUME SocketTypes, SlotInv, NEW c \in {0, 1}, Shifted(c), phase' # "abort",
         \A s \in Slots :
           /\ Sound(s) /\ slot'[s].id = slot[s].id
           /\ slot[s].type = "RESERVE" => slot'[s].type = "RESERVE" \/ Served(c, s),
         SortTurns(c), UNCHANGED <<allocId, pc>>
  PROVE  SlotInv'
<1>0. ended \subseteq ended' /\ Ends
  <2>1. 0 \in Slots
    BY SocketAssumption DEF Slots
  <2> QED
    BY <2>1 DEF Sound, Ends
<1>1. \A n \in 1..Len(pipe') : n + c \in 1..Len(pipe) /\ pipe'[n] = pipe[n + c]
  BY DEF Shifted, SocketTypes
<1>h. \A i \in Ids : HashId(i) \in Slots
  BY HashInSlots DEF Ids
<1>p. Known' = Known
  BY DEF SortTurns, Known
<1>2. ASSUME NEW s \in Slots PROVE Fits(s, slot[s])'
  <2>1. Fits(s, slot'[s])
    BY DEF Sound
  <2>2. slot'[s].id \in Known => /\ sort[slot'[s].id] = "L" => sort'[slot'[s].id] = "L"
                                 /\ sort[slot'[s].id] = "B" => sort'[slot'[s].id] = "B"
    BY DEF Known, SortTurns
  <2> QED
    BY <1>p, <2>1, <2>2 DEF Fits
<1>3. ASSUME NEW i \in Known PROVE Reported(i)'
  <2>1. i \in Ids /\ HashId(i) \in Slots
    BY <1>h DEF Known
  <2>2. Reported(i) /\ Sound(HashId(i)) /\ slot'[HashId(i)].id = slot[HashId(i)].id
    BY <2>1 DEF SlotInv
  <2>3. sort[i] = "F" => sort'[i] = "F"
    BY <2>1 DEF SortTurns
  <2> QED
    BY <1>0, <2>2, <2>3 DEF Reported, Sound
<1>4. ASSUME NEW w \in Workers, pc[w] # Idle PROVE Holds(w)'
  <2>1. Holds(w) /\ pc[w].id \in Ids
    BY <1>4 DEF SlotInv, SocketTypes
  <2>2. HashId(pc[w].id) \in Slots
    BY <1>h, <2>1
  <2>3. slot'[HashId(pc[w].id)].type = "RESERVE"
    <3>1. ~Served(c, HashId(pc[w].id))
      <4>1. pipe # <<>> => 1 \in 1..Len(pipe)
        BY DEF SocketTypes
      <4> QED
        BY <2>1, <4>1 DEF Holds, Served
    <3> QED
      BY <2>1, <2>2, <3>1 DEF Holds
  <2>4. sort'[pc[w].id] = "none"
    BY <2>1 DEF Holds, SortTurns
  <2>5. \A j \in Known : HashId(j) = HashId(pc[w].id) => sort'[j] = "F" \/ j \in ended'
    BY <1>0, <2>1 DEF Holds, Known, SortTurns
  <2> QED
    BY <1>1, <1>p, <2>1, <2>3, <2>4, <2>5 DEF Holds
<1>5. ASSUME NEW n \in 1..Len(pipe') PROVE Waits(n)'
  <2>1. Waits(n + c) /\ pipe'[n] = pipe[n + c] /\ n + c \in 1..Len(pipe)
    BY <1>1 DEF SlotInv
  <2>2. ASSUME pipe'[n].op \in Making
        PROVE  slot'[HashId(pipe'[n].id)].type = "RESERVE"
    <3>1. HashId(pipe[n + c].id) \in Slots /\ slot[HashId(pipe[n + c].id)].type = "RESERVE"
      BY <1>h, <2>1, <2>2 DEF Waits
    <3>2. ~Served(c, HashId(pipe[n + c].id))
      <4>1. 1 \in 1..Len(pipe) /\ (c = 1 => n + c # 1)
        BY <2>1
      <4> QED
        BY <2>1, <2>2, <4>1 DEF Waits, Served
    <3> QED
      BY <2>1, <3>1, <3>2
  <2>3. ASSUME pipe'[n].op \in Making
        PROVE  slot'[HashId(pipe'[n].id)].id = pipe'[n].id
    BY <1>h, <2>1, <2>3 DEF Waits
  <2>4. ASSUME pipe'[n].op \in Making, NEW l \in 1..Len(pipe'), pipe'[l].op \in Making,
               HashId(pipe'[l].id) = HashId(pipe'[n].id)
        PROVE  l = n
    <3>1. l + c = n + c
      BY <1>1, <2>1, <2>4 DEF Waits
    <3> QED
      BY <3>1
  <2>5. ASSUME pipe'[n].op \in Making
        PROVE  sort'[pipe'[n].id] = pipe'[n].op
    <3>1. pipe[n + c].id \in Ids /\ sort[pipe[n + c].id] = pipe[n + c].op
      BY <2>1, <2>5 DEF Waits
    <3>2. ASSUME c = 1, pipe # <<>>, pipe[1].op = "U", pipe[1].id = pipe[n + c].id
          PROVE  FALSE
      <4>1. 1 \in 1..Len(pipe) /\ n + c # 1
        BY <2>1, <3>2
      <4>2. pipe[1].op \in Making
        BY <3>2 DEF Making
      <4> QED
        BY <2>1, <2>5, <3>2, <4>1, <4>2 DEF Waits
    <3> QED
      BY <2>1, <3>1, <3>2 DEF SortTurns
  <2>6. ASSUME pipe'[n].op \in Making
        PROVE  pipe'[n].id \notin ended'
    <3>1. pipe'[n].id \notin ended
      BY <2>1, <2>6 DEF Waits
    <3>2. ~Other(slot'[HashId(pipe'[n].id)], pipe'[n].id)
      BY <2>2, <2>3, <2>6 DEF Other
    <3> QED
      BY <1>0, <3>1, <3>2 DEF Ends
  <2>7. ASSUME pipe'[n].op \in Sending
        PROVE  sort'[pipe'[n].id] \notin {"none", "L"}
    <3>1. pipe[n + c].id \in Ids
      BY <2>1, <2>7, RequestFields DEF SocketTypes
    <3> QED
      BY <2>1, <2>7, <3>1 DEF Waits, SortTurns
  <2>8. pipe'[n].op \in {"K", "S"} => pipe'[n].id \in Known'
    BY <1>p, <2>1 DEF Waits
  <2>9. pipe'[n].op \in Making => pipe'[n].id \in Ids
    BY <2>1 DEF Waits
  <2> QED
    BY <2>2, <2>3, <2>4, <2>5, <2>6, <2>7, <2>8, <2>9 DEF Waits
<1>6. ASSUME NEW i \in ended' PROVE i \in Known' /\ Over(i)'
  <2>1. CASE i \in ended
    <3>1. i \in Known /\ Over(i) /\ HashId(i) \in Slots
      BY <1>h, <2>1 DEF SlotInv, Known
    <3>2. Sound(HashId(i)) /\ slot'[HashId(i)].id = slot[HashId(i)].id
      BY <3>1
    <3>3. CASE slot[HashId(i)].type = "RESERVE" /\ slot[HashId(i)].id = i
      <4>1. ASSUME Served(c, HashId(i)) PROVE FALSE
        <5>1. 1 \in 1..Len(pipe) /\ Waits(1)
          BY <4>1 DEF Served, SocketTypes, SlotInv
        <5>2. pipe[1].id = i
          BY <3>3, <4>1, <5>1 DEF Served, Waits
        <5> QED
          BY <2>1, <4>1, <5>1, <5>2 DEF Served, Waits
      <4>2. slot'[HashId(i)].type = "RESERVE"
        BY <3>1, <3>3, <4>1
      <4> QED
        BY <1>p, <3>1, <4>2 DEF Over
    <3>4. CASE slot[HashId(i)].type = "INVALID"
      BY <1>p, <3>1, <3>2, <3>4 DEF Sound, Over, Other
    <3>5. CASE slot[HashId(i)].id # i
      BY <1>p, <3>1, <3>2, <3>5 DEF Over, Other
    <3> QED
      BY <3>1, <3>3, <3>4, <3>5 DEF Over, Other
  <2>2. CASE i \notin ended
    BY <1>0, <1>p, <2>2 DEF Ends, Over
  <2> QED
    BY <2>1, <2>2
<1>7. \A i \in Ids : allocId' < i => sort'[i] = "none"
  BY DEF SlotInv, SortTurns
<1> QED
  BY <1>2, <1>3, <1>4, <1>5, <1>6, <1>7, <1>p DEF SlotInv

LEMMA SlotTurns ==
  ASSUME SocketTypes, SlotInv, NEW s \in Slots, NEW b, NEW c \in {0, 1}, Shifted(c),
         Turns(s, b), Sound(s), Spares(s) \/ Served(c, s),
         SortTurns(c), UNCHANGED <<allocId, pc>>
  PROVE  SlotInv'
<1>1. phase' # "abort"
  BY DEF Sound
<1>2. ASSUME NEW t \in Slots
      PROVE  /\ Sound(t) /\ slot'[t].id = slot[t].id
             /\ slot[t].type = "RESERVE" => slot'[t].type = "RESERVE" \/ Served(c, t)
  <2>1. CASE t = s
    BY <2>1 DEF Turns, Spares
  <2>2. CASE t # s
    <3>1. slot'[t] = slot[t] /\ Fits(t, slot[t])
      BY <2>2 DEF Turns, SlotInv
    <3> QED
      BY <3>1 DEF Sound
  <2> QED
    BY <2>1, <2>2
<1> QED
  BY <1>1, <1>2, SlotShifts

LEMMA SlotAsks ==
  ASSUME SocketTypes, SlotInv, NEW r \in Requests, pipe' = Append(pipe, r),
         r.op \notin Making, r.op \in Sending => sort[r.id] \notin {"none", "L"},
         r.op \in {"K", "S"} => r.id \in Known,
         UNCHANGED <<slot, phase, ended, allocId, pc, sort>>
  PROVE  SlotInv'
<1>0. /\ Len(pipe) \in Nat /\ Len(pipe') = Len(pipe) + 1
      /\ \A n \in 1..Len(pipe) : pipe'[n] = pipe[n]
      /\ pipe'[Len(pipe) + 1] = r
  BY PipeAppend DEF SocketTypes
<1>1. \A n \in 1..Len(pipe') : \/ n \in 1..Len(pipe) /\ pipe'[n] = pipe[n]
                               \/ n = Len(pipe) + 1 /\ pipe'[n] = r
  BY <1>0
<1>p. Known' = Known
  BY DEF Known
<1>2. ASSUME NEW s \in Slots PROVE Fits(s, slot[s])'
  BY <1>p DEF SlotInv, Fits
<1>3. ASSUME NEW i \in Known PROVE Reported(i)'
  BY DEF SlotInv, Reported
<1>4. ASSUME NEW w \in Workers, pc[w] # Idle PROVE Holds(w)'
  <2>1. Holds(w)
    BY <1>4 DEF SlotInv
  <2> QED
    BY <1>1, <1>p, <2>1 DEF Holds
<1>5. ASSUME NEW n \in 1..Len(pipe') PROVE Waits(n)'
  <2>1. CASE n \in 1..Len(pipe) /\ pipe'[n] = pipe[n]
    <3>1. Waits(n)
      BY <2>1 DEF SlotInv
    <3> QED
      BY <1>1, <1>p, <2>1, <3>1 DEF Waits
  <2>2. CASE pipe'[n] = r
    BY <1>p, <2>2 DEF Waits
  <2> QED
    BY <1>1, <2>1, <2>2
<1>6. ended' \subseteq Known' /\ \A i \in ended' : Over(i)'
  BY <1>p DEF SlotInv, Over
<1> QED
  BY <1>2, <1>3, <1>4, <1>5, <1>6, <1>p DEF SlotInv

\* The first half of reserve_id.
LEMMA ReserveSlots ==
  ASSUME SocketTypes, SlotInv, NEW w \in Workers, NEW op \in Making, Reserve(w, op)
  PROVE  SlotInv'
<1>1. PICK i \in Ids :
        /\ Tried(allocId, i) /\ allocId' = i
        /\ slot' = [slot EXCEPT ![HashId(i)].type = "RESERVE"]
        /\ pc' = [pc EXCEPT ![w] = [op |-> op, id |-> i]]
  BY DEF Reserve
<1> DEFINE s == HashId(i)
<1>2. s \in Slots /\ \A j \in Ids : HashId(j) \in Slots
  BY HashInSlots DEF Ids
<1>3. allocId < i /\ slot[s].type = "INVALID" /\ allocId \in Nat
  <2>1. i \in (allocId + 1)..(allocId + MaxSocket) /\ slot[s].type = "INVALID"
    BY <1>1 DEF Tried
  <2>2. allocId \in Nat /\ MaxSocket \in Nat
    BY SocketAssumption DEF SocketTypes
  <2> QED
    BY <2>1, <2>2
<1>4. sort[i] = "none" /\ pc[w] = Idle
  BY <1>1, <1>3 DEF SlotInv, Reserve
<1>5. slot[s] \in Sockets /\ Fits(s, slot[s])
  BY <1>2 DEF SocketTypes, SlotInv
<1>6. PICK x : x = [slot[s] EXCEPT !.type = "RESERVE"]
  OBVIOUS
<1>7. /\ x \in Sockets /\ x.type = "RESERVE" /\ x.id = slot[s].id
      /\ x.high = slot[s].high /\ x.low = slot[s].low /\ x.write = slot[s].write
  <2>1. PICK t \in SocketType : t = "RESERVE"
    BY DEF SocketType
  <2> QED
    BY <1>5, <1>6, <2>1, TypeSet
<1>8. slot'[s] = x /\ \A t \in Slots \ {s} : slot'[t] = slot[t]
  BY <1>1, <1>2, <1>6 DEF SocketTypes
<1>9. /\ pc'[w] = [op |-> op, id |-> i] /\ pc'[w] # Idle
      /\ \A v \in Workers \ {w} : pc'[v] = pc[v]
  BY <1>1 DEF SocketTypes, Idle, Ids
<1>10. /\ UNCHANGED <<pipe, phase, sort, ended>> /\ Known' = Known
  BY DEF Reserve, Known
<1>11. \A v \in Workers : pc[v] # Idle => pc[v].id \in Ids /\ HashId(pc[v].id) # s /\ Holds(v)
  BY <1>3 DEF SocketTypes, SlotInv, Holds
<1>12. \A n \in 1..Len(pipe) : pipe[n].op \in Making =>
         pipe[n].id \in Ids /\ HashId(pipe[n].id) # s
  BY <1>3 DEF SlotInv, Waits
<1> HIDE DEF s
<1>13. ASSUME NEW t \in Slots PROVE Fits(t, slot[t])'
  <2>1. CASE t = s
    BY <1>5, <1>3, <1>7, <1>8, <1>10, <2>1 DEF Fits, Empty
  <2>2. CASE t # s
    BY <1>8, <1>10, <2>2 DEF SlotInv, Fits
  <2> QED
    BY <2>1, <2>2
<1>14. ASSUME NEW j \in Known PROVE Reported(j)'
  <2>1. Reported(j) /\ HashId(j) \in Slots
    BY <1>2 DEF SlotInv, Known
  <2> QED
    BY <1>3, <1>8, <1>10, <2>1 DEF Reported
<1>15. ASSUME NEW v \in Workers, pc'[v] # Idle PROVE Holds(v)'
  <2>1. CASE v = w
    <3>1. pc'[v].id = i
      BY <1>9, <2>1
    <3>2. \A u \in Workers : pc'[u] # Idle /\ HashId(pc'[u].id) = s => u = w
      BY <1>9, <1>11
    <3>3. \A j \in Known : HashId(j) = s => sort[j] = "F" \/ j \in ended
      BY <1>3 DEF SlotInv, Reported
    <3> QED
      BY <1>1, <1>4, <1>7, <1>8, <1>10, <1>12, <2>1, <3>1, <3>2, <3>3 DEF Holds, s, Ids
  <2>2. CASE v # w
    <3>1. pc'[v] = pc[v] /\ Holds(v) /\ pc[v].id \in Ids /\ HashId(pc[v].id) # s
      BY <1>9, <1>11, <1>15, <2>2
    <3>2. slot'[HashId(pc[v].id)].type = "RESERVE"
      BY <1>2, <1>8, <3>1 DEF Holds
    <3>3. \A u \in Workers : pc'[u] # Idle /\ HashId(pc'[u].id) = HashId(pc'[v].id) => u = v
      BY <1>9, <3>1 DEF Holds, s
    <3>4. pc[v].id <= allocId'
      BY <1>1, <1>3, <3>1 DEF Holds, Ids
    <3> QED
      BY <1>10, <3>1, <3>2, <3>3, <3>4 DEF Holds
  <2> QED
    BY <2>1, <2>2
<1>16. ASSUME NEW n \in 1..Len(pipe') PROVE Waits(n)'
  <2>1. Waits(n) /\ pipe' = pipe
    BY <1>10 DEF SlotInv
  <2> QED
    BY <1>2, <1>8, <1>10, <1>12, <2>1 DEF Waits
<1>17. \A j \in Ids : allocId' < j => sort'[j] = "none"
  BY <1>1, <1>3, <1>10 DEF SlotInv, Ids
<1>18. ended' \subseteq Known' /\ \A j \in ended' : Over(j)'
  <2>1. ASSUME NEW j \in ended PROVE Over(j)'
    <3>1. Over(j) /\ HashId(j) \in Slots
      BY <1>2 DEF SlotInv, Known
    <3> QED
      BY <1>7, <1>8, <3>1 DEF Over, Other
  <2> QED
    BY <1>10, <2>1 DEF SlotInv
<1> QED
  BY <1>10, <1>13, <1>14, <1>15, <1>16, <1>17, <1>18 DEF SlotInv

\* The second half of it, and the request.
LEMMA PublishSlots ==
  ASSUME SocketTypes, SlotInv, NEW w \in Workers, Publish(w)
  PROVE  SlotInv'
<1> DEFINE i == pc[w].id
           s == HashId(i)
           r == pc[w]
<1>1. pc[w] # Idle /\ r \in [op : Making, id : Ids] /\ i \in Ids /\ r.op \in Making
  BY DEF Publish, SocketTypes
<1>2. s \in Slots /\ \A j \in Ids : HashId(j) \in Slots
  BY <1>1, HashInSlots DEF Ids
<1>3. Holds(w)
  BY <1>1 DEF SlotInv
<1>4. r \in Requests
  BY <1>1 DEF Requests, Ids
<1>5. slot[s] \in Sockets /\ Fits(s, slot[s]) /\ slot[s].type = "RESERVE" /\ sort[i] = "none"
  BY <1>2, <1>3 DEF SocketTypes, SlotInv, Holds
<1>6. PICK x : x = [slot[s] EXCEPT !.id = i]
  OBVIOUS
<1>7. /\ x \in Sockets /\ x.type = "RESERVE" /\ x.id = i
      /\ x.high = slot[s].high /\ x.low = slot[s].low /\ x.write = slot[s].write
  <2>1. i \in 0..MaxId
    BY <1>1 DEF Ids
  <2> QED
    BY <1>5, <1>6, <2>1, IdSet
<1>8. slot'[s] = x /\ \A t \in Slots \ {s} : slot'[t] = slot[t]
  BY <1>2, <1>6 DEF SocketTypes, Publish
<1>9. pc'[w] = Idle /\ \A v \in Workers \ {w} : pc'[v] = pc[v]
  BY DEF SocketTypes, Publish
<1>10. UNCHANGED <<phase, ended, allocId>> /\ pipe' = Append(pipe, r)
  BY DEF Publish, SendRequest
<1>11. sort'[i] = r.op /\ \A j \in Ids \ {i} : sort'[j] = sort[j]
  BY <1>1 DEF SocketTypes, Publish
<1>12. r.op # "none" /\ Known' = Known \cup {i} /\ i \notin Known
  BY <1>1, <1>5, <1>11 DEF Known, Making
<1>13. /\ Len(pipe) \in Nat /\ Len(pipe') = Len(pipe) + 1
       /\ \A n \in 1..Len(pipe) : pipe'[n] = pipe[n]
       /\ pipe'[Len(pipe) + 1] = r
  BY <1>4, <1>10, PipeAppend DEF SocketTypes
<1>14. \A n \in 1..Len(pipe') : \/ n \in 1..Len(pipe) /\ pipe'[n] = pipe[n]
                                \/ n = Len(pipe) + 1 /\ pipe'[n] = r
  BY <1>13
<1>15. \A n \in 1..Len(pipe) : pipe[n].op \in Making =>
          pipe[n].id \in Ids /\ HashId(pipe[n].id) # s /\ pipe[n].id # i
  BY <1>3 DEF SlotInv, Waits, Holds
<1>16. i # 0 /\ i <= allocId /\ HashId(i) = s /\ r.id = i
  BY <1>1, <1>3 DEF Ids, Holds
<1> HIDE DEF s, i, r
<1>17. ASSUME NEW t \in Slots PROVE Fits(t, slot[t])'
  <2>1. CASE t = s
    BY <1>5, <1>7, <1>8, <1>16, <2>1 DEF Fits, Empty
  <2>2. CASE t # s
    <3>1. slot'[t] = slot[t] /\ Fits(t, slot[t])
      BY <1>8, <2>2 DEF SlotInv
    <3>2. slot[t].id # i
      BY <1>16, <2>2, <3>1 DEF Fits
    <3>3. slot[t].id \in Known => sort'[slot[t].id] = sort[slot[t].id]
      BY <1>11, <3>2 DEF Known
    <3>4. slot[t].type \in SocketType
      BY SocketFields DEF SocketTypes
    <3> QED
      BY <1>12, <3>1, <3>3, <3>4 DEF Fits, SocketType
  <2> QED
    BY <2>1, <2>2
<1>18. ASSUME NEW j \in Known' PROVE Reported(j)'
  <2>1. CASE j = i
    BY <1>7, <1>8, <1>16, <2>1 DEF Reported
  <2>2. CASE j # i
    <3>1. j \in Known /\ j \in Ids /\ sort'[j] = sort[j] /\ Reported(j) /\ HashId(j) \in Slots
      BY <1>2, <1>11, <1>12, <2>2 DEF Known, SlotInv
    <3>2. CASE HashId(j) = s
      BY <1>3, <1>10, <3>1, <3>2 DEF Holds, Reported, s, i
    <3>3. CASE HashId(j) # s
      BY <1>8, <1>10, <3>1, <3>3 DEF Reported
    <3> QED
      BY <3>2, <3>3
  <2> QED
    BY <2>1, <2>2
<1>19. ASSUME NEW v \in Workers, pc'[v] # Idle PROVE Holds(v)'
  <2>1. v # w /\ pc'[v] = pc[v] /\ Holds(v) /\ pc[v].id \in Ids
    BY <1>9, <1>19 DEF SlotInv, SocketTypes
  <2>2. HashId(pc[v].id) # s /\ pc[v].id # i
    BY <1>1, <1>3, <2>1, <1>9, <1>19 DEF Holds, s, i
  <2>3. slot'[HashId(pc[v].id)].type = "RESERVE" /\ sort'[pc[v].id] = "none"
    BY <1>2, <1>8, <1>11, <2>1, <2>2 DEF Holds
  <2>4. \A u \in Workers : pc'[u] # Idle /\ HashId(pc'[u].id) = HashId(pc'[v].id) => u = v
    BY <1>9, <2>1 DEF Holds
  <2>5. \A n \in 1..Len(pipe') : pipe'[n].op \in Making => HashId(pipe'[n].id) # HashId(pc[v].id)
    BY <1>14, <1>16, <2>1, <2>2 DEF Holds
  <2>6. \A j \in Known' : HashId(j) = HashId(pc[v].id) => sort'[j] = "F" \/ j \in ended'
    BY <1>10, <1>11, <1>12, <1>16, <2>1, <2>2 DEF Holds, Known
  <2> QED
    BY <1>10, <2>1, <2>3, <2>4, <2>5, <2>6 DEF Holds
<1>20. ASSUME NEW n \in 1..Len(pipe') PROVE Waits(n)'
  <2>1. CASE n \in 1..Len(pipe) /\ pipe'[n] = pipe[n]
    <3>1. Waits(n)
      BY <2>1 DEF SlotInv
    <3>2. ASSUME pipe[n].op \in Making
          PROVE  /\ pipe[n].id \in Ids /\ sort'[pipe[n].id] = pipe[n].op
                 /\ slot'[HashId(pipe[n].id)].type = "RESERVE"
                 /\ slot'[HashId(pipe[n].id)].id = pipe[n].id
      BY <1>2, <1>8, <1>11, <1>15, <2>1, <3>1, <3>2 DEF Waits
    <3>3. ASSUME pipe[n].op \in Making, NEW l \in 1..Len(pipe'), pipe'[l].op \in Making,
                 HashId(pipe'[l].id) = HashId(pipe[n].id)
          PROVE  l = n
      BY <1>14, <1>15, <1>16, <2>1, <3>1, <3>3 DEF Waits
    <3>4. ASSUME pipe[n].op \in Sending PROVE sort'[pipe[n].id] \notin {"none", "L"}
      <4>1. pipe[n].id \in Ids
        BY <2>1, <3>4, RequestFields DEF SocketTypes
      <4> QED
        BY <1>5, <1>11, <3>1, <3>4, <4>1 DEF Waits, i
    <3>5. pipe[n].op \in {"K", "S"} => pipe[n].id \in Known'
      BY <1>12, <3>1 DEF Waits
    <3>6. pipe[n].op \in Making => pipe[n].id \notin ended'
      BY <1>10, <3>1 DEF Waits
    <3> QED
      BY <2>1, <3>2, <3>3, <3>4, <3>5, <3>6 DEF Waits
  <2>2. CASE n = Len(pipe) + 1 /\ pipe'[n] = r
    <3>1. ASSUME NEW l \in 1..Len(pipe'), pipe'[l].op \in Making, HashId(pipe'[l].id) = s
          PROVE  l = n
      BY <1>14, <1>15, <2>2, <3>1
    <3>2. r.op \notin Sending
      BY <1>1 DEF Making, Sending
    <3>3. i \in Ids /\ r.op \in Making /\ r.op \notin {"K", "S"}
      BY <1>1 DEF i, r, Making
    <3>4. i \notin ended'
      BY <1>10, <1>12 DEF SlotInv
    <3> QED
      BY <1>7, <1>8, <1>11, <1>16, <2>2, <3>1, <3>2, <3>3, <3>4 DEF Waits
  <2> QED
    BY <1>14, <2>1, <2>2
<1>21. \A j \in Ids : allocId' < j => sort'[j] = "none"
  <2>1. ASSUME NEW j \in Ids, allocId' < j PROVE sort'[j] = "none"
    <3>1. j # i /\ allocId < j
      BY <1>10, <1>16, <2>1 DEF Ids, SocketTypes
    <3> QED
      BY <1>11, <3>1 DEF SlotInv
  <2> QED
    BY <2>1
<1>22. ended' \subseteq Known' /\ \A j \in ended' : Over(j)'
  <2>1. ASSUME NEW j \in ended PROVE Over(j)'
    <3>1. Over(j) /\ HashId(j) \in Slots
      BY <1>2 DEF SlotInv, Known
    <3> QED
      BY <1>7, <1>8, <3>1 DEF Over, Other
  <2> QED
    BY <1>10, <1>12, <2>1 DEF SlotInv
<1> QED
  BY <1>10, <1>17, <1>18, <1>19, <1>20, <1>21, <1>22 DEF SlotInv

\* A socket is accepted: the slot is reserved and published in one step.
LEMMA AcceptSlots ==
  ASSUME SocketTypes, SlotInv, NEW i \in Ids, NEW x, slot[HashId(i)].type = "INVALID",
         allocId < i, allocId' = i, sort' = [sort EXCEPT ![i] = "A"],
         slot' = [slot EXCEPT ![HashId(i)] = x], x.type = "PACCEPT", x.id = i, Empty(x),
         ~x.write, Lives, UNCHANGED <<pipe, pc, ended>>
  PROVE  SlotInv'
<1> DEFINE s == HashId(i)
<1>2. s \in Slots /\ \A j \in Ids : HashId(j) \in Slots
  BY HashInSlots DEF Ids
<1>3. slot'[s] = x /\ \A t \in Slots \ {s} : slot'[t] = slot[t]
  BY <1>2 DEF SocketTypes
<1>4. sort'[i] = "A" /\ \A j \in Ids \ {i} : sort'[j] = sort[j]
  BY DEF SocketTypes
<1>5. Known' = Known \cup {i}
  BY <1>4 DEF Known
<1>6. \A v \in Workers : pc[v] # Idle => pc[v].id \in Ids /\ HashId(pc[v].id) # s /\ Holds(v)
  BY DEF SocketTypes, SlotInv, Holds
<1>7. \A n \in 1..Len(pipe) : pipe[n].op \in Making =>
         pipe[n].id \in Ids /\ HashId(pipe[n].id) # s
  BY DEF SlotInv, Waits
<1>8. i # 0 /\ HashId(i) = s /\ allocId \in Nat
  BY DEF Ids, SocketTypes
<1> HIDE DEF s
<1>9. ASSUME NEW t \in Slots PROVE Fits(t, slot[t])'
  <2>1. CASE t = s
    BY <1>3, <1>5, <1>8, <2>1 DEF Fits
  <2>2. CASE t # s
    <3>1. slot'[t] = slot[t] /\ Fits(t, slot[t])
      BY <1>3, <2>2 DEF SlotInv
    <3>2. slot[t].id # i
      BY <1>8, <2>2, <3>1 DEF Fits
    <3>3. slot[t].id \in Known => sort'[slot[t].id] = sort[slot[t].id]
      BY <1>4, <3>2 DEF Known
    <3>4. slot[t].type \in SocketType
      BY SocketFields DEF SocketTypes
    <3> QED
      BY <1>5, <3>1, <3>3, <3>4 DEF Fits, SocketType
  <2> QED
    BY <2>1, <2>2
<1>10. ASSUME NEW j \in Known' PROVE Reported(j)'
  <2>1. CASE j = i
    BY <1>3, <1>8, <2>1 DEF Reported
  <2>2. CASE j # i
    <3>1. j \in Known /\ j \in Ids /\ sort'[j] = sort[j] /\ Reported(j) /\ HashId(j) \in Slots
      BY <1>2, <1>4, <1>5, <2>2 DEF Known, SlotInv
    <3> QED
      BY <1>3, <1>8, <3>1 DEF Reported
  <2> QED
    BY <2>1, <2>2
<1>11. ASSUME NEW v \in Workers, pc'[v] # Idle PROVE Holds(v)'
  <2>1. Holds(v) /\ pc[v].id \in Ids /\ HashId(pc[v].id) # s /\ pc[v].id # i
    BY <1>6, <1>8, <1>11
  <2>2. slot'[HashId(pc[v].id)].type = "RESERVE" /\ sort'[pc[v].id] = "none"
    BY <1>2, <1>3, <1>4, <2>1 DEF Holds
  <2>3. \A j \in Known' : HashId(j) = HashId(pc[v].id) => sort'[j] = "F" \/ j \in ended'
    BY <1>4, <1>5, <1>8, <2>1 DEF Holds, Known
  <2>4. pc[v].id <= allocId'
    BY <1>8, <2>1 DEF Holds, Ids
  <2> QED
    BY <2>1, <2>2, <2>3, <2>4 DEF Holds
<1>12. ASSUME NEW n \in 1..Len(pipe') PROVE Waits(n)'
  <2>1. Waits(n)
    BY DEF SlotInv
  <2>2. ASSUME pipe[n].op \in Making
        PROVE  /\ sort'[pipe[n].id] = pipe[n].op
               /\ slot'[HashId(pipe[n].id)].type = "RESERVE"
               /\ slot'[HashId(pipe[n].id)].id = pipe[n].id
    BY <1>2, <1>3, <1>4, <1>7, <1>8, <2>1, <2>2 DEF Waits
  <2>3. ASSUME pipe[n].op \in Sending PROVE sort'[pipe[n].id] \notin {"none", "L"}
    <3>1. pipe[n].id \in Ids
      BY <2>3, RequestFields DEF SocketTypes
    <3> QED
      BY <1>4, <2>1, <2>3, <3>1 DEF Waits
  <2>4. pipe[n].op \in {"K", "S"} => pipe[n].id \in Known'
    BY <1>5, <2>1 DEF Waits
  <2> QED
    BY <1>7, <2>1, <2>2, <2>3, <2>4 DEF Waits
<1>13. ASSUME NEW j \in Ids, allocId' < j PROVE sort'[j] = "none"
  <2>1. j # i /\ allocId < j
    BY <1>8, <1>13 DEF Ids
  <2> QED
    BY <1>4, <2>1 DEF SlotInv
<1>14. ended' \subseteq Known' /\ \A j \in ended' : Over(j)'
  <2>1. ASSUME NEW j \in ended PROVE Over(j)'
    <3>1. Over(j) /\ HashId(j) \in Slots /\ j # i
      BY <1>2 DEF SlotInv, Known
    <3> QED
      BY <1>3, <3>1 DEF Over, Other
  <2> QED
    BY <1>5, <2>1 DEF SlotInv
<1> QED
  BY <1>9, <1>10, <1>11, <1>12, <1>13, <1>14 DEF SlotInv, Lives

-----------------------------------------------------------------------------
(* Every step keeps the invariant.                                         *)

LEMMA SocketExitTurns ==
  ASSUME SocketTypes, NEW s \in Slots, Kept(slot[s], lows), SocketExit
  PROVE  /\ Turns(s, 0)
         /\ Sits(s) => Sound(s) /\ Spares(s)
<1>1. Turns(s, 0) /\ slot'[s] = slot[s]
  BY SameTurns DEF SocketExit
<1> QED
  BY <1>1, EndsGoOn DEF SocketExit, Sits, Sound, Spares

\* ctrl_cmd
LEMMA CtrlCmdTurns ==
  ASSUME SocketTypes, StreamInv, CtrlCmd
  PROVE  \E s \in Slots, b \in 0..sent :
           /\ Turns(s, b) /\ Shifted(1)
           /\ \A n \in 1..Len(pipe) : 1 < n /\ pipe[n].op \in Sending => b < pipe[n].msg
           /\ SlotInv /\ ~stale' => Sound(s) /\ (Spares(s) \/ Served(1, s))
           /\ sort' \in [Ids -> Sorts] /\ (SlotInv => SortTurns(1))
<1> DEFINE r == pipe[1]
           s == HashId(r.id)
           b == IF r.op \in Sending THEN r.msg ELSE 0
<1>1. /\ pipe # <<>> /\ Head(pipe) = r /\ r \in Requests /\ Len(pipe) \in Nat \ {0}
      /\ pipe' = Tail(pipe) /\ Shifted(1)
  BY PipeTail DEF CtrlCmd, SocketTypes, Shifted
<1>2. r.id \in 0..MaxId /\ MaxId \in Nat /\ (r.op \in Sending => r.msg \in Nat /\ r.id \in Ids)
  BY <1>1, RequestFields, SocketAssumption
<1>3. s \in Slots
  BY <1>2, HashInSlots
<1>4. Kept(slot[s], lows) /\ Before(slot[s])
  BY <1>3 DEF StreamInv, Before
<1>5. 1 \in 1..Len(pipe)
  BY <1>1
<1>6. r.op \in Sending => r.msg \in 1..sent /\ (r.op = "P" <=> r.msg \in lows)
                            /\ Older(slot[s], r.msg)
  BY <1>4, <1>5 DEF StreamInv, PipeOrder, Before
<1>7. b \in 0..sent /\ \A n \in 1..Len(pipe) : 1 < n /\ pipe[n].op \in Sending => b < pipe[n].msg
  <2>1. CASE r.op \in Sending
    BY <1>5, <1>6, <2>1 DEF StreamInv, PipeOrder, SocketTypes
  <2>2. CASE r.op \notin Sending
    BY <2>2 DEF StreamInv, PipeOrder, SocketTypes
  <2> QED
    BY <2>1, <2>2
<1>8. SlotInv => Sits(s) /\ Waits(1)
  BY <1>3, <1>5 DEF SlotInv, Sits
<1>9. SlotInv /\ r.op \in Making => Meets(r, s) /\ Served(1, s)
  BY <1>1, <1>8 DEF Sits, Waits, Meets, Served
<1>10. /\ \/ r.op = "O" /\ OpenSocket(r, s, slot[s])
          \/ r.op = "L" /\ ListenSocket(s, slot[s])
          \/ r.op = "B" /\ BindSocket(r, s, slot[s])
          \/ r.op = "U" /\ AddUdpSocket(s, slot[s])
          \/ r.op = "S" /\ StartSocket(r, s, slot[s])
          \/ r.op = "K" /\ CloseSocket(r, s, slot[s])
          \/ r.op \in {"D", "P"} /\ SendSocket(r, s, slot[s])
          \/ r.op = "X" /\ SocketExit
       /\ ~stale' => ~(/\ r.op \in {"K", "S", "D", "P"}
                       /\ slot[s].type = "RESERVE" /\ slot[s].id = r.id)
       /\ sort' = IF r.op = "U" /\ slot'[s].type = "INVALID"
                  THEN [sort EXCEPT ![r.id] = "F"] ELSE sort
  <2>1. Head(pipe) = r
    BY <1>1
  <2> HIDE DEF r
  <2> QED
    BY <2>1 DEF CtrlCmd
<1>12. r.op = "U" /\ slot'[s].type = "INVALID" => sort' = [sort EXCEPT ![r.id] = "F"]
  BY <1>10
<1>13. sort' \in [Ids -> Sorts]
  BY <1>10 DEF SocketTypes, Sorts
<1>14. SlotInv => SortTurns(1)
  <2>1. ASSUME SlotInv, r.op = "U" PROVE r.id \in Ids /\ sort[r.id] = "U"
    BY <1>8, <2>1 DEF Waits, Making
  <2> QED
    BY <1>1, <1>10, <2>1 DEF SortTurns, SocketTypes
<1> HIDE DEF s, r
<1>11. Turns(s, b) /\ (SlotInv /\ ~stale' => Sound(s) /\ (Spares(s) \/ Served(1, s)))
  <2>1. CASE r.op = "O" /\ OpenSocket(r, s, slot[s])
    BY <1>3, <1>4, <1>9, <2>1, OpenTurns DEF Making, Sending
  <2>2. CASE r.op = "L" /\ ListenSocket(s, slot[s])
    BY <1>3, <1>4, <1>9, <2>2, ListenTurns DEF Making, Sending
  <2>3. CASE r.op = "B" /\ BindSocket(r, s, slot[s])
    BY <1>3, <1>4, <1>9, <2>3, BindTurns DEF Making, Sending
  <2>4. CASE r.op = "U" /\ AddUdpSocket(s, slot[s])
    BY <1>3, <1>4, <1>9, <1>12, <2>4, UdpTurns DEF Making, Sending
  <2>5. CASE r.op = "S" /\ StartSocket(r, s, slot[s])
    <3>1. SlotInv => r.id \in Known /\ s = HashId(r.id)
      BY <1>8, <2>5 DEF Waits, r, s
    <3> QED
      BY <1>3, <1>4, <1>8, <2>5, <3>1, StartTurns DEF Sending
  <2>6. CASE r.op = "K" /\ CloseSocket(r, s, slot[s])
    <3>1. SlotInv => r.id \in Known /\ s = HashId(r.id)
      BY <1>8, <2>6 DEF Waits, r, s
    <3> QED
      BY <1>3, <1>4, <1>8, <1>10, <2>6, <3>1, CloseTurns DEF Sending
  <2>7. CASE r.op \in {"D", "P"} /\ SendSocket(r, s, slot[s])
    <3>1. r.op \in Sending /\ b = r.msg
      BY <2>7 DEF Sending
    <3>2. SlotInv => sort[r.id] \notin {"none", "L"}
      BY <1>8, <3>1 DEF Waits, r
    <3>3. r.msg \in Nat /\ Older(slot[s], r.msg) /\ (r.op = "P" <=> r.msg \in lows)
      BY <1>6, <3>1
    <3> QED
      BY <1>3, <1>4, <1>8, <1>10, <2>7, <3>1, <3>2, <3>3, SendTurns
  <2>8. CASE r.op = "X" /\ SocketExit
    BY <1>3, <1>4, <1>8, <2>8, SocketExitTurns DEF Sending
  <2> QED
    BY <1>10, <2>1, <2>2, <2>3, <2>4, <2>5, <2>6, <2>7, <2>8
<1> HIDE DEF b
<1> QED
  BY <1>1, <1>3, <1>7, <1>11, <1>13, <1>14

\* A step in which one slot turns keeps the invariant.
LEMMA TurnsKeeps ==
  ASSUME SocketInv, NEW s \in Slots, NEW b \in 0..sent, NEW c \in {0, 1},
         Turns(s, b), Shifted(c),
         \A n \in 1..Len(pipe) : c < n /\ pipe[n].op \in Sending => b < pipe[n].msg,
         SlotInv /\ ~stale' => Sound(s) /\ (Spares(s) \/ Served(c, s)),
         sort' \in [Ids -> Sorts], SlotInv => SortTurns(c),
         UNCHANGED <<allocId, services>>, stale' \in BOOLEAN, ~stale' => ~stale
  PROVE  SocketInv'
<1>1. UNCHANGED <<allocId, pc, sent, lows>>
  BY DEF services
<1>2. SocketTypes'
  BY <1>1 DEF SocketInv, SocketTypes, Turns, Shifted
<1>3. StreamInv'
  BY <1>1, TurnsFollow, StreamShifts DEF SocketInv
<1>4. ~stale' => SlotInv'
  BY <1>1, SlotTurns DEF SocketInv
<1> QED
  BY <1>2, <1>3, <1>4 DEF SocketInv

LEMMA SortSame ==
  ASSUME SocketInv, sort' = sort, NEW c
  PROVE  sort' \in [Ids -> Sorts] /\ SortTurns(c)
  BY DEF SocketInv, SocketTypes, SortTurns

LEMMA ShiftedNone ==
  ASSUME SocketTypes, pipe' = pipe
  PROVE  /\ Shifted(0) /\ 0 \in 0..sent
         /\ StreamInv => \A n \in 1..Len(pipe) : pipe[n].op \in Sending => 0 < pipe[n].msg
  BY DEF SocketTypes, Shifted, StreamInv, PipeOrder

LEMMA CtrlCmdKeeps ==
  ASSUME SocketInv, CtrlCmd
  PROVE  SocketInv'
<1>1. UNCHANGED <<allocId, services>>
  BY DEF CtrlCmd
<1>2. stale' \in BOOLEAN /\ (~stale' => ~stale)
  <2>1. stale \in BOOLEAN
    BY DEF SocketInv, SocketTypes
  <2>2. PICK y : stale' = (stale \/ y) /\ y \in BOOLEAN
    BY Zenon DEF CtrlCmd
  <2> QED
    BY <2>1, <2>2, Zenon
<1>3. PICK s \in Slots, b \in 0..sent :
        /\ Turns(s, b) /\ Shifted(1)
        /\ \A n \in 1..Len(pipe) : 1 < n /\ pipe[n].op \in Sending => b < pipe[n].msg
        /\ SlotInv /\ ~stale' => Sound(s) /\ (Spares(s) \/ Served(1, s))
        /\ sort' \in [Ids -> Sorts] /\ (SlotInv => SortTurns(1))
  BY CtrlCmdTurns DEF SocketInv
<1> QED
  BY <1>1, <1>2, <1>3, TurnsKeeps

\* Steps that leave the slots and the pipe alone.
LEMMA SameKeeps ==
  ASSUME SocketInv, UNCHANGED <<allocId, slot, pipe, services, sort, ended, stale>>,
         phase' \in {phase, "batch"}
  PROVE  SocketInv'
<1>1. PICK s \in Slots : TRUE
  <2>1. 0 \in Slots
    BY SocketAssumption DEF Slots
  <2> QED
    BY <2>1
<1>2. Turns(s, 0) /\ slot'[s] = slot[s]
  BY SameTurns DEF SocketInv, StreamInv, Before
<1>3. SlotInv => Sound(s) /\ Spares(s)
  BY <1>2 DEF SlotInv, Sound, Spares, Ends
<1>4. stale' \in BOOLEAN /\ (~stale' => ~stale)
  BY DEF SocketInv, SocketTypes
<1>5. /\ Shifted(0) /\ 0 \in 0..sent
      /\ \A n \in 1..Len(pipe) : 0 < n /\ pipe[n].op \in Sending => 0 < pipe[n].msg
  BY ShiftedNone DEF SocketInv
<1> QED
  BY <1>2, <1>3, <1>4, <1>5, SortSame, TurnsKeeps

\* sp_wait
LEMMA WaitKeeps ==
  ASSUME SocketInv, Wait
  PROVE  SocketInv'
<1>1. UNCHANGED <<allocId, pipe, pc, sent, lows, sort, ended, stale>> /\ phase' \in {"cmd", "first"}
  BY DEF Wait, services
<1>2. PICK f \in [Slots -> SUBSET {"read", "write"}] :
        slot' = [s \in Slots |-> [slot[s] EXCEPT !.up = @ \/ f[s] # {}]]
  BY DEF Wait
<1>3. ASSUME NEW s \in Slots
      PROVE  /\ slot'[s] \in Sockets /\ slot'[s].type = slot[s].type
             /\ slot'[s].id = slot[s].id /\ slot'[s].write = slot[s].write
             /\ slot'[s].high = slot[s].high /\ slot'[s].low = slot[s].low
             /\ slot'[s].wire = slot[s].wire
  <2>1. slot[s] \in Sockets
    BY DEF SocketInv, SocketTypes
  <2>2. PICK u \in BOOLEAN : u = (slot[s].up \/ f[s] # {})
    <3>1. (slot[s].up \/ f[s] # {}) \in BOOLEAN
      OBVIOUS
    <3> QED
      BY <3>1, Zenon
  <2>3. slot'[s] = [slot[s] EXCEPT !.up = u]
    BY <1>2, <2>2, Zenon
  <2> QED
    BY <2>1, <2>3, UpSet
<1>4. slot' \in [Slots -> Sockets]
  BY <1>2, <1>3
<1>5. \A s \in Slots : Follows(slot[s], slot'[s], lows, 0)
  BY <1>3, SameFollows DEF SocketInv, StreamInv, Before
<1>6. /\ Shifted(0) /\ 0 \in 0..sent
      /\ StreamInv => \A n \in 1..Len(pipe) : pipe[n].op \in Sending => 0 < pipe[n].msg
  BY <1>1, ShiftedNone DEF SocketInv
<1>7. SocketTypes'
  BY <1>1, <1>4 DEF SocketInv, SocketTypes
<1>8. StreamInv'
  BY <1>1, <1>5, <1>6, StreamShifts DEF SocketInv
<1>9. ASSUME SlotInv PROVE SlotInv'
  <2>1. phase' # "abort"
    BY <1>1
  <2>2. ASSUME NEW s \in Slots PROVE Sound(s) /\ slot'[s].id = slot[s].id
    BY <1>1, <1>3, <1>9, <2>1 DEF Sound, SlotInv, Fits, Empty, Ends
  <2> QED
    BY <1>1, <1>3, <1>6, <1>9, <2>1, <2>2, SortSame, SlotShifts DEF SocketInv
<1> QED
  BY <1>1, <1>7, <1>8, <1>9 DEF SocketInv

\* report_accept, where a socket is accepted
LEMMA AcceptKeeps ==
  ASSUME SocketInv, NEW i \in Ids, Tried(allocId, i), Empty(slot[HashId(i)]),
         allocId' = i, sort' = [sort EXCEPT ![i] = "A"],
         Becomes(HashId(i),
                 [NewFd(slot[HashId(i)], "PACCEPT", "tcp") EXCEPT !.id = i, !.up = TRUE]),
         UNCHANGED <<pipe, services, ended>>, stale' \in BOOLEAN, ~stale' => ~stale
  PROVE  SocketInv'
<1> DEFINE s == HashId(i)
<1>1. s \in Slots
  BY HashInSlots DEF Ids
<1>2. slot[s] \in Sockets
  BY <1>1 DEF SocketInv, SocketTypes
<1>3. slot[s].type = "INVALID" /\ allocId < i /\ UNCHANGED <<pc, sent, lows>> /\ Lives
  <2>1. i \in (allocId + 1)..(allocId + MaxSocket) /\ slot[s].type = "INVALID"
    BY DEF Tried
  <2>2. allocId \in Nat /\ MaxSocket \in Nat
    BY SocketAssumption DEF SocketInv, SocketTypes
  <2> QED
    BY <2>1, <2>2 DEF services, Becomes, Turn, Lives
<1>4. PICK y : y = NewFd(slot[s], "PACCEPT", "tcp")
  OBVIOUS
<1>5. PICK u \in BOOLEAN : u = TRUE
  OBVIOUS
<1>6. PICK x : x = [y EXCEPT !.id = i, !.up = u]
  OBVIOUS
<1>7. slot' = [slot EXCEPT ![s] = x]
  BY <1>4, <1>5, <1>6, Zenon DEF Becomes
<1>8. /\ y \in Sockets /\ y.type = "PACCEPT" /\ y.wire = <<>> /\ ~y.write
      /\ y.high = slot[s].high /\ y.low = slot[s].low
  <2>1. PICK k \in Sockets : k = slot[s]
    BY <1>2
  <2>2. PICK type \in SocketType : type = "PACCEPT"
    BY DEF SocketType
  <2>3. PICK protocol \in {"tcp", "udp"} : protocol = "tcp"
    OBVIOUS
  <2>4. y = NewFd(k, type, protocol)
    BY <1>4, <2>1, <2>2, <2>3, Zenon
  <2> HIDE DEF s
  <2>5. /\ y \in Sockets /\ y.type = type /\ y.write = (type = "CONNECTING")
        /\ y.wire = <<>> /\ y.high = k.high /\ y.low = k.low
    BY <2>4, NewFdDoes
  <2> QED
    BY <2>1, <2>2, <2>5
<1>9. /\ x \in Sockets /\ x.type = y.type /\ x.id = i /\ x.wire = y.wire /\ x.write = y.write
      /\ x.high = y.high /\ x.low = y.low
  <2>1. i \in 0..MaxId
    BY DEF Ids
  <2> QED
    BY <1>6, <1>8, <2>1 DEF Sockets
<1>10. x.type = "PACCEPT" /\ Empty(x) /\ x.wire = <<>> /\ ~x.write
  BY <1>8, <1>9 DEF Empty
<1> HIDE DEF s
<1>11. ASSUME NEW t \in Slots
       PROVE  slot'[t] \in Sockets /\ Follows(slot[t], slot'[t], lows, 0)
  <2>1. CASE t = s
    BY <1>2, <1>7, <1>9, <1>10, <2>1, EmptyFollows DEF SocketInv, SocketTypes
  <2>2. CASE t # s
    <3>1. slot'[t] = slot[t] /\ slot[t] \in Sockets /\ Kept(slot[t], lows)
      BY <1>7, <2>2 DEF SocketInv, SocketTypes, StreamInv, Before
    <3> QED
      BY <3>1, SameFollows
  <2> QED
    BY <2>1, <2>2
<1>12. SocketTypes'
  <2>1. slot' \in [Slots -> Sockets]
    BY <1>7, <1>11 DEF SocketInv, SocketTypes
  <2>2. allocId' \in 0..MaxId /\ sort' \in [Ids -> Sorts]
    BY DEF SocketInv, SocketTypes, Ids, Sorts
  <2> QED
    BY <1>3, <2>1, <2>2 DEF SocketInv, SocketTypes
<1>13. StreamInv'
  <2>1. /\ Shifted(0) /\ 0 \in 0..sent
        /\ StreamInv => \A n \in 1..Len(pipe) : pipe[n].op \in Sending => 0 < pipe[n].msg
    BY ShiftedNone DEF SocketInv
  <2> QED
    BY <1>3, <1>11, <2>1, StreamShifts DEF SocketInv
<1>14. SlotInv => SlotInv'
  BY <1>3, <1>7, <1>9, <1>10, AcceptSlots DEF SocketInv, s
<1> QED
  BY <1>12, <1>13, <1>14 DEF SocketInv

\* One turn of socket_server_poll with an event in hand.
LEMMA EventKeeps ==
  ASSUME SocketInv, Event
  PROVE  SocketInv'
<1>1. UNCHANGED <<pipe, services>>
  BY DEF Event
<1>2. PICK s \in Slots :
        LET k == slot[s] IN
        /\ \/ k.type = "CONNECTING" /\ ReportConnect(s, k)
           \/ k.type = "LISTEN" /\ ReportAccept(s)
           \/ /\ k.type = "INVALID"
              /\ Done(s)
              /\ Same /\ GoOn /\ UNCHANGED <<allocId, sort>>
           \/ /\ k.type \notin {"CONNECTING", "LISTEN", "INVALID"}
              /\ IF "read" \in ev[s].flags THEN ForwardMessage(s, k) ELSE FlushBuffer(s, k)
        /\ stale' = (stale \/ /\ k.type # "INVALID"
                              /\ k.id # ev[s].id \/ k.type = "RESERVE")
  BY DEF Event
<1> DEFINE y == slot[s].type # "INVALID" /\ (slot[s].id # ev[s].id \/ slot[s].type = "RESERVE")
<1>3. stale' \in BOOLEAN /\ (~stale' => ~stale /\ slot[s].type # "RESERVE")
  <2>1. stale \in BOOLEAN
    BY DEF SocketInv, SocketTypes
  <2>2. stale' = (stale \/ y) /\ y \in BOOLEAN
    BY <1>2, Zenon
  <2>3. stale' \in BOOLEAN /\ (~stale' => ~stale /\ ~y)
    BY <2>1, <2>2, Zenon
  <2> QED
    BY <2>3
<1>4. /\ Shifted(0) /\ 0 \in 0..sent
      /\ \A n \in 1..Len(pipe) : 0 < n /\ pipe[n].op \in Sending => 0 < pipe[n].msg
  BY <1>1, ShiftedNone DEF SocketInv
<1>5. /\ SocketTypes /\ Kept(slot[s], lows) /\ (SlotInv => Sits(s))
  BY DEF SocketInv, StreamInv, Before, SlotInv, Sits
<1>6. ASSUME Turns(s, 0), SlotInv /\ ~stale' => Sound(s) /\ Spares(s),
             UNCHANGED <<allocId, sort>>
      PROVE  SocketInv'
  BY <1>1, <1>3, <1>4, <1>6, SortSame, TurnsKeeps
<1>7. CASE slot[s].type = "CONNECTING" /\ ReportConnect(s, slot[s])
  <2>1. UNCHANGED <<allocId, sort>>
    BY <1>7 DEF ReportConnect
  <2> QED
    BY <1>5, <1>6, <1>7, <2>1, ConnectTurns
<1>8. CASE Same /\ GoOn /\ UNCHANGED <<allocId, sort>>
  BY <1>5, <1>6, <1>8, SameSound
<1>9. CASE slot[s].type = "LISTEN" /\ ReportAccept(s)
  <2>1. CASE Same /\ UNCHANGED <<allocId, sort>>
    BY <1>8, <1>9, <2>1 DEF ReportAccept
  <2>2. CASE \E i \in Ids :
          /\ Tried(allocId, i) /\ Empty(slot[HashId(i)])
          /\ allocId' = i /\ sort' = [sort EXCEPT ![i] = "A"]
          /\ Becomes(HashId(i), [NewFd(slot[HashId(i)], "PACCEPT", "tcp") EXCEPT !.id = i, !.up = TRUE])
    <3>1. UNCHANGED ended
      BY <1>9 DEF ReportAccept, GoOn
    <3> QED
      BY <1>1, <1>3, <2>2, <3>1, AcceptKeeps
  <2>3. CASE /\ \E i \in Ids : Tried(allocId, i) /\ ~Empty(slot[HashId(i)])
             /\ UNCHANGED <<allocId, slot, sort>>
    <3>1. PICK i \in Ids : slot[HashId(i)].type = "INVALID" /\ ~Empty(slot[HashId(i)])
      BY <2>3 DEF Tried
    <3>2. HashId(i) \in Slots
      BY HashInSlots DEF Ids
    <3>3. ~SlotInv
      BY <3>1, <3>2 DEF SlotInv, Fits
    <3>4. Turns(s, 0)
      BY <1>5, <2>3, SameTurns
    <3> QED
      BY <1>6, <2>3, <3>3, <3>4
  <2> QED
    BY <1>9, <2>1, <2>2, <2>3 DEF ReportAccept
<1>10. CASE slot[s].type \notin {"CONNECTING", "LISTEN", "INVALID"} /\ ForwardMessage(s, slot[s])
  <2>1. UNCHANGED <<allocId, sort>>
    BY <1>10 DEF ForwardMessage
  <2> QED
    BY <1>3, <1>5, <1>6, <1>10, <2>1, ForwardTurns
<1>11. CASE slot[s].type \notin {"CONNECTING", "LISTEN", "INVALID"} /\ FlushBuffer(s, slot[s])
  <2>1. UNCHANGED <<allocId, sort>>
    BY <1>11 DEF FlushBuffer
  <2> QED
    BY <1>3, <1>5, <1>6, <1>11, <2>1, FlushTurns
<1> QED
  BY <1>2, <1>7, <1>8, <1>9, <1>10, <1>11

\* Services
LEMMA ServiceKeeps ==
  ASSUME SocketInv, NEW w \in Workers, Service(w)
  PROVE  SocketInv'
<1>0. SocketTypes /\ StreamInv
  BY DEF SocketInv
<1>1. \A t \in Slots : slot[t] \in Sockets /\ Kept(slot[t], lows)
  BY <1>0 DEF SocketTypes, StreamInv, Before
<1>2. CASE \E op \in {"O", "L", "B", "U"} : Reserve(w, op)
  <2>1. PICK op \in Making : Reserve(w, op)
    BY <1>2 DEF Making
  <2>2. UNCHANGED <<pipe, sort, sent, lows, stale>>
    BY <2>1 DEF Reserve
  <2>3. PICK i \in Ids :
          /\ allocId' = i /\ slot' = [slot EXCEPT ![HashId(i)].type = "RESERVE"]
          /\ pc' = [pc EXCEPT ![w] = [op |-> op, id |-> i]]
    BY <2>1 DEF Reserve
  <2>4. HashId(i) \in Slots
    BY HashInSlots DEF Ids
  <2>5. ASSUME NEW t \in Slots
        PROVE  slot'[t] \in Sockets /\ Follows(slot[t], slot'[t], lows, 0)
    <3>1. CASE t = HashId(i)
      <4>1. PICK x : x = [slot[t] EXCEPT !.type = "RESERVE"]
        OBVIOUS
      <4>2. slot'[t] = x
        BY <1>0, <2>3, <3>1, <4>1 DEF SocketTypes
      <4>3. PICK y \in SocketType : y = "RESERVE"
        BY DEF SocketType
      <4>4. x \in Sockets /\ x.high = slot[t].high /\ x.low = slot[t].low /\ x.wire = slot[t].wire
        BY <1>1, <4>1, <4>3, TypeSet
      <4> QED
        BY <1>1, <4>2, <4>4, SameFollows
    <3>2. CASE t # HashId(i)
      <4>1. slot'[t] = slot[t]
        BY <1>0, <2>3, <3>2 DEF SocketTypes
      <4> QED
        BY <1>1, <4>1, SameFollows
    <3> QED
      BY <3>1, <3>2
  <2>6. SocketTypes'
    <3>1. slot' \in [Slots -> Sockets]
      BY <1>0, <2>3, <2>5 DEF SocketTypes
    <3>2. pc' \in [Workers -> {Idle} \cup [op : Making, id : Ids]]
      BY <1>0, <2>3 DEF SocketTypes
    <3>3. allocId' \in 0..MaxId
      BY <2>3 DEF Ids
    <3> QED
      BY <1>0, <2>2, <3>1, <3>2, <3>3 DEF SocketTypes
  <2>7. StreamInv'
    <3>1. /\ Shifted(0) /\ 0 \in 0..sent
          /\ \A n \in 1..Len(pipe) : pipe[n].op \in Sending => 0 < pipe[n].msg
      BY <1>0, <2>2, ShiftedNone
    <3> QED
      BY <1>0, <2>2, <2>5, <3>1, StreamShifts
  <2>8. SlotInv => SlotInv'
    BY <1>0, <2>1, ReserveSlots
  <2> QED
    BY <2>2, <2>6, <2>7, <2>8 DEF SocketInv
<1>3. CASE Publish(w)
  <2> DEFINE i == pc[w].id
             r == pc[w]
  <2>1. /\ r \in Requests /\ r.op \notin Sending /\ i \in Ids /\ r.op \in Making
    BY <1>0, <1>3 DEF Publish, SocketTypes, Requests, Making, Sending, Ids
  <2>2. /\ slot' = [slot EXCEPT ![HashId(i)].id = i] /\ pipe' = Append(pipe, r)
        /\ sort' = [sort EXCEPT ![i] = r.op] /\ pc' = [pc EXCEPT ![w] = Idle]
        /\ UNCHANGED <<allocId, sent, lows, stale>>
    BY <1>3 DEF Publish, SendRequest
  <2>3. HashId(i) \in Slots
    BY <2>1, HashInSlots DEF Ids
  <2> HIDE DEF i, r
  <2>4. ASSUME NEW t \in Slots
        PROVE  slot'[t] \in Sockets /\ Follows(slot[t], slot'[t], lows, 0)
    <3>1. CASE t = HashId(i)
      <4>1. PICK x : x = [slot[t] EXCEPT !.id = i]
        OBVIOUS
      <4>2. slot'[t] = x
        BY <1>0, <2>2, <3>1, <4>1 DEF SocketTypes
      <4>3. i \in 0..MaxId
        BY <2>1 DEF Ids
      <4>4. x \in Sockets /\ x.high = slot[t].high /\ x.low = slot[t].low /\ x.wire = slot[t].wire
        BY <1>1, <4>1, <4>3, IdSet
      <4> QED
        BY <1>1, <4>2, <4>4, SameFollows
    <3>2. CASE t # HashId(i)
      <4>1. slot'[t] = slot[t]
        BY <1>0, <2>2, <3>2 DEF SocketTypes
      <4> QED
        BY <1>1, <4>1, SameFollows
    <3> QED
      BY <3>1, <3>2
  <2>5. SocketTypes'
    <3>1. slot' \in [Slots -> Sockets]
      BY <1>0, <2>2, <2>4 DEF SocketTypes
    <3>2. pc' \in [Workers -> {Idle} \cup [op : Making, id : Ids]]
      BY <1>0, <2>2 DEF SocketTypes
    <3>3. sort' \in [Ids -> Sorts]
      BY <1>0, <2>1, <2>2 DEF SocketTypes, Making, Sorts
    <3>4. pipe' \in Seq(Requests)
      BY <1>0, <2>1, <2>2, PipeAppend DEF SocketTypes
    <3> QED
      BY <1>0, <2>2, <3>1, <3>2, <3>3, <3>4 DEF SocketTypes
  <2>6. StreamInv'
    BY <1>0, <2>1, <2>2, <2>4, StreamAsks
  <2>7. SlotInv => SlotInv'
    BY <1>0, <1>3, PublishSlots
  <2> QED
    BY <2>2, <2>5, <2>6, <2>7 DEF SocketInv
<1>4. ASSUME NEW r \in Requests, pipe' = Append(pipe, r),
             UNCHANGED <<allocId, slot, phase, pc, sort, ended, stale>>,
             r.op \notin Making, r.op \in Sending => sort[r.id] \notin {"none", "L"},
             r.op \in {"K", "S"} => r.id \in Known,
             StreamInv', sent' \in Nat, lows' \subseteq 1..sent'
      PROVE  SocketInv'
  <2>1. pipe' \in Seq(Requests)
    BY <1>0, <1>4, PipeAppend DEF SocketTypes
  <2>2. SocketTypes'
    BY <1>0, <1>4, <2>1 DEF SocketTypes
  <2>3. SlotInv => SlotInv'
    BY <1>0, <1>4, SlotAsks
  <2> QED
    BY <1>4, <2>2, <2>3 DEF SocketInv
<1>5. \A t \in Slots : slot' = slot => Follows(slot[t], slot'[t], lows, 0)
  BY <1>1, SameFollows
<1>6. sent \in Nat /\ lows \subseteq 1..sent
  BY <1>0 DEF SocketTypes
<1>7. ASSUME NEW op \in {"K", "S", "X"}, NEW i \in 0..MaxId,
             SendRequest([op |-> op, id |-> i]), op \in {"K", "S"} => i \in Known,
             UNCHANGED <<allocId, slot, phase, services, sort, ended, stale>>
      PROVE  SocketInv'
  <2>1. PICK r : r = [op |-> op, id |-> i]
    OBVIOUS
  <2>2. /\ r \in Requests /\ r.op \notin Making /\ r.op \notin Sending
        /\ r.op = op /\ r.id = i
    BY <2>1 DEF Requests, Making, Sending
  <2>3. pipe' = Append(pipe, r) /\ UNCHANGED <<pc, sent, lows>>
    BY <1>7, <2>1 DEF SendRequest, services
  <2>4. StreamInv'
    BY <1>0, <1>5, <1>7, <2>2, <2>3, StreamAsks
  <2> QED
    BY <1>4, <1>6, <1>7, <2>2, <2>3, <2>4
<1>8. CASE \E op \in {"K", "S"}, i \in Ids : Ask(w, op, i)
  <2>1. PICK op \in {"K", "S"}, i \in Ids : Ask(w, op, i)
    BY <1>8
  <2>2. i \in 0..MaxId /\ op \in {"K", "S", "X"}
    BY <2>1 DEF Ids
  <2> QED
    BY <1>7, <2>1, <2>2 DEF Ask
<1>9. CASE Exit(w)
  <2>1. 0 \in 0..MaxId
    BY SocketAssumption
  <2> QED
    BY <1>7, <1>9, <2>1 DEF Exit
<1>10. CASE \E op \in {"D", "P"}, i \in Ids : Send(w, op, i)
  <2>1. PICK op \in {"D", "P"}, i \in Ids : Send(w, op, i)
    BY <1>10
  <2>2. PICK r : r = [op |-> op, id |-> i, msg |-> sent + 1]
    OBVIOUS
  <2>3. /\ r \in Requests /\ r.op \in Sending /\ r.op \notin Making /\ r.op \notin {"K", "S"}
        /\ r.op = op /\ r.id = i /\ r.msg = sent + 1
    BY <1>6, <2>2 DEF Requests, Making, Sending
  <2>4. /\ pipe' = Append(pipe, r) /\ sent' = sent + 1
        /\ lows' = IF r.op = "P" THEN lows \cup {sent + 1} ELSE lows
        /\ UNCHANGED <<allocId, slot, phase, pc, sort, ended, stale>>
        /\ sort[i] \notin {"none", "L"}
    BY <2>1, <2>2, <2>3 DEF Send, SendRequest, Known
  <2>5. StreamInv'
    BY <1>0, <2>3, <2>4, StreamSends
  <2>6. sent' \in Nat /\ lows' \subseteq 1..sent'
    BY <1>6, <2>4
  <2> QED
    BY <1>4, <2>3, <2>4, <2>5, <2>6
<1> QED
  BY <1>2, <1>3, <1>8, <1>9, <1>10 DEF Service

LEMMA SocketInit == Init => SocketInv
<1> SUFFICES ASSUME Init PROVE SocketInv
  OBVIOUS
<1>1. PICK e \in Seq(Nat) : e = <<>>
  <2>1. <<>> \in Seq(Nat)
    OBVIOUS
  <2> QED
    BY <2>1, Zenon
<1>2. PICK k : k = Unused
  OBVIOUS
<1>3. /\ k.type = "INVALID" /\ k.id = 0 /\ ~k.write /\ k.high = <<>> /\ k.low = <<>> /\ k.wire = <<>>
  BY <1>2 DEF Unused
<1>4. k \in Sockets
  <2>1. k = [type |-> "INVALID", id |-> 0, protocol |-> "tcp", high |-> e, low |-> e,
             write |-> FALSE, up |-> FALSE, wire |-> e]
    BY <1>1, <1>2 DEF Unused
  <2>2. 0 \in 0..MaxId
    BY SocketAssumption
  <2> QED
    BY <1>1, <2>1, <2>2 DEF Sockets, SocketType
<1>5. slot \in [Slots -> Sockets] /\ \A s \in Slots : slot[s] = k
  BY <1>2, <1>4 DEF Init
<1>6. pipe = <<>> /\ Len(pipe) = 0 /\ pipe \in Seq(Requests)
  BY DEF Init
<1>7. \A i \in Ids : HashId(i) \in Slots
  BY HashInSlots DEF Ids
<1>8. SocketTypes
  <2>1. allocId \in 0..MaxId /\ sent \in Nat /\ lows \subseteq 1..sent
    BY SocketAssumption DEF Init
  <2>2. pc \in [Workers -> {Idle} \cup [op : Making, id : Ids]]
    BY DEF Init
  <2>3. sort \in [Ids -> Sorts]
    BY DEF Init, Sorts
  <2>4. stale \in BOOLEAN
    BY Zenon DEF Init
  <2> QED
    BY <1>5, <1>6, <2>1, <2>2, <2>3, <2>4 DEF SocketTypes
<1>9. StreamInv
  <2>1. Kept(k, lows) /\ \A m : Older(k, m)
    BY <1>3, EmptyKept
  <2> QED
    BY <1>5, <1>6, <2>1 DEF StreamInv, PipeOrder, Before
<1>10. SlotInv
  <2>1. Known = {}
    BY DEF Init, Known
  <2>2. phase # "abort" /\ \A w \in Workers : pc[w] = Idle
    BY DEF Init
  <2>3. \A s \in Slots : Fits(s, slot[s])
    BY <1>3, <1>5 DEF Fits, Empty
  <2>4. ended = {} /\ \A i \in Ids : sort[i] = "none"
    BY DEF Init
  <2> QED
    BY <1>6, <2>1, <2>2, <2>3, <2>4 DEF SlotInv
<1> QED
  BY <1>8, <1>9, <1>10 DEF SocketInv

LEMMA SocketStutter ==
  ASSUME SocketInv, UNCHANGED vars
  PROVE  SocketInv'
<1>1. UNCHANGED <<allocId, slot, pipe, services, sort, ended, stale, phase>>
  BY DEF vars
<1> QED
  BY <1>1, SameKeeps

LEMMA SocketNext == SocketInv /\ [Next]_vars => SocketInv'
<1> SUFFICES ASSUME SocketInv, [Next]_vars PROVE SocketInv'
  OBVIOUS
<1>1. CASE CtrlCmd
  BY <1>1, CtrlCmdKeeps
<1>2. CASE ClearClosedEvent \/ NoCmd
  <2>1. /\ UNCHANGED <<allocId, slot, pipe, services, sort, ended, stale>>
        /\ phase' \in {phase, "batch"}
    BY <1>2 DEF ClearClosedEvent, NoCmd
  <2> QED
    BY <2>1, SameKeeps
<1>3. CASE Wait
  BY <1>3, WaitKeeps
<1>4. CASE Event
  BY <1>4, EventKeeps
<1>5. CASE \E w \in Workers : Service(w)
  BY <1>5, ServiceKeeps
<1>6. CASE UNCHANGED vars
  BY <1>6, SocketStutter
<1> QED
  BY <1>1, <1>2, <1>3, <1>4, <1>5, <1>6 DEF Next, Poll

THEOREM SocketInvariant == Spec => []SocketInv
<1>1. Init => SocketInv
  BY SocketInit
<1>2. SocketInv /\ [Next]_vars => SocketInv'
  BY SocketNext
<1> QED
  BY <1>1, <1>2, PTL DEF Spec

\* Whatever is queued, written in parts, raised to the high list, closed and used
\* again (send_buffer, raise_uncomplete, append_sendbuffer, force_close): what a
\* peer is sent are whole messages, and those of one priority in the order sent,
\* also where a socket was taken for another.
THEOREM MessagesWholeInOrder == Spec => []StreamOrder
<1>1. SocketInv => StreamOrder
  <2> SUFFICES ASSUME SocketInv, NEW s \in Slots, NEW b, b = Bytes(slot[s])
      PROVE  /\ \A m \in Range(b) : \E n \in 0..(Len(b) - Size) :
                  {j \in DOMAIN b : b[j] = m} = (n + 1)..(n + Size)
             /\ \A i, j \in DOMAIN b :
                  i < j /\ (b[i] \in lows <=> b[j] \in lows) => b[i] <= b[j]
    BY DEF StreamOrder
  <2> DEFINE k == slot[s]
  <2>1. k \in Sockets /\ Stream(k.wire \o k.high, k.low, lows)
    BY DEF SocketInv, SocketTypes, StreamInv, Before, Kept
  <2>2. k.wire \in Seq(Nat) /\ k.high \in Seq(Nat) /\ k.low \in Seq(Nat)
    BY <2>1, SocketFields
  <2>3. k.wire \o k.high \in Seq(Nat)
    BY <2>2, Joined
  <2>4. b = (k.wire \o k.high) \o k.low
    BY <2>2, JoinedTwice DEF Bytes
  <2> QED
    BY <2>1, <2>2, <2>3, <2>4, StreamBytes
<1> QED
  BY <1>1, SocketInvariant, PTL

\* Wherever data is left (send_buffer, append_sendbuffer in send_socket, a close
\* that has to wait, report_connect), epoll is asked for a writable event, but for
\* the sockets made by bind: for those send_socket queues and asks for nothing.
THEOREM OnlyBoundDataIsForgotten == Spec => []WriteArmedUnlessBound
<1>1. SocketInv => WriteArmedUnlessBound
  <2> SUFFICES ASSUME SocketInv, ~stale, NEW s \in Slots, NEW k, k = slot[s],
                      ~Empty(k) \/ k.type \in {"CONNECTING", "HALFCLOSE"}, sort[k.id] # "B"
               PROVE  k.write
    BY DEF WriteArmedUnlessBound
  <2>1. k \in Sockets /\ Fits(s, k)
    BY DEF SocketInv, SocketTypes, SlotInv
  <2>2. k.type \in SocketType
    BY <2>1 DEF Sockets
  <2> QED
    BY <2>1, <2>2, Zenon DEF Fits, SocketType
<1> QED
  BY <1>1, SocketInvariant, PTL

\* The assertions of new_fd, report_accept, send_socket, close_socket, flush_buffer
\* and forward_message hold until a request or an event of an earlier socket meets a
\* slot that is being reserved or another's.
THEOREM AssertionsHold == Spec => []AssertsOnlyOnReuse
<1>1. SocketInv => AssertsOnlyOnReuse
  BY DEF SocketInv, SlotInv, AssertsOnlyOnReuse
<1> QED
  BY <1>1, SocketInvariant, PTL

\* Each way a socket can go (force_close and the failures of open, listen, bind,
\* start, accept) is reported to its service, and what has been reported is out of
\* use: it is not reported again by itself (close_socket and start_socket answer
\* for it whenever they are asked).  So until a socket is taken for another.
THEOREM EndsAreReported == Spec => []EndsReported
<1>1. SocketInv => EndsReported
  BY DEF SocketInv, SlotInv, Reported, Other, Over, EndsReported
<1> QED
  BY <1>1, SocketInvariant, PTL

-----------------------------------------------------------------------------
(* The last writable event.                                                *)

\* The events of a batch are a function on the slots.
EvShape == ev = [s \in Slots |-> ev[s]]

LEMMA EvSet ==
  ASSUME EvShape, NEW s \in Slots, NEW e, ev' = [ev EXCEPT ![s] = e]
  PROVE  EvShape' /\ ev'[s] = e /\ \A t \in Slots \ {s} : ev'[t] = ev[t]
  BY DEF EvShape

LEMMA EvSame ==
  ASSUME EvShape, UNCHANGED ev
  PROVE  EvShape'
  BY DEF EvShape

\* An event changes what epoll has for its own slot only; what it does there.
EventAt(s) ==
  LET k == slot[s] IN
  /\ ev[s] # NoEvent
  /\ \/ k.type = "CONNECTING" /\ ReportConnect(s, k)
     \/ k.type = "LISTEN" /\ ReportAccept(s)
     \/ k.type = "INVALID" /\ Same
     \/ /\ k.type \notin {"CONNECTING", "LISTEN", "INVALID"}
        /\ ev[s].flags = {"write"} => FlushBuffer(s, k)
  /\ stale' = (stale \/ (k.type # "INVALID" /\ (k.id # ev[s].id \/ k.type = "RESERVE")))

LEMMA EventEv ==
  ASSUME EvShape, Event
  PROVE  /\ EvShape'
         /\ \E s \in Slots : EventAt(s) /\ \A t \in Slots \ {s} : ev'[t] = ev[t]
<1>1. PICK s \in Slots :
        LET k == slot[s] IN
        /\ ev[s] # NoEvent
        /\ \/ k.type = "CONNECTING" /\ ReportConnect(s, k)
           \/ k.type = "LISTEN" /\ ReportAccept(s)
           \/ /\ k.type = "INVALID"
              /\ Done(s)
              /\ Same /\ GoOn /\ UNCHANGED <<allocId, sort>>
           \/ /\ k.type \notin {"CONNECTING", "LISTEN", "INVALID"}
              /\ IF "read" \in ev[s].flags THEN ForwardMessage(s, k) ELSE FlushBuffer(s, k)
        /\ stale' = (stale \/ /\ k.type # "INVALID"
                              /\ k.id # ev[s].id \/ k.type = "RESERVE")
  BY DEF Event
<1> DEFINE k == slot[s]
<1>2. EventAt(s)
  <2>1. ev[s].flags = {"write"} => "read" \notin ev[s].flags
    OBVIOUS
  <2> QED
    BY <1>1, <2>1, Zenon DEF EventAt
<1>3. \/ Done(s)
      \/ ev' = [ev EXCEPT ![s].flags = {"write"}]
      \/ UNCHANGED ev
  BY <1>1, Zenon DEF ReportConnect, ReportAccept, ForwardMessage, FlushBuffer
<1>4. (\E e : ev' = [ev EXCEPT ![s] = e]) \/ UNCHANGED ev
  BY <1>3 DEF Done
<1>5. EvShape' /\ \A t \in Slots \ {s} : ev'[t] = ev[t]
  BY <1>4, EvSet, EvSame
<1> QED
  BY <1>2, <1>5

LEMMA EvShapeKeeps ==
  ASSUME EvShape, [Next]_vars
  PROVE  EvShape'
<1>1. CASE Event
  BY <1>1, EventEv
<1>2. CASE CtrlCmd \/ NoCmd \/ (\E w \in Workers : Service(w)) \/ UNCHANGED vars
  <2>1. UNCHANGED ev
    BY <1>2, Zenon DEF CtrlCmd, NoCmd, Service, Reserve, Publish, Ask, Send, Exit, vars
  <2> QED
    BY <2>1, EvSame
<1>3. CASE ClearClosedEvent
  BY <1>3 DEF ClearClosedEvent, EvShape
<1>4. CASE Wait
  BY <1>4 DEF Wait, EvShape
<1> QED
  BY <1>1, <1>2, <1>3, <1>4 DEF Next, Poll

\* A write that finds nothing left stops waiting.
LEMMA NothingToSend ==
  ASSUME NEW k \in Sockets, Empty(k), k.type # "RESERVE", NEW x \in SendBuffer(k)
  PROVE  ~x.write
<1> DEFINE sentHigh == {SendList(k, "high", n) : n \in Takes(k, "high")}
<1>1. \/ x \in sentHigh /\ x.high # <<>>
      \/ \E y \in sentHigh : x \in SendLow(y)
  BY Zenon DEF SendBuffer
<1>2. ASSUME NEW y \in sentHigh
      PROVE  y \in Sockets /\ y.high = <<>> /\ y.low = <<>>
  <2>1. PICK n \in 0..Len(k.high) : y = SendList(k, "high", n)
    BY DEF Takes
  <2>2. y \in Sockets /\ y.high = SubSeq(k.high, n + 1, Len(k.high)) /\ y.low = k.low
    BY <2>1, SendHighDoes
  <2>3. k.high = <<>> /\ k.low = <<>> /\ Len(k.high) = 0
    BY DEF Empty
  <2>4. SubSeq(k.high, n + 1, Len(k.high)) = <<>>
    BY <2>3
  <2> QED
    BY <2>2, <2>3, <2>4
<1>3. PICK y \in sentHigh : x \in SendLow(y)
  BY <1>1, <1>2
<1>4. y \in Sockets /\ y.low = <<>>
  BY <1>2
<1>5. x = ForceClose(y) \/ x = [y EXCEPT !.write = FALSE]
  BY <1>3, <1>4, Zenon DEF SendLow
<1>6. CASE x = ForceClose(y)
  BY <1>4, <1>6, ForceCloseDoes
<1>7. CASE x = [y EXCEPT !.write = FALSE]
  BY <1>4, <1>7 DEF Sockets
<1> QED
  BY <1>5, <1>6, <1>7

\* A writable event of socket s that finds nothing to write.
IdleEvent(s) ==
  /\ ~stale' /\ Empty(slot[s]) /\ ev[s].flags = {"write"} /\ ev'[s] = NoEvent

LEMMA EventDone ==
  ASSUME SocketInv, NEW s \in Slots, EventAt(s), IdleEvent(s)
  PROVE  ~slot'[s].write
<1> DEFINE k == slot[s]
<1>1. k \in Sockets /\ slot \in [Slots -> Sockets]
  BY DEF SocketInv, SocketTypes
<1>2. ~stale /\ k.type # "RESERVE"
  BY Zenon DEF EventAt, IdleEvent
<1>3. Fits(s, k)
  BY <1>2 DEF SocketInv, SlotInv
<1>4. slot'[s] = k /\ k.type \in {"INVALID", "LISTEN"} => ~slot'[s].write
  BY <1>3 DEF Fits
<1>5. CASE k.type = "CONNECTING" /\ ReportConnect(s, k)
  <2>1. PICK x : /\ slot' = [slot EXCEPT ![s] = x]
                 /\ \/ x = ForceClose(k)
                    \/ x = [k EXCEPT !.type = "CONNECTED", !.write = @ /\ ~Empty(k)]
    BY <1>5, Zenon DEF ReportConnect, Becomes
  <2>2. slot'[s] = x
    BY <1>1, <2>1
  <2>3. CASE x = ForceClose(k)
    BY <1>1, <2>2, <2>3, ForceCloseDoes
  <2>4. CASE x = [k EXCEPT !.type = "CONNECTED", !.write = @ /\ ~Empty(k)]
    <3>1. x.write = (k.write /\ ~Empty(k))
      BY <1>1, <2>4 DEF Sockets
    <3> QED
      BY <2>2, <3>1 DEF IdleEvent
  <2> QED
    BY <2>1, <2>3, <2>4
<1>6. CASE k.type = "LISTEN" /\ ReportAccept(s)
  <2>1. \/ UNCHANGED slot
        \/ \E i \in Ids : \E x :
             /\ slot[HashId(i)].type = "INVALID"
             /\ slot' = [slot EXCEPT ![HashId(i)] = x]
    BY <1>6, Zenon DEF ReportAccept, Same, Becomes, Tried
  <2>2. slot'[s] = k
    BY <1>1, <1>6, <2>1
  <2> QED
    BY <1>4, <1>6, <2>2
<1>7. CASE k.type = "INVALID" /\ Same
  BY <1>4, <1>7 DEF Same
<1>8. CASE FlushBuffer(s, k)
  <2>1. ~Uncomplete(k.low)
    BY Zenon DEF IdleEvent, Empty, Uncomplete
  <2>2. PICK x \in SendBuffer(k) : slot' = [slot EXCEPT ![s] = x]
    BY <1>2, <1>8, <2>1, Zenon DEF FlushBuffer, Outcome, Becomes
  <2>3. ~x.write
    BY <1>1, <1>2, NothingToSend DEF IdleEvent
  <2> QED
    BY <1>1, <2>2, <2>3
<1> QED
  BY <1>5, <1>6, <1>7, <1>8, Zenon DEF EventAt, IdleEvent

LEMMA StepDone ==
  ASSUME SocketInv, EvShape, Next, NEW s \in Slots, IdleEvent(s)
  PROVE  ~slot'[s].write
<1>1. ev'[s] # ev[s]
  <2>1. NoEvent.flags # {"write"}
    BY DEF NoEvent
  <2> QED
    BY <2>1 DEF IdleEvent
<1>2. CASE Event
  <2>1. PICK t \in Slots : EventAt(t) /\ \A u \in Slots \ {t} : ev'[u] = ev[u]
    BY <1>2, EventEv
  <2>2. t = s
    BY <1>1, <2>1
  <2> QED
    BY <2>1, <2>2, EventDone
<1>3. CASE CtrlCmd \/ NoCmd \/ (\E w \in Workers : Service(w))
  <2>1. UNCHANGED ev
    BY <1>3, Zenon DEF CtrlCmd, NoCmd, Service, Reserve, Publish, Ask, Send, Exit
  <2> QED
    BY <1>1, <2>1
<1>4. CASE ClearClosedEvent
  <2>1. ev'[s] = IF slot[s].type = "INVALID" /\ slot[s].id = closed THEN NoEvent ELSE ev[s]
    BY <1>4 DEF ClearClosedEvent
  <2>2. slot[s].type = "INVALID" /\ slot' = slot /\ stale' = stale
    BY <1>1, <1>4, <2>1 DEF ClearClosedEvent
  <2>3. Fits(s, slot[s])
    BY <2>2 DEF IdleEvent, SocketInv, SlotInv
  <2> QED
    BY <2>2, <2>3 DEF Fits
<1>5. CASE Wait
  <2>1. ev[s] = NoEvent
    BY <1>5 DEF Wait
  <2> QED
    BY <2>1 DEF IdleEvent, NoEvent
<1> QED
  BY <1>2, <1>3, <1>4, <1>5 DEF Next, Poll

\* flush_buffer, report_connect and a closing send_buffer leave nothing armed for
\* which nothing is left to be written, as long as no socket is taken for another.
THEOREM LastWritableEvent == Spec => NoIdleEvents
<1> DEFINE A == \A s \in Slots :
                  ~stale' /\ Empty(slot[s]) /\ ev[s].flags = {"write"} /\ ev'[s] = NoEvent
                  => ~slot'[s].write
<1>1. Init => EvShape
  BY DEF Init, EvShape
<1>2. EvShape /\ [Next]_vars => EvShape'
  BY EvShapeKeeps
<1>3. SocketInv /\ EvShape /\ [Next]_vars => [A]_vars
  <2> SUFFICES ASSUME SocketInv, EvShape, Next PROVE A
    OBVIOUS
  <2> QED
    BY StepDone DEF IdleEvent
<1> QED
  BY <1>1, <1>2, <1>3, SocketInvariant, PTL DEF Spec, NoIdleEvents
===============================================================================
