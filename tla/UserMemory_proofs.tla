------------------------- MODULE UserMemory_proofs --------------------------
(* Theorems about user memory, for any memory, any number of descriptors   *)
(* and any programs: what mgetmd, freeit, ffit, xsetblk, xmfree, ixterm     *)
(* and xmakeres do to the lists of descriptors and their pool, and what     *)
(* becomes of the memory of processes.                                      *)
EXTENDS UserMemory, FiniteSetTheorems, SequenceTheorems, WellFoundedInduction,
        NaturalsInduction, TLAPS

-----------------------------------------------------------------------------
(* What holds of the descriptors between calls.                            *)

\* the link of the i-th of the list s, and of the list head if i is 0
After(s, i) == IF i < Len(s) THEN s[i + 1] ELSE NULL
\* s is the list at the link c
Follows(h, c, s) ==
  h.link[c] = After(s, 0) /\ \A i \in DOMAIN s : h.link[s[i]] = After(s, i)

\* the block of m
End(h, m) == h.start[m] + h.length[m]
Space(h, m) == h.start[m]..(End(h, m) - 1)

\* the heaps of the right type
Heaps == [link : [MD \cup {MFL, MAL} -> MD \cup {NULL}],
          start : [MD -> 0..Size + 1], length : [MD -> 0..Size],
          own : [MD -> {MF_FREE, NOBODY, ospd} \cup Addr],
          x_flag : [Blocks -> {-1, 0, 1}],
          rover : MD \cup {NULL}, halted : BOOLEAN]

\* F is the free and A the allocated list, X the resident blocks; the rover is on
\* the free list
Lists(h, F, A, X) ==
  /\ F \in Seq(MD) /\ A \in Seq(MD) /\ X \subseteq MD
  /\ Distinct(F) /\ Distinct(A)
  /\ Elements(F) \cap Elements(A) = {} /\ X \cap (Elements(F) \cup Elements(A)) = {}
  /\ Follows(h, MFL, F) /\ Follows(h, MAL, A)
  /\ IF F = <<>> THEN h.rover = NULL ELSE h.rover \in Elements(F)

\* each unit is in one block of H; the descriptor of the BIOS has the first one
Tiled(h, H) ==
  /\ \A m \in H : h.length[m] > 0 /\ Space(h, m) \subseteq Addr
  /\ \A a \in Addr : \E m \in H : a \in Space(h, m)
  /\ \A m, n \in H : m # n => Space(h, m) \cap Space(h, n) = {}
  /\ themd \in H /\ h.start[themd] = 1

\* in order of address; neighbours after the i-th in J may touch
Ordered(h, F, J) ==
  \A i, j \in DOMAIN F : i < j =>
     /\ End(h, F[i]) <= h.start[F[j]]
     /\ j # i + 1 \/ i \notin J => End(h, F[i]) # h.start[F[j]]

\* the pool knows which descriptors H uses
Pool(h, H) ==
  \A m \in MD \ {themd} :
    IF h.x_flag[Block(m)] = 1 THEN h.own[m] = MF_FREE <=> m \notin H ELSE m \notin H

All(F, A, X) == Elements(F) \cup Elements(A) \cup X

\* The invariant of the lists.  Between calls J is empty: neighbours are joined.
\* Within freeit, J tells where two may still touch.
Fits(h, F, A, X, J) ==
  /\ h \in Heaps /\ ~h.halted
  /\ Lists(h, F, A, X)
  /\ Ordered(h, F, J)
  /\ Tiled(h, All(F, A, X))
  /\ Pool(h, All(F, A, X))

-----------------------------------------------------------------------------
(* Numbers, and blocks of descriptors.                                      *)

\* a set of numbers has a least one
LEMMA HasLeast ==
  ASSUME NEW S \in SUBSET Nat, S # {}
  PROVE  \E i \in S : \A j \in S : i <= j
  <1> DEFINE R == {ss \in Nat \X Nat : ss[1] < ss[2]}
  <1>1. IsWellFoundedOn(R, Nat)
    <2>1. IsWellFoundedOn(OpToRel(<, Nat), Nat)
      BY NatLessThanWellFounded
    <2> QED
      BY <2>1 DEF OpToRel
  <1> HIDE DEF R
  <1>2. \E i \in S : \A j \in S : ~ (<<j, i>> \in R)
    BY <1>1, WFMin, Zenon
  <1>3. ASSUME NEW i \in Nat, NEW j \in Nat, <<j, i>> \notin R
        PROVE  i <= j
    <2>1. ~(j < i)
      BY <1>3 DEF R
    <2> QED
      BY <2>1
  <1> QED
    BY <1>2, <1>3

\* and a greatest one when it is bounded
LEMMA HasGreatest ==
  ASSUME NEW n \in Nat, NEW S \in SUBSET (0..n), S # {}
  PROVE  \E i \in S : \A j \in S : i >= j
  <1> DEFINE T == {n - i : i \in S}
  <1>1. T \in SUBSET Nat /\ T # {}
    <2>1. \A i \in S : n - i \in Nat
      OBVIOUS
    <2> QED
      BY <2>1
  <1>2. PICK k \in T : \A j \in T : k <= j
    <2> HIDE DEF T
    <2> QED
      BY <1>1, HasLeast
  <1>3. PICK i \in S : k = n - i
    BY <1>2
  <1>4. ASSUME NEW j \in S
        PROVE  i >= j
    <2>1. n - j \in T
      OBVIOUS
    <2> QED
      BY <1>2, <1>3, <2>1
  <1> QED
    BY <1>4

LEMMA LowestIs ==
  ASSUME NEW S \in SUBSET Nat, S # {}
  PROVE  Lowest(S) \in S /\ \A j \in S : Lowest(S) <= j
  <1>1. \E i \in S : \A j \in S : i <= j
    BY HasLeast
  <1> QED
    BY <1>1 DEF Lowest

LEMMA HighestIs ==
  ASSUME NEW n \in Nat, NEW S \in SUBSET (0..n), S # {}
  PROVE  Highest(S) \in S /\ \A j \in S : Highest(S) >= j
  <1>1. \E i \in S : \A j \in S : i >= j
    BY HasGreatest
  <1> QED
    BY <1>1 DEF Highest

LEMMA Quotient ==
  ASSUME NEW d \in Nat \ {0}, NEW x \in Nat, NEW q \in Int, d * q <= x, x < d * q + d
  PROVE  x \div d = q
  OBVIOUS

LEMMA BlockNumbers ==
  /\ \A m \in MD \ {themd} : Block(m) \in Blocks
  /\ \A b \in Blocks : \E m \in MD \ {themd} : Block(m) = b
  <1> USE MemoryAssumption
  <1> DEFINE M == MDS_PER_BLOCK  N == NBLOCKS
  <1>1. M \in Nat \ {0} /\ N \in Nat \ {0} /\ themd = N * M + 1 /\ N * M \in Nat
    BY DEF themd
  <1>2. ASSUME NEW m \in 1..N * M
        PROVE  Block(m) \in 1..N
    <2> DEFINE q == (m - 1) \div M
    <2>1. q \in Int /\ M * q <= m - 1 /\ m - 1 < M * q + M
      BY <1>1
    <2> HIDE DEF q
    <2>2. q >= 0
      <3> SUFFICES ASSUME q <= -1 PROVE FALSE
        BY <2>1
      <3>1. M * q <= M * (-1)
        BY <1>1, <2>1
      <3> QED
        BY <1>1, <2>1, <3>1
    <2>3. q < N
      <3> SUFFICES ASSUME q >= N PROVE FALSE
        BY <2>1, <1>1
      <3>1. M * q >= N * M
        BY <1>1, <2>1
      <3> QED
        BY <1>1, <2>1, <3>1
    <2> QED
      BY <1>1, <2>1, <2>2, <2>3 DEF q, Block
  <1>3. ASSUME NEW b \in 1..N
        PROVE  \E m \in 1..N * M : Block(m) = b
    <2> DEFINE m == M * (b - 1) + 1
    <2>1. M * (b - 1) \in Nat /\ M * (b - 1) + M <= N * M
      BY <1>1
    <2>2. m \in 1..N * M
      BY <1>1, <2>1
    <2>3. (m - 1) \div M = b - 1
      BY <1>1, <2>1, Quotient
    <2>4. Block(m) = b
      BY <1>1, <2>3 DEF Block
    <2> QED
      BY <2>2, <2>4
  <1>4. MD \ {themd} = 1..N * M
    BY <1>1 DEF MD
  <1> QED
    BY <1>2, <1>3, <1>4 DEF Blocks

LEMMA Descriptor ==
  /\ MD \subseteq Nat \ {0} /\ themd \in MD /\ NULL \notin MD /\ MFL \notin MD /\ MAL \notin MD
  /\ MFL # MAL /\ Size \in Nat \ {0} /\ Addr = 1..Size /\ themd \in Nat
  /\ Blocks \subseteq Nat \ {0} /\ NULL \notin Blocks /\ MD = 1..themd
  <1>1. MDS_PER_BLOCK \in Nat /\ NBLOCKS \in Nat /\ NBLOCKS * MDS_PER_BLOCK \in Nat
        /\ Size \in Nat \ {0}
    BY MemoryAssumption
  <1> QED
    BY <1>1 DEF MD, themd, NULL, MFL, MAL, Addr, Blocks

-----------------------------------------------------------------------------
(* Lists.                                                                   *)

LEMMA DistinctFits ==
  ASSUME NEW s \in Seq(MD), Distinct(s)
  PROVE  Len(s) <= themd
  <1> DEFINE n == Len(s)
  <1>1. /\ IsFiniteSet(1..themd) /\ Cardinality(1..themd) = themd
        /\ IsFiniteSet(1..n) /\ Cardinality(1..n) = n
    <2>1. ASSUME NEW b \in Nat
          PROVE  IsFiniteSet(1..b) /\ Cardinality(1..b) = b
      <3>1. 1 \in Int /\ b \in Int
        OBVIOUS
      <3>2. IsFiniteSet(1..b) /\ Cardinality(1..b) = IF 1 > b THEN 0 ELSE b - 1 + 1
        BY <3>1, FS_Interval
      <3> QED
        BY <3>2
    <2> QED
      BY <2>1, Descriptor
  <1>2. s \in Injection(1..n, 1..themd)
    BY Descriptor DEF Distinct, Injection, IsInjective
  <1>3. Cardinality(1..n) <= Cardinality(1..themd)
    BY <1>1, <1>2, FS_Injection
  <1> QED
    BY <1>1, <1>3

LEMMA ChainIs ==
  ASSUME NEW h, NEW s \in Seq(MD), s # <<>>, Distinct(s),
         \A i \in DOMAIN s : h.link[s[i]] = After(s, i)
  PROVE  Chain(h, s[1]) = s
  <1> DEFINE n == Len(s)
             link == h.link
             onward(t) == IF link[t[Len(t)]] = NULL THEN t ELSE Append(t, link[t[Len(t)]])
             Rec(g) == g = [k \in 0..themd |-> IF k = 0 THEN <<s[1]>> ELSE onward(g[k - 1])]
             walk == CHOOSE g : Rec(g)
             part(k) == IF k < n THEN SubSeq(s, 1, k + 1) ELSE s
             W == [k \in 0..themd |-> part(k)]
  <1>1. n \in Nat \ {0} /\ \A k \in 1..n : s[k] \in MD
    OBVIOUS
  <1>2. n <= themd /\ themd \in Nat /\ NULL \notin MD
    BY DistinctFits, Descriptor
  <1>3. \A k \in 1..n : link[s[k]] = IF k < n THEN s[k + 1] ELSE NULL
    BY <1>1 DEF After
  <1> HIDE DEF link
  <1>5. part(0) = <<s[1]>>
    <2>2. s[1] \in MD
      BY <1>1
    <2>3. /\ SubSeq(s, 1, 1) \in Seq(MD) /\ Len(SubSeq(s, 1, 1)) = 1
          /\ SubSeq(s, 1, 1)[1] = s[1]
      BY <1>1
    <2>4. /\ <<s[1]>> \in Seq(MD) /\ Len(<<s[1]>>) = 1 /\ <<s[1]>>[1] = s[1]
      BY <2>2
    <2>1. SubSeq(s, 1, 1) = <<s[1]>>
      <3>1. ASSUME NEW a \in Seq(MD), NEW b \in Seq(MD),
                   Len(a) = 1, Len(b) = 1, a[1] = b[1]
            PROVE  a = b
        BY <3>1, SeqEqual
      <3> QED
        BY <2>3, <2>4, <3>1
    <2>5. n = 1 => SubSeq(s, 1, 1) = s
      BY <1>1
    <2> QED
      BY <1>1, <2>1, <2>5
  <1>6. ASSUME NEW k \in 1..themd
        PROVE  part(k) = onward(part(k - 1))
    <2>1. CASE k < n
      <3> DEFINE t == SubSeq(s, 1, k)
      <3>1. t \in Seq(MD) /\ Len(t) = k /\ t[k] = s[k]
        BY <1>1, <2>1
      <3>3. link[t[Len(t)]] = s[k + 1] /\ s[k + 1] \in MD
        BY <1>1, <1>3, <2>1, <3>1
      <3>4. part(k - 1) = t
        BY <1>1, <2>1
      <3>5. SubSeq(s, 1, k + 1) = Append(t, s[k + 1])
        BY <1>1, <2>1
      <3> HIDE DEF t
      <3> QED
        BY <1>2, <2>1, <3>3, <3>4, <3>5
    <2>2. CASE k >= n
      <3>1. part(k) = s
        BY <1>1, <2>2
      <3>2. SubSeq(s, 1, n) = s
        BY <1>1
      <3>3. part(k - 1) = s
        <4>1. CASE k = n
          <5>1. k - 1 < n /\ k - 1 + 1 = n
            BY <1>1, <4>1
          <5> QED
            BY <3>2, <5>1
        <4>2. CASE k > n
          BY <1>1, <4>2
        <4> QED
          BY <1>1, <2>2, <4>1, <4>2
      <3>4. onward(s) = s
        BY <1>1, <1>3
      <3> QED
        BY <3>1, <3>3, <3>4
    <2> QED
      BY <1>1, <2>1, <2>2
  <1>7. Rec(W)
    <2> HIDE DEF part, onward
    <2>1. \A k \in 0..themd : W[k] = IF k = 0 THEN <<s[1]>> ELSE onward(W[k - 1])
      BY <1>2, <1>5, <1>6
    <2> QED
      BY <2>1
  <1>8. Rec(walk)
    <2> HIDE DEF Rec, W
    <2> QED
      BY <1>7
  <1>9. Chain(h, s[1]) = walk[themd]
    BY <1>1, <1>2 DEF Chain, link
  <1> HIDE DEF walk, part, onward
  <1>10. walk[0] = part(0) /\ \A k \in 1..themd : walk[k] = onward(walk[k - 1])
    BY <1>2, <1>5, <1>8
  <1> DEFINE Bad == {k \in 0..themd : walk[k] # part(k)}
  <1>11. Bad = {}
    <2> SUFFICES ASSUME Bad # {} PROVE FALSE
      OBVIOUS
    <2>1. Bad \in SUBSET Nat
      OBVIOUS
    <2>2. PICK k \in Bad : \A j \in Bad : k <= j
      <3> HIDE DEF Bad
      <3> QED
        BY <2>1, HasLeast
    <2>3. k \in 1..themd /\ k - 1 \in 0..themd
      BY <1>2, <1>10, <2>2
    <2>4. k - 1 \notin Bad
      <3> HIDE DEF Bad
      <3> QED
        BY <2>2, <2>3
    <2>5. walk[k - 1] = part(k - 1)
      BY <2>3, <2>4
    <2> QED
      BY <1>6, <1>10, <2>2, <2>3, <2>5
  <1>12. walk[themd] = part(themd)
    BY <1>2, <1>11
  <1>13. part(themd) = s
    BY <1>1, <1>2 DEF part
  <1> QED
    BY <1>9, <1>12, <1>13

LEMMA ChainNull ==
  ASSUME NEW h
  PROVE  Chain(h, NULL) = <<>>
  BY DEF Chain

\* the list at the link c
LEMMA ListAt ==
  ASSUME NEW h, NEW c, NEW s \in Seq(MD), Distinct(s), Follows(h, c, s)
  PROVE  Chain(h, h.link[c]) = s /\ ~Loop(Chain(h, h.link[c]))
  <1>0. Len(s) <= themd /\ themd \in Nat /\ Len(s) \in Nat
    BY DistinctFits, Descriptor
  <1>1. CASE s = <<>>
    <2>1. h.link[c] = NULL
      BY <1>1 DEF Follows, After
    <2> QED
      BY <1>0, <1>1, <2>1, ChainNull DEF Loop
  <1>2. CASE s # <<>>
    <2>1. h.link[c] = s[1]
      BY <1>2 DEF Follows, After
    <2>2. Chain(h, s[1]) = s
      BY <1>2, ChainIs DEF Follows
    <2> QED
      BY <1>0, <2>1, <2>2 DEF Loop
  <1> QED
    BY <1>1, <1>2

\* the list from the descriptor after the k-th
LEMMA RestAt ==
  ASSUME NEW h, NEW c, NEW s \in Seq(MD), Distinct(s), Follows(h, c, s),
         NEW k \in 1..Len(s)
  PROVE  Chain(h, h.link[s[k]]) = SubSeq(s, k + 1, Len(s))
  <1> DEFINE t == SubSeq(s, k + 1, Len(s))
  <1>1. /\ t \in Seq(MD) /\ Len(t) = Len(s) - k /\ Len(s) \in Nat
        /\ \A i \in 1..Len(t) : t[i] = s[k + i]
        /\ \A i \in 1..Len(s) : s[i] \in MD
    OBVIOUS
  <1>2. \A i \in 1..Len(s) : h.link[s[i]] = After(s, i)
    BY DEF Follows
  <1> HIDE DEF t
  <1>3. Distinct(t)
    <2>1. \A i, j \in 1..Len(s) : s[i] = s[j] => i = j
      BY DEF Distinct
    <2> SUFFICES ASSUME NEW i \in 1..Len(t), NEW j \in 1..Len(t), t[i] = t[j] PROVE i = j
      BY <1>1 DEF Distinct
    <2> QED
      BY <1>1, <2>1
  <1>4. \A i \in 1..Len(t) : h.link[t[i]] = After(t, i)
    <2> TAKE i \in 1..Len(t)
    <2>1. h.link[t[i]] = After(s, k + i)
      BY <1>1, <1>2
    <2> QED
      BY <1>1, <2>1 DEF After
  <1>5. h.link[s[k]] = After(t, 0)
    BY <1>1, <1>2 DEF After
  <1>7. CASE t = <<>>
    <2>1. h.link[s[k]] = NULL
      BY <1>1, <1>5, <1>7 DEF After
    <2> QED
      BY <1>7, <2>1, ChainNull DEF t
  <1>8. CASE t # <<>>
    <2>1. h.link[s[k]] = t[1]
      BY <1>1, <1>5, <1>8 DEF After
    <2>2. \A i \in DOMAIN t : h.link[t[i]] = After(t, i)
      BY <1>1, <1>4
    <2>3. Chain(h, t[1]) = t
      BY <1>1, <1>3, <1>8, <2>2, ChainIs
    <2> QED
      BY <2>1, <2>3 DEF t
  <1> QED
    BY <1>7, <1>8

-----------------------------------------------------------------------------
(* Descriptors and their pool.                                              *)

\* g is h with the descriptor m, which H does not use, cleared for use
Fresh(h, H, g, m) ==
  /\ m \in MD \ {themd} /\ m \notin H
  /\ g \in Heaps /\ Pool(g, H \cup {m})
  /\ g.halted = h.halted /\ g.rover = h.rover
  /\ g.link = [h.link EXCEPT ![m] = NULL]
  /\ g.start = [h.start EXCEPT ![m] = 0]
  /\ g.length = [h.length EXCEPT ![m] = 0]
  /\ \A x \in H : g.own[x] = h.own[x]

LEMMA TakenIs ==
  ASSUME NEW h \in Heaps, NEW m \in MD
  PROVE  /\ Taken(h, m).md = m /\ Taken(h, m).heap \in Heaps
         /\ Taken(h, m).heap.halted = h.halted /\ Taken(h, m).heap.rover = h.rover
         /\ Taken(h, m).heap.link = [h.link EXCEPT ![m] = NULL]
         /\ Taken(h, m).heap.start = [h.start EXCEPT ![m] = 0]
         /\ Taken(h, m).heap.length = [h.length EXCEPT ![m] = 0]
         /\ Taken(h, m).heap.own = [h.own EXCEPT ![m] = NOBODY]
         /\ Taken(h, m).heap.x_flag = h.x_flag
  <1>1. NULL \in MD \cup {NULL} /\ 0 \in 0..Size + 1 /\ 0 \in 0..Size /\ NULL = 0
        /\ NOBODY \in {MF_FREE, NOBODY, ospd} \cup Addr
    BY Descriptor DEF NULL
  <1> QED
    BY <1>1 DEF Taken, Heaps

\* a descriptor from a block in use as descriptors
LEMMA TakenFresh ==
  ASSUME NEW h \in Heaps, NEW H \in SUBSET MD, Pool(h, H),
         NEW m \in MD \ {themd}, h.x_flag[Block(m)] = 1, h.own[m] = MF_FREE
  PROVE  Fresh(h, H, Taken(h, m).heap, m)
  <1>1. m \notin H
    BY DEF Pool
  <1>2. PICK g : g = Taken(h, m).heap
    OBVIOUS
  <1>3. /\ g \in Heaps /\ g.halted = h.halted /\ g.rover = h.rover
        /\ g.link = [h.link EXCEPT ![m] = NULL]
        /\ g.start = [h.start EXCEPT ![m] = 0]
        /\ g.length = [h.length EXCEPT ![m] = 0]
        /\ g.own = [h.own EXCEPT ![m] = NOBODY]
        /\ g.x_flag = h.x_flag
    BY <1>2, TakenIs
  <1>4. \A x \in MD : x # m => g.own[x] = h.own[x]
    BY <1>3 DEF Heaps
  <1>5. g.own[m] = NOBODY /\ NOBODY # MF_FREE
    BY <1>3 DEF Heaps, NOBODY, MF_FREE
  <1>6. Pool(g, H \cup {m})
    BY <1>1, <1>3, <1>4, <1>5 DEF Pool
  <1> QED
    BY <1>1, <1>2, <1>3, <1>4, <1>6 DEF Fresh

\* a descriptor from a block that is not in use as descriptors
LEMMA NewBlockFresh ==
  ASSUME NEW h \in Heaps, NEW H \in SUBSET MD, Pool(h, H),
         NEW b \in Blocks, h.x_flag[b] # 1
  PROVE  Fresh(h, H, NewBlock(h, b).heap, NewBlock(h, b).md)
  <1> DEFINE m == Highest(buf(b))
             k == [h EXCEPT !.x_flag[b] = 1,
                            !.own = [x \in MD |-> IF x \in buf(b) THEN MF_FREE ELSE h.own[x]]]
  <1>1. m \in buf(b)
    <2>1. buf(b) \in SUBSET (0..themd) /\ buf(b) # {}
      BY BlockNumbers, Descriptor DEF buf
    <2> QED
      BY <2>1, Descriptor, HighestIs
  <1>2. m \in MD \ {themd} /\ Block(m) = b
    BY <1>1 DEF buf
  <1>3. k \in Heaps
    <2>1. MF_FREE \in {MF_FREE, NOBODY, ospd} \cup Addr
      OBVIOUS
    <2> QED
      BY <2>1 DEF Heaps
  <1>4. /\ k.halted = h.halted /\ k.rover = h.rover /\ k.link = h.link
        /\ k.start = h.start /\ k.length = h.length
        /\ k.x_flag = [h.x_flag EXCEPT ![b] = 1]
        /\ \A x \in MD : k.own[x] = IF x \in buf(b) THEN MF_FREE ELSE h.own[x]
    BY DEF Heaps
  <1>5. \A x \in MD \ {themd} : Block(x) = b <=> x \in buf(b)
    BY DEF buf
  <1>6. \A x \in MD \ {themd} : Block(x) = b => x \notin H
    BY DEF Pool
  <1>7. themd \notin buf(b)
    BY DEF buf
  <1>8. NewBlock(h, b) = Taken(k, m)
    BY DEF NewBlock
  <1>14. k.x_flag[b] = 1 /\ \A c \in Blocks : c # b => k.x_flag[c] = h.x_flag[c]
    BY <1>4 DEF Heaps
  <1> HIDE DEF m, k
  <1>9. Pool(k, H)
    <2> SUFFICES ASSUME NEW x \in MD \ {themd}
                 PROVE  IF k.x_flag[Block(x)] = 1 THEN k.own[x] = MF_FREE <=> x \notin H ELSE x \notin H
      BY DEF Pool
    <2>1. CASE Block(x) = b
      BY <1>4, <1>5, <1>6, <1>14, <2>1
    <2>2. CASE Block(x) # b
      <3>1. k.x_flag[Block(x)] = h.x_flag[Block(x)] /\ k.own[x] = h.own[x]
        BY <1>4, <1>5, <1>14, <2>2, BlockNumbers
      <3> QED
        BY <3>1 DEF Pool
    <2> QED
      BY <2>1, <2>2
  <1>10. k.x_flag[Block(m)] = 1 /\ k.own[m] = MF_FREE
    BY <1>1, <1>2, <1>4, <1>14
  <1>11. Fresh(k, H, Taken(k, m).heap, m)
    BY <1>2, <1>3, <1>9, <1>10, TakenFresh
  <1>12. \A x \in H : k.own[x] = h.own[x]
    BY <1>4, <1>5, <1>6, <1>7
  <1>13. Taken(k, m).md = m
    BY <1>2, <1>3, TakenIs
  <1> QED
    BY <1>4, <1>8, <1>11, <1>12, <1>13 DEF Fresh

Lends(h, rb) == rb = NULL \/ (rb \in Blocks /\ h.x_flag[rb] = -1)

LEMMA MgetmdFresh ==
  ASSUME NEW h \in Heaps, NEW H \in SUBSET MD, Pool(h, H), NEW rb, Lends(h, rb),
         mgetmd(h, rb).md # NULL
  PROVE  Fresh(h, H, mgetmd(h, rb).heap, mgetmd(h, rb).md)
  <1>0. h.x_flag \in [Blocks -> {-1, 0, 1}]
    BY DEF Heaps
  <1>1. CASE Partly(h) # {}
    <2> DEFINE b == Lowest(Partly(h))
               S == {m \in buf(b) : h.own[m] = MF_FREE}
    <2>1. b \in Partly(h)
      <3>1. Partly(h) \in SUBSET Nat
        BY Descriptor DEF Partly
      <3> QED
        BY <1>1, <3>1, LowestIs
    <2>2. S # {} /\ S \in SUBSET Nat
      BY <2>1, Descriptor DEF Partly, buf
    <2>3. Lowest(S) \in S
      BY <2>2, LowestIs
    <2> DEFINE m == Lowest(S)
    <2>4. mgetmd(h, rb) = Taken(h, m)
      BY <1>1 DEF mgetmd
    <2>5. m \in MD \ {themd} /\ Block(m) = b /\ h.own[m] = MF_FREE
      BY <2>3 DEF buf
    <2>6. h.x_flag[b] = 1
      <3>1. b \in Blocks /\ h.x_flag[b] > 0
        BY <2>1 DEF Partly
      <3> QED
        BY <1>0, <3>1
    <2> HIDE DEF m, b, S
    <2>7. Taken(h, m).md = m
      BY <2>5, TakenIs
    <2> QED
      BY <2>4, <2>5, <2>6, <2>7, TakenFresh
  <1>2. CASE Partly(h) = {} /\ Idle(h) # {}
    <2>1. Highest(Idle(h)) \in Idle(h)
      <3>1. Idle(h) \in SUBSET (0..NBLOCKS) /\ NBLOCKS \in Nat
        BY MemoryAssumption DEF Idle, Blocks
      <3> QED
        BY <1>2, <3>1, HighestIs
    <2>2. mgetmd(h, rb) = NewBlock(h, Highest(Idle(h)))
      BY <1>2 DEF mgetmd
    <2>3. Highest(Idle(h)) \in Blocks /\ h.x_flag[Highest(Idle(h))] # 1
      BY <2>1 DEF Idle
    <2> QED
      BY <2>2, <2>3, NewBlockFresh
  <1>3. CASE Partly(h) = {} /\ Idle(h) = {} /\ rb # NULL
    <2>1. mgetmd(h, rb) = NewBlock(h, rb) /\ rb \in Blocks /\ h.x_flag[rb] = -1
      BY <1>3 DEF mgetmd, Lends
    <2> QED
      BY <2>1, NewBlockFresh
  <1>4. CASE Partly(h) = {} /\ Idle(h) = {} /\ rb = NULL
    BY <1>4 DEF mgetmd
  <1> QED
    BY <1>1, <1>2, <1>3, <1>4

LEMMA MgetmdFails ==
  ASSUME NEW h \in Heaps, NEW H \in SUBSET MD, Pool(h, H), NEW rb, Lends(h, rb),
         mgetmd(h, rb).md = NULL
  PROVE  mgetmd(h, rb) = [md |-> NULL, heap |-> h]
  <1>1. CASE mgetmd(h, rb) = [md |-> NULL, heap |-> h]
    BY <1>1
  <1>2. CASE Partly(h) # {} \/ Idle(h) # {} \/ rb # NULL
    <2>1. \E k \in Heaps, m \in MD : mgetmd(h, rb) = Taken(k, m)
      <3>0. h.x_flag \in [Blocks -> {-1, 0, 1}]
        BY DEF Heaps
      <3>1. CASE Partly(h) # {}
        <4> DEFINE b == Lowest(Partly(h))
                   S == {m \in buf(b) : h.own[m] = MF_FREE}
        <4>1. b \in Partly(h)
          <5>1. Partly(h) \in SUBSET Nat
            BY Descriptor DEF Partly
          <5> QED
            BY <3>1, <5>1, LowestIs
        <4>2. S # {} /\ S \in SUBSET Nat
          BY <4>1, Descriptor DEF Partly, buf
        <4>3. Lowest(S) \in S
          BY <4>2, LowestIs
        <4> QED
          BY <3>1, <4>3 DEF mgetmd, buf
      <3>2. ASSUME NEW b \in Blocks
            PROVE  \E k \in Heaps, m \in MD : NewBlock(h, b) = Taken(k, m)
        <4> DEFINE k == [h EXCEPT !.x_flag[b] = 1,
                            !.own = [x \in MD |-> IF x \in buf(b) THEN MF_FREE ELSE h.own[x]]]
        <4>1. k \in Heaps
          <5>1. MF_FREE \in {MF_FREE, NOBODY, ospd} \cup Addr
            OBVIOUS
          <5> QED
            BY <5>1 DEF Heaps
        <4>2. Highest(buf(b)) \in MD
          <5>1. buf(b) \in SUBSET (0..themd) /\ buf(b) # {} /\ buf(b) \subseteq MD
            BY BlockNumbers, Descriptor DEF buf
          <5> QED
            BY <5>1, Descriptor, HighestIs
        <4>3. NewBlock(h, b) = Taken(k, Highest(buf(b)))
          BY DEF NewBlock
        <4> HIDE DEF k
        <4> QED
          BY <4>1, <4>2, <4>3
      <3>3. CASE Partly(h) = {} /\ Idle(h) # {}
        <4>1. Highest(Idle(h)) \in Idle(h)
          <5>1. Idle(h) \in SUBSET (0..NBLOCKS) /\ NBLOCKS \in Nat
            BY MemoryAssumption DEF Idle, Blocks
          <5> QED
            BY <3>3, <5>1, HighestIs
        <4> QED
          BY <3>2, <3>3, <4>1 DEF mgetmd, Idle
      <3>4. CASE Partly(h) = {} /\ Idle(h) = {} /\ rb # NULL
        BY <3>2, <3>4 DEF mgetmd, Lends
      <3> QED
        BY <1>2, <3>1, <3>3, <3>4
    <2>2. PICK k \in Heaps, m \in MD : mgetmd(h, rb) = Taken(k, m)
      BY <2>1
    <2>3. mgetmd(h, rb).md = m
      <3>1. Taken(k, m).md = m
        BY TakenIs
      <3> QED
        BY <2>2, <3>1
    <2> QED
      BY <2>3, Descriptor
  <1> QED
    BY <1>1, <1>2 DEF mgetmd

LEMMA XmdfreeIs ==
  ASSUME NEW h \in Heaps, NEW H \in SUBSET MD, Pool(h, H), NEW m \in H, m # themd
  PROVE  /\ xmdfree(h, m) = [h EXCEPT !.own[m] = MF_FREE]
         /\ xmdfree(h, m) \in Heaps /\ Pool(xmdfree(h, m), H \ {m})
  <1>1. h.own[m] # MF_FREE /\ h.x_flag[Block(m)] = 1
    BY DEF Pool
  <1>2. xmdfree(h, m) = [h EXCEPT !.own[m] = MF_FREE]
    BY <1>1 DEF xmdfree
  <1>3. PICK g : g = [h EXCEPT !.own[m] = MF_FREE]
    OBVIOUS
  <1>4. g \in Heaps
    <2>1. MF_FREE \in {MF_FREE, NOBODY, ospd} \cup Addr
      OBVIOUS
    <2> QED
      BY <1>3, <2>1 DEF Heaps
  <1>5. g.x_flag = h.x_flag /\ g.own = [h.own EXCEPT ![m] = MF_FREE]
    BY <1>3 DEF Heaps
  <1>6. g.own[m] = MF_FREE /\ \A x \in MD : x # m => g.own[x] = h.own[x]
    BY <1>5 DEF Heaps
  <1>7. Pool(g, H \ {m})
    BY <1>1, <1>5, <1>6 DEF Pool
  <1> QED
    BY <1>2, <1>3, <1>4, <1>7

-----------------------------------------------------------------------------
(* Lists that get a descriptor, or lose one.                                *)

\* a set of numbers that has with each all smaller ones is made of the first
LEMMA Prefix ==
  ASSUME NEW m \in Nat, NEW S \in SUBSET (1..m), \A i, j \in 1..m : i <= j /\ j \in S => i \in S
  PROVE  /\ Cardinality(S) \in 0..m
         /\ \A i \in 1..m : i \in S <=> i <= Cardinality(S)
  <1> DEFINE Out == {k \in 0..m : k + 1 \notin S}
  <1>1. Out \in SUBSET Nat /\ m \in Out
    OBVIOUS
  <1>2. PICK k \in Out : \A j \in Out : k <= j
    <2> HIDE DEF Out
    <2> QED
      BY <1>1, HasLeast
  <1>3. k \in 0..m /\ k + 1 \notin S
    BY <1>2
  <1>4. ASSUME NEW i \in 1..m, i <= k PROVE i \in S
    <2>1. i - 1 \in 0..m /\ i - 1 \notin Out
      BY <1>2, <1>3, <1>4
    <2> QED
      BY <2>1
  <1>5. ASSUME NEW i \in 1..m, i > k PROVE i \notin S
    BY <1>3, <1>5
  <1>6. S = 1..k
    <2>1. \A i \in S : i \in 1..k
      BY <1>3, <1>5
    <2>2. \A i \in 1..k : i \in S
      BY <1>3, <1>4
    <2> QED
      BY <2>1, <2>2
  <1>7. Cardinality(S) = k
    BY <1>3, <1>6, FS_Interval
  <1> QED
    BY <1>3, <1>4, <1>5, <1>7

LEMMA InElements ==
  ASSUME NEW s \in Seq(MD), NEW x
  PROVE  x \in Elements(s) <=> \E i \in 1..Len(s) : s[i] = x
  BY DEF Elements

\* F with m after the first k
Inserted(F, k, m) ==
  [i \in 1..Len(F) + 1 |-> IF i <= k THEN F[i] ELSE IF i = k + 1 THEN m ELSE F[i - 1]]

LEMMA InsertedIs ==
  ASSUME NEW F \in Seq(MD), Distinct(F), NEW k \in 0..Len(F), NEW m \in MD, m \notin Elements(F)
  PROVE  /\ Inserted(F, k, m) \in Seq(MD) /\ Len(Inserted(F, k, m)) = Len(F) + 1
         /\ Distinct(Inserted(F, k, m))
         /\ Elements(Inserted(F, k, m)) = Elements(F) \cup {m}
         /\ \A i \in 1..k : Inserted(F, k, m)[i] = F[i]
         /\ Inserted(F, k, m)[k + 1] = m
         /\ \A i \in k + 1..Len(F) : Inserted(F, k, m)[i + 1] = F[i]
  <1> DEFINE G == Inserted(F, k, m)  n == Len(F)
  <1>1. n \in Nat /\ DOMAIN F = 1..n /\ \A i \in 1..n : F[i] \in MD /\ F[i] # m
    BY InElements
  <1>2. \A i \in 1..n + 1 : G[i] = IF i <= k THEN F[i] ELSE IF i = k + 1 THEN m ELSE F[i - 1]
    BY DEF Inserted
  <1>3. \A i \in 1..n + 1 : G[i] \in MD
    BY <1>1, <1>2
  <1>4. G \in [1..n + 1 -> MD]
    BY <1>3 DEF Inserted
  <1>5. G \in Seq(MD) /\ Len(G) = n + 1 /\ DOMAIN G = 1..n + 1
    <2>1. n + 1 \in Nat
      BY <1>1
    <2> HIDE DEF G, n
    <2> QED
      BY <1>4, <2>1
  <1> HIDE DEF G, n
  <1>6. \A i \in 1..k : G[i] = F[i]
    BY <1>1, <1>2 DEF n
  <1>7. G[k + 1] = m
    BY <1>1, <1>2 DEF n
  <1>8. \A i \in k + 1..n : G[i + 1] = F[i]
    BY <1>1, <1>2 DEF n
  <1>9. Distinct(G)
    <2>1. \A i, j \in 1..n : F[i] = F[j] => i = j
      BY <1>1 DEF Distinct
    <2> SUFFICES ASSUME NEW i \in 1..n + 1, NEW j \in 1..n + 1, i < j, G[i] = G[j] PROVE FALSE
      BY <1>1, <1>5 DEF Distinct
    <2>2. k \in 0..n
      BY DEF n
    <2>3. CASE j <= k
      <3>1. G[i] = F[i] /\ G[j] = F[j] /\ i \in 1..n /\ j \in 1..n /\ i # j
        BY <1>1, <1>2, <2>2, <2>3
      <3> QED
        BY <1>1, <2>1, <3>1
    <2>4. CASE j = k + 1
      <3>1. G[i] = F[i] /\ G[j] = m /\ i \in 1..n
        BY <1>1, <1>2, <2>2, <2>4
      <3> QED
        BY <1>1, <3>1
    <2>5. CASE j > k + 1
      <3>1. G[j] = F[j - 1] /\ j - 1 \in 1..n
        BY <1>1, <1>2, <2>2, <2>5
      <3>2. CASE i <= k
        <4>1. G[i] = F[i] /\ i \in 1..n /\ i # j - 1
          BY <1>1, <1>2, <2>2, <2>5, <3>2
        <4> QED
          BY <2>1, <3>1, <4>1
      <3>3. CASE i = k + 1
        <4>1. G[i] = m
          BY <1>7, <3>3
        <4> QED
          BY <1>1, <3>1, <4>1
      <3>4. CASE i > k + 1
        <4>1. G[i] = F[i - 1] /\ i - 1 \in 1..n /\ i - 1 # j - 1
          BY <1>1, <1>2, <2>2, <3>4
        <4> QED
          BY <2>1, <3>1, <4>1
      <3> QED
        BY <2>2, <3>2, <3>3, <3>4
    <2> QED
      BY <2>2, <2>3, <2>4, <2>5
  <1>10. Elements(G) = Elements(F) \cup {m}
    <2>1. \A x : x \in Elements(G) <=> \E i \in 1..n + 1 : G[i] = x
      BY <1>5, InElements
    <2>2. \A x : x \in Elements(F) <=> \E i \in 1..n : F[i] = x
      BY InElements DEF n
    <2>3. \A i \in 1..n + 1 : G[i] \in Elements(F) \cup {m}
      <3> TAKE i \in 1..n + 1
      <3>1. CASE i <= k
        BY <1>1, <1>2, <2>2, <3>1 DEF n
      <3>2. CASE i = k + 1
        BY <1>7, <3>2
      <3>3. CASE i > k + 1
        <4>1. G[i] = F[i - 1] /\ i - 1 \in 1..n
          BY <1>1, <1>2, <3>3
        <4> QED
          BY <2>2, <4>1
      <3> QED
        BY <3>1, <3>2, <3>3
    <2>4. \A i \in 1..n : F[i] \in Elements(G)
      <3> TAKE i \in 1..n
      <3>1. CASE i <= k
        <4>1. G[i] = F[i] /\ i \in 1..n + 1
          BY <1>1, <1>6, <3>1
        <4> QED
          BY <2>1, <4>1
      <3>2. CASE i > k
        <4>1. G[i + 1] = F[i] /\ i + 1 \in 1..n + 1
          BY <1>1, <1>8, <3>2
        <4> QED
          BY <2>1, <4>1
      <3> QED
        BY <3>1, <3>2
    <2>5. m \in Elements(G)
      <3>1. k + 1 \in 1..n + 1
        BY <1>1 DEF n
      <3> QED
        BY <1>7, <2>1, <3>1
    <2> QED
      BY <2>1, <2>2, <2>3, <2>4, <2>5
  <1> QED
    BY <1>5, <1>6, <1>7, <1>8, <1>9, <1>10 DEF G, n

\* F without the k-th
Removed(F, k) == [i \in 1..Len(F) - 1 |-> IF i < k THEN F[i] ELSE F[i + 1]]

LEMMA RemovedIs ==
  ASSUME NEW F \in Seq(MD), Distinct(F), NEW k \in 1..Len(F)
  PROVE  /\ Removed(F, k) \in Seq(MD) /\ Len(Removed(F, k)) = Len(F) - 1
         /\ Distinct(Removed(F, k))
         /\ Elements(Removed(F, k)) = Elements(F) \ {F[k]}
         /\ \A i \in 1..k - 1 : Removed(F, k)[i] = F[i]
         /\ \A i \in k..Len(F) - 1 : Removed(F, k)[i] = F[i + 1]
  <1> DEFINE G == Removed(F, k)  n == Len(F)
  <1>1. n \in Nat /\ DOMAIN F = 1..n /\ k \in 1..n /\ \A i \in 1..n : F[i] \in MD
    OBVIOUS
  <1>2. \A i \in 1..n - 1 : G[i] = IF i < k THEN F[i] ELSE F[i + 1]
    BY DEF Removed
  <1>3. \A i \in 1..n - 1 : G[i] \in MD
    BY <1>1, <1>2
  <1>4. G \in [1..n - 1 -> MD]
    BY <1>3 DEF Removed
  <1>5. G \in Seq(MD) /\ Len(G) = n - 1 /\ DOMAIN G = 1..n - 1
    <2>1. n - 1 \in Nat
      BY <1>1
    <2> HIDE DEF G, n
    <2> QED
      BY <1>4, <2>1
  <1> HIDE DEF G, n
  <1>6. \A i \in 1..k - 1 : G[i] = F[i]
    BY <1>1, <1>2
  <1>7. \A i \in k..n - 1 : G[i] = F[i + 1]
    BY <1>1, <1>2
  <1>8. \A i, j \in 1..n : F[i] = F[j] => i = j
    BY <1>1 DEF Distinct
  <1>9. Distinct(G)
    <2> SUFFICES ASSUME NEW i \in 1..n - 1, NEW j \in 1..n - 1, i < j, G[i] = G[j] PROVE FALSE
      BY <1>1, <1>5 DEF Distinct
    <2>1. CASE j < k
      <3>1. G[i] = F[i] /\ G[j] = F[j] /\ i \in 1..n /\ j \in 1..n /\ i # j
        BY <1>1, <1>2, <2>1
      <3> QED
        BY <1>1, <1>8, <3>1
    <2>2. CASE j >= k /\ i < k
      <3>1. G[i] = F[i] /\ G[j] = F[j + 1] /\ i \in 1..n /\ j + 1 \in 1..n /\ i # j + 1
        BY <1>1, <1>2, <2>2
      <3> QED
        BY <1>8, <3>1
    <2>3. CASE i >= k
      <3>1. G[i] = F[i + 1] /\ G[j] = F[j + 1] /\ i + 1 \in 1..n /\ j + 1 \in 1..n /\ i + 1 # j + 1
        BY <1>1, <1>2, <2>3
      <3> QED
        BY <1>8, <3>1
    <2> QED
      BY <1>1, <2>1, <2>2, <2>3
  <1>10. Elements(G) = Elements(F) \ {F[k]}
    <2>1. \A x : x \in Elements(G) <=> \E i \in 1..n - 1 : G[i] = x
      BY <1>5, InElements
    <2>2. \A x : x \in Elements(F) <=> \E i \in 1..n : F[i] = x
      BY InElements DEF n
    <2>3. \A i \in 1..n - 1 : G[i] \in Elements(F) \ {F[k]}
      <3> TAKE i \in 1..n - 1
      <3>1. CASE i < k
        <4>1. G[i] = F[i] /\ i \in 1..n /\ i # k
          BY <1>1, <1>2, <3>1
        <4> QED
          BY <1>1, <1>8, <2>2, <4>1
      <3>2. CASE i >= k
        <4>1. G[i] = F[i + 1] /\ i + 1 \in 1..n /\ i + 1 # k
          BY <1>1, <1>2, <3>2
        <4> QED
          BY <1>1, <1>8, <2>2, <4>1
      <3> QED
        BY <1>1, <3>1, <3>2
    <2>4. \A i \in 1..n : i # k => F[i] \in Elements(G)
      <3> TAKE i \in 1..n
      <3>1. CASE i < k
        <4>1. G[i] = F[i] /\ i \in 1..n - 1
          BY <1>1, <1>6, <3>1
        <4> QED
          BY <2>1, <4>1
      <3>2. CASE i > k
        <4>1. G[i - 1] = F[i - 1 + 1] /\ i - 1 \in 1..n - 1 /\ i - 1 + 1 = i
          BY <1>1, <1>7, <3>2
        <4> QED
          BY <2>1, <4>1
      <3> QED
        BY <1>1, <3>1, <3>2
    <2> QED
      BY <2>1, <2>2, <2>3, <2>4
  <1> QED
    BY <1>5, <1>6, <1>7, <1>9, <1>10 DEF G, n

\* the link to the k-th of F
Into(c, F, k) == IF k = 1 THEN c ELSE F[k - 1]

\* a list stays as it is when other links change
LEMMA FollowsOther ==
  ASSUME NEW h \in Heaps, NEW g \in Heaps, NEW c \in {MFL, MAL}, NEW s \in Seq(MD), Follows(h, c, s),
         \A x \in Elements(s) \cup {c} : g.link[x] = h.link[x]
  PROVE  Follows(g, c, s)
  BY DEF Follows, Elements

LEMMA FollowsInserted ==
  ASSUME NEW h \in Heaps, NEW g \in Heaps, NEW c \in {MFL, MAL}, NEW F \in Seq(MD), Distinct(F), Follows(h, c, F),
         NEW k \in 0..Len(F), NEW m \in MD, m \notin Elements(F),
         g.link[m] = After(F, k), g.link[Into(c, F, k + 1)] = m,
         \A x \in Elements(F) \cup {c} : x # Into(c, F, k + 1) => g.link[x] = h.link[x]
  PROVE  Follows(g, c, Inserted(F, k, m))
  <1> DEFINE n == Len(F)
  <1> PICK G : G = Inserted(F, k, m)
    OBVIOUS
  <1>1. /\ n \in Nat /\ \A i \in 1..n : F[i] \in MD /\ F[i] \in Elements(F) /\ F[i] # c
        /\ \A i, j \in 1..n : F[i] = F[j] => i = j
    BY Descriptor DEF Elements, Distinct
  <1>2. /\ G \in Seq(MD) /\ Len(G) = n + 1 /\ DOMAIN G = 1..n + 1
        /\ \A i \in 1..k : G[i] = F[i]
        /\ G[k + 1] = m
        /\ \A i \in k + 1..n : G[i + 1] = F[i]
    <2>1. /\ G \in Seq(MD) /\ Len(G) = n + 1
          /\ \A i \in 1..k : G[i] = F[i]
          /\ G[k + 1] = m
          /\ \A i \in k + 1..n : G[i + 1] = F[i]
      BY InsertedIs
    <2> QED
      BY <1>1, <2>1
  <1>3. h.link[c] = After(F, 0) /\ \A i \in 1..n : h.link[F[i]] = After(F, i)
    BY <1>1 DEF Follows
  <1>4. g.link[c] = After(G, 0)
    <2>1. CASE k = 0
      BY <1>1, <1>2, <2>1 DEF Into, After
    <2>2. CASE k > 0
      <3>1. Into(c, F, k + 1) = F[k] /\ k \in 1..n /\ F[k] # c
        BY <1>1, <2>2 DEF Into
      <3>2. g.link[c] = F[1]
        BY <1>1, <1>3, <2>2, <3>1 DEF After
      <3>3. G[1] = F[1]
        BY <1>2, <3>1
      <3> QED
        BY <1>1, <1>2, <3>2, <3>3 DEF After
    <2> QED
      BY <2>1, <2>2
  <1>5. ASSUME NEW i \in 1..n + 1
        PROVE  g.link[G[i]] = After(G, i)
    <2>1. CASE i < k
      <3>1. G[i] = F[i] /\ G[i + 1] = F[i + 1] /\ i \in 1..n /\ k \in 1..n
        BY <1>1, <1>2, <2>1
      <3>2. Into(c, F, k + 1) = F[k] /\ F[i] # F[k]
        BY <1>1, <2>1, <3>1 DEF Into
      <3>3. g.link[F[i]] = After(F, i)
        BY <1>1, <1>3, <3>1, <3>2
      <3> QED
        BY <1>1, <1>2, <2>1, <3>1, <3>3 DEF After
    <2>2. CASE i = k
      <3>1. G[i] = F[k] /\ G[i + 1] = m /\ Into(c, F, k + 1) = F[k]
        BY <1>1, <1>2, <2>2 DEF Into
      <3> QED
        BY <1>1, <1>2, <2>2, <3>1 DEF After
    <2>3. CASE i = k + 1
      <3>1. G[i] = m
        BY <1>2, <2>3
      <3>2. CASE k < n
        <4>1. G[i + 1] = F[k + 1]
          BY <1>1, <1>2, <2>3, <3>2
        <4> QED
          BY <1>1, <1>2, <2>3, <3>1, <3>2, <4>1 DEF After
      <3>3. CASE k = n
        BY <1>1, <1>2, <2>3, <3>1, <3>3 DEF After
      <3> QED
        BY <1>1, <3>2, <3>3
    <2>4. CASE i > k + 1
      <3>1. i - 1 \in k + 1..n /\ i - 1 \in 1..n /\ i - 1 + 1 = i
        BY <1>1, <2>4
      <3>2. G[i] = F[i - 1]
        BY <1>2, <3>1
      <3>3. F[i - 1] # Into(c, F, k + 1)
        <4>1. CASE k = 0
          BY <1>1, <3>1, <4>1 DEF Into
        <4>2. CASE k > 0
          <5>1. Into(c, F, k + 1) = F[k] /\ k \in 1..n /\ k # i - 1
            BY <1>1, <3>1, <4>2 DEF Into
          <5> QED
            BY <1>1, <3>1, <5>1
        <4> QED
          BY <4>1, <4>2
      <3>4. g.link[F[i - 1]] = After(F, i - 1)
        BY <1>1, <1>3, <3>1, <3>3
      <3>5. CASE i <= n
        <4>1. G[i + 1] = F[i]
          BY <1>1, <1>2, <2>4, <3>5
        <4> QED
          BY <1>1, <1>2, <3>1, <3>2, <3>4, <3>5, <4>1 DEF After
      <3>6. CASE i = n + 1
        BY <1>1, <1>2, <3>1, <3>2, <3>4, <3>6 DEF After
      <3> QED
        BY <1>1, <3>5, <3>6
    <2> QED
      BY <1>1, <2>1, <2>2, <2>3, <2>4
  <1> QED
    BY <1>2, <1>4, <1>5 DEF Follows

LEMMA FollowsRemoved ==
  ASSUME NEW h \in Heaps, NEW g \in Heaps, NEW c \in {MFL, MAL}, NEW F \in Seq(MD), Distinct(F), Follows(h, c, F),
         NEW k \in 1..Len(F),
         g.link[Into(c, F, k)] = After(F, k),
         \A x \in Elements(F) \cup {c} : x # Into(c, F, k) /\ x # F[k] => g.link[x] = h.link[x]
  PROVE  Follows(g, c, Removed(F, k))
  <1> DEFINE n == Len(F)
  <1> PICK G : G = Removed(F, k)
    OBVIOUS
  <1>1. /\ n \in Nat /\ k \in 1..n /\ \A i \in 1..n : F[i] \in MD /\ F[i] \in Elements(F) /\ F[i] # c
        /\ \A i, j \in 1..n : F[i] = F[j] => i = j
    BY Descriptor DEF Elements, Distinct
  <1>2. /\ G \in Seq(MD) /\ Len(G) = n - 1 /\ DOMAIN G = 1..n - 1
        /\ \A i \in 1..k - 1 : G[i] = F[i]
        /\ \A i \in k..n - 1 : G[i] = F[i + 1]
    BY RemovedIs
  <1>3. h.link[c] = After(F, 0) /\ \A i \in 1..n : h.link[F[i]] = After(F, i)
    BY <1>1 DEF Follows
  <1>4. g.link[c] = After(G, 0)
    <2>1. CASE k = 1
      <3>1. Into(c, F, k) = c
        BY <2>1 DEF Into
      <3>2. CASE n = 1
        BY <1>1, <1>2, <2>1, <3>1, <3>2 DEF After
      <3>3. CASE n > 1
        <4>1. G[1] = F[2]
          BY <1>1, <1>2, <2>1, <3>3
        <4> QED
          BY <1>1, <1>2, <2>1, <3>1, <3>3, <4>1 DEF After
      <3>4. n = 1 \/ n > 1
        <4>1. n \in Nat /\ 1 \in 1..n
          BY <1>1, <2>1
        <4> HIDE DEF n
        <4> QED
          BY <4>1
      <3> QED
        BY <3>2, <3>3, <3>4
    <2>2. CASE k > 1
      <3>1. Into(c, F, k) = F[k - 1] /\ k - 1 \in 1..n /\ F[k - 1] # c /\ F[k] # c
        BY <1>1, <2>2 DEF Into
      <3>2. g.link[c] = F[1]
        BY <1>1, <1>3, <2>2, <3>1 DEF After
      <3>3. G[1] = F[1]
        BY <1>1, <1>2, <2>2
      <3> QED
        BY <1>1, <1>2, <2>2, <3>2, <3>3 DEF After
    <2> QED
      BY <1>1, <2>1, <2>2
  <1>5. ASSUME NEW i \in 1..n - 1
        PROVE  g.link[G[i]] = After(G, i)
    <2>1. CASE i < k - 1
      <3>1. G[i] = F[i] /\ G[i + 1] = F[i + 1] /\ i \in 1..n /\ k - 1 \in 1..n
        BY <1>1, <1>2, <2>1
      <3>2. Into(c, F, k) = F[k - 1] /\ F[i] # F[k - 1] /\ F[i] # F[k]
        BY <1>1, <2>1, <3>1 DEF Into
      <3>3. g.link[F[i]] = After(F, i)
        BY <1>1, <1>3, <3>1, <3>2
      <3> QED
        BY <1>1, <1>2, <2>1, <3>1, <3>3 DEF After
    <2>2. CASE i = k - 1
      <3>1. G[i] = F[k - 1] /\ Into(c, F, k) = F[k - 1]
        BY <1>1, <1>2, <2>2 DEF Into
      <3>2. CASE k < n
        <4>1. G[i + 1] = F[k + 1]
          BY <1>1, <1>2, <2>2, <3>2
        <4> QED
          BY <1>1, <1>2, <2>2, <3>1, <3>2, <4>1 DEF After
      <3>3. CASE k = n
        BY <1>1, <1>2, <2>2, <3>1, <3>3 DEF After
      <3> QED
        BY <1>1, <3>2, <3>3
    <2>3. CASE i >= k
      <3>1. i + 1 \in 1..n /\ G[i] = F[i + 1]
        BY <1>1, <1>2, <2>3
      <3>2. F[i + 1] # F[k] /\ F[i + 1] # Into(c, F, k)
        <4>1. F[i + 1] # F[k]
          BY <1>1, <2>3, <3>1
        <4>2. CASE k = 1
          BY <1>1, <3>1, <4>2 DEF Into
        <4>3. CASE k > 1
          <5>1. Into(c, F, k) = F[k - 1] /\ k - 1 \in 1..n /\ k - 1 # i + 1
            BY <1>1, <2>3, <4>3 DEF Into
          <5> QED
            BY <1>1, <3>1, <4>1, <5>1
        <4> QED
          BY <1>1, <4>1, <4>2, <4>3
      <3>3. g.link[F[i + 1]] = After(F, i + 1)
        BY <1>1, <1>3, <3>1, <3>2
      <3>4. CASE i + 1 < n
        <4>1. G[i + 1] = F[i + 2]
          BY <1>1, <1>2, <2>3, <3>4
        <4> QED
          BY <1>1, <1>2, <3>1, <3>3, <3>4, <4>1 DEF After
      <3>5. CASE i + 1 = n
        BY <1>1, <1>2, <3>1, <3>3, <3>5 DEF After
      <3> QED
        BY <1>1, <3>1, <3>4, <3>5
    <2> QED
      BY <1>1, <2>1, <2>2, <2>3
  <1> QED
    BY <1>2, <1>4, <1>5 DEF Follows

-----------------------------------------------------------------------------
(* freeit.                                                                  *)

\* the blocks of S are the same in g as in h
Kept(h, g, S) ==
  \A x \in S : g.start[x] = h.start[x] /\ g.length[x] = h.length[x] /\ g.own[x] = h.own[x]

\* numbers of a heap
LEMMA HeapNumbers ==
  ASSUME NEW h \in Heaps, NEW m \in MD
  PROVE  /\ h.start[m] \in Nat /\ h.length[m] \in Nat /\ End(h, m) \in Nat
         /\ h.start[m] \in 0..Size + 1 /\ h.length[m] \in 0..Size
         /\ End(h, m) = h.start[m] + h.length[m]
         /\ \A a : a \in Space(h, m) <=> a \in Int /\ h.start[m] <= a /\ a < End(h, m)
  <1>1. h.start \in [MD -> 0..Size + 1] /\ h.length \in [MD -> 0..Size] /\ Size \in Nat
    BY Descriptor DEF Heaps
  <1>2. h.start[m] \in 0..Size + 1 /\ h.length[m] \in 0..Size
    BY <1>1
  <1> QED
    BY <1>1, <1>2 DEF End, Space

\* blocks have room of their own
LEMMA Apart ==
  ASSUME NEW h \in Heaps, NEW H \in SUBSET MD, Tiled(h, H), NEW m \in H, NEW n \in H, m # n
  PROVE  /\ h.start[m] # h.start[n]
         /\ h.start[m] < h.start[n] => End(h, m) <= h.start[n]
  <1>1. /\ h.length[m] > 0 /\ h.length[n] > 0 /\ Space(h, m) \cap Space(h, n) = {}
    BY DEF Tiled
  <1>2. h.start[n] \in Space(h, n) /\ h.start[m] \in Space(h, m)
    BY <1>1, HeapNumbers
  <1>3. h.start[n] \notin Space(h, m)
    BY <1>1, <1>2
  <1>4. h.start[m] # h.start[n]
    BY <1>2, <1>3
  <1> QED
    BY <1>3, <1>4, HeapNumbers

\* blocks lie in memory
LEMMA Within ==
  ASSUME NEW h \in Heaps, NEW H \in SUBSET MD, Tiled(h, H), NEW m \in H
  PROVE  h.start[m] >= 1 /\ End(h, m) <= Size + 1 /\ h.length[m] > 0 /\ h.start[m] \in Addr
  <1>1. h.length[m] > 0 /\ Space(h, m) \subseteq Addr
    BY DEF Tiled
  <1>2. h.start[m] \in Space(h, m) /\ End(h, m) - 1 \in Space(h, m)
    BY <1>1, HeapNumbers
  <1>3. h.start[m] \in 1..Size /\ End(h, m) - 1 \in 1..Size
    BY <1>1, <1>2 DEF Addr
  <1> QED
    BY <1>1, <1>3, HeapNumbers, Descriptor

Tails(F, k) == IF k = Len(F) THEN NULL ELSE F[k + 1]

LEMMA TiledSame ==
  ASSUME NEW h, NEW g, NEW H, Tiled(h, H), g.start = h.start, g.length = h.length
  PROVE  Tiled(g, H)
  BY DEF Tiled, Space, End

LEMMA InsertFits ==
  ASSUME NEW h \in Heaps, NEW F, NEW A, NEW X, Fits(h, F, A, X, {}),
         NEW m \in X, NEW k \in 0..Len(F),
         \A i \in 1..k : h.start[F[i]] < h.start[m],
         k < Len(F) => h.start[F[k + 1]] >= h.start[m],
         NEW g, g = Insert(h, m, IF k = 0 THEN NULL ELSE F[k], Tails(F, k))
  PROVE  /\ Fits(g, Inserted(F, k, m), A, X \ {m}, {k, k + 1})
         /\ Kept(h, g, MD)
  <1> DEFINE c == IF k = 0 THEN MFL ELSE F[k]
  <1>1. /\ ~h.halted /\ Lists(h, F, A, X) /\ Ordered(h, F, {})
        /\ Tiled(h, All(F, A, X)) /\ Pool(h, All(F, A, X))
    BY DEF Fits
  <1>2. /\ F \in Seq(MD) /\ A \in Seq(MD) /\ X \subseteq MD /\ Distinct(F) /\ Distinct(A)
        /\ Elements(F) \cap Elements(A) = {} /\ X \cap (Elements(F) \cup Elements(A)) = {}
        /\ Follows(h, MFL, F) /\ Follows(h, MAL, A)
        /\ IF F = <<>> THEN h.rover = NULL ELSE h.rover \in Elements(F)
    BY <1>1 DEF Lists
  <1>3. m \in MD /\ m \notin Elements(F) /\ m \notin Elements(A)
    BY <1>2
  <1>4. /\ Len(F) \in Nat /\ \A i \in 1..Len(F) : F[i] \in MD /\ F[i] \in Elements(F)
    BY <1>2 DEF Elements
  <1>5. k > 0 => k \in 1..Len(F)
    OBVIOUS
  <1>6. (IF (IF k = 0 THEN NULL ELSE F[k]) = NULL THEN MFL ELSE IF k = 0 THEN NULL ELSE F[k]) = c
    BY <1>4, <1>5, Descriptor
  <1>7. c \in MD \cup {MFL, MAL} /\ c # m /\ c # MAL /\ c \notin Elements(A)
        /\ (k > 0 => c \in Elements(F)) /\ (k = 0 => c = MFL)
    <2>1. CASE k = 0
      <3>1. MFL \notin Elements(A)
        BY <1>2, Descriptor DEF Elements
      <3> QED
        BY <1>3, <2>1, <3>1, Descriptor
    <2>2. CASE k > 0
      <3>1. c = F[k] /\ F[k] \in MD /\ F[k] \in Elements(F)
        BY <1>4, <1>5, <2>2
      <3> QED
        BY <1>2, <1>3, <2>2, <3>1, Descriptor
    <2> QED
      BY <2>1, <2>2
  <1>8. Tails(F, k) = After(F, k) /\ Tails(F, k) \in MD \cup {NULL}
    BY <1>4 DEF Tails, After
  <1>9. g = [h EXCEPT !.link = [h.link EXCEPT ![m] = Tails(F, k), ![c] = m],
                      !.rover = IF h.rover = NULL THEN m ELSE h.rover]
    BY <1>6 DEF Insert
  <1> HIDE DEF c
  <1>10. /\ g \in Heaps /\ g.halted = h.halted /\ g.start = h.start /\ g.length = h.length
         /\ g.own = h.own /\ g.x_flag = h.x_flag
         /\ g.link = [h.link EXCEPT ![m] = Tails(F, k), ![c] = m]
         /\ g.rover = IF h.rover = NULL THEN m ELSE h.rover
    <2>1. PICK links : links = [h.link EXCEPT ![m] = Tails(F, k), ![c] = m]
      OBVIOUS
    <2>2. links \in [MD \cup {MFL, MAL} -> MD \cup {NULL}]
      <3>1. h.link \in [MD \cup {MFL, MAL} -> MD \cup {NULL}]
        BY DEF Heaps
      <3> QED
        BY <1>3, <1>7, <1>8, <2>1, <3>1
    <2>3. PICK r \in MD \cup {NULL} : r = IF h.rover = NULL THEN m ELSE h.rover
      BY <1>3 DEF Heaps
    <2>4. g = [h EXCEPT !.link = links, !.rover = r]
      BY <1>9, <2>1, <2>3
    <2>5. /\ g \in Heaps /\ g.halted = h.halted /\ g.start = h.start /\ g.length = h.length
          /\ g.own = h.own /\ g.x_flag = h.x_flag /\ g.link = links /\ g.rover = r
      BY <2>2, <2>4 DEF Heaps
    <2> QED
      BY <2>1, <2>3, <2>5
  <1>11. /\ g.link[m] = After(F, k) /\ g.link[c] = m
         /\ \A x \in MD \cup {MFL, MAL} : x # m /\ x # c => g.link[x] = h.link[x]
    BY <1>3, <1>7, <1>8, <1>10 DEF Heaps
  <1>12. Kept(h, g, MD)
    BY <1>10 DEF Kept
  <1> PICK G : G = Inserted(F, k, m)
    OBVIOUS
  <1>13. /\ G \in Seq(MD) /\ Len(G) = Len(F) + 1 /\ Distinct(G)
         /\ Elements(G) = Elements(F) \cup {m}
         /\ \A i \in 1..k : G[i] = F[i]
         /\ G[k + 1] = m
         /\ \A i \in k + 1..Len(F) : G[i + 1] = F[i]
    BY <1>2, <1>3, InsertedIs
  <1>14. Follows(g, MFL, G)
    <2>1. c = Into(MFL, F, k + 1)
      BY <1>4 DEF Into, c
    <2>2. \A x \in Elements(F) \cup {MFL} : x # c => g.link[x] = h.link[x]
      <3>1. Elements(F) \cup {MFL} \subseteq MD \cup {MFL, MAL} /\ m # MFL
        BY <1>2, <1>3, Descriptor DEF Elements
      <3> QED
        BY <1>3, <1>11, <3>1
    <2> QED
      BY <1>2, <1>3, <1>10, <1>11, <2>1, <2>2, FollowsInserted
  <1>15. Follows(g, MAL, A)
    <2>1. \A x \in Elements(A) \cup {MAL} : g.link[x] = h.link[x]
      <3>1. Elements(A) \subseteq MD /\ m # MAL
        BY <1>2, <1>3, Descriptor DEF Elements
      <3> QED
        BY <1>3, <1>7, <1>11, <3>1
    <2> QED
      BY <1>2, <1>10, <2>1, FollowsOther
  <1>16. G # <<>> /\ g.rover \in Elements(G)
    <2>1. CASE h.rover = NULL
      BY <1>4, <1>10, <1>13, <2>1
    <2>2. CASE h.rover # NULL
      BY <1>2, <1>4, <1>10, <1>13, <2>2
    <2> QED
      BY <2>1, <2>2
  <1>17. Lists(g, G, A, X \ {m})
    BY <1>2, <1>3, <1>13, <1>14, <1>15, <1>16 DEF Lists
  <1>18. All(G, A, X \ {m}) = All(F, A, X)
    BY <1>13 DEF All
  <1>19. \A x : Space(g, x) = Space(h, x) /\ End(g, x) = End(h, x)
    BY <1>10 DEF Space, End
  <1>20. Tiled(g, All(G, A, X \ {m}))
    BY <1>1, <1>10, <1>18, TiledSame
  <1>21. Pool(g, All(G, A, X \ {m}))
    BY <1>1, <1>10, <1>18 DEF Pool
  <1>22. Ordered(g, G, {k, k + 1})
    <2> DEFINE n == Len(F)
    <2>1. \A i, j \in 1..n : i < j => End(h, F[i]) < h.start[F[j]]
      <3> TAKE i, j \in 1..n
      <3> HAVE i < j
      <3>1. End(h, F[i]) <= h.start[F[j]] /\ End(h, F[i]) # h.start[F[j]]
        BY <1>1, <1>4 DEF Ordered
      <3> QED
        BY <1>4, <3>1, HeapNumbers
    <2>2. m \in All(F, A, X) /\ \A i \in 1..n : F[i] \in All(F, A, X) /\ F[i] # m /\ F[i] \in MD
      BY <1>3, <1>4 DEF All
    <2>3. All(F, A, X) \in SUBSET MD
      BY <1>2 DEF All, Elements
    <2>4. \A i \in 1..k : End(h, F[i]) <= h.start[m]
      <3> TAKE i \in 1..k
      <3>1. i \in 1..n
        BY <1>4
      <3> QED
        BY <1>1, <2>2, <2>3, <3>1, Apart
    <2>5. \A i \in 1..k - 1 : End(h, F[i]) < h.start[m]
      <3> TAKE i \in 1..k - 1
      <3>1. i \in 1..n /\ k \in 1..n /\ i < k
        BY <1>4
      <3>2. End(h, F[i]) < h.start[F[k]]
        BY <2>1, <3>1
      <3>3. h.start[F[k]] < h.start[m] /\ F[k] \in MD /\ F[i] \in MD
        BY <1>4, <3>1
      <3> QED
        BY <1>3, <3>2, <3>3, HeapNumbers
    <2>6. k < n => End(h, m) <= h.start[F[k + 1]]
      <3> HAVE k < n
      <3>1. k + 1 \in 1..n
        BY <1>4
      <3>2. h.start[F[k + 1]] > h.start[m]
        <4>1. h.start[F[k + 1]] # h.start[m]
          BY <1>1, <2>2, <2>3, <3>1, Apart
        <4>2. h.start[F[k + 1]] \in Nat /\ h.start[m] \in Nat
          BY <1>3, <1>4, <3>1, HeapNumbers
        <4> QED
          BY <4>1, <4>2
      <3> QED
        BY <1>1, <2>2, <2>3, <3>1, <3>2, Apart
    <2>7. \A j \in k + 2..n : End(h, m) < h.start[F[j]]
      <3> TAKE j \in k + 2..n
      <3>1. k + 1 \in 1..n /\ j \in 1..n /\ k + 1 < j /\ k < n
        BY <1>4
      <3>2. End(h, F[k + 1]) < h.start[F[j]]
        BY <2>1, <3>1
      <3>3. h.start[F[k + 1]] <= End(h, F[k + 1])
        BY <1>4, <3>1, HeapNumbers
      <3>4. /\ h.start[F[k + 1]] \in Nat /\ End(h, F[k + 1]) \in Nat
            /\ h.start[F[j]] \in Nat /\ End(h, m) \in Nat
        BY <1>3, <1>4, <3>1, HeapNumbers
      <3> QED
        BY <2>6, <3>1, <3>2, <3>3, <3>4
    <2> SUFFICES ASSUME NEW i \in 1..n + 1, NEW j \in 1..n + 1, i < j
                 PROVE  /\ End(h, G[i]) <= h.start[G[j]]
                        /\ j # i + 1 \/ i \notin {k, k + 1} => End(h, G[i]) # h.start[G[j]]
      <3>1. DOMAIN G = 1..n + 1
        BY <1>13
      <3> QED
        BY <1>10, <1>19, <3>1 DEF Ordered
    <2>8. G[i] \in MD /\ G[j] \in MD
      BY <1>13
    <2>9. /\ h.start[G[j]] \in Nat /\ End(h, G[i]) \in Nat
      BY <2>8, HeapNumbers
    <2>10. k \in 0..n /\ n \in Nat
      BY <1>4
    <2> HIDE DEF n
    <2>11. CASE j <= k
      <3>1. G[i] = F[i] /\ G[j] = F[j] /\ i \in 1..n /\ j \in 1..n
        BY <1>13, <2>10, <2>11
      <3> QED
        BY <2>1, <2>9, <3>1
    <2>12. CASE j = k + 1
      <3>1. G[i] = F[i] /\ G[j] = m /\ i \in 1..k
        BY <1>13, <2>10, <2>12
      <3>2. CASE i = k
        BY <2>4, <2>12, <3>1, <3>2
      <3>3. CASE i # k
        <4>1. i \in 1..k - 1
          BY <2>10, <3>1, <3>3
        <4> QED
          BY <2>5, <2>9, <3>1, <4>1
      <3> QED
        BY <3>2, <3>3
    <2>13. CASE j > k + 1
      <3>1. j - 1 \in k + 1..n /\ j - 1 + 1 = j /\ j - 1 \in 1..n
        BY <2>10, <2>13
      <3>2. G[j] = F[j - 1]
        BY <1>13, <3>1 DEF n
      <3>3. CASE i <= k
        <4>1. G[i] = F[i] /\ i \in 1..n /\ i < j - 1
          BY <1>13, <2>10, <2>13, <3>3
        <4>2. PICK l \in 1..n : l = j - 1
          BY <3>1
        <4>3. End(h, F[i]) < h.start[F[l]]
          BY <2>1, <4>1, <4>2
        <4>4. End(h, G[i]) < h.start[G[j]]
          BY <3>2, <4>1, <4>2, <4>3
        <4> QED
          BY <2>9, <4>4
      <3>4. CASE i = k + 1
        <4>1. G[i] = m
          BY <1>13, <3>4
        <4>2. CASE j = k + 2
          <5>1. k < n /\ j - 1 = k + 1
            BY <2>10, <4>2
          <5> QED
            <6>1. j = i + 1 /\ i \in {k, k + 1}
              BY <2>10, <3>4, <4>2
            <6>2. End(h, m) <= h.start[F[k + 1]]
              BY <2>6, <5>1
            <6> QED
              BY <3>2, <4>1, <5>1, <6>1, <6>2
        <4>3. CASE j # k + 2
          <5>1. j - 1 \in k + 2..n
            BY <2>10, <2>13, <4>3
          <5> QED
            BY <2>7, <2>9, <3>2, <4>1, <5>1
        <4> QED
          BY <4>2, <4>3
      <3>5. CASE i > k + 1
        <4>1. i - 1 \in k + 1..n /\ i - 1 + 1 = i /\ i - 1 \in 1..n /\ i - 1 < j - 1
          BY <2>10, <3>5
        <4>2. G[i] = F[i - 1]
          BY <1>13, <4>1 DEF n
        <4> QED
          BY <2>1, <2>9, <3>1, <3>2, <4>1, <4>2
      <3> QED
        BY <2>10, <3>3, <3>4, <3>5
    <2> QED
      BY <2>10, <2>11, <2>12, <2>13
  <1> QED
    BY <1>1, <1>10, <1>12, <1>17, <1>20, <1>21, <1>22 DEF Fits

\* one that may touch the next less: then they do not
LEMMA OrderedMore ==
  ASSUME NEW h, NEW F \in Seq(MD), NEW J, NEW i, Ordered(h, F, J),
         i \in 1..Len(F) - 1 => End(h, F[i]) # h.start[F[i + 1]]
  PROVE  Ordered(h, F, J \ {i})
  <1> SUFFICES ASSUME NEW a \in DOMAIN F, NEW b \in DOMAIN F, a < b
               PROVE  /\ End(h, F[a]) <= h.start[F[b]]
                      /\ b # a + 1 \/ a \notin J \ {i} => End(h, F[a]) # h.start[F[b]]
    BY DEF Ordered
  <1>1. /\ End(h, F[a]) <= h.start[F[b]]
        /\ b # a + 1 \/ a \notin J => End(h, F[a]) # h.start[F[b]]
    BY DEF Ordered
  <1>2. CASE a = i /\ b = a + 1
    BY <1>1, <1>2
  <1> QED
    BY <1>1, <1>2

\* g is h after the i-th of F has taken over the next one, or not
Joined(h, g, F, A, X, J, i) ==
  \E G : /\ Fits(g, G, A, X, J \ {i})
         /\ Len(G) \in Nat /\ Len(G) >= i /\ \A j \in 1..i : G[j] = F[j]
         /\ Kept(h, g, Elements(A) \cup X)

LEMMA JoinFits ==
  ASSUME NEW h \in Heaps, NEW F, NEW A, NEW X, NEW J, Fits(h, F, A, X, J),
         NEW i \in 1..Len(F), J \subseteq 0..i,
         NEW g, g = Join(h, F[i], Tails(F, i))
  PROVE  Joined(h, g, F, A, X, J, i)
  <1> DEFINE H == All(F, A, X)
             m == F[i]
             p == F[i + 1]
             n == Len(F)
             G == Removed(F, i + 1)
  <1>1. /\ ~h.halted /\ Lists(h, F, A, X) /\ Ordered(h, F, J) /\ Tiled(h, H) /\ Pool(h, H)
    BY DEF Fits
  <1>2. /\ F \in Seq(MD) /\ A \in Seq(MD) /\ X \subseteq MD /\ Distinct(F) /\ Distinct(A)
        /\ Elements(F) \cap Elements(A) = {} /\ X \cap (Elements(F) \cup Elements(A)) = {}
        /\ Follows(h, MFL, F) /\ Follows(h, MAL, A)
        /\ IF F = <<>> THEN h.rover = NULL ELSE h.rover \in Elements(F)
    BY <1>1 DEF Lists
  <1>3. n \in Nat /\ \A j \in 1..n : F[j] \in MD /\ F[j] \in Elements(F) /\ F[j] \in H
    BY <1>2 DEF Elements, All
  <1>4. H \in SUBSET MD
    BY <1>2 DEF All, Elements
  <1>5. m \in MD /\ m # NULL /\ m \in H /\ i \in 1..n
    BY <1>3, Descriptor
  <1>6. ASSUME g = h, i \in 1..n - 1 => End(h, F[i]) # h.start[F[i + 1]]
        PROVE  Joined(h, g, F, A, X, J, i)
    <2>1. Ordered(g, F, J \ {i})
      BY <1>1, <1>2, <1>6, OrderedMore
    <2>2. Fits(g, F, A, X, J \ {i})
      BY <1>1, <1>6, <2>1 DEF Fits
    <2>3. Kept(h, g, Elements(A) \cup X)
      BY <1>6 DEF Kept
    <2> QED
      BY <1>3, <1>5, <2>2, <2>3 DEF Joined
  <1>7. CASE i = n
    <2>1. Tails(F, i) = NULL
      BY <1>7 DEF Tails
    <2>2. g = h
      BY <2>1 DEF Join
    <2>3. i \notin 1..n - 1
      BY <1>3, <1>7
    <2> QED
      BY <1>6, <2>2, <2>3
  <1>8. CASE i < n /\ End(h, m) # h.start[p]
    <2>1. Tails(F, i) = p
      BY <1>8 DEF Tails
    <2>2. g = h
      BY <1>8, <2>1 DEF Join, End
    <2> QED
      BY <1>6, <1>8, <2>2
  <1>9. CASE i < n /\ End(h, m) = h.start[p]
    <2>1. i + 1 \in 1..n /\ p \in MD /\ p # NULL /\ p \in H /\ p # m
      <3>1. i + 1 \in 1..n
        BY <1>5, <1>9
      <3>2. p # m
        BY <1>2, <1>5, <3>1 DEF Distinct
      <3> QED
        BY <1>3, <3>1, <3>2, Descriptor
    <2>2. Tails(F, i) = p
      BY <1>9 DEF Tails
    <2>3. p # themd
      <3>1. h.start[themd] = 1
        BY <1>1 DEF Tiled
      <3>2. h.start[m] >= 1 /\ h.length[m] > 0
        BY <1>1, <1>4, <1>5, Within
      <3>3. End(h, m) > 1
        BY <1>5, <3>2, HeapNumbers
      <3> QED
        BY <1>9, <3>1, <3>3
    <2> DEFINE c == [h EXCEPT !.length[m] = @ + h.length[p],
                              !.link[m] = h.link[p],
                              !.rover = IF @ = p THEN m ELSE @]
    <2>4. g = xmdfree(c, p)
      BY <1>5, <1>9, <2>1, <2>2 DEF Join, End
    <2>5. /\ h.length[m] \in Nat /\ h.length[p] \in Nat /\ h.start[m] >= 1 /\ h.start[m] \in Nat
          /\ h.start[p] \in Nat
          /\ h.start[p] + h.length[p] <= Size + 1 /\ h.start[m] + h.length[m] = h.start[p]
          /\ h.length[m] > 0 /\ h.length[p] > 0 /\ Size \in Nat
      BY <1>1, <1>4, <1>5, <1>9, <2>1, Within, HeapNumbers, Descriptor DEF End
    <2>6. h.length[m] + h.length[p] \in 0..Size
      <3>1. ASSUME NEW a \in Nat, NEW b \in Nat, NEW w \in Nat, NEW d \in Nat, NEW z \in Nat,
                   a >= 1, a + b = w, w + d <= z + 1
            PROVE  b + d \in 0..z
        BY <3>1
      <3> QED
        BY <2>5, <3>1
    <2> PICK s : s = h.length[m] + h.length[p]
      OBVIOUS
    <2>7. h.link[p] \in MD \cup {NULL}
      BY <2>1 DEF Heaps
    <2>8. /\ c \in Heaps /\ c.halted = h.halted /\ c.start = h.start
          /\ c.length = [h.length EXCEPT ![m] = s]
          /\ c.own = h.own /\ c.x_flag = h.x_flag
          /\ c.link = [h.link EXCEPT ![m] = h.link[p]]
          /\ c.rover = IF h.rover = p THEN m ELSE h.rover
      <3>1. PICK l : l = [h.length EXCEPT ![m] = s]
        OBVIOUS
      <3>2. PICK k : k = [h.link EXCEPT ![m] = h.link[p]]
        OBVIOUS
      <3>3. PICK r : r = IF h.rover = p THEN m ELSE h.rover
        OBVIOUS
      <3>4. c = [h EXCEPT !.length = l, !.link = k, !.rover = r]
        BY <3>1, <3>2, <3>3 DEF Heaps
      <3>5. /\ l \in [MD -> 0..Size] /\ k \in [MD \cup {MFL, MAL} -> MD \cup {NULL}]
            /\ r \in MD \cup {NULL}
        <4>1. /\ h.length \in [MD -> 0..Size] /\ h.link \in [MD \cup {MFL, MAL} -> MD \cup {NULL}]
              /\ h.rover \in MD \cup {NULL}
          BY DEF Heaps
        <4> HIDE DEF m, p
        <4> QED
          BY <1>5, <2>6, <2>7, <3>1, <3>2, <3>3, <4>1
      <3> HIDE DEF c
      <3> QED
        BY <3>1, <3>2, <3>3, <3>4, <3>5 DEF Heaps
    <2> HIDE DEF c
    <2>9. Pool(c, H)
      BY <1>1, <2>8 DEF Pool
    <2>10. /\ g = [c EXCEPT !.own[p] = MF_FREE] /\ g \in Heaps /\ Pool(g, H \ {p})
      <3>1. /\ xmdfree(c, p) = [c EXCEPT !.own[p] = MF_FREE]
            /\ xmdfree(c, p) \in Heaps /\ Pool(xmdfree(c, p), H \ {p})
        <4> HIDE DEF H, p
        <4> QED
          BY <1>4, <2>1, <2>3, <2>8, <2>9, XmdfreeIs
      <3> QED
        BY <2>4, <3>1
    <2>11. /\ g.halted = h.halted /\ g.start = h.start
           /\ g.length = [h.length EXCEPT ![m] = s]
           /\ g.link = [h.link EXCEPT ![m] = h.link[p]]
           /\ g.rover = (IF h.rover = p THEN m ELSE h.rover)
           /\ g.own = [h.own EXCEPT ![p] = MF_FREE]
      BY <2>8, <2>10 DEF Heaps
    <2> HIDE DEF m, p, H
    <2>12. /\ g.length[m] = h.length[m] + h.length[p]
           /\ \A x \in MD : x # m => g.length[x] = h.length[x]
           /\ \A x \in MD : x # p => g.own[x] = h.own[x]
           /\ g.link[m] = h.link[p]
           /\ \A x \in MD \cup {MFL, MAL} : x # m => g.link[x] = h.link[x]
      <3>1. /\ h.length \in [MD -> 0..Size] /\ h.link \in [MD \cup {MFL, MAL} -> MD \cup {NULL}]
            /\ DOMAIN h.own = MD
        BY DEF Heaps
      <3> QED
        BY <1>5, <2>11, <3>1
    <2>13. Kept(h, g, Elements(A) \cup X)
      <3>1. m \notin Elements(A) \cup X /\ p \notin Elements(A) \cup X /\ Elements(A) \cup X \subseteq MD
        <4>1. m \in Elements(F) /\ p \in Elements(F) /\ Elements(A) \subseteq MD
          BY <1>2, <1>3, <2>1 DEF m, p, Elements
        <4> QED
          BY <1>2, <4>1
      <3> QED
        BY <2>11, <2>12, <3>1 DEF Kept
    <2>14. /\ G \in Seq(MD) /\ Len(G) = n - 1 /\ Distinct(G)
           /\ Elements(G) = Elements(F) \ {p}
           /\ \A j \in 1..i : G[j] = F[j]
           /\ \A j \in i + 1..n - 1 : G[j] = F[j + 1]
      <3>1. PICK k \in 1..n : k = i + 1
        BY <2>1
      <3>2. /\ Removed(F, k) \in Seq(MD) /\ Len(Removed(F, k)) = n - 1 /\ Distinct(Removed(F, k))
            /\ Elements(Removed(F, k)) = Elements(F) \ {F[k]}
            /\ \A j \in 1..k - 1 : Removed(F, k)[j] = F[j]
            /\ \A j \in k..n - 1 : Removed(F, k)[j] = F[j + 1]
        BY <1>2, RemovedIs
      <3>3. k - 1 = i /\ G = Removed(F, k) /\ p = F[k]
        BY <1>5, <3>1 DEF p
      <3> HIDE DEF G, n
      <3> QED
        BY <3>1, <3>2, <3>3
    <2>15. Follows(g, MFL, G)
      <3>1. PICK k \in 1..n : k = i + 1
        BY <2>1
      <3>2. Into(MFL, F, k) = m /\ F[k] = p
        BY <1>5, <3>1 DEF Into, m, p
      <3>3. g.link[m] = After(F, k)
        BY <1>2, <2>12, <3>1, <3>2 DEF Follows
      <3>4. \A x \in Elements(F) \cup {MFL} : x # m => g.link[x] = h.link[x]
        BY <1>2, <2>12 DEF Elements
      <3>5. Follows(g, MFL, Removed(F, k))
        BY <1>2, <2>10, <3>2, <3>3, <3>4, FollowsRemoved
      <3> QED
        BY <3>1, <3>5
    <2> HIDE DEF G
    <2>16. Follows(g, MAL, A)
      <3>1. m \notin Elements(A) \cup {MAL} /\ Elements(A) \subseteq MD
        <4>1. m \in Elements(F)
          BY <1>3, <1>5 DEF m
        <4>2. Elements(A) \subseteq MD
          BY <1>2 DEF Elements
        <4> QED
          BY <1>2, <1>5, <4>1, <4>2, Descriptor
      <3>2. \A x \in Elements(A) \cup {MAL} : g.link[x] = h.link[x]
        BY <2>12, <3>1
      <3> QED
        BY <1>2, <2>10, <3>2, FollowsOther
    <2>17. Elements(G) \subseteq Elements(F) /\ m \in Elements(G) /\ G # <<>>
      <3>1. m \in Elements(F)
        BY <1>3, <1>5 DEF m
      <3>2. m \in Elements(G)
        BY <2>1, <2>14, <3>1
      <3>3. n - 1 >= 1
        BY <1>5, <1>9
      <3> QED
        BY <2>14, <3>2, <3>3
    <2>18. g.rover \in Elements(G)
      <3>1. h.rover \in Elements(F)
        BY <1>2, <1>3, <1>5
      <3> QED
        BY <2>11, <2>14, <2>17, <3>1
    <2>19. Lists(g, G, A, X)
      BY <1>2, <2>14, <2>15, <2>16, <2>17, <2>18 DEF Lists
    <2>20. All(G, A, X) = H \ {p}
      <3>1. p \in Elements(F)
        BY <1>3, <2>1 DEF p
      <3> QED
        BY <1>2, <2>14, <3>1 DEF All, H
    <2>21. /\ \A x \in MD : g.start[x] = h.start[x]
           /\ \A x \in MD : x # m => Space(g, x) = Space(h, x) /\ End(g, x) = End(h, x)
           /\ End(g, m) = End(h, p)
           /\ Space(g, m) = Space(h, m) \cup Space(h, p)
      <3>1. \A x \in MD : x # m => Space(g, x) = Space(h, x) /\ End(g, x) = End(h, x)
        BY <2>11, <2>12 DEF Space, End
      <3>2. End(g, m) = End(h, p)
        BY <2>5, <2>11, <2>12 DEF End
      <3>3. Space(g, m) = Space(h, m) \cup Space(h, p)
        <4>1. \A a : a \in Space(g, m) <=> a \in Space(h, m) \cup Space(h, p)
          <5>1. \A a : a \in Space(g, m) <=> a \in Int /\ h.start[m] <= a /\ a < End(h, p)
            BY <1>5, <2>10, <2>11, <3>2, HeapNumbers
          <5>2. \A a : a \in Space(h, m) <=> a \in Int /\ h.start[m] <= a /\ a < h.start[p]
            BY <1>5, <2>5, HeapNumbers
          <5>3. \A a : a \in Space(h, p) <=> a \in Int /\ h.start[p] <= a /\ a < End(h, p)
            BY <2>1, HeapNumbers
          <5>4. h.start[m] <= h.start[p] /\ h.start[p] <= End(h, p) /\ End(h, p) \in Nat
            <6>1. End(h, p) \in Nat /\ End(h, p) = h.start[p] + h.length[p]
              BY <2>1, HeapNumbers
            <6> QED
              BY <2>5, <6>1
          <5> QED
            BY <2>5, <5>1, <5>2, <5>3, <5>4
        <4> QED
          BY <4>1
      <3> QED
        BY <2>11, <3>1, <3>2, <3>3
    <2>22. Tiled(g, H \ {p})
      <3>0. \A x \in H : x \in MD
        BY <1>4
      <3>1. \A x \in H \ {p} : g.length[x] > 0 /\ Space(g, x) \subseteq Addr
        <4> TAKE x \in H \ {p}
        <4>1. CASE x = m
          BY <1>1, <1>5, <2>1, <2>5, <2>12, <2>21, <4>1 DEF Tiled
        <4>2. CASE x # m
          BY <1>1, <2>12, <2>21, <3>0, <4>2 DEF Tiled
        <4> QED
          BY <4>1, <4>2
      <3>2. \A a \in Addr : \E x \in H \ {p} : a \in Space(g, x)
        <4> TAKE a \in Addr
        <4>1. PICK x \in H : a \in Space(h, x)
          BY <1>1 DEF Tiled
        <4>2. CASE x = p \/ x = m
          BY <1>5, <2>1, <2>21, <4>1, <4>2
        <4>3. CASE x # p /\ x # m
          BY <2>21, <3>0, <4>1, <4>3
        <4> QED
          BY <4>2, <4>3
      <3>3. ASSUME NEW x \in H \ {p}, NEW y \in H \ {p}, x # y
            PROVE  Space(g, x) \cap Space(g, y) = {}
        <4>0. \A u, v \in H : u # v => Space(h, u) \cap Space(h, v) = {}
          BY <1>1 DEF Tiled
        <4>1. CASE x = m
          BY <1>5, <2>1, <2>21, <3>0, <3>3, <4>0, <4>1
        <4>2. CASE y = m
          BY <1>5, <2>1, <2>21, <3>0, <3>3, <4>0, <4>2
        <4>3. CASE x # m /\ y # m
          BY <2>21, <3>0, <3>3, <4>0, <4>3
        <4> QED
          BY <4>1, <4>2, <4>3
      <3>4. themd \in H \ {p} /\ g.start[themd] = 1
        BY <1>1, <2>3, <2>11 DEF Tiled
      <3> QED
        BY <3>1, <3>2, <3>3, <3>4 DEF Tiled
    <2>23. Ordered(g, G, J \ {i})
      <3>1. /\ \A a, b \in 1..n : a < b => End(h, F[a]) <= h.start[F[b]]
            /\ \A a, b \in 1..n : a < b /\ (b # a + 1 \/ a \notin J) => End(h, F[a]) # h.start[F[b]]
        <4>1. DOMAIN F = 1..n
          BY <1>2
        <4> QED
          BY <1>1, <4>1 DEF Ordered
      <3>2. DOMAIN G = 1..n - 1
        BY <2>14
      <3> DEFINE up(a) == IF a <= i THEN a ELSE a + 1
                 dn(a) == IF a < i THEN a ELSE a + 1
      <3>3. ASSUME NEW a \in 1..n - 1
            PROVE  /\ up(a) \in 1..n /\ dn(a) \in 1..n /\ G[a] = F[up(a)]
                   /\ End(g, G[a]) = End(h, F[dn(a)])
                   /\ g.start[G[a]] = h.start[F[up(a)]]
        <4>1. up(a) \in 1..n /\ dn(a) \in 1..n /\ G[a] = F[up(a)]
          <5>1. CASE a <= i
            BY <1>5, <2>14, <5>1
          <5>2. CASE a > i
            BY <1>5, <2>14, <5>2
          <5> QED
            BY <1>5, <5>1, <5>2
        <4>2. g.start[G[a]] = h.start[F[up(a)]]
          BY <2>11, <4>1
        <4>3. CASE a = i
          <5>1. G[a] = m /\ F[dn(a)] = p
            BY <1>5, <4>1, <4>3 DEF m, p
          <5> QED
            BY <2>21, <4>1, <4>2, <5>1
        <4>4. CASE a # i
          <5>1. up(a) = dn(a) /\ up(a) # i
            BY <1>5, <4>4
          <5>2. G[a] \in MD /\ G[a] # m
            BY <1>2, <1>3, <1>5, <4>1, <5>1 DEF Distinct, m
          <5> QED
            BY <2>21, <4>1, <4>2, <5>1, <5>2
        <4> QED
          BY <4>3, <4>4
      <3> SUFFICES ASSUME NEW a \in 1..n - 1, NEW b \in 1..n - 1, a < b
                   PROVE  /\ End(g, G[a]) <= g.start[G[b]]
                          /\ b # a + 1 \/ a \notin J \ {i} => End(g, G[a]) # g.start[G[b]]
        BY <3>2 DEF Ordered
      <3>4. dn(a) < up(b) /\ (up(b) = dn(a) + 1 /\ dn(a) \in J => b = a + 1 /\ a \in J \ {i})
        <4>1. CASE b <= i
          BY <1>5, <4>1
        <4>2. CASE a < i /\ b > i
          BY <1>5, <4>2
        <4>3. CASE a >= i
          <5>1. dn(a) = a + 1 /\ dn(a) \notin J /\ up(b) = b + 1
            BY <1>5, <4>3
          <5> QED
            BY <5>1
        <4> QED
          BY <1>5, <4>1, <4>2, <4>3
      <3>5. /\ up(b) \in 1..n /\ dn(a) \in 1..n
            /\ End(g, G[a]) = End(h, F[dn(a)])
            /\ g.start[G[b]] = h.start[F[up(b)]]
        BY <3>3
      <3> HIDE DEF up, dn
      <3> QED
        BY <3>1, <3>4, <3>5
    <2>24. Fits(g, G, A, X, J \ {i})
      BY <1>1, <2>10, <2>11, <2>19, <2>20, <2>22, <2>23 DEF Fits
    <2>25. Len(G) \in Nat /\ Len(G) >= i
      <3>1. n - 1 \in Nat /\ n - 1 >= i
        BY <1>5, <1>9
      <3> QED
        BY <2>14, <3>1
    <2> QED
      BY <2>13, <2>14, <2>24, <2>25 DEF Joined
  <1>10. i = n \/ i < n
    BY <1>3, <1>5
  <1> QED
    BY <1>7, <1>8, <1>9, <1>10

LEMMA FitsLists ==
  ASSUME NEW h, NEW F, NEW A, NEW X, NEW J, Fits(h, F, A, X, J)
  PROVE  /\ h \in Heaps /\ ~h.halted /\ F \in Seq(MD) /\ A \in Seq(MD) /\ X \subseteq MD
         /\ Distinct(F) /\ Distinct(A)
         /\ Elements(F) \cap Elements(A) = {} /\ X \cap (Elements(F) \cup Elements(A)) = {}
         /\ Follows(h, MFL, F) /\ Follows(h, MAL, A)
         /\ (IF F = <<>> THEN h.rover = NULL ELSE h.rover \in Elements(F))
         /\ Free(h) = F /\ Allocated(h) = A /\ ~Loop(F) /\ ~Loop(A)
         /\ Ordered(h, F, J) /\ Tiled(h, All(F, A, X)) /\ Pool(h, All(F, A, X))
         /\ All(F, A, X) \in SUBSET MD
  <1>1. /\ h \in Heaps /\ ~h.halted /\ F \in Seq(MD) /\ A \in Seq(MD) /\ X \subseteq MD
        /\ Distinct(F) /\ Distinct(A)
        /\ Elements(F) \cap Elements(A) = {} /\ X \cap (Elements(F) \cup Elements(A)) = {}
        /\ Follows(h, MFL, F) /\ Follows(h, MAL, A)
        /\ (IF F = <<>> THEN h.rover = NULL ELSE h.rover \in Elements(F))
        /\ Ordered(h, F, J) /\ Tiled(h, All(F, A, X)) /\ Pool(h, All(F, A, X))
    BY DEF Fits, Lists
  <1>2. Free(h) = F /\ ~Loop(F)
    <2>1. Chain(h, h.link[MFL]) = F /\ ~Loop(Chain(h, h.link[MFL]))
      BY <1>1, ListAt
    <2> QED
      BY <2>1 DEF Free
  <1>3. Allocated(h) = A /\ ~Loop(A)
    <2>1. Chain(h, h.link[MAL]) = A /\ ~Loop(Chain(h, h.link[MAL]))
      BY <1>1, ListAt
    <2> QED
      BY <2>1 DEF Allocated
  <1>4. All(F, A, X) \in SUBSET MD
    BY <1>1 DEF All, Elements
  <1> QED
    BY <1>1, <1>2, <1>3, <1>4

\* the lists of g are sound, and its other blocks are those of h
Settled(h, g, A, X) == \E G : Fits(g, G, A, X, {}) /\ Kept(h, g, Elements(A) \cup X)

\* a block goes into the free list, and the other blocks stay as they are
LEMMA FreeitFits ==
  ASSUME NEW h, NEW F, NEW A, NEW X, Fits(h, F, A, X, {}), NEW m \in X,
         NEW g, g = freeit(h, m)
  PROVE  Settled(h, g, A, X \ {m})
  <1> DEFINE n == Len(F)
             S == {i \in DOMAIN F : \A j \in 1..i : h.start[F[j]] < h.start[m]}
             k == Cardinality(S)
             p1 == IF k = 0 THEN NULL ELSE F[k]
             h1 == Insert(h, m, p1, Tails(F, k))
             h2 == Join(h1, m, Tails(F, k))
  <1>1. /\ h \in Heaps /\ F \in Seq(MD) /\ A \in Seq(MD) /\ X \subseteq MD /\ Free(h) = F /\ ~Loop(F)
        /\ X \cap (Elements(F) \cup Elements(A)) = {} /\ Distinct(F) /\ Elements(F) \cap Elements(A) = {}
    BY FitsLists
  <1>2. n \in Nat /\ DOMAIN F = 1..n /\ m \in MD /\ m \notin Elements(F)
        /\ \A i \in 1..n : F[i] \in MD
    BY <1>1
  <1>3. /\ k \in 0..n /\ \A i \in 1..n : i \in S <=> i <= k
    <2>1. S \in SUBSET (1..n) /\ \A i, j \in 1..n : i <= j /\ j \in S => i \in S
      BY <1>2
    <2> HIDE DEF S, n
    <2> QED
      BY <1>2, <2>1, Prefix
  <1> HIDE DEF k
  <1>4. \A i \in 1..k : h.start[F[i]] < h.start[m]
    <2> TAKE i \in 1..k
    <2>1. i \in 1..n /\ i <= k
      BY <1>2, <1>3
    <2>2. i \in S
      BY <1>3, <2>1
    <2> QED
      BY <1>2, <2>1, <2>2
  <1>5. k < n => h.start[F[k + 1]] >= h.start[m]
    <2> HAVE k < n
    <2>1. k + 1 \in 1..n /\ ~(k + 1 <= k)
      BY <1>2, <1>3
    <2>2. k + 1 \notin S
      BY <1>3, <2>1
    <2>3. PICK j \in 1..k + 1 : ~(h.start[F[j]] < h.start[m])
      BY <1>2, <2>1, <2>2
    <2>4. j = k + 1
      BY <1>3, <1>4, <2>3
    <2>5. h.start[F[k + 1]] \in Nat /\ h.start[m] \in Nat
      BY <1>1, <1>2, <2>1, HeapNumbers
    <2> QED
      BY <2>3, <2>4, <2>5
  <1>6. g = Join(h2, p1, m)
    <2>1. g = PutInOrder(h, m, F)
      BY <1>1 DEF freeit
    <2>2. g = PutAfter(h, m, F, k)
      BY <2>1 DEF PutInOrder, k
    <2> QED
      BY <1>1, <2>2 DEF PutAfter, Tails
  <1> HIDE DEF S
  <1>7. /\ Fits(h1, Inserted(F, k, m), A, X \ {m}, {k, k + 1})
        /\ Kept(h, h1, MD)
    <2>1. k < Len(F) => h.start[F[k + 1]] >= h.start[m]
      BY <1>5
    <2> HIDE DEF h1
    <2>2. h1 = Insert(h, m, IF k = 0 THEN NULL ELSE F[k], Tails(F, k))
      BY DEF h1
    <2> QED
      BY <1>1, <1>3, <1>4, <2>1, <2>2, InsertFits
  <1> PICK F1 : F1 = Inserted(F, k, m)
    OBVIOUS
  <1>8. /\ Len(F1) = n + 1 /\ F1[k + 1] = m
        /\ \A i \in 1..k : F1[i] = F[i]
        /\ \A i \in k + 1..n : F1[i + 1] = F[i]
    BY <1>1, <1>2, <1>3, InsertedIs
  <1>9. Tails(F, k) = Tails(F1, k + 1)
    <2>1. CASE k = n
      BY <1>8, <2>1 DEF Tails
    <2>2. CASE k < n
      <3>1. F1[k + 1 + 1] = F[k + 1]
        BY <1>2, <1>3, <1>8, <2>2
      <3> QED
        <4>1. k # Len(F) /\ k + 1 # Len(F1)
          <5>1. n \in Nat /\ k \in 0..n /\ Len(F1) = n + 1 /\ k < n
            BY <1>2, <1>3, <1>8, <2>2
          <5>2. k \in Nat
            BY <5>1
          <5> QED
            BY <5>1, <5>2
        <4> QED
          BY <3>1, <4>1 DEF Tails
    <2>3. k = n \/ k < n
      <3>1. n \in Nat /\ k \in 0..n
        BY <1>2, <1>3
      <3> HIDE DEF n, p1
      <3> QED
        BY ONLY <3>1
    <2> QED
      BY <2>1, <2>2, <2>3
  <1>10. Joined(h1, h2, F1, A, X \ {m}, {k, k + 1}, k + 1)
    <2>1. PICK i \in 1..Len(F1) : i = k + 1
      BY <1>2, <1>3, <1>8
    <2>2. h1 \in Heaps /\ Fits(h1, F1, A, X \ {m}, {k, i})
      BY <1>7, <2>1, FitsLists
    <2>3. {k, i} \subseteq 0..i
      BY <1>3, <2>1
    <2>4. h2 = Join(h1, F1[i], Tails(F1, i))
      BY <1>8, <1>9, <2>1
    <2> HIDE DEF h1, h2, n
    <2>5. Joined(h1, h2, F1, A, X \ {m}, {k, i}, i)
      BY <2>2, <2>3, <2>4, JoinFits
    <2> QED
      BY <2>1, <2>5
  <1> HIDE DEF h1, h2
  <1>11. PICK F2 : /\ Fits(h2, F2, A, X \ {m}, {k})
                   /\ Len(F2) \in Nat /\ Len(F2) >= k + 1 /\ \A j \in 1..k + 1 : F2[j] = F1[j]
                   /\ Kept(h1, h2, Elements(A) \cup (X \ {m}))
    <2>1. {k, k + 1} \ {k + 1} = {k}
      BY <1>3
    <2>2. PICK F2 : /\ Fits(h2, F2, A, X \ {m}, {k, k + 1} \ {k + 1})
                    /\ Len(F2) \in Nat /\ Len(F2) >= k + 1 /\ \A j \in 1..k + 1 : F2[j] = F1[j]
                    /\ Kept(h1, h2, Elements(A) \cup (X \ {m}))
      BY <1>10 DEF Joined
    <2> QED
      BY <2>1, <2>2
  <1>12. Kept(h, h2, Elements(A) \cup (X \ {m}))
    <2>1. Elements(A) \cup (X \ {m}) \subseteq MD
      BY <1>1 DEF Elements
    <2> QED
      BY <1>7, <1>11, <2>1 DEF Kept
  <1>13. CASE k = 0
    <2>1. g = h2
      BY <1>6, <1>13 DEF Join
    <2>2. Fits(h2, F2, A, X \ {m}, {})
      <3>1. F2 \in Seq(MD) /\ Ordered(h2, F2, {k})
        BY <1>11, FitsLists
      <3>2. 0 \notin 1..Len(F2) - 1
        OBVIOUS
      <3>3. Ordered(h2, F2, {k} \ {0})
        BY <3>1, <3>2, OrderedMore
      <3>4. {k} \ {0} = {}
        BY <1>13
      <3> QED
        BY <1>11, <3>3, <3>4 DEF Fits
    <2> QED
      BY <1>12, <2>1, <2>2 DEF Settled
  <1>14. CASE k > 0
    <2>1. PICK i \in 1..Len(F2) : i = k
      BY <1>3, <1>11, <1>14
    <2>2. F2[i] = F[k] /\ F2[k + 1] = m
      BY <1>3, <1>8, <1>11, <1>14, <2>1
    <2>3. Tails(F2, i) = m
      BY <1>3, <1>11, <2>1, <2>2 DEF Tails
    <2>4. p1 = F2[i]
      BY <1>14, <2>2
    <2>5. g = Join(h2, F2[i], Tails(F2, i))
      BY <1>6, <2>3, <2>4
    <2>6. {i} \subseteq 0..i /\ h2 \in Heaps
      BY <1>11, FitsLists
    <2>7. Joined(h2, g, F2, A, X \ {m}, {i}, i)
      BY <1>11, <2>1, <2>5, <2>6, JoinFits
    <2>8. {i} \ {i} = {}
      OBVIOUS
    <2>9. PICK G : Fits(g, G, A, X \ {m}, {}) /\ Kept(h2, g, Elements(A) \cup (X \ {m}))
      <3>1. PICK G : Fits(g, G, A, X \ {m}, {i} \ {i}) /\ Kept(h2, g, Elements(A) \cup (X \ {m}))
        BY <2>7 DEF Joined
      <3> QED
        BY <2>8, <3>1
    <2>10. Kept(h, g, Elements(A) \cup (X \ {m}))
      BY <1>12, <2>9 DEF Kept
    <2> QED
      BY <2>9, <2>10 DEF Settled
  <1>15. k = 0 \/ k > 0
    <2> HIDE DEF n, p1
    <2>1. k \in 0..n
      BY <1>3
    <2> QED
      BY ONLY <1>2, <2>1
  <1> QED
    BY <1>13, <1>14, <1>15

-----------------------------------------------------------------------------
(* ffit.                                                                    *)

\* the block q keeps n units, and m has the rest
Halved(h, q, m, n) ==
  [h EXCEPT !.start[m] = h.start[q] + n, !.length[m] = h.length[q] - n, !.length[q] = n]

LEMMA HalvedIs ==
  ASSUME NEW h \in Heaps, NEW q \in MD, NEW m \in MD, q # m, NEW n \in Nat \ {0},
         n < h.length[q], h.start[q] + h.length[q] <= Size + 1,
         NEW g, g = Halved(h, q, m, n)
  PROVE  /\ g \in Heaps /\ g.halted = h.halted /\ g.rover = h.rover /\ g.link = h.link
         /\ g.own = h.own /\ g.x_flag = h.x_flag
         /\ g.start[m] = h.start[q] + n /\ g.length[m] = h.length[q] - n /\ g.length[q] = n
         /\ \A x \in MD : x # m => g.start[x] = h.start[x]
         /\ \A x \in MD : x # m /\ x # q => g.length[x] = h.length[x]
  <1>1. h.start[q] \in Nat /\ h.length[q] \in 0..Size /\ Size \in Nat
    BY HeapNumbers, Descriptor
  <1> PICK s, l : s = h.start[q] + n /\ l = h.length[q] - n
    OBVIOUS
  <1>2. s \in 0..Size + 1 /\ l \in 0..Size /\ n \in 0..Size
    BY <1>1
  <1>3. h.start \in [MD -> 0..Size + 1] /\ h.length \in [MD -> 0..Size]
    BY DEF Heaps
  <1>4. PICK S, L : S = [h.start EXCEPT ![m] = s] /\ L = [h.length EXCEPT ![m] = l, ![q] = n]
    OBVIOUS
  <1>5. S \in [MD -> 0..Size + 1] /\ L \in [MD -> 0..Size]
    BY <1>2, <1>3, <1>4
  <1>6. g = [h EXCEPT !.start = S, !.length = L]
    BY <1>4 DEF Halved, Heaps
  <1>7. /\ g \in Heaps /\ g.halted = h.halted /\ g.rover = h.rover /\ g.link = h.link
        /\ g.own = h.own /\ g.x_flag = h.x_flag /\ g.start = S /\ g.length = L
    BY <1>5, <1>6 DEF Heaps
  <1> QED
    BY <1>3, <1>4, <1>7

\* the block q of h is n units in g, and m has the rest
Halves(h, g, F, A, X, q, n, m) ==
  /\ Fits(g, F, A, X \cup {m}, {})
  /\ \A x \in All(F, A, X) : g.start[x] = h.start[x] /\ g.own[x] = h.own[x]
  /\ \A x \in All(F, A, X) \ {q} : g.length[x] = h.length[x]
  /\ g.length[q] = n /\ m \in MD /\ m \notin All(F, A, X)
  /\ g.start[m] = h.start[q] + n /\ End(g, m) = End(h, q)
  /\ \A x \in MD \cup {MFL, MAL} : x # m => g.link[x] = h.link[x]

LEMMA HalvedFits ==
  ASSUME NEW h, NEW F, NEW A, NEW X, Fits(h, F, A, X, {}),
         NEW q \in Elements(F) \cup Elements(A), NEW n \in Nat \ {0}, n < h.length[q],
         NEW k, NEW m, Fresh(h, All(F, A, X), k, m),
         NEW g, g = Halved(k, q, m, n)
  PROVE  Halves(h, g, F, A, X, q, n, m)
  <1> DEFINE H == All(F, A, X)
  <1>1. /\ h \in Heaps /\ ~h.halted /\ F \in Seq(MD) /\ A \in Seq(MD) /\ X \subseteq MD
        /\ Distinct(F) /\ Distinct(A)
        /\ Elements(F) \cap Elements(A) = {} /\ X \cap (Elements(F) \cup Elements(A)) = {}
        /\ Follows(h, MFL, F) /\ Follows(h, MAL, A)
        /\ (IF F = <<>> THEN h.rover = NULL ELSE h.rover \in Elements(F))
        /\ Ordered(h, F, {}) /\ Tiled(h, H) /\ Pool(h, H)
        /\ H \in SUBSET MD
    BY FitsLists
  <1>2. /\ m \in MD \ {themd} /\ m \notin H
        /\ k \in Heaps /\ Pool(k, H \cup {m})
        /\ k.halted = h.halted /\ k.rover = h.rover
        /\ k.link = [h.link EXCEPT ![m] = NULL]
        /\ k.start = [h.start EXCEPT ![m] = 0]
        /\ k.length = [h.length EXCEPT ![m] = 0]
        /\ \A x \in H : k.own[x] = h.own[x]
    BY DEF Fresh
  <1>3. q \in H /\ q \in MD /\ q # m
    BY <1>1, <1>2 DEF All
  <1>4. /\ h.start \in [MD -> 0..Size + 1] /\ h.length \in [MD -> 0..Size]
        /\ h.link \in [MD \cup {MFL, MAL} -> MD \cup {NULL}]
    BY <1>1 DEF Heaps
  <1>5. /\ \A x \in MD : x # m => k.start[x] = h.start[x] /\ k.length[x] = h.length[x]
        /\ \A x \in MD \cup {MFL, MAL} : x # m => k.link[x] = h.link[x]
    BY <1>2, <1>4
  <1>6. h.start[q] >= 1 /\ h.start[q] + h.length[q] <= Size + 1 /\ h.start[q] \in Nat /\ h.length[q] \in Nat
    BY <1>1, <1>3, Within, HeapNumbers DEF End
  <1>7. k.start[q] = h.start[q] /\ k.length[q] = h.length[q]
    BY <1>3, <1>5
  <1>8. /\ g \in Heaps /\ g.halted = k.halted /\ g.rover = k.rover /\ g.link = k.link
        /\ g.own = k.own /\ g.x_flag = k.x_flag
        /\ g.start[m] = h.start[q] + n /\ g.length[m] = h.length[q] - n /\ g.length[q] = n
        /\ \A x \in MD : x # m => g.start[x] = k.start[x]
        /\ \A x \in MD : x # m /\ x # q => g.length[x] = k.length[x]
    <2>1. n < k.length[q] /\ k.start[q] + k.length[q] <= Size + 1
      BY <1>6, <1>7
    <2>2. PICK mm \in MD : mm = m
      BY <1>2
    <2>3. /\ k \in Heaps /\ q \in MD /\ mm \in MD /\ q # mm /\ n \in Nat \ {0} /\ g = Halved(k, q, mm, n)
      BY <1>2, <1>3, <2>2
    <2>4. /\ g \in Heaps /\ g.halted = k.halted /\ g.rover = k.rover /\ g.link = k.link
          /\ g.own = k.own /\ g.x_flag = k.x_flag
          /\ g.start[mm] = k.start[q] + n /\ g.length[mm] = k.length[q] - n /\ g.length[q] = n
          /\ \A x \in MD : x # mm => g.start[x] = k.start[x]
          /\ \A x \in MD : x # mm /\ x # q => g.length[x] = k.length[x]
      BY <2>1, <2>3, HalvedIs
    <2> QED
      BY <1>7, <2>2, <2>4
  <1>9. /\ \A x \in H : g.start[x] = h.start[x] /\ g.own[x] = h.own[x]
        /\ \A x \in H \ {q} : g.length[x] = h.length[x]
        /\ \A x \in MD \cup {MFL, MAL} : x # m => g.link[x] = h.link[x]
    <2>1. \A x \in H : x \in MD /\ x # m
      BY <1>1, <1>2
    <2>2. \A x \in H : g.start[x] = h.start[x] /\ g.own[x] = h.own[x]
      BY <1>2, <1>5, <1>8, <2>1
    <2>3. \A x \in H \ {q} : g.length[x] = h.length[x]
      BY <1>5, <1>8, <2>1
    <2>4. \A x \in MD \cup {MFL, MAL} : x # m => g.link[x] = h.link[x]
      BY <1>5, <1>8
    <2> QED
      BY <2>2, <2>3, <2>4
  <1>10. All(F, A, X \cup {m}) = H \cup {m}
    BY DEF All
  <1>11. Lists(g, F, A, X \cup {m})
    <2>1. \A x \in Elements(F) \cup Elements(A) : x # m /\ x \in MD /\ x # MFL /\ x # MAL
      BY <1>1, <1>2, Descriptor DEF All
    <2>2. m # MFL /\ m # MAL /\ m \notin Elements(F) /\ m \notin Elements(A)
      BY <1>2, Descriptor DEF All
    <2>3. Follows(g, MFL, F)
      <3>1. \A x \in Elements(F) \cup {MFL} : g.link[x] = h.link[x]
        BY <1>9, <2>1, <2>2
      <3> QED
        BY <1>1, <1>8, <3>1, FollowsOther
    <2>4. Follows(g, MAL, A)
      <3>1. \A x \in Elements(A) \cup {MAL} : g.link[x] = h.link[x]
        BY <1>9, <2>1, <2>2
      <3> QED
        BY <1>1, <1>8, <3>1, FollowsOther
    <2>5. g.rover = h.rover
      BY <1>2, <1>8
    <2> QED
      BY <1>1, <1>2, <2>2, <2>3, <2>4, <2>5 DEF Lists
  <1>12. Pool(g, H \cup {m})
    BY <1>2, <1>8 DEF Pool
  <1>13. End(g, m) = End(h, q) /\ End(g, q) = g.start[m] /\ End(g, q) < End(h, q)
    BY <1>3, <1>6, <1>8, <1>9 DEF End
  <1>14. /\ \A x \in H \ {q} : Space(g, x) = Space(h, x) /\ End(g, x) = End(h, x)
         /\ \A a : a \in Space(h, q) <=> a \in Space(g, q) \/ a \in Space(g, m)
         /\ Space(g, q) \cap Space(g, m) = {}
    <2>1. \A x \in H \ {q} : Space(g, x) = Space(h, x) /\ End(g, x) = End(h, x)
      BY <1>9 DEF Space, End
    <2>2. \A a : a \in Space(g, m) <=> a \in Int /\ g.start[m] <= a /\ a < End(h, q)
      BY <1>2, <1>8, <1>13, HeapNumbers
    <2>3. \A a : a \in Space(g, q) <=> a \in Int /\ h.start[q] <= a /\ a < g.start[m]
      BY <1>3, <1>8, <1>9, <1>13, HeapNumbers
    <2>4. \A a : a \in Space(h, q) <=> a \in Int /\ h.start[q] <= a /\ a < End(h, q)
      BY <1>1, <1>3, HeapNumbers
    <2>5. h.start[q] <= g.start[m] /\ g.start[m] <= End(h, q) /\ g.start[m] \in Nat /\ h.start[q] \in Nat
          /\ End(h, q) \in Nat
      BY <1>6, <1>8 DEF End
    <2> QED
      BY <2>1, <2>2, <2>3, <2>4, <2>5
  <1>15. Tiled(g, H \cup {m})
    <2>0. /\ \A x \in H : h.length[x] > 0 /\ Space(h, x) \subseteq Addr
          /\ \A a \in Addr : \E x \in H : a \in Space(h, x)
          /\ \A x, y \in H : x # y => Space(h, x) \cap Space(h, y) = {}
          /\ themd \in H /\ h.start[themd] = 1
      BY <1>1 DEF Tiled
    <2>1. \A x \in H \cup {m} : g.length[x] > 0 /\ Space(g, x) \subseteq Addr
      <3> TAKE x \in H \cup {m}
      <3>1. CASE x = m
        BY <1>3, <1>6, <1>8, <1>14, <2>0, <3>1
      <3>2. CASE x = q
        BY <1>3, <1>8, <1>14, <2>0, <3>2
      <3>3. CASE x \in H \ {q}
        BY <1>9, <1>14, <2>0, <3>3
      <3> QED
        BY <3>1, <3>2, <3>3
    <2>2. \A a \in Addr : \E x \in H \cup {m} : a \in Space(g, x)
      <3> TAKE a \in Addr
      <3>1. PICK x \in H : a \in Space(h, x)
        BY <2>0
      <3> QED
        BY <1>3, <1>14, <3>1
    <2>3. \A x \in H \ {q} : Space(h, x) \cap Space(g, q) = {} /\ Space(h, x) \cap Space(g, m) = {}
      BY <1>3, <1>14, <2>0
    <2>4. \A x, y \in H \cup {m} : x # y => Space(g, x) \cap Space(g, y) = {}
      <3> TAKE x, y \in H \cup {m}
      <3> HAVE x # y
      <3>1. CASE x \in {q, m} /\ y \in {q, m}
        BY <1>14, <3>1
      <3>2. CASE x \in {q, m} /\ y \notin {q, m}
        BY <1>14, <2>3, <3>2
      <3>3. CASE x \notin {q, m} /\ y \in {q, m}
        BY <1>14, <2>3, <3>3
      <3>4. CASE x \notin {q, m} /\ y \notin {q, m}
        BY <1>14, <2>0, <3>4
      <3> QED
        BY <3>1, <3>2, <3>3, <3>4
    <2>5. themd \in H \cup {m} /\ g.start[themd] = 1
      BY <1>9, <2>0
    <2> QED
      BY <2>1, <2>2, <2>4, <2>5 DEF Tiled
  <1>16. Ordered(g, F, {})
    <2> SUFFICES ASSUME NEW i \in DOMAIN F, NEW j \in DOMAIN F, i < j
                 PROVE  /\ End(g, F[i]) <= g.start[F[j]]
                        /\ End(g, F[i]) # g.start[F[j]]
      BY DEF Ordered
    <2>1. End(h, F[i]) <= h.start[F[j]] /\ End(h, F[i]) # h.start[F[j]]
      BY <1>1 DEF Ordered
    <2>2. F[i] \in H /\ F[j] \in H
      BY DEF All, Elements
    <2>3. End(g, F[i]) <= End(h, F[i]) /\ End(g, F[i]) \in Nat /\ End(h, F[i]) \in Nat /\ h.start[F[j]] \in Nat
      <3>1. F[i] \in MD /\ F[j] \in MD
        BY <1>1, <2>2
      <3>2. End(g, F[i]) \in Nat /\ End(h, F[i]) \in Nat /\ h.start[F[j]] \in Nat
        BY <1>1, <1>8, <3>1, HeapNumbers
      <3>3. CASE F[i] = q
        BY <1>13, <3>2, <3>3
      <3>4. CASE F[i] # q
        BY <1>14, <2>2, <3>2, <3>4
      <3> QED
        BY <3>2, <3>3, <3>4
    <2>4. g.start[F[j]] = h.start[F[j]]
      BY <1>9, <2>2
    <2> QED
      BY <2>1, <2>3, <2>4
  <1>17. Fits(g, F, A, X \cup {m}, {})
    BY <1>1, <1>2, <1>8, <1>10, <1>11, <1>12, <1>15, <1>16 DEF Fits
  <1> QED
    BY <1>2, <1>8, <1>9, <1>13, <1>17 DEF Halves

-----------------------------------------------------------------------------
\* the search looks at all free blocks, knows the link to each, and comes to
\* the rover
Searched(h, F, s) ==
  /\ s \in Seq(MD)
  /\ \A i \in 1..Len(s) : \E j \in 1..Len(F) : s[i] = F[j] /\ LinkTo(h, s, i) = Into(MFL, F, j)
  /\ \A j \in 1..Len(F) : \E i \in 1..Len(s) : s[i] = F[j]
  /\ h.rover = NULL \/ h.rover \in Elements(s)

LEMMA OrderIs ==
  ASSUME NEW h, NEW F, NEW A, NEW X, Fits(h, F, A, X, {})
  PROVE  Searched(h, F, Order(h))
  <1>1. /\ F \in Seq(MD) /\ Distinct(F) /\ Follows(h, MFL, F) /\ Free(h) = F
        /\ (IF F = <<>> THEN h.rover = NULL ELSE h.rover \in Elements(F))
    BY FitsLists
  <1>2. CASE F = <<>>
    <2>1. Order(h) = <<>> /\ h.rover = NULL
      BY <1>1, <1>2 DEF Order
    <2> QED
      BY <1>2, <2>1 DEF Searched
  <1>3. CASE F # <<>>
    <2> DEFINE n == Len(F)
    <2>0. n \in Nat /\ DOMAIN F = 1..n /\ \A i \in 1..n : F[i] \in MD
      BY <1>1
    <2> PICK r \in 1..n : F[r] = h.rover
      BY <1>1, <1>3, InElements
    <2> PICK t : t = SubSeq(F, r + 1, n)
      OBVIOUS
    <2> PICK s : s = t \o F
      OBVIOUS
    <2>1. /\ t \in Seq(MD) /\ Len(t) = n - r /\ \A i \in 1..n - r : t[i] = F[r + i]
          /\ \A i \in 1..n : F[i] \in MD /\ F[i] # NULL
      <3>1. /\ SubSeq(F, r + 1, Len(F)) \in Seq(MD) /\ Len(SubSeq(F, r + 1, Len(F))) = Len(F) - r
            /\ \A i \in 1..Len(F) - r : SubSeq(F, r + 1, Len(F))[i] = F[r + i]
        BY <1>1
      <3> QED
        BY <2>0, <3>1, Descriptor
    <2>2. h.rover # NULL
      BY <2>1
    <2>3. Chain(h, h.link[h.rover]) = t
      BY <1>1, RestAt
    <2>4. ~Loop(t)
      <3>1. n <= themd /\ themd \in Nat
        BY <1>1, DistinctFits, Descriptor
      <3> QED
        BY <2>1, <3>1 DEF Loop
    <2>5. Order(h) = s
      BY <1>1, <2>2, <2>3, <2>4 DEF Order, Round
    <2>6. /\ s \in Seq(MD) /\ Len(s) = (n - r) + n
          /\ \A i \in 1..n - r : s[i] = F[r + i]
          /\ \A i \in 1..n : s[(n - r) + i] = F[i]
      <3>1. /\ s \in Seq(MD) /\ Len(s) = Len(t) + Len(F)
            /\ \A i \in 1..Len(t) : s[i] = t[i]
            /\ \A i \in 1..Len(F) : s[Len(t) + i] = F[i]
        <4> HIDE DEF n
        <4>1. ASSUME NEW a \in Seq(MD), NEW b \in Seq(MD)
              PROVE  /\ a \o b \in Seq(MD) /\ Len(a \o b) = Len(a) + Len(b)
                     /\ \A i \in 1..Len(a) : (a \o b)[i] = a[i]
                     /\ \A i \in 1..Len(b) : (a \o b)[Len(a) + i] = b[i]
          OBVIOUS
        <4>2. t \in Seq(MD) /\ F \in Seq(MD)
          BY <1>1, <2>1
        <4>3. s = t \o F
          OBVIOUS
        <4> QED
          BY ONLY <4>1, <4>2, <4>3
      <3> QED
        BY <2>0, <2>1, <3>1
    <2> HIDE DEF n
    <2> USE <2>0
    <2>7. \A i \in 1..n : h.link[F[i]] = IF i < n THEN F[i + 1] ELSE NULL
      BY <1>1, <2>0 DEF Follows, After, n
    <2>8. ASSUME NEW i \in 1..Len(s)
          PROVE  \E j \in 1..n : s[i] = F[j] /\ LinkTo(h, s, i) = Into(MFL, F, j)
      <3>1. CASE i <= n - r
        <4>1. r + i \in 1..n /\ r + i - 1 \in 1..n /\ r + i - 1 < n /\ s[i] = F[r + i]
          BY <2>0, <2>6, <3>1
        <4>2. (IF i = 1 THEN h.rover ELSE s[i - 1]) = F[r + i - 1]
          <5>1. CASE i = 1
            BY <5>1
          <5>2. CASE i > 1
            <6>1. i - 1 \in 1..n - r /\ r + (i - 1) = r + i - 1
              BY <3>1, <5>2
            <6> QED
              BY <2>6, <5>2, <6>1
          <5>3. i = 1 \/ i > 1
            BY <2>6
          <5> QED
            BY <5>1, <5>2, <5>3
        <4>3. h.link[F[r + i - 1]] # NULL
          <5>1. r + i - 1 + 1 = r + i
            BY <2>6
          <5> QED
            BY <2>1, <2>7, <4>1, <5>1
        <4>4. LinkTo(h, s, i) = F[r + i - 1]
          BY <4>2, <4>3 DEF LinkTo
        <4>5. Into(MFL, F, r + i) = F[r + i - 1]
          BY <2>6 DEF Into
        <4> QED
          BY <4>1, <4>4, <4>5
      <3>2. CASE i > n - r
        <4> PICK j \in 1..n : i = (n - r) + j
          <5>1. i - (n - r) \in 1..n /\ i = (n - r) + (i - (n - r))
            BY <2>6, <3>2
          <5> QED
            BY <5>1
        <4>1. s[i] = F[j]
          BY <2>6
        <4>2. CASE j = 1
          <5>1. (IF i = 1 THEN h.rover ELSE s[i - 1]) = F[n]
            <6>1. CASE r = n
              BY <4>2, <6>1
            <6>2. CASE r < n
              <7>1. i - 1 \in 1..n - r /\ r + (i - 1) = n /\ i # 1
                BY <4>2, <6>2
              <7> QED
                BY <2>6, <7>1
            <6> QED
              BY <6>1, <6>2
          <5>2. h.link[F[n]] = NULL
            <6>1. n \in 1..n
              OBVIOUS
            <6> QED
              BY <2>7, <6>1
          <5> QED
            BY <4>1, <4>2, <5>1, <5>2 DEF LinkTo, Into
        <4>3. CASE j > 1
          <5>1. j - 1 \in 1..n /\ j - 1 < n /\ i - 1 = (n - r) + (j - 1) /\ i # 1 /\ j - 1 + 1 = j
            BY <4>3
          <5>2. s[i - 1] = F[j - 1]
            BY <2>6, <5>1
          <5>3. h.link[F[j - 1]] # NULL
            BY <2>1, <2>7, <5>1
          <5> QED
            <6>1. LinkTo(h, s, i) = F[j - 1]
              BY <5>1, <5>2, <5>3 DEF LinkTo
            <6>2. Into(MFL, F, j) = F[j - 1]
              BY <4>3 DEF Into
            <6> QED
              BY <4>1, <6>1, <6>2
        <4> QED
          BY <4>2, <4>3
      <3> QED
        BY <2>6, <3>1, <3>2
    <2>9. ASSUME NEW j \in 1..n
          PROVE  \E i \in 1..Len(s) : s[i] = F[j]
      <3>1. (n - r) + j \in 1..Len(s)
        BY <2>6
      <3> QED
        BY <2>6, <3>1
    <2>10. h.rover \in Elements(s)
      BY <2>6, <2>9, InElements
    <2> QED
      BY <2>5, <2>6, <2>8, <2>9, <2>10 DEF Searched, n
  <1> QED
    BY <1>2, <1>3

LEMMA FirstFitIs ==
  ASSUME NEW h, NEW F, NEW A, NEW X, Fits(h, F, A, X, {}), NEW n \in Nat, NEW rb, NEW r
  PROVE  \/ /\ ffit(h, n, rb, r) = [md |-> NULL, heap |-> h]
            /\ \A j \in 1..Len(F) : h.length[F[j]] < n
         \/ \E j \in 1..Len(F) : /\ h.length[F[j]] >= n
                                 /\ ffit(h, n, rb, r) = TakeFrom(h, Into(MFL, F, j), F[j], n, rb, r)
  <1> PICK s : s = Order(h)
    OBVIOUS
  <1>1. /\ s \in Seq(MD)
        /\ \A i \in 1..Len(s) : \E j \in 1..Len(F) : s[i] = F[j] /\ LinkTo(h, s, i) = Into(MFL, F, j)
        /\ \A j \in 1..Len(F) : \E i \in 1..Len(s) : s[i] = F[j]
        /\ h.rover = NULL \/ h.rover \in Elements(s)
    BY OrderIs DEF Searched
  <1>2. ffit(h, n, rb, r) = FirstFit(h, s, n, rb, r)
    BY DEF ffit
  <1> DEFINE large == {i \in DOMAIN s : h.length[s[i]] >= n}
  <1>3. CASE large = {}
    <2>1. ffit(h, n, rb, r) = [md |-> NULL, heap |-> h]
      BY <1>1, <1>2, <1>3 DEF FirstFit
    <2>2. \A j \in 1..Len(F) : h.length[F[j]] < n
      <3> TAKE j \in 1..Len(F)
      <3>1. PICK i \in 1..Len(s) : s[i] = F[j]
        BY <1>1
      <3>2. ~(h.length[s[i]] >= n)
        <4>1. i \in DOMAIN s
          <5>1. s \in Seq(MD) /\ i \in 1..Len(s)
            BY <1>1
          <5> QED
            BY ONLY <5>1
        <4>2. i \notin large
          <5> HIDE DEF large
          <5> QED
            BY ONLY <1>3
        <4> QED
          BY ONLY <4>1, <4>2
      <3>3. h \in Heaps /\ s[i] \in MD
        BY <1>1, FitsLists
      <3> QED
        BY <3>1, <3>2, <3>3, HeapNumbers
    <2> QED
      BY <2>1, <2>2
  <1>4. CASE large # {}
    <2>1. ffit(h, n, rb, r) = TakeFrom(h, LinkTo(h, s, Lowest(large)), s[Lowest(large)], n, rb, r)
      BY <1>2, <1>4 DEF FirstFit
    <2>2. Lowest(large) \in large
      <3>1. large \in SUBSET Nat
        BY <1>1
      <3> HIDE DEF large
      <3> QED
        BY <1>4, <3>1, LowestIs
    <2> PICK i : i = Lowest(large)
      OBVIOUS
    <2>3. i \in 1..Len(s) /\ h.length[s[i]] >= n
      <3>1. DOMAIN s = 1..Len(s)
        BY <1>1
      <3>2. i \in large
        <4> HIDE DEF large
        <4> QED
          BY <2>2
      <3> QED
        BY <3>1, <3>2
    <2> PICK j \in 1..Len(F) : s[i] = F[j] /\ LinkTo(h, s, i) = Into(MFL, F, j)
      BY <1>1, <2>3
    <2> HIDE DEF large
    <2>4. ffit(h, n, rb, r) = TakeFrom(h, Into(MFL, F, j), F[j], n, rb, r)
      BY <2>1
    <2> QED
      BY <2>3, <2>4
  <1> QED
    BY <1>3, <1>4

-----------------------------------------------------------------------------
\* the j-th free block goes to the head of the allocated list and to r
Moved(z, F, j, r) ==
  [z EXCEPT !.link = [z.link EXCEPT ![Into(MFL, F, j)] = z.link[F[j]], ![F[j]] = z.link[MAL],
                                    ![MAL] = F[j]],
            !.own = [z.own EXCEPT ![F[j]] = r],
            !.rover = IF Into(MFL, F, j) = MFL THEN z.link[F[j]] ELSE Into(MFL, F, j)]

LEMMA MovedIs ==
  ASSUME NEW z \in Heaps, NEW F \in Seq(MD), Distinct(F), NEW j \in 1..Len(F),
         NEW r \in {ospd} \cup Addr, NEW g, g = Moved(z, F, j, r)
  PROVE  /\ g \in Heaps /\ g.halted = z.halted /\ g.start = z.start /\ g.length = z.length
         /\ g.x_flag = z.x_flag
         /\ g.link[Into(MFL, F, j)] = z.link[F[j]] /\ g.link[F[j]] = z.link[MAL] /\ g.link[MAL] = F[j]
         /\ \A x \in MD \cup {MFL, MAL} :
              x # Into(MFL, F, j) /\ x # F[j] /\ x # MAL => g.link[x] = z.link[x]
         /\ g.own[F[j]] = r /\ \A x \in MD : x # F[j] => g.own[x] = z.own[x]
         /\ g.rover = IF Into(MFL, F, j) = MFL THEN z.link[F[j]] ELSE Into(MFL, F, j)
         /\ Into(MFL, F, j) # F[j] /\ Into(MFL, F, j) # MAL
         /\ (j = 1 => Into(MFL, F, j) = MFL)
         /\ (j > 1 => Into(MFL, F, j) = F[j - 1] /\ Into(MFL, F, j) # MFL)
  <1> PICK q, p : q = F[j] /\ p = Into(MFL, F, j)
    OBVIOUS
  <1>1. /\ q \in MD /\ Len(F) \in Nat
        /\ \A i \in 1..Len(F) : F[i] \in MD
        /\ \A a, b \in 1..Len(F) : F[a] = F[b] => a = b
    BY DEF Distinct
  <1>2. /\ p # q /\ p # MAL /\ p \in MD \cup {MFL, MAL} /\ (p # MFL => p \in MD)
        /\ (j = 1 => p = MFL) /\ (j > 1 => p = F[j - 1] /\ p # MFL)
    <2>1. CASE j = 1
      BY <1>1, <2>1, Descriptor DEF Into
    <2>2. CASE j > 1
      <3>1. j - 1 \in 1..Len(F) /\ j - 1 # j
        BY <2>2
      <3>2. p = F[j - 1]
        BY <2>2 DEF Into
      <3> QED
        BY <1>1, <2>2, <3>1, <3>2, Descriptor
    <2>3. j = 1 \/ j > 1
      OBVIOUS
    <2> QED
      BY <2>1, <2>2, <2>3
  <1>3. /\ z.link \in [MD \cup {MFL, MAL} -> MD \cup {NULL}]
        /\ z.own \in [MD -> {MF_FREE, NOBODY, ospd} \cup Addr]
    BY DEF Heaps
  <1> PICK L : L = [z.link EXCEPT ![p] = z.link[q], ![q] = z.link[MAL], ![MAL] = q]
    OBVIOUS
  <1> PICK O : O = [z.own EXCEPT ![q] = r]
    OBVIOUS
  <1> PICK R : R = IF p = MFL THEN z.link[q] ELSE p
    OBVIOUS
  <1>4. /\ L \in [MD \cup {MFL, MAL} -> MD \cup {NULL}]
        /\ O \in [MD -> {MF_FREE, NOBODY, ospd} \cup Addr]
        /\ R \in MD \cup {NULL}
    BY <1>1, <1>2, <1>3
  <1>5. g = [z EXCEPT !.link = L, !.own = O, !.rover = R]
    BY DEF Moved
  <1>6. /\ g \in Heaps /\ g.halted = z.halted /\ g.start = z.start /\ g.length = z.length
        /\ g.x_flag = z.x_flag /\ g.link = L /\ g.own = O /\ g.rover = R
    BY <1>4, <1>5 DEF Heaps
  <1>7. /\ L[p] = z.link[q] /\ L[q] = z.link[MAL] /\ L[MAL] = q
        /\ \A x \in MD \cup {MFL, MAL} : x # p /\ x # q /\ x # MAL => L[x] = z.link[x]
    BY <1>1, <1>2, <1>3, Descriptor
  <1>8. O[q] = r /\ \A x \in MD : x # q => O[x] = z.own[x]
    BY <1>1, <1>3
  <1> QED
    BY <1>2, <1>6, <1>7, <1>8

LEMMA MovedFits ==
  ASSUME NEW z, NEW F, NEW A, NEW X, NEW J, Fits(z, F, A, X, J), NEW j \in 1..Len(F), J \subseteq {j},
         NEW r \in {ospd} \cup Addr, NEW g, g = Moved(z, F, j, r)
  PROVE  Fits(g, Removed(F, j), Inserted(A, 0, F[j]), X, {})
  <1>1. /\ z \in Heaps /\ ~z.halted /\ F \in Seq(MD) /\ A \in Seq(MD) /\ X \subseteq MD
        /\ Distinct(F) /\ Distinct(A)
        /\ Elements(F) \cap Elements(A) = {} /\ X \cap (Elements(F) \cup Elements(A)) = {}
        /\ Follows(z, MFL, F) /\ Follows(z, MAL, A)
        /\ (IF F = <<>> THEN z.rover = NULL ELSE z.rover \in Elements(F))
        /\ Ordered(z, F, J) /\ Tiled(z, All(F, A, X)) /\ Pool(z, All(F, A, X))
        /\ All(F, A, X) \in SUBSET MD
    BY FitsLists
  <1> PICK q, p : q = F[j] /\ p = Into(MFL, F, j)
    OBVIOUS
  <1> PICK G : G = Removed(F, j)
    OBVIOUS
  <1> PICK B : B = Inserted(A, 0, q)
    OBVIOUS
  <1>2. /\ g \in Heaps /\ g.halted = z.halted /\ g.start = z.start /\ g.length = z.length
        /\ g.x_flag = z.x_flag
        /\ g.link[p] = z.link[q] /\ g.link[q] = z.link[MAL] /\ g.link[MAL] = q
        /\ \A x \in MD \cup {MFL, MAL} : x # p /\ x # q /\ x # MAL => g.link[x] = z.link[x]
        /\ g.own[q] = r /\ \A x \in MD : x # q => g.own[x] = z.own[x]
        /\ g.rover = IF p = MFL THEN z.link[q] ELSE p
        /\ p # q /\ p # MAL
        /\ (j = 1 => p = MFL)
        /\ (j > 1 => p = F[j - 1] /\ p # MFL)
    <2>1. /\ g \in Heaps /\ g.halted = z.halted /\ g.start = z.start /\ g.length = z.length
          /\ g.x_flag = z.x_flag
          /\ g.link[Into(MFL, F, j)] = z.link[F[j]] /\ g.link[F[j]] = z.link[MAL] /\ g.link[MAL] = F[j]
          /\ \A x \in MD \cup {MFL, MAL} :
               x # Into(MFL, F, j) /\ x # F[j] /\ x # MAL => g.link[x] = z.link[x]
          /\ g.own[F[j]] = r /\ \A x \in MD : x # F[j] => g.own[x] = z.own[x]
          /\ g.rover = IF Into(MFL, F, j) = MFL THEN z.link[F[j]] ELSE Into(MFL, F, j)
          /\ Into(MFL, F, j) # F[j] /\ Into(MFL, F, j) # MAL
          /\ (j = 1 => Into(MFL, F, j) = MFL)
          /\ (j > 1 => Into(MFL, F, j) = F[j - 1] /\ Into(MFL, F, j) # MFL)
      BY <1>1, MovedIs
    <2> QED
      BY <2>1
  <1>3. /\ Len(F) \in Nat /\ DOMAIN F = 1..Len(F) /\ q \in MD /\ q \in Elements(F) /\ q \notin Elements(A) /\ q \notin X
        /\ \A i \in 1..Len(F) : F[i] \in MD /\ F[i] \in Elements(F)
    BY <1>1 DEF Elements
  <1>4. /\ G \in Seq(MD) /\ Len(G) = Len(F) - 1 /\ Distinct(G) /\ Elements(G) = Elements(F) \ {q}
        /\ \A i \in 1..j - 1 : G[i] = F[i]
        /\ \A i \in j..Len(F) - 1 : G[i] = F[i + 1]
    <2>1. /\ Removed(F, j) \in Seq(MD) /\ Len(Removed(F, j)) = Len(F) - 1
          /\ Distinct(Removed(F, j))
          /\ Elements(Removed(F, j)) = Elements(F) \ {F[j]}
          /\ \A i \in 1..j - 1 : Removed(F, j)[i] = F[i]
          /\ \A i \in j..Len(F) - 1 : Removed(F, j)[i] = F[i + 1]
      BY <1>1, RemovedIs
    <2> QED
      BY <2>1
  <1>5. B \in Seq(MD) /\ Distinct(B) /\ Elements(B) = Elements(A) \cup {q}
    <2>1. 0 \in 0..Len(A)
      BY <1>1
    <2> QED
      BY <1>1, <1>3, <2>1, InsertedIs
  <1>6. Elements(A) \subseteq MD /\ MFL \notin MD /\ MAL \notin MD /\ MFL # MAL
        /\ Elements(F) \subseteq MD
    <2>1. \A s \in Seq(MD) : Elements(s) \subseteq MD
      BY DEF Elements
    <2> QED
      BY <1>1, <2>1, Descriptor
  <1>7. Follows(g, MFL, G)
    <2>1. g.link[Into(MFL, F, j)] = After(F, j)
      BY <1>1, <1>2, <1>3 DEF Follows
    <2>2. \A x \in Elements(F) \cup {MFL} : x # Into(MFL, F, j) /\ x # F[j] => g.link[x] = z.link[x]
      BY <1>2, <1>6
    <2> QED
      BY <1>1, <1>2, <2>1, <2>2, FollowsRemoved
  <1>8. Follows(g, MAL, B)
    <2>1. 0 \in 0..Len(A) /\ Into(MAL, A, 0 + 1) = MAL
      BY <1>1 DEF Into
    <2>2. g.link[q] = After(A, 0)
      BY <1>1, <1>2 DEF Follows
    <2>3. p \notin Elements(A)
      <3>1. CASE j = 1
        BY <1>2, <1>6, <3>1
      <3>2. CASE j > 1
        <4>1. F[j - 1] \in Elements(F)
          BY <1>3, <3>2
        <4> QED
          BY <1>1, <1>2, <3>2, <4>1
      <3>3. j = 1 \/ j > 1
        OBVIOUS
      <3> QED
        BY <3>1, <3>2, <3>3
    <2>4. \A x \in Elements(A) \cup {MAL} : x # Into(MAL, A, 0 + 1) => g.link[x] = z.link[x]
      BY <1>2, <1>3, <1>6, <2>1, <2>3
    <2>5. Follows(g, MAL, Inserted(A, 0, q))
      <3>1. g.link[Into(MAL, A, 0 + 1)] = q
        BY <1>2, <2>1
      <3> HIDE DEF Into
      <3> QED
        BY <1>1, <1>2, <1>3, <2>1, <2>2, <2>4, <3>1, FollowsInserted
    <2> QED
      BY <2>5
  <1>9. IF G = <<>> THEN g.rover = NULL ELSE g.rover \in Elements(G)
    <2>1. CASE j = 1
      <3>1. g.rover = After(F, 1)
        BY <1>1, <1>2, <1>3, <2>1 DEF Follows
      <3>2. CASE Len(F) = 1
        BY <1>4, <3>1, <3>2 DEF After
      <3>3. CASE Len(F) > 1
        <4>1. After(F, 1) = F[2] /\ 2 \in 1..Len(F)
          BY <1>3, <3>3 DEF After
        <4>2. F[2] # q
          BY <1>1, <1>3, <2>1, <4>1 DEF Distinct
        <4>3. G # <<>>
          BY <1>3, <1>4, <3>3
        <4> QED
          BY <1>3, <1>4, <3>1, <4>1, <4>2, <4>3
      <3> QED
        BY <1>3, <3>2, <3>3
    <2>2. CASE j > 1
      <3>1. g.rover = F[j - 1] /\ j - 1 \in 1..Len(F)
        BY <1>2, <1>3, <2>2
      <3>2. F[j - 1] \in Elements(G)
        BY <1>2, <1>3, <1>4, <2>2, <3>1
      <3>3. G # <<>>
        BY <1>3, <1>4, <2>2
      <3> QED
        BY <3>1, <3>2, <3>3
    <2>3. j = 1 \/ j > 1
      OBVIOUS
    <2> QED
      BY <2>1, <2>2, <2>3
  <1>10. Lists(g, G, B, X)
    BY <1>1, <1>3, <1>4, <1>5, <1>7, <1>8, <1>9 DEF Lists
  <1>11. All(G, B, X) = All(F, A, X)
    BY <1>3, <1>4, <1>5 DEF All
  <1>12. Tiled(g, All(F, A, X))
    BY <1>1, <1>2, TiledSame
  <1>13. Pool(g, All(F, A, X))
    <2>1. r # MF_FREE
      BY Descriptor DEF ospd, MF_FREE
    <2>2. q \in All(F, A, X)
      BY <1>3 DEF All
    <2> SUFFICES ASSUME NEW x \in MD \ {themd}
                 PROVE  IF g.x_flag[Block(x)] = 1 THEN g.own[x] = MF_FREE <=> x \notin All(F, A, X)
                                                  ELSE x \notin All(F, A, X)
      BY DEF Pool
    <2>3. IF z.x_flag[Block(x)] = 1 THEN z.own[x] = MF_FREE <=> x \notin All(F, A, X)
                                    ELSE x \notin All(F, A, X)
      BY <1>1 DEF Pool
    <2> QED
      BY <1>2, <2>1, <2>2, <2>3
  <1>14. Ordered(g, G, {})
    <2> DEFINE up(a) == IF a < j THEN a ELSE a + 1
    <2>1. ASSUME NEW a \in 1..Len(F) - 1
          PROVE  up(a) \in 1..Len(F) /\ G[a] = F[up(a)] /\ up(a) # j /\ up(a) \in Nat
      BY <1>3, <1>4
    <2>2. DOMAIN G = 1..Len(F) - 1
      BY <1>4
    <2> SUFFICES ASSUME NEW a \in 1..Len(F) - 1, NEW b \in 1..Len(F) - 1, a < b
                 PROVE  /\ End(g, G[a]) <= g.start[G[b]]
                        /\ End(g, G[a]) # g.start[G[b]]
      BY <2>2 DEF Ordered
    <2>3. up(a) < up(b)
      BY <1>3
    <2>4. up(a) \in 1..Len(F) /\ G[a] = F[up(a)] /\ up(a) \notin J /\ up(b) \in 1..Len(F) /\ G[b] = F[up(b)]
      BY <2>1
    <2> PICK u, v \in 1..Len(F) : u = up(a) /\ v = up(b)
      BY <2>4
    <2> HIDE DEF up
    <2>5. End(z, F[u]) <= z.start[F[v]] /\ End(z, F[u]) # z.start[F[v]]
      BY <1>1, <1>3, <2>3, <2>4 DEF Ordered
    <2> QED
      BY <1>2, <2>4, <2>5 DEF End
  <1> QED
    BY <1>1, <1>2, <1>10, <1>11, <1>12, <1>13, <1>14 DEF Fits

-----------------------------------------------------------------------------
\* y is z with the link to the block to be moved on to the one after it
LEMMA AllocateIs ==
  ASSUME NEW z \in Heaps, NEW y \in Heaps, NEW F \in Seq(MD), Distinct(F), NEW j \in 1..Len(F),
         NEW r \in {ospd} \cup Addr,
         y.start = z.start, y.length = z.length, y.own = z.own, y.x_flag = z.x_flag,
         y.halted = z.halted, y.link[Into(MFL, F, j)] = z.link[F[j]],
         \A x \in MD \cup {MFL, MAL} : x # Into(MFL, F, j) /\ x # F[j] => y.link[x] = z.link[x]
  PROVE  Allocate(y, Into(MFL, F, j), F[j], r) = [md |-> F[j], heap |-> Moved(z, F, j, r)]
  <1> PICK q, p : q = F[j] /\ p = Into(MFL, F, j)
    OBVIOUS
  <1>1. q \in MD /\ p # q /\ p # MAL /\ p \in MD \cup {MFL, MAL} /\ MAL # q /\ MFL # q
    <2>1. \A i \in 1..Len(F) : F[i] \in MD
      OBVIOUS
    <2>2. CASE j = 1
      BY <2>1, <2>2, Descriptor DEF Into
    <2>3. CASE j > 1
      <3>1. j - 1 \in 1..Len(F) /\ j - 1 # j /\ F[j - 1] # F[j]
        BY <2>3 DEF Distinct
      <3>2. p = F[j - 1]
        BY <2>3 DEF Into
      <3> QED
        BY <2>1, <3>1, <3>2, Descriptor
    <2>4. j = 1 \/ j > 1
      OBVIOUS
    <2> QED
      BY <2>2, <2>3, <2>4
  <1>2. /\ y.link \in [MD \cup {MFL, MAL} -> MD \cup {NULL}]
        /\ z.link \in [MD \cup {MFL, MAL} -> MD \cup {NULL}]
        /\ y.own \in [MD -> {MF_FREE, NOBODY, ospd} \cup Addr]
    BY DEF Heaps
  <1> PICK L : L = [z.link EXCEPT ![p] = z.link[q], ![q] = z.link[MAL], ![MAL] = q]
    OBVIOUS
  <1>3. y.link[p] = z.link[q] /\ \A x \in MD \cup {MFL, MAL} : x # p /\ x # q => y.link[x] = z.link[x]
    OBVIOUS
  <1>4. [y.link EXCEPT ![q] = y.link[MAL], ![MAL] = q] = L
    <2>1. \A x \in MD \cup {MFL, MAL} : [y.link EXCEPT ![q] = y.link[MAL], ![MAL] = q][x] = L[x]
      <3> TAKE x \in MD \cup {MFL, MAL}
      <3>1. CASE x = MAL
        BY <1>1, <1>2, <3>1
      <3>2. CASE x = q
        BY <1>1, <1>2, <1>3, <3>2
      <3>3. CASE x = p
        BY <1>1, <1>2, <1>3, <3>3
      <3>4. CASE x # MAL /\ x # q /\ x # p
        BY <1>1, <1>2, <1>3, <3>4
      <3> QED
        BY <3>1, <3>2, <3>3, <3>4
    <2> QED
      BY <1>2, <2>1
  <1> PICK O : O = [z.own EXCEPT ![q] = r]
    OBVIOUS
  <1> PICK R : R = IF p = MFL THEN z.link[q] ELSE p
    OBVIOUS
  <1>5. R = IF p = MFL THEN y.link[MFL] ELSE p
    BY <1>3
  <1>6. Allocate(y, p, q, r) = [md |-> q, heap |-> [y EXCEPT !.link = L, !.own = O, !.rover = R]]
    BY <1>4, <1>5 DEF Allocate
  <1>7. Moved(z, F, j, r) = [z EXCEPT !.link = L, !.own = O, !.rover = R]
    BY DEF Moved
  <1>8. [y EXCEPT !.link = L, !.own = O, !.rover = R] = [z EXCEPT !.link = L, !.own = O, !.rover = R]
    BY DEF Heaps
  <1> QED
    BY <1>6, <1>7, <1>8

\* the result is a block of n units for r
Given(h, A, X, n, r, res) ==
  /\ res.md \in MD /\ res.md \notin Elements(A) \cup X
  /\ res.heap.length[res.md] = n /\ res.heap.own[res.md] = r
  /\ Kept(h, res.heap, Elements(A) \cup X)
  /\ \E G : Fits(res.heap, G, Inserted(A, 0, res.md), X, {})

LEMMA TakeExact ==
  ASSUME NEW h, NEW F, NEW A, NEW X, Fits(h, F, A, X, {}), NEW j \in 1..Len(F),
         NEW r \in {ospd} \cup Addr, NEW rb, NEW n, h.length[F[j]] = n
  PROVE  Given(h, A, X, n, r, TakeFrom(h, Into(MFL, F, j), F[j], n, rb, r))
  <1>1. /\ h \in Heaps /\ F \in Seq(MD) /\ A \in Seq(MD) /\ X \subseteq MD /\ Distinct(F)
        /\ Elements(F) \cap Elements(A) = {} /\ X \cap (Elements(F) \cup Elements(A)) = {}
    BY FitsLists
  <1> PICK q, p : q = F[j] /\ p = Into(MFL, F, j)
    OBVIOUS
  <1> PICK g : g = Moved(h, F, j, r)
    OBVIOUS
  <1>2. q \in MD /\ q \in Elements(F) /\ Elements(A) \subseteq MD
    <2>1. \A s \in Seq(MD) : Elements(s) \subseteq MD
      BY DEF Elements
    <2> QED
      BY <1>1, <2>1, InElements
  <1>3. /\ g \in Heaps /\ g.start = h.start /\ g.length = h.length
        /\ g.own[q] = r /\ \A x \in MD : x # q => g.own[x] = h.own[x]
        /\ p # q /\ p # MAL /\ (j = 1 => p = MFL) /\ (j > 1 => p = F[j - 1] /\ p # MFL)
    BY <1>1, MovedIs
  <1>4. p \in MD \cup {MFL, MAL}
    BY <1>1, <1>3
  <1> PICK y : y = [h EXCEPT !.link[p] = h.link[q]]
    OBVIOUS
  <1>5. /\ y \in Heaps /\ y.start = h.start /\ y.length = h.length /\ y.own = h.own /\ y.x_flag = h.x_flag
        /\ y.halted = h.halted /\ y.link[p] = h.link[q]
        /\ \A x \in MD \cup {MFL, MAL} : x # p => y.link[x] = h.link[x]
    BY <1>1, <1>2, <1>4 DEF Heaps
  <1>6. Allocate(y, p, q, r) = [md |-> q, heap |-> g]
    <2>1. /\ y.link[Into(MFL, F, j)] = h.link[F[j]]
          /\ \A x \in MD \cup {MFL, MAL} : x # Into(MFL, F, j) /\ x # F[j] => y.link[x] = h.link[x]
      BY <1>5
    <2>2. /\ h \in Heaps /\ F \in Seq(MD) /\ Distinct(F)
          /\ y \in Heaps /\ y.start = h.start /\ y.length = h.length /\ y.own = h.own
          /\ y.x_flag = h.x_flag /\ y.halted = h.halted
      BY <1>1, <1>5
    <2>3. Allocate(y, Into(MFL, F, j), F[j], r) = [md |-> F[j], heap |-> Moved(h, F, j, r)]
      BY ONLY <2>1, <2>2, AllocateIs
    <2> QED
      BY <2>3
  <1>7. TakeFrom(h, p, q, n, rb, r) = [md |-> q, heap |-> g]
    BY <1>6 DEF TakeFrom
  <1>8. Fits(g, Removed(F, j), Inserted(A, 0, q), X, {})
    BY MovedFits
  <1>9. Kept(h, g, Elements(A) \cup X)
    BY <1>1, <1>2, <1>3 DEF Kept
  <1>10. g.length[q] = n
    BY <1>3
  <1>11. q \notin Elements(A) \cup X
    BY <1>1, <1>2
  <1> PICK res : res = TakeFrom(h, p, q, n, rb, r)
    OBVIOUS
  <1>12. res.md = q /\ res.heap = g
    BY <1>7
  <1>13. Given(h, A, X, n, r, res)
    BY <1>2, <1>3, <1>8, <1>9, <1>10, <1>11, <1>12 DEF Given
  <1> QED
    BY <1>13

-----------------------------------------------------------------------------
HasSplit(s, g, k, p, q, m) ==
  /\ s \in Heaps /\ s.start = g.start /\ s.length = g.length /\ s.own = g.own
  /\ s.x_flag = g.x_flag /\ s.halted = g.halted
  /\ s.link[m] = k.link[q] /\ s.link[p] = m
  /\ \A x \in MD \cup {MFL, MAL} : x # m /\ x # p => s.link[x] = k.link[x]

LEMMA SplitIs ==
  ASSUME NEW k \in Heaps, NEW p \in MD \cup {MFL, MAL}, NEW q \in MD, NEW m \in MD, p # m, q # m, p # q,
         NEW n \in Nat, Halved(k, q, m, n) \in Heaps
  PROVE  HasSplit(Split(k, p, q, m, n), Halved(k, q, m, n), k, p, q, m)
  <1> PICK g : g = Halved(k, q, m, n)
    OBVIOUS
  <1> PICK s : s = Split(k, p, q, m, n)
    OBVIOUS
  <1> PICK S : S = [k.start EXCEPT ![m] = k.start[q] + n]
    OBVIOUS
  <1> PICK W : W = [k.length EXCEPT ![m] = k.length[q] - n, ![q] = n]
    OBVIOUS
  <1>1. g = [k EXCEPT !.start = S, !.length = W]
    BY DEF Halved, Heaps
  <1>2. /\ g.start = S /\ g.length = W /\ g.own = k.own /\ g.x_flag = k.x_flag /\ g.halted = k.halted
    BY <1>1 DEF Heaps
  <1>3. S \in [MD -> 0..Size + 1] /\ W \in [MD -> 0..Size]
    BY <1>2 DEF Heaps
  <1>4. k.link \in [MD \cup {MFL, MAL} -> MD \cup {NULL}]
    BY DEF Heaps
  <1> PICK L : L = [k.link EXCEPT ![m] = k.link[q], ![p] = m]
    OBVIOUS
  <1>5. /\ L \in [MD \cup {MFL, MAL} -> MD \cup {NULL}] /\ L[m] = k.link[q] /\ L[p] = m
        /\ \A x \in MD \cup {MFL, MAL} : x # m /\ x # p => L[x] = k.link[x]
    BY <1>4
  <1>6. s = [k EXCEPT !.start = S, !.length = W, !.link = L]
    BY DEF Split, Heaps
  <1>7. /\ s \in Heaps /\ s.start = S /\ s.length = W /\ s.link = L /\ s.own = k.own
        /\ s.x_flag = k.x_flag /\ s.halted = k.halted
    BY <1>3, <1>5, <1>6 DEF Heaps
  <1>8. HasSplit(s, g, k, p, q, m)
    BY ONLY <1>2, <1>5, <1>7 DEF HasSplit
  <1> QED
    BY ONLY <1>8, g = Halved(k, q, m, n), s = Split(k, p, q, m, n)

LEMMA TakeSplit ==
  ASSUME NEW h, NEW F, NEW A, NEW X, Fits(h, F, A, X, {}), NEW j \in 1..Len(F),
         NEW r \in {ospd} \cup Addr, NEW n \in Nat \ {0}, n < h.length[F[j]],
         NEW k, NEW m, Fresh(h, All(F, A, X), k, m)
  PROVE  Given(h, A, X, n, r,
               Allocate(Split(k, Into(MFL, F, j), F[j], m, n), Into(MFL, F, j), F[j], r))
  <1>1. /\ h \in Heaps /\ F \in Seq(MD) /\ A \in Seq(MD) /\ X \subseteq MD /\ Distinct(F)
        /\ Elements(F) \cap Elements(A) = {} /\ X \cap (Elements(F) \cup Elements(A)) = {}
        /\ Follows(h, MFL, F) /\ Ordered(h, F, {}) /\ Tiled(h, All(F, A, X)) /\ All(F, A, X) \in SUBSET MD
    BY FitsLists
  <1> PICK q, p : q = F[j] /\ p = Into(MFL, F, j)
    OBVIOUS
  <1> PICK y : y = Halved(k, q, m, n)
    OBVIOUS
  <1>2. /\ Len(F) \in Nat /\ DOMAIN F = 1..Len(F) /\ q \in MD /\ q \in Elements(F) /\ q \in All(F, A, X)
        /\ \A i \in 1..Len(F) : F[i] \in MD /\ F[i] \in Elements(F) /\ F[i] \in All(F, A, X)
    BY <1>1 DEF Elements, All
  <1>3. /\ Fits(y, F, A, X \cup {m}, {})
        /\ \A x \in All(F, A, X) : y.start[x] = h.start[x] /\ y.own[x] = h.own[x]
        /\ \A x \in All(F, A, X) \ {q} : y.length[x] = h.length[x]
        /\ y.length[q] = n /\ m \in MD /\ m \notin All(F, A, X)
        /\ y.start[m] = h.start[q] + n /\ End(y, m) = End(h, q)
        /\ \A x \in MD \cup {MFL, MAL} : x # m => y.link[x] = h.link[x]
    <2>1. /\ q \in Elements(F) \cup Elements(A) /\ n < h.length[q] /\ y = Halved(k, q, m, n)
          /\ n \in Nat \ {0} /\ Fits(h, F, A, X, {}) /\ Fresh(h, All(F, A, X), k, m)
      BY <1>2
    <2>2. Halves(h, y, F, A, X, q, n, m)
      BY <2>1, HalvedFits
    <2> QED
      BY <2>2 DEF Halves
  <1>4. y \in Heaps
    BY <1>3, FitsLists
  <1>5. End(h, q) = h.start[q] + h.length[q] /\ h.start[q] \in Nat /\ h.length[q] \in Nat /\ End(h, q) \in Nat
    BY <1>1, <1>2, HeapNumbers
  <1> PICK z : z = Insert(y, m, q, Tails(F, j))
    OBVIOUS
  <1> PICK E : E = Inserted(F, j, m)
    OBVIOUS
  <1>6. \A i \in 1..j : y.start[F[i]] < y.start[m]
    <2> TAKE i \in 1..j
    <2>1. i \in 1..Len(F) /\ F[i] \in MD /\ y.start[F[i]] = h.start[F[i]]
      BY <1>2, <1>3
    <2>2. CASE i = j
      BY <1>3, <1>5, <2>1, <2>2
    <2>3. CASE i < j
      <3>1. End(h, F[i]) <= h.start[q]
        BY <1>1, <1>2, <2>1, <2>3 DEF Ordered
      <3>2. End(h, F[i]) = h.start[F[i]] + h.length[F[i]] /\ h.start[F[i]] \in Nat /\ h.length[F[i]] \in Nat
        BY <1>1, <2>1, HeapNumbers
      <3> QED
        BY <1>3, <1>5, <2>1, <3>1, <3>2
    <2> QED
      BY <1>2, <2>2, <2>3
  <1>7. j < Len(F) => /\ h.start[F[j + 1]] >= End(h, q) /\ h.start[F[j + 1]] # End(h, q)
                      /\ y.start[F[j + 1]] = h.start[F[j + 1]] /\ y.start[F[j + 1]] >= y.start[m]
                      /\ F[j + 1] \in MD
    <2> HAVE j < Len(F)
    <2>1. j + 1 \in 1..Len(F) /\ j < j + 1 /\ F[j + 1] \in MD
      BY <1>2
    <2>2. End(h, q) <= h.start[F[j + 1]] /\ End(h, q) # h.start[F[j + 1]]
      BY <1>1, <1>2, <2>1 DEF Ordered
    <2>3. h.start[F[j + 1]] \in Nat
      BY <1>1, <2>1, HeapNumbers
    <2>4. y.start[F[j + 1]] = h.start[F[j + 1]]
      BY <1>2, <1>3, <2>1
    <2> QED
      BY <1>3, <1>5, <2>1, <2>2, <2>3, <2>4
  <1>8. Fits(z, E, A, X, {j, j + 1}) /\ Kept(y, z, MD)
    <2>1. /\ j \in 0..Len(F) /\ m \in X \cup {m} /\ j # 0
          /\ (j < Len(F) => y.start[F[j + 1]] >= y.start[m])
          /\ z = Insert(y, m, IF j = 0 THEN NULL ELSE F[j], Tails(F, j))
      BY <1>2, <1>7
    <2>2. Fits(z, Inserted(F, j, m), A, (X \cup {m}) \ {m}, {j, j + 1}) /\ Kept(y, z, MD)
      BY ONLY <1>3, <1>4, <1>6, <2>1, InsertFits
    <2>3. (X \cup {m}) \ {m} = X
      BY <1>3 DEF All
    <2> QED
      BY <2>2, <2>3
  <1>9. /\ E \in Seq(MD) /\ Len(E) = Len(F) + 1 /\ Distinct(E)
        /\ \A i \in 1..j : E[i] = F[i]
        /\ E[j + 1] = m
        /\ \A i \in j + 1..Len(F) : E[i + 1] = F[i]
    <2>1. m \notin Elements(F) /\ j \in 0..Len(F)
      BY <1>2, <1>3 DEF All
    <2>2. /\ Inserted(F, j, m) \in Seq(MD) /\ Len(Inserted(F, j, m)) = Len(F) + 1
          /\ Distinct(Inserted(F, j, m))
          /\ \A i \in 1..j : Inserted(F, j, m)[i] = F[i]
          /\ Inserted(F, j, m)[j + 1] = m
          /\ \A i \in j + 1..Len(F) : Inserted(F, j, m)[i + 1] = F[i]
      BY <1>1, <1>3, <2>1, InsertedIs
    <2> QED
      BY <2>2
  <1>10. z \in Heaps /\ Ordered(z, E, {j, j + 1})
    BY <1>8, FitsLists
  <1>11. Fits(z, E, A, X, {j})
    <2>1. j + 1 \in 1..Len(E) - 1 => End(z, E[j + 1]) # z.start[E[j + 1 + 1]]
      <3> HAVE j + 1 \in 1..Len(E) - 1
      <3>1. j < Len(F) /\ j + 1 \in j + 1..Len(F)
        BY <1>2, <1>9
      <3>2. E[j + 1 + 1] = F[j + 1]
        BY <1>9, <3>1
      <3>3. End(z, m) = End(y, m) /\ z.start[F[j + 1]] = y.start[F[j + 1]]
        BY <1>3, <1>7, <1>8, <3>1 DEF Kept, End
      <3> QED
        BY <1>3, <1>7, <1>9, <3>1, <3>2, <3>3
    <2>2. Ordered(z, E, {j, j + 1} \ {j + 1})
      BY <1>9, <1>10, <2>1, OrderedMore
    <2>3. {j, j + 1} \ {j + 1} = {j}
      BY <1>2
    <2> QED
      BY <1>8, <2>2, <2>3 DEF Fits
  <1>12. E[j] = q /\ Into(MFL, E, j) = p /\ j \in 1..Len(E) /\ p # q /\ p # MAL /\ p # m /\ q # m
         /\ p \in MD \cup {MFL, MAL}
    <2>1. j \in 1..j
      BY <1>2
    <2>2. CASE j = 1
      <3>1. p = MFL /\ Into(MFL, E, j) = MFL
        BY <2>2 DEF Into
      <3> QED
        BY <1>2, <1>3, <1>9, <2>1, <3>1, Descriptor
    <2>3. CASE j > 1
      <3>1. j - 1 \in 1..j /\ j - 1 \in 1..Len(F) /\ j - 1 # j
        BY <1>2, <2>3
      <3>2. p = F[j - 1] /\ Into(MFL, E, j) = E[j - 1] /\ E[j - 1] = F[j - 1]
        BY <1>9, <2>3, <3>1 DEF Into
      <3>3. F[j - 1] # F[j]
        BY <1>1, <1>2, <3>1 DEF Distinct
      <3>4. p \in MD /\ p # m /\ q # m
        BY <1>2, <1>3, <3>1, <3>2
      <3>5. E[j] = q /\ j \in 1..Len(E)
        BY <1>2, <1>9, <2>1
      <3> QED
        BY <3>2, <3>3, <3>4, <3>5, Descriptor
    <2>4. j = 1 \/ j > 1
      OBVIOUS
    <2> QED
      BY <2>2, <2>3, <2>4
  <1>13. /\ z.start = y.start /\ z.length = y.length /\ z.own = y.own /\ z.x_flag = y.x_flag
         /\ z.halted = y.halted
         /\ z.link[m] = Tails(F, j) /\ z.link[q] = m
         /\ \A x \in MD \cup {MFL, MAL} : x # m /\ x # q => z.link[x] = y.link[x]
    <2>1. z = [y EXCEPT !.link = [y.link EXCEPT ![m] = Tails(F, j), ![q] = m],
                        !.rover = IF y.rover = NULL THEN m ELSE y.rover]
      <3>1. q # NULL
        BY <1>2, Descriptor
      <3> QED
        BY <3>1 DEF Insert
    <2>2. y.link \in [MD \cup {MFL, MAL} -> MD \cup {NULL}]
      BY <1>4 DEF Heaps
    <2>3. z.link = [y.link EXCEPT ![m] = Tails(F, j), ![q] = m]
          /\ z.start = y.start /\ z.length = y.length /\ z.own = y.own /\ z.x_flag = y.x_flag
          /\ z.halted = y.halted
      BY <1>4, <2>1 DEF Heaps
    <2> QED
      BY <1>2, <1>3, <1>12, <2>2, <2>3
  <1> PICK s : s = Split(k, p, q, m, n)
    OBVIOUS
  <1>14. k \in Heaps /\ k.link = y.link
    <2>1. k \in Heaps
      BY DEF Fresh
    <2> QED
      BY <2>1 DEF Halved, Heaps
  <1>15. /\ s \in Heaps /\ s.start = y.start /\ s.length = y.length /\ s.own = y.own
         /\ s.x_flag = y.x_flag /\ s.halted = y.halted
         /\ s.link[m] = y.link[q] /\ s.link[p] = m
         /\ \A x \in MD \cup {MFL, MAL} : x # m /\ x # p => s.link[x] = y.link[x]
    <2>1. m \in MD /\ q \in MD /\ y \in Heaps /\ y = Halved(k, q, m, n) /\ n \in Nat
      BY <1>2, <1>3, <1>4
    <2>2. /\ s \in Heaps /\ s.start = y.start /\ s.length = y.length /\ s.own = y.own
          /\ s.x_flag = y.x_flag /\ s.halted = y.halted
          /\ s.link[m] = k.link[q] /\ s.link[p] = m
          /\ \A x \in MD \cup {MFL, MAL} : x # m /\ x # p => s.link[x] = k.link[x]
      <3>1. /\ k \in Heaps /\ p \in MD \cup {MFL, MAL} /\ q \in MD /\ m \in MD /\ p # m /\ q # m /\ p # q
            /\ n \in Nat /\ Halved(k, q, m, n) \in Heaps /\ y = Halved(k, q, m, n)
            /\ s = Split(k, p, q, m, n)
        BY <1>12, <1>14, <2>1
      <3>2. HasSplit(Split(k, p, q, m, n), Halved(k, q, m, n), k, p, q, m)
        BY ONLY <3>1, SplitIs
      <3>3. HasSplit(s, y, k, p, q, m)
        BY ONLY <3>1, <3>2
      <3> QED
        BY ONLY <3>3 DEF HasSplit
    <2> QED
      BY <1>14, <2>2
  <1>16. y.link[q] = Tails(F, j)
    <2>1. h.link[q] = After(F, j)
      BY <1>1, <1>2 DEF Follows
    <2>2. y.link[q] = h.link[q]
      BY <1>2, <1>3, <1>12
    <2>3. Tails(F, j) = After(F, j)
      <3>1. Len(F) \in Nat /\ j \in 1..Len(F)
        BY <1>2
      <3> QED
        BY ONLY <3>1 DEF Tails, After
    <2> QED
      BY <2>1, <2>2, <2>3
  <1> PICK g : g = Moved(z, E, j, r)
    OBVIOUS
  <1>17. Allocate(s, p, q, r) = [md |-> q, heap |-> g]
    <2>1. /\ s.link[Into(MFL, E, j)] = z.link[E[j]]
          /\ \A x \in MD \cup {MFL, MAL} : x # Into(MFL, E, j) /\ x # E[j] => s.link[x] = z.link[x]
      BY <1>12, <1>13, <1>15, <1>16
    <2>2. /\ z \in Heaps /\ E \in Seq(MD) /\ Distinct(E) /\ j \in 1..Len(E)
          /\ s \in Heaps /\ s.start = z.start /\ s.length = z.length /\ s.own = z.own
          /\ s.x_flag = z.x_flag /\ s.halted = z.halted
      BY <1>9, <1>10, <1>12, <1>13, <1>15
    <2>3. Allocate(s, Into(MFL, E, j), E[j], r) = [md |-> E[j], heap |-> Moved(z, E, j, r)]
      BY ONLY <2>1, <2>2, AllocateIs
    <2> QED
      BY <1>12, <2>3
  <1>18. /\ g.start = z.start /\ g.length = z.length
         /\ g.own[q] = r /\ \A x \in MD : x # q => g.own[x] = z.own[x]
    <2>1. /\ g.start = z.start /\ g.length = z.length
          /\ g.own[E[j]] = r /\ \A x \in MD : x # E[j] => g.own[x] = z.own[x]
      <3>1. /\ z \in Heaps /\ E \in Seq(MD) /\ Distinct(E) /\ j \in 1..Len(E)
            /\ r \in {ospd} \cup Addr /\ g = Moved(z, E, j, r)
        BY <1>9, <1>10, <1>12
      <3> QED
        BY ONLY <3>1, MovedIs
    <2> QED
      BY <1>12, <2>1
  <1>19. Fits(g, Removed(E, j), Inserted(A, 0, q), X, {})
    <2>1. Fits(g, Removed(E, j), Inserted(A, 0, E[j]), X, {})
      BY <1>11, <1>12, MovedFits
    <2> QED
      BY <1>12, <2>1
  <1>20. Kept(h, g, Elements(A) \cup X)
    <2>1. \A x \in Elements(A) \cup X : x \in All(F, A, X) /\ x # q /\ x \in MD
      BY <1>1, <1>2 DEF All
    <2> QED
      BY <1>3, <1>13, <1>18, <2>1 DEF Kept
  <1>21. g.length[q] = n /\ q \notin Elements(A) \cup X
    BY <1>1, <1>2, <1>3, <1>13, <1>18
  <1> PICK res : res = Allocate(s, p, q, r)
    OBVIOUS
  <1>22. res.md = q /\ res.heap = g
    BY <1>17
  <1>23. Given(h, A, X, n, r, res)
    BY <1>2, <1>18, <1>19, <1>20, <1>21, <1>22 DEF Given
  <1> QED
    BY <1>23

\* n units are found, or nothing changes
LEMMA FfitFits ==
  ASSUME NEW h, NEW F, NEW A, NEW X, Fits(h, F, A, X, {}), NEW n \in Nat \ {0},
         NEW r \in {ospd} \cup Addr, NEW rb, Lends(h, rb)
  PROVE  \/ /\ ffit(h, n, rb, r) = [md |-> NULL, heap |-> h]
            /\ (\A j \in 1..Len(F) : h.length[F[j]] < n) \/ mgetmd(h, rb).md = NULL
         \/ Given(h, A, X, n, r, ffit(h, n, rb, r))
  <1>1. /\ h \in Heaps /\ F \in Seq(MD) /\ Pool(h, All(F, A, X)) /\ All(F, A, X) \in SUBSET MD
    BY FitsLists
  <1>2. ASSUME NEW j \in 1..Len(F), h.length[F[j]] >= n,
               ffit(h, n, rb, r) = TakeFrom(h, Into(MFL, F, j), F[j], n, rb, r)
        PROVE  \/ /\ ffit(h, n, rb, r) = [md |-> NULL, heap |-> h]
                  /\ mgetmd(h, rb).md = NULL
               \/ Given(h, A, X, n, r, ffit(h, n, rb, r))
    <2>1. CASE h.length[F[j]] = n
      BY <1>2, <2>1, TakeExact
    <2>2. CASE h.length[F[j]] # n
      <3>1. n < h.length[F[j]]
        <4>1. h.length[F[j]] \in Nat
          BY <1>1, HeapNumbers
        <4> QED
          BY <1>2, <2>2, <4>1
      <3> PICK got : got = mgetmd(h, rb)
        OBVIOUS
      <3>2. CASE got.md = NULL
        <4>1. got = [md |-> NULL, heap |-> h]
          BY <1>1, <3>2, MgetmdFails
        <4>2. ffit(h, n, rb, r) = got
          BY <1>2, <2>2, <3>2 DEF TakeFrom
        <4> QED
          BY <3>2, <4>1, <4>2
      <3>3. CASE got.md # NULL
        <4>1. Fresh(h, All(F, A, X), got.heap, got.md)
          BY <1>1, <3>3, MgetmdFresh
        <4>2. ffit(h, n, rb, r) = Allocate(Split(got.heap, Into(MFL, F, j), F[j], got.md, n),
                                           Into(MFL, F, j), F[j], r)
          BY <1>2, <2>2, <3>3 DEF TakeFrom
        <4>3. Given(h, A, X, n, r, Allocate(Split(got.heap, Into(MFL, F, j), F[j], got.md, n),
                                           Into(MFL, F, j), F[j], r))
          BY <3>1, <4>1, TakeSplit
        <4> QED
          BY <4>2, <4>3
      <3> QED
        BY <3>2, <3>3
    <2> QED
      BY <2>1, <2>2
  <1> QED
    BY <1>2, FirstFitIs

-----------------------------------------------------------------------------
LEMMA LargestIs ==
  ASSUME NEW h, NEW F, NEW A, NEW X, Fits(h, F, A, X, {})
  PROVE  /\ largest(h) \in 0..Size
         /\ \A j \in 1..Len(F) : h.length[F[j]] <= largest(h)
         /\ largest(h) > 0 => \E j \in 1..Len(F) : h.length[F[j]] = largest(h)
         /\ largest(h) = Highest({0} \cup {h.length[m] : m \in Elements(F)})
  <1>1. F \in Seq(MD) /\ h \in Heaps
    BY FitsLists
  <1> PICK s : s = Order(h)
    OBVIOUS
  <1>2. /\ s \in Seq(MD)
        /\ \A i \in 1..Len(s) : \E j \in 1..Len(F) : s[i] = F[j]
        /\ \A j \in 1..Len(F) : \E i \in 1..Len(s) : s[i] = F[j]
    <2>1. Searched(h, F, s)
      BY OrderIs
    <2> QED
      BY <2>1 DEF Searched
  <1>3. Elements(s) = Elements(F)
    <2>1. \A x : x \in Elements(s) <=> \E i \in 1..Len(s) : s[i] = x
      BY <1>2, InElements
    <2>2. \A x : x \in Elements(F) <=> \E i \in 1..Len(F) : F[i] = x
      BY <1>1, InElements
    <2>3. \A x : x \in Elements(s) => x \in Elements(F)
      BY <1>2, <2>1, <2>2
    <2>4. \A x : x \in Elements(F) => x \in Elements(s)
      BY <1>2, <2>1, <2>2
    <2> QED
      BY <2>3, <2>4
  <1> DEFINE S == {0} \cup {h.length[m] : m \in Elements(F)}
  <1>4. largest(h) = Highest(S)
    BY <1>3 DEF largest
  <1>5. S \in SUBSET (0..Size) /\ S # {} /\ Size \in Nat
    <2>1. \A m \in Elements(F) : m \in MD
      BY <1>1 DEF Elements
    <2>2. \A m \in MD : h.length[m] \in 0..Size
      BY <1>1, HeapNumbers
    <2>3. 0 \in 0..Size /\ Size \in Nat
      BY Descriptor
    <2> QED
      BY <2>1, <2>2, <2>3
  <1>6. \A x : x \in S <=> x = 0 \/ \E j \in 1..Len(F) : h.length[F[j]] = x
    BY <1>1, InElements
  <1> HIDE DEF S
  <1>7. Highest(S) \in S /\ \A x \in S : Highest(S) >= x
    BY <1>5, HighestIs
  <1>8. \A j \in 1..Len(F) : h.length[F[j]] \in S
    BY <1>6
  <1>9. \A j \in 1..Len(F) : h.length[F[j]] <= largest(h)
    BY <1>4, <1>5, <1>7, <1>8
  <1>10. largest(h) > 0 => \E j \in 1..Len(F) : h.length[F[j]] = largest(h)
    BY <1>4, <1>6, <1>7
  <1> QED
    BY <1>4, <1>5, <1>7, <1>9, <1>10 DEF S

\* all that there is in one block can be had
LEMMA FfitLargest ==
  ASSUME NEW h, NEW F, NEW A, NEW X, Fits(h, F, A, X, {}), largest(h) > 0,
         NEW r \in {ospd} \cup Addr
  PROVE  Given(h, A, X, largest(h), r, ffit(h, largest(h), NULL, r))
  <1> PICK n : n = largest(h)
    OBVIOUS
  <1>1. /\ n \in Nat /\ n > 0 /\ \A j \in 1..Len(F) : h.length[F[j]] <= n
        /\ \E j \in 1..Len(F) : h.length[F[j]] = n
    <2>1. /\ largest(h) \in 0..Size
          /\ \A j \in 1..Len(F) : h.length[F[j]] <= largest(h)
          /\ largest(h) > 0 => \E j \in 1..Len(F) : h.length[F[j]] = largest(h)
      BY LargestIs
    <2> QED
      BY <2>1, Descriptor
  <1>2. \A j \in 1..Len(F) : h.length[F[j]] \in Nat
    <2>1. F \in Seq(MD) /\ h \in Heaps
      BY FitsLists
    <2> QED
      BY <2>1, HeapNumbers
  <1>3. ASSUME NEW j \in 1..Len(F), h.length[F[j]] >= n,
               ffit(h, n, NULL, r) = TakeFrom(h, Into(MFL, F, j), F[j], n, NULL, r)
        PROVE  Given(h, A, X, n, r, ffit(h, n, NULL, r))
    <2>1. h.length[F[j]] = n
      BY <1>1, <1>2, <1>3
    <2> QED
      BY <1>3, <2>1, TakeExact
  <1>4. ~ \A j \in 1..Len(F) : h.length[F[j]] < n
    BY <1>1
  <1>5. Given(h, A, X, n, r, ffit(h, n, NULL, r))
    <2>1. \E j \in 1..Len(F) : /\ h.length[F[j]] >= n
                               /\ ffit(h, n, NULL, r) = TakeFrom(h, Into(MFL, F, j), F[j], n, NULL, r)
      BY <1>1, <1>4, FirstFitIs
    <2> QED
      BY <1>3, <2>1
  <1> QED
    BY <1>5

-----------------------------------------------------------------------------
(* Blocks that are shrunk, freed, or change hands.                          *)

\* the lists are sound
Sound(g, A, X) == \E G : Fits(g, G, A, X, {})
\* the blocks of S are where they were, and whose they were
Same(h, g, S) == \A x \in S : g.start[x] = h.start[x] /\ g.own[x] = h.own[x]

\* m is the block of A at a, if there is one
Found(h, A, a, m) ==
  \/ m = NULL /\ \A x \in Elements(A) : h.start[x] # a
  \/ m # NULL /\ m \in Elements(A) /\ m \in MD /\ h.start[m] = a

LEMMA FindIs ==
  ASSUME NEW h, NEW A \in Seq(MD), NEW a, NEW m, m = FindIn(h, A, a)
  PROVE  Found(h, A, a, m)
  <1> DEFINE at == {i \in DOMAIN A : h.start[A[i]] = a}
  <1>1. DOMAIN A = 1..Len(A) /\ at \in SUBSET Nat /\ \A i \in 1..Len(A) : A[i] \in MD
    OBVIOUS
  <1>2. CASE at = {}
    <2>1. m = NULL
      BY <1>2 DEF FindIn
    <2>2. \A i \in DOMAIN A : h.start[A[i]] # a
      BY <1>2
    <2> QED
      BY <2>1, <2>2 DEF Elements, Found
  <1>3. CASE at # {}
    <2>1. m = A[Lowest(at)]
      BY <1>3 DEF FindIn
    <2>2. Lowest(at) \in at
      <3> HIDE DEF at
      <3> QED
        BY <1>1, <1>3, LowestIs
    <2>3. Lowest(at) \in 1..Len(A) /\ h.start[A[Lowest(at)]] = a
      BY <1>1, <2>2
    <2> HIDE DEF at
    <2> QED
      BY <1>1, <2>1, <2>3, InElements, Descriptor DEF Found
  <1> QED
    BY <1>2, <1>3

LEMMA XsetblkFits ==
  ASSUME NEW h, NEW F, NEW A, NEW X, Fits(h, F, A, X, {}), NEW a, NEW n \in Nat \ {0},
         NEW rb, Lends(h, rb), NEW g, g = xsetblk(h, a, n, rb)
  PROVE  Sound(g, A, X) /\ Same(h, g, Elements(A) \cup X)
  <1>1. /\ h \in Heaps /\ Allocated(h) = A /\ A \in Seq(MD) /\ X \subseteq MD
        /\ Pool(h, All(F, A, X)) /\ All(F, A, X) \in SUBSET MD
    BY FitsLists
  <1> PICK p : p = FindIn(h, A, a)
    OBVIOUS
  <1>2. g = ShrinkTo(h, p, n, rb)
    BY <1>1 DEF xsetblk, Find
  <1>3. ASSUME g = h
        PROVE  Sound(g, A, X) /\ Same(h, g, Elements(A) \cup X)
    BY <1>3 DEF Sound, Same
  <1>4. CASE p = NULL \/ h.length[p] <= n
    BY <1>2, <1>3, <1>4 DEF ShrinkTo
  <1>5. CASE p # NULL /\ ~(h.length[p] <= n)
    <2>1. p \in Elements(A) /\ p \in MD
      BY <1>1, <1>5, FindIs DEF Found
    <2>2. n < h.length[p]
      BY <1>1, <1>5, <2>1, HeapNumbers
    <2> PICK got : got = mgetmd(h, rb)
      OBVIOUS
    <2>3. CASE got.md = NULL
      BY <1>2, <1>3, <1>5, <2>3 DEF ShrinkTo
    <2>4. CASE got.md # NULL
      <3> PICK k, m : k = got.heap /\ m = got.md
        OBVIOUS
      <3>1. Fresh(h, All(F, A, X), k, m)
        BY <1>1, <2>4, MgetmdFresh
      <3> PICK y : y = Halved(k, p, m, n)
        OBVIOUS
      <3>2. g = freeit(y, m)
        BY <1>2, <1>5, <2>4 DEF ShrinkTo, Cut, Halved
      <3>3. Halves(h, y, F, A, X, p, n, m)
        <4>1. p \in Elements(F) \cup Elements(A)
          BY <2>1
        <4> QED
          BY <2>2, <3>1, <4>1, HalvedFits
      <3>4. /\ Fits(y, F, A, X \cup {m}, {}) /\ m \notin All(F, A, X)
            /\ \A x \in All(F, A, X) : y.start[x] = h.start[x] /\ y.own[x] = h.own[x]
        BY <3>3 DEF Halves
      <3>5. Settled(y, g, A, (X \cup {m}) \ {m})
        <4>1. m \in X \cup {m}
          OBVIOUS
        <4> QED
          BY <3>2, <3>4, <4>1, FreeitFits
      <3>6. (X \cup {m}) \ {m} = X
        BY <3>4 DEF All
      <3>7. PICK G : Fits(g, G, A, X, {}) /\ Kept(y, g, Elements(A) \cup X)
        BY <3>5, <3>6 DEF Settled
      <3>8. Same(h, g, Elements(A) \cup X)
        BY <3>4, <3>7 DEF Same, Kept, All
      <3> QED
        BY <3>7, <3>8 DEF Sound
    <2> QED
      BY <2>3, <2>4
  <1> QED
    BY <1>4, <1>5

\* a block leaves the allocated list
LEMMA OffFits ==
  ASSUME NEW h, NEW F, NEW A, NEW X, Fits(h, F, A, X, {}), NEW i \in 1..Len(A),
         NEW g, g = [h EXCEPT !.link[Into(MAL, A, i)] = h.link[A[i]]]
  PROVE  /\ Fits(g, F, Removed(A, i), X \cup {A[i]}, {})
         /\ Kept(h, g, MD)
         /\ g.link[Into(MAL, A, i)] = h.link[A[i]]
  <1>1. /\ h \in Heaps /\ ~h.halted /\ F \in Seq(MD) /\ A \in Seq(MD) /\ X \subseteq MD
        /\ Distinct(F) /\ Distinct(A)
        /\ Elements(F) \cap Elements(A) = {} /\ X \cap (Elements(F) \cup Elements(A)) = {}
        /\ Follows(h, MFL, F) /\ Follows(h, MAL, A)
        /\ (IF F = <<>> THEN h.rover = NULL ELSE h.rover \in Elements(F))
        /\ Ordered(h, F, {}) /\ Tiled(h, All(F, A, X)) /\ Pool(h, All(F, A, X))
        /\ All(F, A, X) \in SUBSET MD
    BY FitsLists
  <1> PICK m : m = A[i]
    OBVIOUS
  <1> PICK p : p = Into(MAL, A, i)
    OBVIOUS
  <1> PICK B : B = Removed(A, i)
    OBVIOUS
  <1>2. /\ Len(A) \in Nat /\ m \in MD /\ m \in Elements(A)
        /\ \A j \in 1..Len(A) : A[j] \in MD /\ A[j] \in Elements(A)
    BY <1>1 DEF Elements
  <1>3. p \in MD \cup {MFL, MAL} /\ p # m /\ p # MFL /\ p \in Elements(A) \cup {MAL}
    <2>1. CASE i = 1
      BY <1>2, <2>1, Descriptor DEF Into
    <2>2. CASE i > 1
      <3>1. i - 1 \in 1..Len(A) /\ i - 1 # i
        BY <1>2, <2>2
      <3>2. p = A[i - 1]
        BY <2>2 DEF Into
      <3>3. A[i - 1] # A[i]
        BY <1>1, <1>2, <3>1 DEF Distinct
      <3> QED
        BY <1>2, <3>1, <3>2, <3>3, Descriptor
    <2>3. i = 1 \/ i > 1
      OBVIOUS
    <2> QED
      BY <2>1, <2>2, <2>3
  <1>4. /\ g \in Heaps /\ g.halted = h.halted /\ g.start = h.start /\ g.length = h.length
        /\ g.own = h.own /\ g.x_flag = h.x_flag /\ g.rover = h.rover
        /\ g.link[p] = h.link[m]
        /\ \A x \in MD \cup {MFL, MAL} : x # p => g.link[x] = h.link[x]
    BY <1>1, <1>2, <1>3 DEF Heaps
  <1>5. /\ B \in Seq(MD) /\ Distinct(B) /\ Elements(B) = Elements(A) \ {m}
    <2>1. Removed(A, i) \in Seq(MD) /\ Distinct(Removed(A, i))
          /\ Elements(Removed(A, i)) = Elements(A) \ {A[i]}
      BY <1>1, RemovedIs
    <2> QED
      BY <2>1
  <1>6. MFL \notin MD /\ MAL \notin MD /\ MFL # MAL /\ Elements(A) \subseteq MD /\ Elements(F) \subseteq MD
    <2>1. \A s \in Seq(MD) : Elements(s) \subseteq MD
      BY DEF Elements
    <2> QED
      BY <1>1, <2>1, Descriptor
  <1>7. Follows(g, MFL, F)
    <2>1. \A x \in Elements(F) \cup {MFL} : g.link[x] = h.link[x]
      <3>1. \A x \in Elements(F) \cup {MFL} : x \in MD \cup {MFL, MAL} /\ x # p
        <4>1. p \notin Elements(F)
          BY <1>1, <1>3, <1>6
        <4> QED
          BY <1>3, <1>6, <4>1
      <3> QED
        BY <1>4, <3>1
    <2>2. /\ h \in Heaps /\ g \in Heaps /\ F \in Seq(MD) /\ Follows(h, MFL, F) /\ MFL \in {MFL, MAL}
      BY <1>1, <1>4
    <2> QED
      BY ONLY <2>1, <2>2, FollowsOther
  <1>8. Follows(g, MAL, B)
    <2>1. g.link[Into(MAL, A, i)] = After(A, i)
      BY <1>1, <1>2, <1>4 DEF Follows
    <2>2. \A x \in Elements(A) \cup {MAL} : x # Into(MAL, A, i) /\ x # A[i] => g.link[x] = h.link[x]
      BY <1>4, <1>6
    <2>3. Follows(g, MAL, Removed(A, i))
      <3> HIDE DEF Into
      <3>1. h \in Heaps /\ g \in Heaps /\ A \in Seq(MD) /\ Distinct(A) /\ Follows(h, MAL, A)
            /\ i \in 1..Len(A) /\ MAL \in {MFL, MAL}
        BY <1>1, <1>4
      <3> QED
        BY ONLY <3>1, <2>1, <2>2, FollowsRemoved
    <2> QED
      BY <2>3
  <1>9. Lists(g, F, B, X \cup {m})
    BY <1>1, <1>2, <1>4, <1>5, <1>7, <1>8 DEF Lists
  <1>10. All(F, B, X \cup {m}) = All(F, A, X)
    BY <1>2, <1>5 DEF All
  <1>11. Tiled(g, All(F, A, X)) /\ Pool(g, All(F, A, X)) /\ Ordered(g, F, {})
    <2>1. Tiled(g, All(F, A, X))
      BY <1>1, <1>4, TiledSame
    <2>2. Pool(g, All(F, A, X))
      BY <1>1, <1>4 DEF Pool
    <2>3. Ordered(g, F, {})
      BY <1>1, <1>4 DEF Ordered, End
    <2> QED
      BY <2>1, <2>2, <2>3
  <1>12. Fits(g, F, B, X \cup {m}, {})
    BY <1>1, <1>4, <1>9, <1>10, <1>11 DEF Fits
  <1>13. Kept(h, g, MD)
    BY <1>4 DEF Kept
  <1> QED
    BY <1>4, <1>12, <1>13

-----------------------------------------------------------------------------
\* g is h without the allocated blocks of S, and with those of X aside
Left(h, g, A, X, S) ==
  \E B : /\ B \in Seq(MD) /\ Elements(B) = Elements(A) \ S
         /\ Sound(g, B, X)
         /\ Same(h, g, Elements(B) \cup X)

LEMMA ReleaseFits ==
  ASSUME NEW h, NEW F, NEW A, NEW X, Fits(h, F, A, X, {}), NEW m \in Elements(A),
         NEW g, g = Release(h, A, m)
  PROVE  Left(h, g, A, X, {m})
  <1>1. /\ A \in Seq(MD) /\ X \subseteq MD /\ X \cap Elements(A) = {}
        /\ Elements(A) \subseteq MD /\ Distinct(A)
    <2>1. \A s \in Seq(MD) : Elements(s) \subseteq MD
      BY DEF Elements
    <2> QED
      BY <2>1, FitsLists
  <1> DEFINE S == {j \in DOMAIN A : A[j] = m}
  <1>2. Lowest(S) \in S
    <2>1. S \in SUBSET Nat /\ S # {}
      BY <1>1 DEF Elements
    <2> HIDE DEF S
    <2> QED
      BY <2>1, LowestIs
  <1> PICK i : i = Lowest(S)
    OBVIOUS
  <1>3. i \in 1..Len(A) /\ A[i] = m
    <2>1. DOMAIN A = 1..Len(A)
      BY <1>1
    <2> QED
      BY <1>2, <2>1
  <1> HIDE DEF S
  <1> PICK o : o = [h EXCEPT !.link[Into(MAL, A, i)] = h.link[m]]
    OBVIOUS
  <1>4. g = freeit(o, m)
    BY DEF Release, Into, S
  <1>5. Fits(o, F, Removed(A, i), X \cup {A[i]}, {}) /\ Kept(h, o, MD)
    BY <1>3, OffFits
  <1>6. /\ Removed(A, i) \in Seq(MD) /\ Elements(Removed(A, i)) = Elements(A) \ {m}
    BY <1>1, <1>3, RemovedIs
  <1>7. Settled(o, g, Removed(A, i), (X \cup {m}) \ {m})
    <2>1. m \in X \cup {m} /\ Fits(o, F, Removed(A, i), X \cup {m}, {})
      BY <1>3, <1>5
    <2> QED
      BY <1>4, <2>1, FreeitFits
  <1>8. (X \cup {m}) \ {m} = X
    BY <1>1
  <1>9. PICK G : Fits(g, G, Removed(A, i), X, {}) /\ Kept(o, g, Elements(Removed(A, i)) \cup X)
    BY <1>7, <1>8 DEF Settled
  <1>10. Same(h, g, Elements(Removed(A, i)) \cup X)
    BY <1>1, <1>5, <1>6, <1>9 DEF Same, Kept
  <1> QED
    BY <1>6, <1>9, <1>10 DEF Left, Sound

\* an allocated block gets another owner
Owned(h, g, F, A, X, m, r) ==
  /\ Fits(g, F, A, X, {}) /\ g.start = h.start /\ g.length = h.length
  /\ g.own[m] = r /\ \A x \in MD : x # m => g.own[x] = h.own[x]

LEMMA OwnerFits ==
  ASSUME NEW h, NEW F, NEW A, NEW X, Fits(h, F, A, X, {}), NEW m \in Elements(A),
         NEW r \in {ospd} \cup Addr, NEW g, g = [h EXCEPT !.own[m] = r]
  PROVE  Owned(h, g, F, A, X, m, r)
  <1>1. /\ h \in Heaps /\ ~h.halted /\ Lists(h, F, A, X) /\ Ordered(h, F, {})
        /\ Tiled(h, All(F, A, X)) /\ Pool(h, All(F, A, X)) /\ A \in Seq(MD)
        /\ Allocated(h) = A /\ F \in Seq(MD) /\ X \subseteq MD
    BY FitsLists DEF Fits
  <1>2. m \in MD
    BY <1>1 DEF Elements
  <1>3. /\ g \in Heaps /\ g.halted = h.halted /\ g.start = h.start /\ g.length = h.length
        /\ g.link = h.link /\ g.x_flag = h.x_flag /\ g.rover = h.rover
        /\ g.own[m] = r /\ \A x \in MD : x # m => g.own[x] = h.own[x]
    <2> PICK O : O = [h.own EXCEPT ![m] = r]
      OBVIOUS
    <2>1. h.own \in [MD -> {MF_FREE, NOBODY, ospd} \cup Addr]
      BY <1>1 DEF Heaps
    <2>2. /\ O \in [MD -> {MF_FREE, NOBODY, ospd} \cup Addr]
          /\ O[m] = r /\ \A x \in MD : x # m => O[x] = h.own[x]
      BY <1>2, <2>1
    <2>3. g = [h EXCEPT !.own = O]
      OBVIOUS
    <2>4. /\ g \in Heaps /\ g.halted = h.halted /\ g.start = h.start /\ g.length = h.length
          /\ g.link = h.link /\ g.x_flag = h.x_flag /\ g.rover = h.rover /\ g.own = O
      BY <1>1, <2>2, <2>3 DEF Heaps
    <2> QED
      BY <2>2, <2>4
  <1>4. Lists(g, F, A, X)
    <2>1. \A c, s : Follows(h, c, s) <=> Follows(g, c, s)
      BY <1>3 DEF Follows
    <2> QED
      BY <1>1, <1>3, <2>1 DEF Lists
  <1>5. Tiled(g, All(F, A, X))
    BY <1>1, <1>3, TiledSame
  <1>6. Ordered(g, F, {})
    BY <1>1, <1>3 DEF Ordered, End
  <1>7. Pool(g, All(F, A, X))
    <2>1. r # MF_FREE /\ m \in All(F, A, X)
      BY <1>1, Descriptor DEF ospd, MF_FREE, All
    <2> SUFFICES ASSUME NEW x \in MD \ {themd}
                 PROVE  IF g.x_flag[Block(x)] = 1 THEN g.own[x] = MF_FREE <=> x \notin All(F, A, X)
                                                  ELSE x \notin All(F, A, X)
      BY DEF Pool
    <2>2. IF h.x_flag[Block(x)] = 1 THEN h.own[x] = MF_FREE <=> x \notin All(F, A, X)
                                    ELSE x \notin All(F, A, X)
      BY <1>1 DEF Pool
    <2> QED
      BY <1>3, <2>1, <2>2
  <1>8. Fits(g, F, A, X, {})
    BY <1>1, <1>3, <1>4, <1>5, <1>6, <1>7 DEF Fits
  <1> QED
    BY <1>3, <1>8 DEF Owned

LEMMA SetOwnerFits ==
  ASSUME NEW h, NEW F, NEW A, NEW X, Fits(h, F, A, X, {}), NEW a, NEW r \in {ospd} \cup Addr,
         NEW g, g = xmsetown(h, a, r)
  PROVE  /\ Fits(g, F, A, X, {}) /\ g.start = h.start /\ g.length = h.length
         /\ \A x \in MD : g.own[x] = IF x = FindIn(h, A, a) THEN r ELSE h.own[x]
  <1>1. /\ h \in Heaps /\ ~h.halted /\ Lists(h, F, A, X) /\ Ordered(h, F, {})
        /\ Tiled(h, All(F, A, X)) /\ Pool(h, All(F, A, X)) /\ A \in Seq(MD)
        /\ Allocated(h) = A /\ F \in Seq(MD) /\ X \subseteq MD
    BY FitsLists DEF Fits
  <1> PICK m : m = FindIn(h, A, a)
    OBVIOUS
  <1>2. g = SetOwner(h, m, r)
    BY <1>1 DEF xmsetown, Find
  <1>3. CASE m = NULL
    <2>1. g = h
      BY <1>2, <1>3 DEF SetOwner
    <2> QED
      BY <1>3, <2>1, Descriptor
  <1>4. CASE m # NULL
    <2>1. m \in Elements(A) /\ m \in MD
      BY <1>1, <1>4, FindIs DEF Found
    <2>2. g = [h EXCEPT !.own[m] = r]
      BY <1>2, <1>4 DEF SetOwner
    <2>3. /\ Fits(g, F, A, X, {}) /\ g.start = h.start /\ g.length = h.length
          /\ g.own[m] = r /\ \A x \in MD : x # m => g.own[x] = h.own[x]
      <3>1. Owned(h, g, F, A, X, m, r)
        BY <2>1, <2>2, OwnerFits
      <3> QED
        BY <3>1 DEF Owned
    <2> QED
      BY <2>3
  <1> QED
    BY <1>3, <1>4

-----------------------------------------------------------------------------
(* The loops over the allocated list.                                       *)

Turns(h, r, give, f) ==
  f = [n \in 0..(2 * themd) |->
         IF n = 0 THEN [heap |-> h, q |-> MAL] ELSE Turn(f[n - 1], r, give)]

\* the loop is a function
LEMMA TurnsExist ==
  ASSUME NEW h, NEW r, NEW give
  PROVE  \E f : Turns(h, r, give, f)
  <1> DEFINE N == 2 * themd
             T(at) == Turn(at, r, give)
             a == [heap |-> h, q |-> MAL]
             Upto(n, f) == f = [k \in 0..n |-> IF k = 0 THEN a ELSE T(f[k - 1])]
             Out == {n \in 0..N : ~ \E f : Upto(n, f)}
  <1>1. N \in Nat
    BY Descriptor
  <1> HIDE DEF N, T, a
  <1>2. Out = {}
    <2> SUFFICES ASSUME Out # {} PROVE FALSE
      OBVIOUS
    <2>1. PICK n \in Out : \A m \in Out : n <= m
      <3>1. Out \in SUBSET Nat
        OBVIOUS
      <3> HIDE DEF Out
      <3> QED
        BY <3>1, HasLeast
    <2>2. n \in 0..N /\ ~ \E f : Upto(n, f)
      BY <2>1
    <2>3. CASE n = 0
      <3> DEFINE g == [k \in 0..0 |-> a]
      <3>1. g = [k \in 0..0 |-> IF k = 0 THEN a ELSE T(g[k - 1])]
        OBVIOUS
      <3>2. Upto(0, g)
        BY <3>1
      <3> QED
        BY <2>2, <2>3, <3>2
    <2>4. CASE n > 0
      <3>1. n - 1 \in 0..N /\ ~(n <= n - 1)
        BY <1>1, <2>2, <2>4
      <3>2. n - 1 \notin Out
        <4> HIDE DEF Out
        <4> QED
          BY <2>1, <3>1
      <3>3. PICK f : Upto(n - 1, f)
        BY <3>1, <3>2
      <3>4. \A k \in 0..n - 1 : f[k] = IF k = 0 THEN a ELSE T(f[k - 1])
        BY <3>3
      <3> DEFINE g == [k \in 0..n |-> IF k < n THEN f[k] ELSE T(f[n - 1])]
      <3>5. \A k \in 0..n : g[k] = IF k = 0 THEN a ELSE T(g[k - 1])
        <4> TAKE k \in 0..n
        <4>1. CASE k = 0
          <5>1. g[0] = f[0] /\ 0 \in 0..n - 1
            BY <2>2, <2>4
          <5> QED
            BY <3>4, <4>1, <5>1
        <4>2. CASE k > 0 /\ k < n
          <5>1. g[k] = f[k] /\ g[k - 1] = f[k - 1] /\ k \in 0..n - 1
            BY <2>2, <4>2
          <5> HIDE DEF g
          <5> QED
            BY <3>4, <4>2, <5>1
        <4>3. CASE k = n
          <5>1. g[k] = T(f[n - 1]) /\ g[k - 1] = f[n - 1]
            BY <2>2, <2>4, <4>3
          <5> HIDE DEF g
          <5> QED
            BY <2>4, <4>3, <5>1
        <4> QED
          BY <2>2, <4>1, <4>2, <4>3
      <3>6. g = [k \in 0..n |-> IF k = 0 THEN a ELSE T(g[k - 1])]
        <4>1. g = [k \in 0..n |-> g[k]]
          OBVIOUS
        <4> HIDE DEF g
        <4> QED
          BY <3>5, <4>1
      <3> QED
        BY <2>2, <3>6
    <2> QED
      BY <2>2, <2>3, <2>4
  <1> HIDE DEF Upto
  <1>3. \E f : Upto(N, f)
    BY <1>1, <1>2
  <1> USE DEF Upto
  <1>4. PICK f : Upto(N, f)
    BY <1>3
  <1>5. f = [n \in 0..N |-> IF n = 0 THEN a ELSE T(f[n - 1])]
    BY <1>4
  <1>6. Turns(h, r, give, f)
    BY <1>5 DEF Turns, N, T, a
  <1> QED
    BY <1>6

-----------------------------------------------------------------------------
\* the blocks that have left the list, if they are not freed
Aside(give, A, B, X) == IF give THEN X ELSE X \cup (Elements(A) \ Elements(B))

\* after n turns: B is what is left of A, and its first i - 1 are not r's
Stage(h, A, X, r, give, n, at, B, i) ==
  /\ B \in Seq(MD) /\ i \in 1..Len(B) + 1
  /\ at = [heap |-> at.heap, q |-> Into(MAL, B, i)]
  /\ Elements(B) \subseteq Elements(A)
  /\ \A x \in Elements(A) : h.own[x] # r => x \in Elements(B)
  /\ \A j \in 1..i - 1 : h.own[B[j]] # r
  /\ Sound(at.heap, B, Aside(give, A, B, X))
  /\ Same(h, at.heap, Elements(B) \cup Aside(give, A, B, X))
  /\ i = Len(B) + 1 \/ Len(B) + 1 - i + n <= Len(A)

Going(h, A, X, r, give, n, at) == \E B, i : Stage(h, A, X, r, give, n, at, B, i)

LEMMA TurnGoes ==
  ASSUME NEW h, NEW A \in Seq(MD), NEW X, X \cap Elements(A) = {}, NEW r, NEW give \in BOOLEAN,
         NEW n \in Nat, NEW at, Going(h, A, X, r, give, n, at), NEW bt, bt = Turn(at, r, give)
  PROVE  Going(h, A, X, r, give, n + 1, bt)
  <1>a. PICK B, i : Stage(h, A, X, r, give, n, at, B, i)
    BY DEF Going
  <1>0. /\ B \in Seq(MD) /\ i \in 1..Len(B) + 1
        /\ at = [heap |-> at.heap, q |-> Into(MAL, B, i)]
        /\ Elements(B) \subseteq Elements(A)
        /\ \A x \in Elements(A) : h.own[x] # r => x \in Elements(B)
        /\ \A j \in 1..i - 1 : h.own[B[j]] # r
        /\ Sound(at.heap, B, Aside(give, A, B, X))
        /\ Same(h, at.heap, Elements(B) \cup Aside(give, A, B, X))
        /\ i = Len(B) + 1 \/ Len(B) + 1 - i + n <= Len(A)
    BY <1>a DEF Stage
  <1> PICK g, q : g = at.heap /\ q = Into(MAL, B, i)
    OBVIOUS
  <1> PICK Y : Y = Aside(give, A, B, X)
    OBVIOUS
  <1>1. PICK F : Fits(g, F, B, Y, {})
    BY <1>0 DEF Sound
  <1>2. /\ ~g.halted /\ Distinct(B) /\ Follows(g, MAL, B) /\ Y \cap Elements(B) = {} /\ Y \subseteq MD
        /\ g \in Heaps
    BY <1>1, FitsLists
  <1>3. /\ i \in 1..Len(B) + 1 /\ Len(B) \in Nat /\ Len(A) \in Nat /\ \A j \in 1..Len(B) : B[j] \in MD /\ B[j] \in Elements(B)
        /\ \A x \in Elements(B) : x \in MD
    BY <1>0 DEF Elements
  <1>4. at.q = q /\ at.heap = g /\ at = [heap |-> g, q |-> q]
    BY <1>0
  <1>5. g.link[q] = IF i = Len(B) + 1 THEN NULL ELSE B[i]
    <2>1. CASE i = 1
      <3>1. g.link[q] = After(B, 0)
        BY <1>2, <2>1 DEF Follows, Into
      <3> QED
        BY <1>3, <2>1, <3>1 DEF After
    <2>2. CASE i > 1
      <3>1. q = B[i - 1] /\ i - 1 \in 1..Len(B) /\ DOMAIN B = 1..Len(B)
        BY <1>3, <2>2 DEF Into
      <3>2. g.link[q] = After(B, i - 1)
        BY <1>2, <3>1 DEF Follows
      <3>3. i - 1 + 1 = i
        BY <1>3
      <3> QED
        BY <1>3, <2>2, <3>1, <3>2, <3>3 DEF After
    <2>3. i = 1 \/ i > 1
      BY <1>3
    <2> QED
      BY <2>1, <2>2, <2>3
  <1>6. CASE i = Len(B) + 1
    <2>1. g.link[q] = NULL
      BY <1>5, <1>6
    <2>2. bt = at
      BY <1>4, <2>1 DEF Turn
    <2>3. Stage(h, A, X, r, give, n + 1, bt, B, i)
      BY <1>0, <1>6, <2>2 DEF Stage
    <2> QED
      BY <2>3 DEF Going
  <1>7. ASSUME i # Len(B) + 1
        PROVE  /\ i \in 1..Len(B) /\ B[i] \in MD /\ B[i] \in Elements(B) /\ B[i] # NULL
               /\ g.link[q] = B[i]
               /\ Len(B) + 1 - i + n <= Len(A)
               /\ g.own[B[i]] = h.own[B[i]]
    <2>1. i \in 1..Len(B)
      BY ONLY <1>3, <1>7
    <2>2. B[i] \in MD /\ B[i] \in Elements(B) /\ B[i] # NULL
      BY <1>3, <2>1, Descriptor
    <2>3. g.own[B[i]] = h.own[B[i]]
      BY <1>0, <2>2 DEF Same
    <2> QED
      BY <1>0, <1>5, <1>7, <2>1, <2>2, <2>3
  <1>8. CASE i # Len(B) + 1 /\ g.own[B[i]] # r
    <2>1. bt = [heap |-> g, q |-> B[i]]
      BY <1>2, <1>4, <1>7, <1>8 DEF Turn
    <2> PICK k : k = i + 1
      OBVIOUS
    <2>2. k \in 1..Len(B) + 1 /\ Into(MAL, B, k) = B[i]
      <3>1. k \in 1..Len(B) + 1 /\ k # 1 /\ k - 1 = i
        <4>1. i \in 1..Len(B) /\ Len(B) \in Nat
          BY <1>3, <1>7, <1>8
        <4> QED
          BY ONLY <4>1, k = i + 1
      <3> QED
        BY <3>1 DEF Into
    <2>3. \A j \in 1..k - 1 : h.own[B[j]] # r
      <3> TAKE j \in 1..k - 1
      <3>1. j \in 1..i - 1 \/ j = i
        BY <1>3, <1>7, <1>8
      <3> QED
        BY <1>0, <1>7, <1>8, <3>1
    <2>4. Len(B) + 1 - k + (n + 1) <= Len(A)
      BY <1>3, <1>7, <1>8
    <2>5. bt = [heap |-> bt.heap, q |-> Into(MAL, B, k)] /\ bt.heap = g
      BY <2>1, <2>2
    <2>6. /\ Sound(bt.heap, B, Aside(give, A, B, X))
          /\ Same(h, bt.heap, Elements(B) \cup Aside(give, A, B, X))
      BY <1>0, <1>4, <2>5
    <2>7. Stage(h, A, X, r, give, n + 1, bt, B, k)
      <3>1. /\ B \in Seq(MD) /\ Elements(B) \subseteq Elements(A)
            /\ \A x \in Elements(A) : h.own[x] # r => x \in Elements(B)
        BY <1>0
      <3> QED
        BY ONLY <2>2, <2>3, <2>4, <2>5, <2>6, <3>1, Zenon DEF Stage
    <2> QED
      BY <2>7 DEF Going
  <1>9. CASE i # Len(B) + 1 /\ g.own[B[i]] = r
    <2> PICK m : m = B[i]
      OBVIOUS
    <2> PICK o : o = [g EXCEPT !.link[q] = g.link[m]]
      OBVIOUS
    <2> PICK D : D = Removed(B, i)
      OBVIOUS
    <2>1. /\ i \in 1..Len(B) /\ m \in MD /\ m \in Elements(B) /\ m # NULL /\ g.link[q] = m
          /\ Len(B) + 1 - i + n <= Len(A) /\ h.own[m] = r
      BY <1>7, <1>9
    <2>2. bt = [heap |-> IF give THEN freeit(o, m) ELSE o, q |-> q]
      <3>1. bt = [at EXCEPT !.heap = IF give THEN freeit(o, m) ELSE o]
        BY <1>2, <1>4, <1>9, <2>1 DEF Turn
      <3> QED
        BY <1>4, <3>1
    <2>3. Fits(o, F, D, Y \cup {m}, {}) /\ Kept(g, o, MD)
      <3>1. o = [g EXCEPT !.link[Into(MAL, B, i)] = g.link[B[i]]] /\ i \in 1..Len(B)
        BY <2>1
      <3>2. Fits(o, F, Removed(B, i), Y \cup {B[i]}, {}) /\ Kept(g, o, MD)
        BY ONLY <1>1, <3>1, OffFits
      <3> QED
        BY <3>2
    <2>4. /\ D \in Seq(MD) /\ Len(D) = Len(B) - 1 /\ Elements(D) = Elements(B) \ {m}
          /\ \A j \in 1..i - 1 : D[j] = B[j]
      <3>1. /\ Removed(B, i) \in Seq(MD) /\ Len(Removed(B, i)) = Len(B) - 1
            /\ Elements(Removed(B, i)) = Elements(B) \ {B[i]}
            /\ \A j \in 1..i - 1 : Removed(B, i)[j] = B[j]
        BY <1>0, <1>2, <2>1, RemovedIs
      <3> QED
        BY <3>1
    <2>5. i \in 1..Len(D) + 1 /\ Into(MAL, D, i) = q
      <3>1. i \in 1..Len(D) + 1
        BY <1>3, <2>1, <2>4
      <3>2. CASE i = 1
        BY <3>1, <3>2 DEF Into
      <3>3. CASE i > 1
        <4>1. i - 1 \in 1..i - 1
          BY <2>1, <3>3
        <4> QED
          BY <2>4, <3>1, <3>3, <4>1 DEF Into
      <3> QED
        BY <2>1, <3>1, <3>2, <3>3
    <2>6. Elements(D) \subseteq Elements(A) /\ \A x \in Elements(A) : h.own[x] # r => x \in Elements(D)
      BY <1>0, <2>1, <2>4
    <2>7. \A j \in 1..i - 1 : h.own[D[j]] # r
      BY <1>0, <2>4
    <2>8. Len(D) + 1 - i + (n + 1) <= Len(A)
      BY <1>3, <2>1, <2>4
    <2>9. Same(h, g, Elements(B) \cup Y)
      BY <1>0
    <2>10. CASE give
      <3>1. Aside(give, A, D, X) = X /\ Y = X
        BY <2>10 DEF Aside
      <3>2. Settled(o, bt.heap, D, (Y \cup {m}) \ {m})
        <4>1. bt.heap = freeit(o, m) /\ m \in Y \cup {m}
          BY <2>2, <2>10
        <4> QED
          BY <2>3, <4>1, FreeitFits
      <3>3. (Y \cup {m}) \ {m} = Y
        BY <1>2, <2>1
      <3>4. PICK G : Fits(bt.heap, G, D, Y, {}) /\ Kept(o, bt.heap, Elements(D) \cup Y)
        BY <3>2, <3>3 DEF Settled
      <3>5. Sound(bt.heap, D, Aside(give, A, D, X))
        BY <3>1, <3>4 DEF Sound
      <3>6. Same(h, bt.heap, Elements(D) \cup Aside(give, A, D, X))
        BY <1>2, <1>3, <2>3, <2>4, <2>9, <3>1, <3>4 DEF Same, Kept
      <3>7. bt = [heap |-> bt.heap, q |-> Into(MAL, D, i)]
        BY <2>2, <2>5
      <3>8. Stage(h, A, X, r, give, n + 1, bt, D, i)
        BY ONLY <2>4, <2>5, <2>6, <2>7, <2>8, <3>5, <3>6, <3>7, Zenon DEF Stage
      <3> QED
        BY <3>8 DEF Going
    <2>11. CASE ~give
      <3>1. Aside(give, A, D, X) = Y \cup {m}
        BY <1>0, <2>1, <2>4, <2>11 DEF Aside
      <3>2. bt.heap = o
        BY <2>2, <2>11
      <3>3. Sound(bt.heap, D, Aside(give, A, D, X))
        BY <2>3, <3>1, <3>2 DEF Sound
      <3>4. Same(h, bt.heap, Elements(D) \cup Aside(give, A, D, X))
        BY <1>2, <1>3, <2>1, <2>3, <2>4, <2>9, <3>1, <3>2 DEF Same, Kept
      <3>5. bt = [heap |-> bt.heap, q |-> Into(MAL, D, i)]
        BY <2>2, <2>5
      <3>6. Stage(h, A, X, r, give, n + 1, bt, D, i)
        BY <2>4, <2>5, <2>6, <2>7, <2>8, <3>3, <3>4, <3>5 DEF Stage
      <3> QED
        BY <3>6 DEF Going
    <2> QED
      BY <2>10, <2>11
  <1> QED
    BY <1>6, <1>8, <1>9

\* the loop over the allocated list takes all blocks of r off it
Swept(h, g, A, X, r, give) ==
  \E B : /\ B \in Seq(MD) /\ Elements(B) = {x \in Elements(A) : h.own[x] # r}
         /\ Sound(g, B, Aside(give, A, B, X))
         /\ Same(h, g, Elements(B) \cup Aside(give, A, B, X))

LEMMA SweepFits ==
  ASSUME NEW h, NEW F, NEW A, NEW X, Fits(h, F, A, X, {}), NEW r, NEW give \in BOOLEAN,
         NEW g, g = Sweep(h, r, give)
  PROVE  Swept(h, g, A, X, r, give)
  <1>1. /\ A \in Seq(MD) /\ X \cap Elements(A) = {} /\ Distinct(A)
    BY FitsLists
  <1>2. Len(A) <= themd /\ themd \in Nat /\ Len(A) \in Nat
    BY <1>1, DistinctFits, Descriptor
  <1> DEFINE N == 2 * themd
             turn == CHOOSE f : Turns(h, r, give, f)
             Bad == {n \in 0..N : ~Going(h, A, X, r, give, n, turn[n])}
  <1>3. Turns(h, r, give, turn)
    <2> HIDE DEF Turns
    <2> QED
      BY TurnsExist
  <1>4. g = Ended(turn[N])
    BY DEF Sweep, Turns
  <1> HIDE DEF turn
  <1>5. /\ turn[0] = [heap |-> h, q |-> MAL]
        /\ \A n \in 1..N : turn[n] = Turn(turn[n - 1], r, give)
    BY <1>2, <1>3 DEF Turns
  <1>6. Going(h, A, X, r, give, 0, turn[0])
    <2> PICK at : at = [heap |-> h, q |-> MAL]
      OBVIOUS
    <2>1. at = [heap |-> at.heap, q |-> Into(MAL, A, 1)] /\ at.heap = h
      BY DEF Into
    <2>2. 1 \in 1..Len(A) + 1 /\ Len(A) + 1 - 1 + 0 <= Len(A)
      BY <1>2
    <2>3. Aside(give, A, A, X) = X
      BY DEF Aside
    <2>4. Sound(at.heap, A, X) /\ Same(h, at.heap, Elements(A) \cup X)
      BY <2>1 DEF Sound, Same
    <2>5. Stage(h, A, X, r, give, 0, at, A, 1)
      <3>1. \A j \in 1..1 - 1 : h.own[A[j]] # r
        OBVIOUS
      <3> QED
        BY <1>1, <2>1, <2>2, <2>3, <2>4, <3>1 DEF Stage
    <2>6. Going(h, A, X, r, give, 0, at)
      BY <2>5 DEF Going
    <2> QED
      BY <1>5, <2>6
  <1>7. Bad = {}
    <2> SUFFICES ASSUME Bad # {} PROVE FALSE
      OBVIOUS
    <2>1. PICK n \in Bad : \A k \in Bad : n <= k
      <3>1. Bad \in SUBSET Nat
        OBVIOUS
      <3> HIDE DEF Bad
      <3> QED
        BY <3>1, HasLeast
    <2>2. n \in 0..N /\ ~Going(h, A, X, r, give, n, turn[n])
      BY <2>1
    <2>3. n \in 1..N /\ n - 1 \in 0..N /\ n - 1 \in Nat /\ n - 1 + 1 = n /\ ~(n <= n - 1)
      BY <1>2, <1>6, <2>2
    <2>4. n - 1 \notin Bad
      <3> HIDE DEF Bad
      <3> QED
        BY <2>1, <2>3
    <2>5. Going(h, A, X, r, give, n - 1, turn[n - 1])
      BY <2>3, <2>4
    <2>6. Going(h, A, X, r, give, n - 1 + 1, turn[n])
      BY <1>1, <1>5, <2>3, <2>5, TurnGoes
    <2> QED
      BY <2>2, <2>3, <2>6
  <1>8. Going(h, A, X, r, give, N, turn[N])
    BY <1>2, <1>7
  <1> PICK at : at = turn[N]
    OBVIOUS
  <1>9. PICK B, i :
       /\ B \in Seq(MD) /\ i \in 1..Len(B) + 1
       /\ at = [heap |-> at.heap, q |-> Into(MAL, B, i)]
       /\ Elements(B) \subseteq Elements(A)
       /\ \A x \in Elements(A) : h.own[x] # r => x \in Elements(B)
       /\ \A j \in 1..i - 1 : h.own[B[j]] # r
       /\ Sound(at.heap, B, Aside(give, A, B, X))
       /\ Same(h, at.heap, Elements(B) \cup Aside(give, A, B, X))
       /\ i = Len(B) + 1 \/ Len(B) + 1 - i + N <= Len(A)
    BY <1>8 DEF Going, Stage
  <1>10. i = Len(B) + 1
    <2>1. Len(B) \in Nat
      BY <1>9
    <2>2. themd > 0
      BY Descriptor
    <2> QED
      BY <1>2, <1>9, <2>1, <2>2
  <1>11. \A x \in Elements(B) : h.own[x] # r
    BY <1>9, <1>10, InElements
  <1>12. Elements(B) = {x \in Elements(A) : h.own[x] # r}
    BY <1>9, <1>11
  <1>13. at.heap.link[at.q] = NULL
    <2>1. PICK G : Fits(at.heap, G, B, Aside(give, A, B, X), {})
      BY <1>9 DEF Sound
    <2>2. Follows(at.heap, MAL, B) /\ B \in Seq(MD) /\ Len(B) \in Nat
      BY <1>9, <2>1, FitsLists
    <2>3. at.q = Into(MAL, B, Len(B) + 1)
      BY <1>9, <1>10
    <2>4. CASE Len(B) = 0
      BY <2>2, <2>3, <2>4 DEF Follows, Into, After
    <2>5. CASE Len(B) > 0
      <3>1. at.q = B[Len(B)] /\ Len(B) \in 1..Len(B) /\ DOMAIN B = 1..Len(B)
        BY <2>2, <2>3, <2>5 DEF Into
      <3> QED
        BY <2>2, <3>1 DEF Follows, After
    <2> QED
      BY <2>2, <2>4, <2>5
  <1>14. g = at.heap
    BY <1>4, <1>13 DEF Ended
  <1> QED
    BY <1>9, <1>12, <1>14 DEF Swept

-----------------------------------------------------------------------------
(* The processes.                                                          *)

\* the first i processes
Before(r, i) == {r[j] : j \in 1..i}

\* The invariant of the processes r; M are the allocated blocks.  Each is owned
\* by a process that runs, and a base page by one that was started before it, so
\* that no process frees the base page of another when it ends.  t says when each
\* program was set up: processes run in that order, a process was set up before
\* the programs whose base pages it owns, and where the environment of a page has
\* become a base page itself, that one was set up later.
Family(h, M, r, env, t, N) ==
  /\ r \in Seq(Addr \cup {ospd}) /\ r # <<>> /\ r[1] = ospd /\ Distinct(r)
  /\ env \in [Addr -> 0..Size] /\ N \in Nat /\ t \in [Addr -> 0..N]
  /\ \A m \in M : h.own[m] \in Elements(r)
  /\ \A a \in Addr : env[a] # 0 => \E m \in M : h.start[m] = a
  /\ \A j \in 2..Len(r) : r[j] \in Addr /\ env[r[j]] # 0
  /\ \A m \in M, j \in 2..Len(r) : h.start[m] = r[j] => h.own[m] \in Before(r, j)
  /\ \A a \in Addr : env[a] # 0 /\ env[env[a]] # 0 => t[a] < t[env[a]]
  /\ \A i, j \in 2..Len(r) : i < j => t[r[i]] < t[r[j]]
  /\ \A m \in M, i \in 2..Len(r) :
       h.own[m] = r[i] /\ env[h.start[m]] # 0 /\ h.start[m] # r[i] => t[r[i]] < t[h.start[m]]

\* with some such order
Kin(h, M, r, env) == \E t, N : Family(h, M, r, env, t, N)

\* K is left of the blocks M, and the first k of the processes r; the environments
\* of pages that are freed are gone
Fewer(h, g, M, K, r, k, env, e) ==
  /\ K \subseteq M /\ \A x \in K : g.start[x] = h.start[x] /\ g.own[x] = h.own[x]
  /\ \A x \in K : h.start[x] \in Addr /\ h.own[x] \in Before(r, k)
  /\ \A x \in M \ K, j \in 2..k : h.start[x] # r[j]
  /\ e \in [Addr -> 0..Size]
  /\ \A a \in Addr : e[a] = IF \E x \in K : g.start[x] = a THEN env[a] ELSE 0

LEMMA FamilyLess ==
  ASSUME NEW h, NEW M, NEW r, NEW env, NEW t, NEW N, Family(h, M, r, env, t, N),
         NEW K, NEW g, NEW k \in 1..Len(r), NEW e, Fewer(h, g, M, K, r, k, env, e),
         NEW q, q = SubSeq(r, 1, k)
  PROVE  Family(g, K, q, e, t, N)
  <1> /\ K \subseteq M /\ \A x \in K : g.start[x] = h.start[x] /\ g.own[x] = h.own[x]
      /\ \A x \in K : h.start[x] \in Addr /\ h.own[x] \in Before(r, k)
      /\ \A x \in M \ K, j \in 2..k : h.start[x] # r[j]
      /\ e \in [Addr -> 0..Size]
      /\ \A a \in Addr : e[a] = IF \E x \in K : g.start[x] = a THEN env[a] ELSE 0
    BY DEF Fewer
  <1>1. /\ r \in Seq(Addr \cup {ospd}) /\ r # <<>> /\ r[1] = ospd /\ Distinct(r)
        /\ env \in [Addr -> 0..Size] /\ N \in Nat /\ t \in [Addr -> 0..N]
        /\ \A m \in M : h.own[m] \in Elements(r)
        /\ \A a \in Addr : env[a] # 0 => \E m \in M : h.start[m] = a
        /\ \A j \in 2..Len(r) : r[j] \in Addr /\ env[r[j]] # 0
        /\ \A m \in M, j \in 2..Len(r) : h.start[m] = r[j] => h.own[m] \in Before(r, j)
        /\ \A a \in Addr : env[a] # 0 /\ env[env[a]] # 0 => t[a] < t[env[a]]
        /\ \A i, j \in 2..Len(r) : i < j => t[r[i]] < t[r[j]]
        /\ \A m \in M, i \in 2..Len(r) :
             h.own[m] = r[i] /\ env[h.start[m]] # 0 /\ h.start[m] # r[i] => t[r[i]] < t[h.start[m]]
    BY DEF Family
  <1>2. Len(r) \in Nat /\ k \in Nat /\ k <= Len(r) /\ 2..k \subseteq 2..Len(r) /\ 1..k \subseteq 1..Len(r)
    BY <1>1
  <1>3. /\ q \in Seq(Addr \cup {ospd}) /\ Len(q) = k /\ DOMAIN q = 1..k
        /\ \A j \in 1..k : q[j] = r[j]
    BY <1>1, <1>2
  <1>4. q # <<>> /\ q[1] = ospd
    BY <1>1, <1>2, <1>3
  <1>5. Distinct(q)
    <2>1. DOMAIN r = 1..Len(r)
      BY <1>1
    <2> QED
      BY <1>1, <1>2, <1>3, <2>1 DEF Distinct
  <1>6. \A j \in 1..k : Before(q, j) = Before(r, j)
    BY <1>2, <1>3 DEF Before
  <1>7. \A m \in K : g.own[m] \in Elements(q)
    <2> SUFFICES ASSUME NEW m \in K PROVE g.own[m] \in Elements(q)
      OBVIOUS
    <2>1. PICK j \in 1..k : h.own[m] = r[j]
      BY DEF Before
    <2>2. j \in DOMAIN q /\ q[j] = h.own[m]
      BY <1>3, <2>1
    <2>3. h.own[m] \in Elements(q)
      BY <2>2 DEF Elements
    <2> QED
      BY <2>3
  <1>8. \A a \in Addr : e[a] # 0 => e[a] = env[a] /\ \E m \in K : g.start[m] = a
    OBVIOUS
  <1>9. \A j \in 2..k : j \in 1..k /\ q[j] = r[j] /\ q[j] \in Addr /\ e[q[j]] # 0 /\ e[q[j]] = env[q[j]]
    <2> TAKE j \in 2..k
    <2>1. j \in 1..k /\ q[j] = r[j] /\ q[j] \in Addr /\ env[r[j]] # 0
      BY <1>1, <1>2, <1>3
    <2>2. PICK m \in M : h.start[m] = r[j]
      BY <1>1, <2>1
    <2>3. m \in K /\ g.start[m] = q[j]
      BY <2>1, <2>2
    <2> QED
      BY <2>1, <2>3
  <1>10. \A m \in K, j \in 2..Len(q) : g.start[m] = q[j] => g.own[m] \in Before(q, j)
    <2> TAKE m \in K, j \in 2..Len(q)
    <2>1. j \in 2..Len(r) /\ j \in 1..k /\ q[j] = r[j]
      BY <1>2, <1>3, <1>9
    <2>2. h.start[m] = r[j] => h.own[m] \in Before(r, j)
      BY <1>1, <2>1
    <2> QED
      BY <1>6, <2>1, <2>2
  <1>11. \A a \in Addr : e[a] # 0 /\ e[e[a]] # 0 => t[a] < t[e[a]]
    <2> SUFFICES ASSUME NEW a \in Addr, e[a] # 0, e[e[a]] # 0 PROVE t[a] < t[e[a]]
      OBVIOUS
    <2>1. e[a] \in Addr
      BY Descriptor
    <2>2. e[a] = env[a] /\ e[e[a]] = env[e[a]]
      BY <1>8, <2>1
    <2> QED
      BY <1>1, <2>1, <2>2
  <1>12. \A i, j \in 2..Len(q) : i < j => t[q[i]] < t[q[j]]
    BY <1>1, <1>2, <1>3, <1>9
  <1>13. \A m \in K, i \in 2..Len(q) :
           g.own[m] = q[i] /\ e[g.start[m]] # 0 /\ g.start[m] # q[i] => t[q[i]] < t[g.start[m]]
    <2> SUFFICES ASSUME NEW m \in K, NEW i \in 2..Len(q),
                        g.own[m] = q[i], e[g.start[m]] # 0, g.start[m] # q[i]
                 PROVE  t[q[i]] < t[g.start[m]]
      OBVIOUS
    <2>1. i \in 2..Len(r) /\ q[i] = r[i] /\ h.own[m] = r[i] /\ h.start[m] # r[i] /\ m \in M
      BY <1>2, <1>3, <1>9
    <2>2. env[h.start[m]] # 0 /\ g.start[m] = h.start[m]
      BY <1>8
    <2> QED
      BY <1>1, <2>1, <2>2
  <1>14. Len(q) = k /\ \A j \in 2..Len(q) : q[j] \in Addr /\ e[q[j]] # 0
    BY <1>3, <1>9
  <1>15. e \in [Addr -> 0..Size]
    OBVIOUS
  <1>16. N \in Nat /\ t \in [Addr -> 0..N] /\ \A a \in Addr : e[a] # 0 => \E m \in K : g.start[m] = a
    BY <1>1, <1>8
  <1>17. q \in Seq(Addr \cup {ospd})
    BY <1>3
  <1> QED
    BY ONLY <1>4, <1>5, <1>7, <1>10, <1>11, <1>12, <1>13, <1>14, <1>15, <1>16, <1>17 DEF Family

\* the blocks are the same
LEMMA FamilySame ==
  ASSUME NEW h, NEW M, NEW r, NEW env, NEW t, NEW N, Family(h, M, r, env, t, N),
         NEW g, \A x \in M : g.start[x] = h.start[x] /\ g.own[x] = h.own[x]
  PROVE  Family(g, M, r, env, t, N)
  BY DEF Family

\* one more block, of a running process
Adds(h, g, M, r, m) ==
  /\ \A x \in M : g.start[x] = h.start[x] /\ g.own[x] = h.own[x]
  /\ g.start[m] \in Addr /\ g.own[m] \in Elements(r)
  /\ \A x \in M : h.start[x] # g.start[m]

LEMMA FamilyMore ==
  ASSUME NEW h, NEW M, NEW r, NEW env, NEW t, NEW N, Family(h, M, r, env, t, N),
         NEW g, NEW m, Adds(h, g, M, r, m)
  PROVE  Family(g, M \cup {m}, r, env, t, N)
  <1> /\ \A x \in M : g.start[x] = h.start[x] /\ g.own[x] = h.own[x]
      /\ g.start[m] \in Addr /\ g.own[m] \in Elements(r)
      /\ \A x \in M : h.start[x] # g.start[m]
    BY DEF Adds
  <1>1. /\ r \in Seq(Addr \cup {ospd}) /\ r # <<>> /\ r[1] = ospd /\ Distinct(r)
        /\ env \in [Addr -> 0..Size] /\ N \in Nat /\ t \in [Addr -> 0..N]
        /\ \A x \in M : h.own[x] \in Elements(r)
        /\ \A a \in Addr : env[a] # 0 => \E x \in M : h.start[x] = a
        /\ \A j \in 2..Len(r) : r[j] \in Addr /\ env[r[j]] # 0
        /\ \A x \in M, j \in 2..Len(r) : h.start[x] = r[j] => h.own[x] \in Before(r, j)
        /\ \A a \in Addr : env[a] # 0 /\ env[env[a]] # 0 => t[a] < t[env[a]]
        /\ \A i, j \in 2..Len(r) : i < j => t[r[i]] < t[r[j]]
        /\ \A x \in M, i \in 2..Len(r) :
             h.own[x] = r[i] /\ env[h.start[x]] # 0 /\ h.start[x] # r[i] => t[r[i]] < t[h.start[x]]
    BY DEF Family
  <1>2. env[g.start[m]] = 0
    BY <1>1
  <1>3. \A j \in 2..Len(r) : r[j] # g.start[m]
    BY <1>1, <1>2
  <1>4. \A x \in M \cup {m} : g.own[x] \in Elements(r)
    BY <1>1
  <1>5. \A a \in Addr : env[a] # 0 => \E x \in M \cup {m} : g.start[x] = a
    BY <1>1
  <1>6. \A x \in M \cup {m}, j \in 2..Len(r) : g.start[x] = r[j] => g.own[x] \in Before(r, j)
    BY <1>1, <1>3
  <1>7. \A x \in M \cup {m}, i \in 2..Len(r) :
          g.own[x] = r[i] /\ env[g.start[x]] # 0 /\ g.start[x] # r[i] => t[r[i]] < t[g.start[x]]
    BY <1>1, <1>2
  <1> QED
    BY ONLY <1>1, <1>2, <1>4, <1>5, <1>6, <1>7 DEF Family

-----------------------------------------------------------------------------
\* r, and perhaps the process b after its last one
Longer(r, b, q) == q = r \/ q = Append(r, b)

LEMMA LongerIs ==
  ASSUME NEW r \in Seq(Addr \cup {ospd}), r # <<>>, Distinct(r), r[1] = ospd,
         NEW b \in Addr, \A j \in 2..Len(r) : r[j] # b, NEW q, Longer(r, b, q)
  PROVE  /\ q \in Seq(Addr \cup {ospd}) /\ q # <<>> /\ q[1] = ospd /\ Distinct(q)
         /\ Len(r) \in Nat /\ Len(r) >= 1 /\ Len(q) \in Nat
         /\ b \notin Elements(r)
         /\ Elements(r) \subseteq Elements(q)
         /\ \A j \in 1..Len(r) : q[j] = r[j] /\ j \in 1..Len(q) /\ Before(q, j) = Before(r, j)
         /\ \A j \in 1..Len(q) : j \in 1..Len(r) \/ (q = Append(r, b) /\ j = Len(q) /\ j = Len(r) + 1 /\ q[j] = b)
         /\ q = Append(r, b) => b \in Before(q, Len(r) + 1) /\ b \in Elements(q)
              /\ Before(r, Len(r)) \subseteq Before(q, Len(r) + 1)
  <1>1. /\ Len(r) \in Nat /\ Len(r) >= 1 /\ DOMAIN r = 1..Len(r)
        /\ \A j \in 1..Len(r) : r[j] \in Addr \cup {ospd}
    OBVIOUS
  <1>2. b # ospd /\ \A j \in 1..Len(r) : r[j] # b
    <2>1. b # ospd
      BY Descriptor DEF ospd
    <2>2. \A j \in 1..Len(r) : j = 1 \/ j \in 2..Len(r)
      BY <1>1
    <2> QED
      BY <1>1, <2>1, <2>2
  <1>3. b \notin Elements(r)
    BY <1>1, <1>2 DEF Elements
  <1>4. CASE q = r
    <2>1. q # Append(r, b)
      <3> SUFFICES ASSUME q = Append(r, b) PROVE FALSE
        OBVIOUS
      <3>1. Len(q) = Len(r) + 1
        BY <1>1
      <3>2. Len(q) = Len(r)
        BY <1>4
      <3> QED
        BY <1>1, <3>1, <3>2
    <2>2. /\ \A j \in 1..Len(r) : q[j] = r[j] /\ j \in 1..Len(q) /\ Before(q, j) = Before(r, j)
          /\ \A j \in 1..Len(q) : j \in 1..Len(r)
      BY <1>1, <1>4
    <2> QED
      BY <1>1, <1>3, <1>4, <2>1, <2>2
  <1>5. CASE q = Append(r, b)
    <2>1. /\ q \in Seq(Addr \cup {ospd}) /\ Len(q) = Len(r) + 1 /\ DOMAIN q = 1..Len(r) + 1
          /\ \A j \in 1..Len(r) : q[j] = r[j]
          /\ q[Len(r) + 1] = b
      BY <1>1, <1>5
    <2>2. q # <<>> /\ q[1] = ospd
      BY <1>1, <2>1
    <2>3. \A j \in 1..Len(q) : j \in 1..Len(r) \/ (j = Len(q) /\ j = Len(r) + 1 /\ q[j] = b)
      BY <1>1, <2>1
    <2>4. Distinct(q)
      <3> SUFFICES ASSUME NEW i \in DOMAIN q, NEW j \in DOMAIN q, q[i] = q[j] PROVE i = j
        BY DEF Distinct
      <3>1. i \in 1..Len(r) /\ j \in 1..Len(r) => i = j
        BY <1>1, <2>1 DEF Distinct
      <3> QED
        BY <1>1, <1>2, <2>1, <2>3, <3>1
    <2>5. \A j \in 1..Len(r) : j \in 1..Len(q) /\ Before(q, j) = Before(r, j)
      BY <1>1, <2>1 DEF Before
    <2>6. Elements(r) \subseteq Elements(q) /\ b \in Elements(q)
      <3>1. \A j \in DOMAIN r : j \in DOMAIN q /\ r[j] = q[j]
        BY <1>1, <2>1
      <3>2. Len(r) + 1 \in DOMAIN q
        BY <1>1, <2>1
      <3> QED
        BY <2>1, <3>1, <3>2 DEF Elements
    <2>7. b \in Before(q, Len(r) + 1) /\ Before(r, Len(r)) \subseteq Before(q, Len(r) + 1)
      <3>1. Len(r) + 1 \in 1..Len(r) + 1 /\ \A j \in 1..Len(r) : j \in 1..Len(r) + 1
        BY <1>1
      <3> QED
        BY <2>1, <3>1 DEF Before
    <2>8. Len(q) \in Nat
      BY <1>1, <2>1
    <2> QED
      BY <1>1, <1>3, <1>5, <2>1, <2>2, <2>3, <2>4, <2>5, <2>6, <2>7, <2>8
  <1> QED
    BY <1>4, <1>5 DEF Longer

\* Pexec: the blocks e at c and p at b for w
Brings(h, g, M, e, p, c, b, w) ==
  /\ \A x \in M : g.start[x] = h.start[x] /\ g.own[x] = h.own[x] /\ h.start[x] \in Addr
  /\ c \in Addr /\ b \in Addr /\ b # c
  /\ g.start[e] = c /\ g.start[p] = b /\ g.own[e] = w /\ g.own[p] = w
  /\ \A x \in M : h.start[x] # c /\ h.start[x] # b

\* the new program at b runs at once, or is set up for the process that runs: the
\* blocks are w's and the processes are q
Starts(r, b, w, q) ==
  \/ w = r[Len(r)] /\ q = r
  \/ w = b /\ q = Append(r, b)

LEMMA FamilyLoaded ==
  ASSUME NEW h, NEW M, NEW r, NEW env, NEW t, NEW N, Family(h, M, r, env, t, N),
         NEW g, NEW e, NEW p, NEW c, NEW b, NEW w, Brings(h, g, M, e, p, c, b, w), 
         NEW q, Starts(r, b, w, q), NEW env2, env2 = [env EXCEPT ![b] = c],
         NEW K, K = M \cup {e, p}
  PROVE  Kin(g, K, q, env2)
  <1> PICK t2 : t2 = [t EXCEPT ![b] = N + 1]
    OBVIOUS
  <1> /\ \A x \in M : g.start[x] = h.start[x] /\ g.own[x] = h.own[x]
      /\ \A x \in M : h.start[x] \in Addr
      /\ c \in Addr /\ b \in Addr /\ b # c
      /\ g.start[e] = c /\ g.start[p] = b /\ g.own[e] = w /\ g.own[p] = w
      /\ \A x \in M : h.start[x] # c /\ h.start[x] # b
    BY DEF Brings
  <1> \/ w = r[Len(r)] /\ q = r
      \/ w = b /\ q = Append(r, b)
    BY DEF Starts
  <1>1. /\ r \in Seq(Addr \cup {ospd}) /\ r # <<>> /\ r[1] = ospd /\ Distinct(r)
        /\ env \in [Addr -> 0..Size] /\ N \in Nat /\ t \in [Addr -> 0..N]
        /\ \A x \in M : h.own[x] \in Elements(r)
        /\ \A a \in Addr : env[a] # 0 => \E x \in M : h.start[x] = a
        /\ \A j \in 2..Len(r) : r[j] \in Addr /\ env[r[j]] # 0
        /\ \A x \in M, j \in 2..Len(r) : h.start[x] = r[j] => h.own[x] \in Before(r, j)
        /\ \A a \in Addr : env[a] # 0 /\ env[env[a]] # 0 => t[a] < t[env[a]]
        /\ \A i, j \in 2..Len(r) : i < j => t[r[i]] < t[r[j]]
        /\ \A x \in M, i \in 2..Len(r) :
             h.own[x] = r[i] /\ env[h.start[x]] # 0 /\ h.start[x] # r[i] => t[r[i]] < t[h.start[x]]
    BY DEF Family
  <1>2. env[b] = 0 /\ env[c] = 0
    BY <1>1
  <1>3. \A j \in 2..Len(r) : r[j] # b /\ r[j] # c
    BY <1>1, <1>2
  <1>4. /\ q \in Seq(Addr \cup {ospd}) /\ q # <<>> /\ q[1] = ospd /\ Distinct(q)
        /\ Len(r) \in Nat /\ Len(r) >= 1 /\ Len(q) \in Nat
        /\ b \notin Elements(r)
        /\ Elements(r) \subseteq Elements(q)
        /\ \A j \in 1..Len(r) : q[j] = r[j] /\ j \in 1..Len(q) /\ Before(q, j) = Before(r, j)
        /\ \A j \in 1..Len(q) : j \in 1..Len(r) \/ (q = Append(r, b) /\ j = Len(q) /\ j = Len(r) + 1 /\ q[j] = b)
        /\ q = Append(r, b) => b \in Before(q, Len(r) + 1) /\ b \in Elements(q)
             /\ Before(r, Len(r)) \subseteq Before(q, Len(r) + 1)
    <2>1. Longer(r, b, q) /\ \A j \in 2..Len(r) : r[j] # b
      BY <1>3 DEF Longer
    <2> QED
      BY ONLY <1>1, <2>1, LongerIs, b \in Addr
  <1>5. /\ env2 \in [Addr -> 0..Size] /\ env2[b] = c /\ env2[b] # 0 /\ env2[c] = 0
        /\ \A a \in Addr : a # b => env2[a] = env[a]
        /\ N + 1 \in Nat /\ t2 \in [Addr -> 0..N + 1] /\ t2[b] = N + 1
        /\ \A a \in Addr : a # b => t2[a] = t[a]
        /\ \A a \in Addr : a # b => t2[a] < N + 1
    <2>1. b # c /\ c \in 0..Size /\ c # 0
      BY Descriptor
    <2>2. env2 \in [Addr -> 0..Size] /\ env2[b] = c /\ env2[c] = env[c] /\ \A a \in Addr : a # b => env2[a] = env[a]
      BY <1>1, <2>1
    <2>3. N + 1 \in Nat /\ N + 1 \in 0..N + 1 /\ \A y \in 0..N : y \in 0..N + 1 /\ y < N + 1
      BY <1>1
    <2>4. t2 \in [Addr -> 0..N + 1] /\ t2[b] = N + 1 /\ \A a \in Addr : a # b => t2[a] = t[a]
      BY <1>1, <2>3
    <2>5. \A a \in Addr : a # b => t2[a] < N + 1
      BY <1>1, <2>3, <2>4
    <2> QED
      BY <1>2, <2>1, <2>2, <2>3, <2>4, <2>5
  <1>6. \A j \in 2..Len(q) : j \in 2..Len(r) \/ (q = Append(r, b) /\ j = Len(q) /\ j = Len(r) + 1 /\ q[j] = b)
    BY <1>4
  <1>7. \A j \in 2..Len(r) : q[j] = r[j] /\ q[j] \in Addr /\ q[j] # b /\ j \in 1..Len(r)
    BY <1>1, <1>3, <1>4
  <1>8. \A j \in 2..Len(q) : q[j] \in Addr /\ env2[q[j]] # 0
    BY <1>1, <1>5, <1>6, <1>7
  <1>9. w \in Elements(q)
    <2>1. r[Len(r)] \in Elements(r)
      <3>1. Len(r) \in DOMAIN r
        BY <1>1, <1>4
      <3> QED
        BY <3>1 DEF Elements
    <2> QED
      BY <1>4, <2>1
  <1>10. \A x \in M \cup {e, p} : g.own[x] \in Elements(q)
    BY <1>1, <1>4, <1>9
  <1>11. \A a \in Addr : env2[a] # 0 => \E x \in M \cup {e, p} : g.start[x] = a
    <2> SUFFICES ASSUME NEW a \in Addr, env2[a] # 0 PROVE \E x \in M \cup {e, p} : g.start[x] = a
      OBVIOUS
    <2>1. CASE a = b
      BY <2>1
    <2>2. CASE a # b
      <3>1. PICK x \in M : h.start[x] = a
        BY <1>1, <1>5, <2>2
      <3> QED
        BY <3>1
    <2> QED
      BY <2>1, <2>2
  <1>12. \A x \in M \cup {e, p}, j \in 2..Len(q) : g.start[x] = q[j] => g.own[x] \in Before(q, j)
    <2> SUFFICES ASSUME NEW x \in M \cup {e, p}, NEW j \in 2..Len(q), g.start[x] = q[j]
                 PROVE  g.own[x] \in Before(q, j)
      OBVIOUS
    <2>1. CASE j \in 2..Len(r)
      <3>1. q[j] = r[j] /\ r[j] # b /\ r[j] # c /\ j \in 1..Len(r)
        BY <1>3, <1>7, <2>1
      <3>2. x \in M /\ h.start[x] = r[j] /\ g.own[x] = h.own[x]
        BY <3>1
      <3> QED
        BY <1>1, <1>4, <2>1, <3>1, <3>2
    <2>2. CASE q = Append(r, b) /\ j = Len(r) + 1 /\ q[j] = b
      <3>1. x = e \/ x = p
        BY <2>2
      <3>2. q # r
        BY <1>1, <2>2
      <3> QED
        BY <1>4, <2>2, <3>1, <3>2
    <2> QED
      BY <1>6, <2>1, <2>2
  <1>13. \A a \in Addr : env2[a] # 0 /\ env2[env2[a]] # 0 => t2[a] < t2[env2[a]]
    <2> SUFFICES ASSUME NEW a \in Addr, env2[a] # 0, env2[env2[a]] # 0 PROVE t2[a] < t2[env2[a]]
      OBVIOUS
    <2>1. a # b /\ env2[a] = env[a] /\ env[a] \in Addr
      BY <1>1, <1>5, Descriptor
    <2>2. CASE env[a] = b
      BY <1>5, <2>1, <2>2
    <2>3. CASE env[a] # b
      <3>1. env2[env[a]] = env[env[a]] /\ t2[env[a]] = t[env[a]] /\ t2[a] = t[a]
        BY <1>5, <2>1, <2>3
      <3> QED
        BY <1>1, <2>1, <3>1
    <2> QED
      BY <2>2, <2>3
  <1>14. \A i, j \in 2..Len(q) : i < j => t2[q[i]] < t2[q[j]]
    <2> SUFFICES ASSUME NEW i \in 2..Len(q), NEW j \in 2..Len(q), i < j PROVE t2[q[i]] < t2[q[j]]
      OBVIOUS
    <2>1. i \in 2..Len(r)
      BY <1>4, <1>6
    <2>2. q[i] = r[i] /\ q[i] # b /\ q[i] \in Addr
      BY <1>7, <2>1
    <2>3. CASE j \in 2..Len(r)
      <3>1. q[j] = r[j] /\ q[j] # b /\ q[j] \in Addr
        BY <1>7, <2>3
      <3> QED
        BY <1>1, <1>5, <2>1, <2>2, <2>3, <3>1
    <2>4. CASE q[j] = b
      BY <1>5, <2>2, <2>4
    <2> QED
      BY <1>6, <2>3, <2>4
  <1>15. \A x \in M \cup {e, p}, i \in 2..Len(q) :
           g.own[x] = q[i] /\ env2[g.start[x]] # 0 /\ g.start[x] # q[i] => t2[q[i]] < t2[g.start[x]]
    <2> SUFFICES ASSUME NEW x \in M \cup {e, p}, NEW i \in 2..Len(q),
                        g.own[x] = q[i], env2[g.start[x]] # 0, g.start[x] # q[i]
                 PROVE  t2[q[i]] < t2[g.start[x]]
      OBVIOUS
    <2>1. CASE x \in M
      <3>1. /\ h.own[x] = q[i] /\ h.start[x] = g.start[x] /\ h.start[x] # b /\ h.start[x] \in Addr
            /\ q[i] # b
        <4>1. h.own[x] = q[i] /\ h.start[x] = g.start[x] /\ h.start[x] # b /\ h.start[x] \in Addr
          BY <2>1
        <4>2. h.own[x] \in Elements(r)
          BY <1>1, <2>1
        <4> QED
          BY <1>4, <4>1, <4>2
      <3>2. i \in 2..Len(r) /\ q[i] = r[i] /\ q[i] \in Addr
        BY <1>6, <1>7, <3>1
      <3>3. env[h.start[x]] # 0
        BY <1>5, <3>1
      <3>4. t[r[i]] < t[h.start[x]]
        BY <1>1, <2>1, <3>1, <3>2, <3>3
      <3> QED
        BY <1>5, <3>1, <3>2, <3>4
    <2>2. CASE x = e
      BY <1>5, <2>2
    <2>3. CASE x = p
      <3>1. g.start[x] = b /\ q[i] # b /\ q[i] \in Addr
        BY <1>8, <2>3
      <3> QED
        BY <1>5, <3>1
    <2> QED
      BY <2>1, <2>2, <2>3
  <1>16. env2 \in [Addr -> 0..Size] /\ N + 1 \in Nat /\ t2 \in [Addr -> 0..N + 1]
    BY <1>5
  <1>17. q \in Seq(Addr \cup {ospd}) /\ q # <<>> /\ q[1] = ospd /\ Distinct(q)
    BY <1>4
  <1>18. Family(g, M \cup {e, p}, q, env2, t2, N + 1)
    BY ONLY <1>8, <1>10, <1>11, <1>12, <1>13, <1>14, <1>15, <1>16, <1>17 DEF Family
  <1> QED
    BY <1>18 DEF Kin

-----------------------------------------------------------------------------
\* PexecGo: the program at b, which the last of the processes r has set up, in the
\* block m, runs, and may be given its memory
Goes(h, g, M, r, env, b, m) ==
  /\ \A x \in M : h.start[x] \in Addr
  /\ \A x, y \in M : h.start[x] = h.start[y] => x = y
  /\ b \in Addr /\ env[b] # 0 /\ b \notin Elements(r)
  /\ m \in M /\ h.start[m] = b /\ h.own[m] = r[Len(r)]
  /\ \A x \in M : g.start[x] = h.start[x]
  /\ \A x \in M : g.own[x] = h.own[x] \/ (g.own[x] = b /\ h.start[x] \in {b, env[b]})

LEMMA FamilyGoes ==
  ASSUME NEW h, NEW M, NEW r, NEW env, NEW t, NEW N, Family(h, M, r, env, t, N),
         NEW g, NEW b, NEW m, Goes(h, g, M, r, env, b, m), NEW q, q = Append(r, b)
  PROVE  Family(g, M, q, env, t, N)
  <1> /\ \A x \in M : h.start[x] \in Addr
      /\ \A x, y \in M : h.start[x] = h.start[y] => x = y
      /\ b \in Addr /\ env[b] # 0 /\ b \notin Elements(r)
      /\ m \in M /\ h.start[m] = b /\ h.own[m] = r[Len(r)]
      /\ \A x \in M : g.start[x] = h.start[x]
      /\ \A x \in M : g.own[x] = h.own[x] \/ (g.own[x] = b /\ h.start[x] \in {b, env[b]})
    BY DEF Goes
  <1>1. /\ r \in Seq(Addr \cup {ospd}) /\ r # <<>> /\ r[1] = ospd /\ Distinct(r)
        /\ env \in [Addr -> 0..Size] /\ N \in Nat /\ t \in [Addr -> 0..N]
        /\ \A x \in M : h.own[x] \in Elements(r)
        /\ \A a \in Addr : env[a] # 0 => \E x \in M : h.start[x] = a
        /\ \A j \in 2..Len(r) : r[j] \in Addr /\ env[r[j]] # 0
        /\ \A x \in M, j \in 2..Len(r) : h.start[x] = r[j] => h.own[x] \in Before(r, j)
        /\ \A a \in Addr : env[a] # 0 /\ env[env[a]] # 0 => t[a] < t[env[a]]
        /\ \A i, j \in 2..Len(r) : i < j => t[r[i]] < t[r[j]]
        /\ \A x \in M, i \in 2..Len(r) :
             h.own[x] = r[i] /\ env[h.start[x]] # 0 /\ h.start[x] # r[i] => t[r[i]] < t[h.start[x]]
    BY DEF Family
  <1>2. /\ Len(r) \in Nat /\ Len(r) >= 1 /\ DOMAIN r = 1..Len(r)
    BY <1>1
  <1>3. \A j \in 1..Len(r) : r[j] # b
    BY <1>2 DEF Elements
  <1>4. /\ q \in Seq(Addr \cup {ospd}) /\ q # <<>> /\ q[1] = ospd /\ Distinct(q)
        /\ Len(r) \in Nat /\ Len(r) >= 1 /\ Len(q) \in Nat
        /\ b \notin Elements(r)
        /\ Elements(r) \subseteq Elements(q)
        /\ \A j \in 1..Len(r) : q[j] = r[j] /\ j \in 1..Len(q) /\ Before(q, j) = Before(r, j)
        /\ \A j \in 1..Len(q) : j \in 1..Len(r) \/ (q = Append(r, b) /\ j = Len(q) /\ j = Len(r) + 1 /\ q[j] = b)
        /\ q = Append(r, b) => b \in Before(q, Len(r) + 1) /\ b \in Elements(q)
             /\ Before(r, Len(r)) \subseteq Before(q, Len(r) + 1)
    <2>1. Longer(r, b, q) /\ \A j \in 2..Len(r) : r[j] # b
      BY <1>2, <1>3 DEF Longer
    <2> QED
      BY ONLY <1>1, <2>1, LongerIs, b \in Addr
  <1>5. /\ b \in Elements(q) /\ b \in Before(q, Len(r) + 1)
        /\ Before(r, Len(r)) \subseteq Before(q, Len(r) + 1)
        /\ \A j \in 2..Len(q) : j \in 2..Len(r) \/ (j = Len(r) + 1 /\ q[j] = b)
        /\ \A j \in 2..Len(r) : j \in 1..Len(r) /\ q[j] = r[j] /\ q[j] # b /\ Before(q, j) = Before(r, j)
    <2>1. \A j \in 2..Len(q) : j \in 2..Len(r) \/ (j = Len(r) + 1 /\ q[j] = b)
      BY <1>4
    <2>2. \A j \in 2..Len(r) : j \in 1..Len(r)
      BY <1>2
    <2> QED
      BY <1>3, <1>4, <2>1, <2>2
  \* the programs that run were set up before it
  <1>6. \A i \in 2..Len(r) : t[r[i]] < t[b]
    <2> SUFFICES ASSUME NEW i \in 2..Len(r) PROVE t[r[i]] < t[b]
      OBVIOUS
    <2> PICK l : l = Len(r)
      OBVIOUS
    <2>1. l \in 2..Len(r) /\ (i < l \/ i = l) /\ r[l] # b
      BY <1>2, <1>5
    <2>2. t[r[l]] < t[b]
      BY <1>1, <2>1
    <2>3. t[r[i]] \in 0..N /\ t[r[l]] \in 0..N /\ t[b] \in 0..N /\ N \in Nat
      BY <1>1, <2>1
    <2>4. i < l => t[r[i]] < t[r[l]]
      BY <1>1, <2>1
    <2> QED
      BY <2>1, <2>2, <2>3, <2>4
  \* none of them lies where its environment is
  <1>7. \A i \in 2..Len(r) : r[i] # env[b]
    <2> SUFFICES ASSUME NEW i \in 2..Len(r), r[i] = env[b] PROVE FALSE
      OBVIOUS
    <2>1. t[b] < t[env[b]]
      BY <1>1
    <2>2. t[env[b]] < t[b]
      BY <1>6
    <2>3. t[b] \in 0..N /\ t[env[b]] \in 0..N /\ N \in Nat
      BY <1>1
    <2> QED
      BY <2>1, <2>2, <2>3
  <1>8. \A j \in 2..Len(q) : q[j] \in Addr /\ env[q[j]] # 0
    BY <1>1, <1>5
  <1>9. \A x \in M : g.own[x] \in Elements(q)
    BY <1>1, <1>4, <1>5
  <1>10. \A a \in Addr : env[a] # 0 => \E x \in M : g.start[x] = a
    BY <1>1
  <1>11. \A x \in M, j \in 2..Len(q) : g.start[x] = q[j] => g.own[x] \in Before(q, j)
    <2> SUFFICES ASSUME NEW x \in M, NEW j \in 2..Len(q), g.start[x] = q[j]
                 PROVE  g.own[x] \in Before(q, j)
      OBVIOUS
    <2>1. CASE j \in 2..Len(r)
      <3>1. h.start[x] = r[j] /\ r[j] # b /\ r[j] # env[b]
        BY <1>5, <1>7, <2>1
      <3>2. g.own[x] = h.own[x]
        BY <3>1
      <3>3. h.own[x] \in Before(r, j)
        BY <1>1, <2>1, <3>1
      <3> QED
        BY <1>5, <2>1, <3>2, <3>3
    <2>2. CASE j = Len(r) + 1 /\ q[j] = b
      <3>1. x = m
        BY <2>2
      <3>2. r[Len(r)] \in Before(r, Len(r))
        <4>1. Len(r) \in 1..Len(r)
          BY <1>2
        <4> QED
          BY <4>1 DEF Before
      <3>3. g.own[x] = b \/ g.own[x] = r[Len(r)]
        BY <3>1
      <3> QED
        BY <1>5, <2>2, <3>2, <3>3
    <2> QED
      BY <1>5, <2>1, <2>2
  <1>12. \A i, j \in 2..Len(q) : i < j => t[q[i]] < t[q[j]]
    <2> SUFFICES ASSUME NEW i \in 2..Len(q), NEW j \in 2..Len(q), i < j PROVE t[q[i]] < t[q[j]]
      OBVIOUS
    <2>1. i \in 2..Len(r) /\ q[i] = r[i]
      BY <1>2, <1>4, <1>5
    <2>2. CASE j \in 2..Len(r)
      BY <1>1, <1>5, <2>1, <2>2
    <2>3. CASE q[j] = b
      BY <1>6, <2>1, <2>3
    <2> QED
      BY <1>5, <2>2, <2>3
  <1>13. \A x \in M, i \in 2..Len(q) :
           g.own[x] = q[i] /\ env[g.start[x]] # 0 /\ g.start[x] # q[i] => t[q[i]] < t[g.start[x]]
    <2> SUFFICES ASSUME NEW x \in M, NEW i \in 2..Len(q),
                        g.own[x] = q[i], env[g.start[x]] # 0, g.start[x] # q[i]
                 PROVE  t[q[i]] < t[g.start[x]]
      OBVIOUS
    <2>1. g.start[x] = h.start[x]
      OBVIOUS
    <2>2. CASE i \in 2..Len(r)
      <3>1. q[i] = r[i] /\ q[i] # b
        BY <1>5, <2>2
      <3>2. h.own[x] = r[i]
        BY <3>1
      <3> QED
        BY <1>1, <2>1, <2>2, <3>1, <3>2
    <2>3. CASE q[i] = b
      <3>1. h.own[x] # b
        BY <1>1
      <3>2. h.start[x] = env[b]
        BY <2>1, <2>3, <3>1
      <3> QED
        BY <1>1, <2>1, <2>3, <3>2
    <2> QED
      BY <1>5, <2>2, <2>3
  <1>14. q \in Seq(Addr \cup {ospd}) /\ q # <<>> /\ q[1] = ospd /\ Distinct(q)
    BY <1>4
  <1> QED
    BY ONLY <1>1, <1>8, <1>9, <1>10, <1>11, <1>12, <1>13, <1>14 DEF Family

-----------------------------------------------------------------------------
\* allocated blocks lie in memory, no two at an address
LEMMA BlocksApart ==
  ASSUME NEW h, NEW F, NEW A, NEW X, Fits(h, F, A, X, {})
  PROVE  /\ \A x \in Elements(A) : x \in MD /\ h.start[x] \in Addr
         /\ \A x, y \in Elements(A) : h.start[x] = h.start[y] => x = y
  <1>1. h \in Heaps /\ All(F, A, X) \in SUBSET MD /\ Tiled(h, All(F, A, X))
    BY FitsLists
  <1>2. \A x \in Elements(A) : x \in All(F, A, X)
    BY DEF All
  <1> QED
    BY <1>1, <1>2, Apart, Within

LEMMA PagesIs ==
  ASSUME NEW h, NEW F, NEW A, NEW X, Fits(h, F, A, X, {}), NEW env \in [Addr -> 0..Size],
         NEW e, e = Pages(h, env)
  PROVE  /\ e \in [Addr -> 0..Size]
         /\ \A a \in Addr : e[a] = IF \E x \in Elements(A) : h.start[x] = a THEN env[a] ELSE 0
  <1>1. Allocated(h) = A /\ A \in Seq(MD)
    BY FitsLists
  <1>2. e = [a \in Addr |-> IF FindIn(h, A, a) = NULL THEN 0 ELSE env[a]]
    BY <1>1 DEF Pages
  <1>3. \A a : FindIn(h, A, a) = NULL <=> ~ \E x \in Elements(A) : h.start[x] = a
    <2> SUFFICES ASSUME NEW a
                 PROVE  FindIn(h, A, a) = NULL <=> ~ \E x \in Elements(A) : h.start[x] = a
      OBVIOUS
    <2>1. PICK m : m = FindIn(h, A, a)
      OBVIOUS
    <2>2. Found(h, A, a, m)
      BY <1>1, <2>1, FindIs
    <2> QED
      BY <2>1, <2>2 DEF Found
  <1>4. 0 \in 0..Size
    BY Descriptor
  <1> QED
    BY <1>2, <1>3, <1>4

\* the process that runs
LEMMA LastIs ==
  ASSUME NEW h, NEW M, NEW r, NEW env, NEW t, NEW N, Family(h, M, r, env, t, N),
         NEW w, w = r[Len(r)]
  PROVE  /\ w \in Elements(r) /\ w \in {ospd} \cup Addr
         /\ Len(r) \in Nat /\ Len(r) >= 1 /\ Elements(r) = Before(r, Len(r))
         /\ r \in Seq(Addr \cup {ospd}) /\ r[1] = ospd
         /\ Elements(r) \subseteq {ospd} \cup Addr
  <1>1. r \in Seq(Addr \cup {ospd}) /\ r # <<>> /\ r[1] = ospd
    BY DEF Family
  <1>2. Len(r) \in Nat /\ Len(r) >= 1 /\ DOMAIN r = 1..Len(r)
    BY <1>1
  <1>3. Elements(r) = Before(r, Len(r))
    BY <1>2 DEF Elements, Before
  <1>4. Len(r) \in 1..Len(r)
    BY <1>2
  <1>5. \A j \in 1..Len(r) : r[j] \in {ospd} \cup Addr
    BY <1>1
  <1> QED
    BY <1>1, <1>2, <1>3, <1>4, <1>5 DEF Before

\* one more block
Grown(h, g, A, B, X, m) ==
  /\ B \in Seq(MD) /\ Elements(B) = Elements(A) \cup {m}
  /\ Sound(g, B, X) /\ Same(h, g, Elements(A) \cup X)
  /\ m \in MD /\ m \notin Elements(A)
  /\ g.start[m] \in Addr /\ \A x \in Elements(A) : h.start[x] # g.start[m]

LEMMA GivenGrown ==
  ASSUME NEW h, NEW F, NEW A, NEW X, Fits(h, F, A, X, {}), NEW n, NEW r, NEW res,
         Given(h, A, X, n, r, res)
  PROVE  Grown(h, res.heap, A, Inserted(A, 0, res.md), X, res.md)
  <1> PICK m : m = res.md
    OBVIOUS
  <1> PICK g : g = res.heap
    OBVIOUS
  <1> PICK B : B = Inserted(A, 0, m)
    OBVIOUS
  <1>1. /\ m \in MD /\ m \notin Elements(A) \cup X
        /\ Kept(h, g, Elements(A) \cup X)
        /\ \E G : Fits(g, G, B, X, {})
    BY DEF Given
  <1>2. A \in Seq(MD) /\ Distinct(A) /\ Len(A) \in Nat
    BY FitsLists
  <1>3. B \in Seq(MD) /\ Elements(B) = Elements(A) \cup {m}
    <2>1. 0 \in 0..Len(A) /\ m \notin Elements(A)
      BY <1>1, <1>2
    <2>2. Inserted(A, 0, m) \in Seq(MD) /\ Elements(Inserted(A, 0, m)) = Elements(A) \cup {m}
      BY <1>1, <1>2, <2>1, InsertedIs
    <2> QED
      BY <2>2
  <1>4. Same(h, g, Elements(A) \cup X)
    BY <1>1 DEF Same, Kept
  <1>5. PICK G : Fits(g, G, B, X, {})
    BY <1>1
  <1>6. /\ \A x \in Elements(B) : x \in MD /\ g.start[x] \in Addr
        /\ \A x, y \in Elements(B) : g.start[x] = g.start[y] => x = y
    BY <1>5, BlocksApart
  <1>7. g.start[m] \in Addr /\ \A x \in Elements(A) : h.start[x] # g.start[m]
    BY <1>1, <1>3, <1>4, <1>6 DEF Same
  <1> QED
    BY <1>1, <1>3, <1>4, <1>5, <1>7 DEF Grown, Sound

-----------------------------------------------------------------------------
\* The invariant: the lists are sound, and the processes own the allocated blocks.
State(h, r, env, X) ==
  \E A : Sound(h, A, X) /\ Kin(h, Elements(A), r, env)

LEMMA MallocKeeps ==
  ASSUME NEW h, NEW r, NEW env, NEW X, State(h, r, env, X), NEW n \in Nat \ {0},
         NEW rb, Lends(h, rb), NEW g, g = ffit(h, n, rb, r[Len(r)]).heap
  PROVE  State(g, r, env, X)
  <1>1. PICK A : Sound(h, A, X) /\ Kin(h, Elements(A), r, env)
    BY DEF State
  <1>2. PICK F : Fits(h, F, A, X, {})
    BY <1>1 DEF Sound
  <1>3. PICK t, N : Family(h, Elements(A), r, env, t, N)
    BY <1>1 DEF Kin
  <1> PICK w : w = r[Len(r)]
    OBVIOUS
  <1>4. w \in Elements(r) /\ w \in {ospd} \cup Addr
    BY <1>3, LastIs
  <1> PICK res : res = ffit(h, n, rb, w)
    OBVIOUS
  <1>5. \/ res = [md |-> NULL, heap |-> h]
        \/ Given(h, A, X, n, w, res)
    <2>1. \/ ffit(h, n, rb, w) = [md |-> NULL, heap |-> h]
          \/ Given(h, A, X, n, w, ffit(h, n, rb, w))
      BY <1>2, <1>4, FfitFits
    <2> QED
      BY <2>1
  <1>6. CASE res = [md |-> NULL, heap |-> h]
    <2>1. g = h
      BY <1>6
    <2> QED
      BY <2>1
  <1>7. CASE Given(h, A, X, n, w, res)
    <2> PICK B : B = Inserted(A, 0, res.md)
      OBVIOUS
    <2> PICK m : m = res.md
      OBVIOUS
    <2>1. Grown(h, g, A, B, X, m)
      <3>1. Grown(h, res.heap, A, Inserted(A, 0, res.md), X, res.md)
        BY <1>2, <1>7, GivenGrown
      <3> QED
        BY <3>1
    <2>2. /\ Elements(B) = Elements(A) \cup {m}
          /\ Sound(g, B, X) /\ Same(h, g, Elements(A) \cup X)
          /\ g.start[m] \in Addr /\ \A x \in Elements(A) : h.start[x] # g.start[m]
      BY <2>1 DEF Grown
    <2>3. \A x \in Elements(A) : g.start[x] = h.start[x] /\ g.own[x] = h.own[x]
      BY <2>2 DEF Same
    <2>4. g.own[m] \in Elements(r)
      BY <1>4, <1>7 DEF Given
    <2>5. Family(g, Elements(A) \cup {m}, r, env, t, N)
      <3>1. Adds(h, g, Elements(A), r, m)
        BY <2>2, <2>3, <2>4 DEF Adds
      <3> QED
        BY <1>3, <3>1, FamilyMore
    <2> QED
      BY <2>2, <2>5 DEF State, Kin
  <1> QED
    BY <1>5, <1>6, <1>7

-----------------------------------------------------------------------------
\* blocks are freed or kept for good, and the last processes end
LEMMA StateLess ==
  ASSUME NEW h, NEW F, NEW A, NEW X, Fits(h, F, A, X, {}), NEW r, NEW env,
         Kin(h, Elements(A), r, env),
         NEW B, NEW g, NEW Y, Elements(B) \subseteq Elements(A), Sound(g, B, Y),
         NEW Z, Same(h, g, Elements(B) \cup Z),
         NEW k \in 1..Len(r), \A x \in Elements(B) : h.own[x] \in Before(r, k),
         \A x \in Elements(A) \ Elements(B), j \in 2..k : h.start[x] # r[j],
         NEW q, q = SubSeq(r, 1, k), NEW e, e = Pages(g, env)
  PROVE  State(g, q, e, Y)
  <1>1. PICK t, N : Family(h, Elements(A), r, env, t, N)
    BY DEF Kin
  <1>2. PICK G : Fits(g, G, B, Y, {})
    BY DEF Sound
  <1>3. env \in [Addr -> 0..Size]
    BY <1>1 DEF Family
  <1>4. /\ e \in [Addr -> 0..Size]
        /\ \A a \in Addr : e[a] = IF \E x \in Elements(B) : g.start[x] = a THEN env[a] ELSE 0
    <2>1. /\ Pages(g, env) \in [Addr -> 0..Size]
          /\ \A a \in Addr : Pages(g, env)[a] = IF \E x \in Elements(B) : g.start[x] = a THEN env[a] ELSE 0
      BY <1>2, <1>3, PagesIs
    <2> QED
      BY <2>1
  <1>5. \A x \in Elements(B) : g.start[x] = h.start[x] /\ g.own[x] = h.own[x]
    BY DEF Same
  <1>6. \A x \in Elements(B) : h.start[x] \in Addr
    <2>1. \A x \in Elements(A) : x \in MD /\ h.start[x] \in Addr
      BY BlocksApart
    <2> QED
      BY <2>1
  <1>7. Family(g, Elements(B), q, e, t, N)
    <2>1. Fewer(h, g, Elements(A), Elements(B), r, k, env, e)
      BY <1>4, <1>5, <1>6 DEF Fewer
    <2> QED
      BY <1>1, <2>1, FamilyLess
  <1>8. Kin(g, Elements(B), q, e)
    BY <1>7 DEF Kin
  <1> QED
    BY <1>8 DEF State

\* all processes go on
LEMMA StateStays ==
  ASSUME NEW h, NEW F, NEW A, NEW X, Fits(h, F, A, X, {}), NEW r, NEW env,
         Kin(h, Elements(A), r, env),
         NEW B, NEW g, Elements(B) \subseteq Elements(A), Sound(g, B, X),
         NEW Z, Same(h, g, Elements(B) \cup Z),
         \A x \in Elements(A) \ Elements(B), j \in 2..Len(r) : h.start[x] # r[j],
         NEW e, e = Pages(g, env)
  PROVE  State(g, r, e, X)
  <1>1. PICK t, N : Family(h, Elements(A), r, env, t, N)
    BY DEF Kin
  <1> PICK k : k = Len(r)
    OBVIOUS
  <1> PICK w : w = r[Len(r)]
    OBVIOUS
  <1>2. /\ Len(r) \in Nat /\ Len(r) >= 1 /\ Elements(r) = Before(r, Len(r))
        /\ r \in Seq(Addr \cup {ospd})
    BY <1>1, LastIs
  <1>3. k \in 1..Len(r) /\ r = SubSeq(r, 1, k)
    BY <1>2
  <1>4. \A x \in Elements(B) : h.own[x] \in Before(r, k)
    BY <1>1, <1>2 DEF Family
  <1>5. \A x \in Elements(A) \ Elements(B), j \in 2..k : h.start[x] # r[j]
    OBVIOUS
  <1>6. /\ Fits(h, F, A, X, {}) /\ Kin(h, Elements(A), r, env)
        /\ Elements(B) \subseteq Elements(A) /\ Sound(g, B, X) /\ Same(h, g, Elements(B) \cup Z)
        /\ e = Pages(g, env)
    OBVIOUS
  <1> QED
    BY ONLY <1>3, <1>4, <1>5, <1>6, StateLess

\* a program gives back its own block, or shrinks a block
LEMMA MfreeKeeps ==
  ASSUME NEW h, NEW r, NEW env, NEW X, State(h, r, env, X), NEW a, a \notin Elements(r),
         NEW m, m = Find(h, a), m # NULL,
         NEW g, g = xmfree(h, a), NEW e, e = Pages(g, env)
  PROVE  State(g, r, e, X)
  <1>1. PICK A : Sound(h, A, X) /\ Kin(h, Elements(A), r, env)
    BY DEF State
  <1>2. PICK F : Fits(h, F, A, X, {})
    BY <1>1 DEF Sound
  <1>3. Allocated(h) = A /\ A \in Seq(MD)
    BY <1>2, FitsLists
  <1>4. m \in Elements(A) /\ h.start[m] = a
    <2>1. m = FindIn(h, A, a)
      BY <1>3 DEF Find
    <2>2. Found(h, A, a, m)
      BY <1>3, <2>1, FindIs
    <2> QED
      BY <2>2 DEF Found
  <1>5. g = Release(h, A, m)
    BY <1>3 DEF xmfree
  <1>6. Left(h, g, A, X, {m})
    BY <1>2, <1>4, <1>5, ReleaseFits
  <1>7. PICK B : /\ B \in Seq(MD) /\ Elements(B) = Elements(A) \ {m}
                 /\ Sound(g, B, X) /\ Same(h, g, Elements(B) \cup X)
    BY <1>6 DEF Left
  <1>8. \A x \in Elements(A) \ Elements(B), j \in 2..Len(r) : h.start[x] # r[j]
    <2>1. PICK t, N : Family(h, Elements(A), r, env, t, N)
      BY <1>1 DEF Kin
    <2>2. r \in Seq(Addr \cup {ospd})
      BY <2>1 DEF Family
    <2>3. \A j \in 2..Len(r) : r[j] \in Elements(r)
      BY <2>2 DEF Elements
    <2> QED
      BY <1>4, <1>7, <2>3
  <1>9. Elements(B) \subseteq Elements(A)
    BY <1>7
  <1>10. e = Pages(g, env)
    OBVIOUS
  <1> QED
    BY ONLY <1>1, <1>2, <1>7, <1>8, <1>9, <1>10, StateStays

LEMMA MshrinkKeeps ==
  ASSUME NEW h, NEW r, NEW env, NEW X, State(h, r, env, X), NEW a, NEW n \in Nat \ {0},
         NEW rb, Lends(h, rb),
         NEW g, g = xsetblk(h, a, n, rb), NEW e, e = Pages(g, env)
  PROVE  State(g, r, e, X)
  <1>1. PICK A : Sound(h, A, X) /\ Kin(h, Elements(A), r, env)
    BY DEF State
  <1>2. PICK F : Fits(h, F, A, X, {})
    BY <1>1 DEF Sound
  <1>3. Sound(g, A, X) /\ Same(h, g, Elements(A) \cup X)
    BY <1>2, XsetblkFits
  <1>4. /\ \A x \in Elements(A) \ Elements(A), j \in 2..Len(r) : h.start[x] # r[j]
        /\ Elements(A) \subseteq Elements(A) /\ e = Pages(g, env)
    OBVIOUS
  <1> QED
    BY ONLY <1>1, <1>2, <1>3, <1>4, StateStays

-----------------------------------------------------------------------------
(* The pool: open files take blocks of it, and give them back.               *)

\* the lists are what they were, and the descriptors in use are not touched
Spares(h, g) ==
  /\ g \in Heaps /\ g.halted = h.halted /\ g.start = h.start /\ g.length = h.length
  /\ g.link = h.link /\ g.rover = h.rover
  /\ \A H \in SUBSET MD : Pool(h, H) => Pool(g, H) /\ \A x \in H : g.own[x] = h.own[x]

LEMMA StatePool ==
  ASSUME NEW h, NEW r, NEW env, NEW X, State(h, r, env, X), NEW g, Spares(h, g)
  PROVE  State(g, r, env, X)
  <1>1. PICK A : Sound(h, A, X) /\ Kin(h, Elements(A), r, env)
    BY DEF State
  <1>2. PICK F : Fits(h, F, A, X, {})
    BY <1>1 DEF Sound
  <1>3. /\ h \in Heaps /\ ~h.halted /\ Lists(h, F, A, X) /\ Ordered(h, F, {})
        /\ Tiled(h, All(F, A, X)) /\ Pool(h, All(F, A, X)) /\ All(F, A, X) \in SUBSET MD
    BY <1>2, FitsLists DEF Fits
  <1>4. /\ g \in Heaps /\ g.halted = h.halted /\ g.start = h.start /\ g.length = h.length
        /\ g.link = h.link /\ g.rover = h.rover
    BY DEF Spares
  <1>5. Pool(g, All(F, A, X)) /\ \A x \in All(F, A, X) : g.own[x] = h.own[x]
    BY <1>3 DEF Spares
  <1>6. Lists(g, F, A, X)
    <2>1. \A c, s : Follows(h, c, s) <=> Follows(g, c, s)
      BY <1>4 DEF Follows
    <2> QED
      BY <1>3, <1>4, <2>1 DEF Lists
  <1>7. Tiled(g, All(F, A, X))
    BY <1>3, <1>4, TiledSame
  <1>8. Ordered(g, F, {})
    BY <1>3, <1>4 DEF Ordered, End
  <1>9. Fits(g, F, A, X, {})
    BY <1>3, <1>4, <1>5, <1>6, <1>7, <1>8 DEF Fits
  <1>10. PICK t, N : Family(h, Elements(A), r, env, t, N)
    BY <1>1 DEF Kin
  <1>11. \A x \in Elements(A) : g.start[x] = h.start[x] /\ g.own[x] = h.own[x]
    BY <1>4, <1>5 DEF All
  <1>12. Family(g, Elements(A), r, env, t, N)
    BY ONLY <1>10, <1>11, FamilySame
  <1> QED
    BY <1>9, <1>12 DEF State, Sound, Kin

\* the block b, none of whose descriptors is in use, is taken for an open file
Opens(h, g, b) ==
  /\ h.x_flag[b] >= 0
  /\ h.x_flag[b] > 0 => \A m \in buf(b) : h.own[m] = MF_FREE
  /\ g = [h EXCEPT !.x_flag[b] = -1,
                   !.own = [m \in MD |-> IF m \in buf(b) THEN NOBODY ELSE h.own[m]]]

LEMMA MgetofdKeeps ==
  ASSUME NEW h, NEW r, NEW env, NEW X, State(h, r, env, X), NEW b \in Blocks, NEW g, Opens(h, g, b)
  PROVE  State(g, r, env, X)
  <1> /\ h.x_flag[b] >= 0
      /\ h.x_flag[b] > 0 => \A m \in buf(b) : h.own[m] = MF_FREE
      /\ g = [h EXCEPT !.x_flag[b] = -1,
                       !.own = [m \in MD |-> IF m \in buf(b) THEN NOBODY ELSE h.own[m]]]
    BY DEF Opens
  <1>1. h \in Heaps
    BY FitsLists DEF State, Sound
  <1> PICK O : O = [m \in MD |-> IF m \in buf(b) THEN NOBODY ELSE h.own[m]]
    OBVIOUS
  <1> PICK V : V = [h.x_flag EXCEPT ![b] = -1]
    OBVIOUS
  <1>2. h.own \in [MD -> {MF_FREE, NOBODY, ospd} \cup Addr] /\ h.x_flag \in [Blocks -> {-1, 0, 1}]
    BY <1>1 DEF Heaps
  <1>3. O \in [MD -> {MF_FREE, NOBODY, ospd} \cup Addr] /\ V \in [Blocks -> {-1, 0, 1}]
    BY <1>2
  <1>4. g = [h EXCEPT !.own = O, !.x_flag = V]
    BY <1>1 DEF Heaps
  <1>5. /\ g.own = O /\ g.x_flag = V
        /\ g \in Heaps /\ g.halted = h.halted /\ g.start = h.start /\ g.length = h.length
        /\ g.link = h.link /\ g.rover = h.rover
    BY <1>1, <1>2, <1>3, <1>4 DEF Heaps
  <1>6. /\ V[b] = -1 /\ \A c \in Blocks : c # b => V[c] = h.x_flag[c]
        /\ \A m \in MD : m \in buf(b) => O[m] = NOBODY
        /\ \A m \in MD : m \notin buf(b) => O[m] = h.own[m]
    BY <1>2
  <1>7. ASSUME NEW H \in SUBSET MD, Pool(h, H)
        PROVE  Pool(g, H) /\ \A x \in H : O[x] = h.own[x]
    <2>1. \A m \in MD \ {themd} : Block(m) \in Blocks /\ (m \in buf(b) <=> Block(m) = b)
      BY BlockNumbers DEF buf
    <2>2. \A m \in H : m \notin buf(b)
      <3> SUFFICES ASSUME NEW m \in H, m \in buf(b) PROVE FALSE
        OBVIOUS
      <3>1. m \in MD \ {themd} /\ Block(m) = b
        BY DEF buf
      <3>2. IF h.x_flag[b] = 1 THEN h.own[m] = MF_FREE <=> m \notin H ELSE m \notin H
        BY <1>7, <3>1 DEF Pool
      <3> QED
        BY <3>2
    <2>3. \A x \in H : O[x] = h.own[x]
      BY <1>6, <2>2
    <2>4. Pool(g, H)
      <3> SUFFICES ASSUME NEW m \in MD \ {themd}
                   PROVE  IF V[Block(m)] = 1 THEN O[m] = MF_FREE <=> m \notin H ELSE m \notin H
        BY <1>5 DEF Pool
      <3>1. IF h.x_flag[Block(m)] = 1 THEN h.own[m] = MF_FREE <=> m \notin H ELSE m \notin H
        BY <1>7 DEF Pool
      <3>2. CASE m \in buf(b)
        <4>1. V[Block(m)] = -1 /\ m \notin H
          BY <1>6, <2>1, <2>2, <3>2
        <4> QED
          BY <4>1
      <3>3. CASE m \notin buf(b)
        <4>1. V[Block(m)] = h.x_flag[Block(m)] /\ O[m] = h.own[m]
          BY <1>6, <2>1, <3>3
        <4> QED
          BY <3>1, <4>1
      <3> QED
        BY <3>2, <3>3
    <2> QED
      BY <2>3, <2>4
  <1>8. \A H \in SUBSET MD : Pool(h, H) => Pool(g, H) /\ \A x \in H : O[x] = h.own[x]
    BY <1>7
  <1>9. Spares(h, g)
    BY <1>5, <1>8 DEF Spares
  <1> QED
    BY <1>9, StatePool

LEMMA OftdelKeeps ==
  ASSUME NEW h, NEW r, NEW env, NEW X, State(h, r, env, X), NEW b \in Blocks, h.x_flag[b] = -1,
         NEW g, g = [h EXCEPT !.x_flag[b] = 0]
  PROVE  State(g, r, env, X)
  <1>1. h \in Heaps
    BY FitsLists DEF State, Sound
  <1> PICK O : O = h.own
    OBVIOUS
  <1> PICK V : V = [h.x_flag EXCEPT ![b] = 0]
    OBVIOUS
  <1>2. O \in [MD -> {MF_FREE, NOBODY, ospd} \cup Addr] /\ h.x_flag \in [Blocks -> {-1, 0, 1}]
    BY <1>1 DEF Heaps
  <1>3. V \in [Blocks -> {-1, 0, 1}] /\ V[b] = 0 /\ \A c \in Blocks : c # b => V[c] = h.x_flag[c]
    BY <1>2
  <1>4. g = [h EXCEPT !.own = O, !.x_flag = V]
    <2>1. h = [h EXCEPT !.own = O]
      BY <1>1 DEF Heaps
    <2>2. g = [h EXCEPT !.x_flag = V]
      OBVIOUS
    <2> QED
      BY <1>1, <2>1, <2>2 DEF Heaps
  <1>5. /\ g.own = O /\ g.x_flag = V
        /\ g \in Heaps /\ g.halted = h.halted /\ g.start = h.start /\ g.length = h.length
        /\ g.link = h.link /\ g.rover = h.rover
    BY <1>1, <1>2, <1>3, <1>4 DEF Heaps
  <1>6. ASSUME NEW H \in SUBSET MD, Pool(h, H)
        PROVE  Pool(g, H)
    <2> SUFFICES ASSUME NEW m \in MD \ {themd}
                 PROVE  IF V[Block(m)] = 1 THEN O[m] = MF_FREE <=> m \notin H ELSE m \notin H
      BY <1>5 DEF Pool
    <2>1. IF h.x_flag[Block(m)] = 1 THEN h.own[m] = MF_FREE <=> m \notin H ELSE m \notin H
      BY <1>6 DEF Pool
    <2>2. Block(m) \in Blocks
      BY BlockNumbers
    <2>3. Block(m) = b \/ V[Block(m)] = h.x_flag[Block(m)]
      BY <1>3, <2>2
    <2> QED
      BY <1>3, <2>1, <2>3
  <1>7. \A H \in SUBSET MD : Pool(h, H) => Pool(g, H) /\ \A x \in H : O[x] = h.own[x]
    BY <1>5, <1>6
  <1>8. Spares(h, g)
    BY <1>5, <1>7 DEF Spares
  <1> QED
    BY <1>8, StatePool

-----------------------------------------------------------------------------
\* when the last process ends, no block of its own is the base page of another
LEMMA LastEnds ==
  ASSUME NEW h, NEW M, NEW r, NEW env, NEW t, NEW N, Family(h, M, r, env, t, N),
         NEW w, w = r[Len(r)], w # ospd,
         NEW K, K = {x \in M : h.own[x] # w},
         NEW k, k = Len(r) - 1
  PROVE  /\ k \in 1..Len(r) /\ \A x \in K : h.own[x] \in Before(r, k)
         /\ \A x \in M \ K, j \in 2..k : h.start[x] # r[j]
  <1>1. /\ r \in Seq(Addr \cup {ospd}) /\ r # <<>> /\ r[1] = ospd /\ Distinct(r)
        /\ \A x \in M : h.own[x] \in Elements(r)
        /\ \A x \in M, j \in 2..Len(r) : h.start[x] = r[j] => h.own[x] \in Before(r, j)
    BY DEF Family
  <1>2. Len(r) \in Nat /\ Len(r) >= 1 /\ DOMAIN r = 1..Len(r)
    BY <1>1
  <1>3. k \in 1..Len(r) /\ k < Len(r) /\ k \in Nat
    <2>1. Len(r) # 1
      BY <1>1
    <2> QED
      BY <1>2, <2>1
  <1>4. \A x \in K : h.own[x] \in Before(r, k)
    <2> SUFFICES ASSUME NEW x \in K PROVE h.own[x] \in Before(r, k)
      OBVIOUS
    <2>1. PICK i \in 1..Len(r) : h.own[x] = r[i]
      BY <1>1, <1>2 DEF Elements
    <2>2. i # Len(r)
      BY <2>1
    <2>3. i \in 1..k
      BY <1>2, <1>3, <2>1, <2>2
    <2> QED
      BY <2>1, <2>3 DEF Before
  <1>5. \A x \in M \ K, j \in 2..k : h.start[x] # r[j]
    <2> SUFFICES ASSUME NEW x \in M \ K, NEW j \in 2..k, h.start[x] = r[j] PROVE FALSE
      OBVIOUS
    <2>1. h.own[x] = w
      OBVIOUS
    <2>2. j \in 2..Len(r)
      BY <1>2, <1>3
    <2>3. PICK i \in 1..j : r[i] = w
      BY <1>1, <2>1, <2>2 DEF Before
    <2>4. i \in 1..Len(r) /\ Len(r) \in 1..Len(r) /\ i # Len(r)
      BY <1>2, <1>3, <2>3
    <2> QED
      BY <1>1, <1>2, <2>3, <2>4 DEF Distinct
  <1> QED
    BY <1>3, <1>4, <1>5

LEMMA PtermKeeps ==
  ASSUME NEW h, NEW r, NEW env, NEW X, State(h, r, env, X), NEW w, w = r[Len(r)], w # ospd,
         NEW g, g = ixterm(h, w), NEW q, q = SubSeq(r, 1, Len(r) - 1),
         NEW e, e = Pages(g, env)
  PROVE  State(g, q, e, X)
  <1>1. PICK A : Sound(h, A, X) /\ Kin(h, Elements(A), r, env)
    BY DEF State
  <1>2. PICK F : Fits(h, F, A, X, {})
    BY <1>1 DEF Sound
  <1>3. PICK t, N : Family(h, Elements(A), r, env, t, N)
    BY <1>1 DEF Kin
  <1>4. Swept(h, g, A, X, w, TRUE)
    <2>1. g = Sweep(h, w, TRUE)
      BY DEF ixterm
    <2> QED
      BY <1>2, <2>1, SweepFits
  <1>5. PICK B : /\ B \in Seq(MD) /\ Elements(B) = {x \in Elements(A) : h.own[x] # w}
                 /\ Sound(g, B, Aside(TRUE, A, B, X))
                 /\ Same(h, g, Elements(B) \cup Aside(TRUE, A, B, X))
    BY <1>4 DEF Swept
  <1>6. Sound(g, B, X) /\ Same(h, g, Elements(B) \cup X) /\ Elements(B) \subseteq Elements(A)
    BY <1>5 DEF Aside
  <1> PICK k : k = Len(r) - 1
    OBVIOUS
  <1>7. /\ k \in 1..Len(r) /\ \A x \in Elements(B) : h.own[x] \in Before(r, k)
        /\ \A x \in Elements(A) \ Elements(B), j \in 2..k : h.start[x] # r[j]
    BY <1>3, <1>5, LastEnds
  <1>8. q = SubSeq(r, 1, k) /\ e = Pages(g, env)
    OBVIOUS
  <1> QED
    BY ONLY <1>1, <1>2, <1>6, <1>7, <1>8, StateLess

\* the blocks of w
OwnedBy(h, w) == {m \in Elements(Allocated(h)) : h.own[m] = w}

LEMMA PtermresKeeps ==
  ASSUME NEW h, NEW r, NEW env, NEW X, State(h, r, env, X), NEW w, w = r[Len(r)], w # ospd,
         NEW n \in Nat \ {0}, NEW rb, Lends(h, rb),
         NEW h1, h1 = xsetblk(h, w, n, rb), NEW g, g = ixterm(xmakeres(h1, w), w),
         NEW q, q = SubSeq(r, 1, Len(r) - 1), NEW e, e = Pages(g, env),
         NEW Y, Y = X \cup OwnedBy(h1, w)
  PROVE  State(g, q, e, Y)
  <1>1. PICK A : Sound(h, A, X) /\ Kin(h, Elements(A), r, env)
    BY DEF State
  <1>2. PICK F : Fits(h, F, A, X, {})
    BY <1>1 DEF Sound
  <1>3. PICK t, N : Family(h, Elements(A), r, env, t, N)
    BY <1>1 DEF Kin
  <1>4. Sound(h1, A, X) /\ Same(h, h1, Elements(A) \cup X)
    BY <1>2, XsetblkFits
  <1>5. PICK F1 : Fits(h1, F1, A, X, {})
    BY <1>4 DEF Sound
  <1>6. Allocated(h1) = A
    BY <1>5, FitsLists
  <1> PICK h2 : h2 = xmakeres(h1, w)
    OBVIOUS
  <1>7. Swept(h1, h2, A, X, w, FALSE)
    <2>1. h2 = Sweep(h1, w, FALSE)
      BY DEF xmakeres
    <2> QED
      BY <1>5, <2>1, SweepFits
  <1>8. PICK C : /\ C \in Seq(MD) /\ Elements(C) = {x \in Elements(A) : h1.own[x] # w}
                 /\ Sound(h2, C, Aside(FALSE, A, C, X))
                 /\ Same(h1, h2, Elements(C) \cup Aside(FALSE, A, C, X))
    BY <1>7 DEF Swept
  <1>9. Aside(FALSE, A, C, X) = Y
    BY <1>6, <1>8 DEF Aside, OwnedBy
  <1>10. PICK F2 : Fits(h2, F2, C, Y, {})
    BY <1>8, <1>9 DEF Sound
  <1>11. Swept(h2, g, C, Y, w, TRUE)
    <2>1. g = Sweep(h2, w, TRUE)
      BY DEF ixterm
    <2> QED
      BY <1>10, <2>1, SweepFits
  <1>12. PICK B : /\ B \in Seq(MD) /\ Elements(B) = {x \in Elements(C) : h2.own[x] # w}
                  /\ Sound(g, B, Aside(TRUE, C, B, Y))
                  /\ Same(h2, g, Elements(B) \cup Aside(TRUE, C, B, Y))
    BY <1>11 DEF Swept
  <1>13. Elements(B) = {x \in Elements(A) : h.own[x] # w}
    <2>1. \A x \in Elements(A) : h1.own[x] = h.own[x]
      BY <1>4 DEF Same
    <2>2. \A x \in Elements(C) : h2.own[x] = h1.own[x]
      BY <1>8 DEF Same
    <2> QED
      BY <1>8, <1>12, <2>1, <2>2
  <1>14. Sound(g, B, Y) /\ Elements(B) \subseteq Elements(A)
    BY <1>12, <1>13 DEF Aside
  <1>15. Same(h, g, Elements(B) \cup {})
    <2>1. \A x \in Elements(A) : h1.own[x] = h.own[x] /\ h1.start[x] = h.start[x]
      BY <1>4 DEF Same
    <2>2. \A x \in Elements(C) : h2.own[x] = h1.own[x] /\ h2.start[x] = h1.start[x]
      BY <1>8 DEF Same
    <2>3. \A x \in Elements(B) : g.own[x] = h2.own[x] /\ g.start[x] = h2.start[x]
      BY <1>12 DEF Same
    <2>4. \A x \in Elements(B) : x \in Elements(C) /\ x \in Elements(A)
      BY <1>8, <1>12
    <2> QED
      BY <2>1, <2>2, <2>3, <2>4 DEF Same
  <1> PICK k : k = Len(r) - 1
    OBVIOUS
  <1>16. /\ k \in 1..Len(r) /\ \A x \in Elements(B) : h.own[x] \in Before(r, k)
         /\ \A x \in Elements(A) \ Elements(B), j \in 2..k : h.start[x] # r[j]
    <2>1. w = r[Len(r)] /\ w # ospd /\ k = Len(r) - 1
      OBVIOUS
    <2> QED
      BY ONLY <1>3, <1>13, <2>1, LastEnds
  <1>17. q = SubSeq(r, 1, k) /\ e = Pages(g, env)
    OBVIOUS
  <1> QED
    BY ONLY <1>1, <1>2, <1>14, <1>15, <1>16, <1>17, StateLess

LEMMA GoKeeps ==
  ASSUME NEW h, NEW r, NEW env, NEW X, State(h, r, env, X), NEW b \in Addr,
         env[b] # 0, b \notin Elements(r),
         NEW m, m = Find(h, b), m # NULL, h.own[m] = r[Len(r)],
         NEW g, g = h \/ g = xmsetown(xmsetown(h, b, b), env[b], b),
         NEW q, q = Append(r, b)
  PROVE  State(g, q, env, X)
  <1>1. PICK A : Sound(h, A, X) /\ Kin(h, Elements(A), r, env)
    BY DEF State
  <1>2. PICK F : Fits(h, F, A, X, {})
    BY <1>1 DEF Sound
  <1>3. PICK t, N : Family(h, Elements(A), r, env, t, N)
    BY <1>1 DEF Kin
  <1>4. Allocated(h) = A /\ A \in Seq(MD)
    BY <1>2, FitsLists
  <1>5. m \in Elements(A) /\ h.start[m] = b
    <2>1. m = FindIn(h, A, b)
      BY <1>4 DEF Find
    <2>2. Found(h, A, b, m)
      BY <1>4, <2>1, FindIs
    <2> QED
      BY <2>2 DEF Found
  <1>6. /\ \A x \in Elements(A) : x \in MD /\ h.start[x] \in Addr
        /\ \A x, y \in Elements(A) : h.start[x] = h.start[y] => x = y
    BY <1>2, BlocksApart
  <1>7. /\ Sound(g, A, X) /\ \A x \in Elements(A) : g.start[x] = h.start[x]
        /\ \A x \in Elements(A) : g.own[x] = h.own[x] \/ (g.own[x] = b /\ h.start[x] \in {b, env[b]})
    <2>1. CASE g = h
      BY <1>1, <2>1
    <2>2. CASE g = xmsetown(xmsetown(h, b, b), env[b], b)
      <3> PICK o : o = xmsetown(h, b, b)
        OBVIOUS
      <3> PICK c : c = env[b]
        OBVIOUS
      <3> PICK z : z = FindIn(o, A, c)
        OBVIOUS
      <3>1. /\ Fits(o, F, A, X, {}) /\ o.start = h.start
            /\ \A x \in MD : o.own[x] = IF x = FindIn(h, A, b) THEN b ELSE h.own[x]
        BY <1>2, SetOwnerFits
      <3>2. m = FindIn(h, A, b)
        BY <1>4 DEF Find
      <3>3. /\ Fits(g, F, A, X, {}) /\ g.start = o.start
            /\ \A x \in MD : g.own[x] = IF x = FindIn(o, A, c) THEN b ELSE o.own[x]
        <4>1. g = xmsetown(o, c, b) /\ b \in {ospd} \cup Addr
          BY <2>2
        <4> QED
          BY <3>1, <4>1, SetOwnerFits
      <3>4. Found(o, A, c, z)
        BY <1>4, FindIs
      <3>5. z \in Elements(A) => h.start[z] = c
        BY <3>1, <3>4, <1>6, Descriptor DEF Found
      <3> QED
        BY <1>5, <1>6, <3>1, <3>2, <3>3, <3>5 DEF Sound
    <2> QED
      BY <2>1, <2>2
  <1>8. Family(g, Elements(A), q, env, t, N)
    <2>1. Goes(h, g, Elements(A), r, env, b, m)
      BY <1>5, <1>6, <1>7 DEF Goes
    <2> QED
      BY <1>3, <2>1, FamilyGoes
  <1> QED
    BY <1>7, <1>8 DEF State, Kin

-----------------------------------------------------------------------------
\* Pexec: new has the environment and the base page for w
Loads(h, A, X, new, w) ==
  \E B, e, p : /\ B \in Seq(MD) /\ Elements(B) = Elements(A) \cup {e, p}
               /\ Sound(new.heap, B, X)
               /\ Brings(h, new.heap, Elements(A), e, p, new.env, new.page, w)
               /\ Same(h, new.heap, X)

\* the two blocks are given to w
LEMMA PageLoads ==
  ASSUME NEW h, NEW F, NEW A, NEW X, Fits(h, F, A, X, {}), NEW e, NEW p, NEW A1, NEW B, NEW g1, NEW g2,
         Grown(h, g1, A, A1, X, e), Grown(g1, g2, A1, B, X, p), NEW w \in {ospd} \cup Addr,
         NEW new, new.heap = [g2 EXCEPT !.own = [g2.own EXCEPT ![e] = w, ![p] = w]],
         new.env = g2.start[e], new.page = g2.start[p]
  PROVE  Loads(h, A, X, new, w)
  <1>1. /\ A1 \in Seq(MD) /\ Elements(A1) = Elements(A) \cup {e}
        /\ Sound(g1, A1, X) /\ Same(h, g1, Elements(A) \cup X)
        /\ e \in MD /\ e \notin Elements(A)
        /\ g1.start[e] \in Addr /\ \A x \in Elements(A) : h.start[x] # g1.start[e]
    BY DEF Grown
  <1>2. /\ B \in Seq(MD) /\ Elements(B) = Elements(A1) \cup {p}
        /\ Sound(g2, B, X) /\ Same(g1, g2, Elements(A1) \cup X)
        /\ p \in MD /\ p \notin Elements(A1)
        /\ g2.start[p] \in Addr /\ \A x \in Elements(A1) : g1.start[x] # g2.start[p]
    BY DEF Grown
  <1>3. PICK G : Fits(g2, G, B, X, {})
    BY <1>2 DEF Sound
  <1>4. e \in Elements(B) /\ p \in Elements(B) /\ e # p
    BY <1>1, <1>2
  <1>5. PICK k : k = [g2 EXCEPT !.own[e] = w]
    OBVIOUS
  <1>6. PICK g : g = [k EXCEPT !.own[p] = w]
    OBVIOUS
  <1>7. Owned(g2, k, G, B, X, e, w)
    BY <1>3, <1>4, <1>5, OwnerFits
  <1>8. /\ Fits(k, G, B, X, {}) /\ k.start = g2.start
        /\ k.own[e] = w /\ \A x \in MD : x # e => k.own[x] = g2.own[x]
    BY <1>7 DEF Owned
  <1>9. Owned(k, g, G, B, X, p, w)
    BY <1>4, <1>6, <1>8, OwnerFits
  <1>10. /\ Fits(g, G, B, X, {}) /\ g.start = k.start
         /\ g.own[p] = w /\ \A x \in MD : x # p => g.own[x] = k.own[x]
    BY <1>9 DEF Owned
  <1>11. g2 \in Heaps /\ X \cap Elements(B) = {}
    BY <1>3, FitsLists
  <1>12. X \subseteq MD /\ A \in Seq(MD)
    BY FitsLists
  <1>13. g = [g2 EXCEPT !.own = [g2.own EXCEPT ![e] = w, ![p] = w]]
    BY <1>5, <1>6, <1>11 DEF Heaps
  <1>14. new.heap = g
    BY <1>13
  <1>15. PICK c : c = g2.start[e]
    OBVIOUS
  <1>16. PICK b : b = g2.start[p]
    OBVIOUS
  <1>17. \A x \in Elements(A) \cup X : x \in MD /\ x # e /\ x # p
    <2>1. Elements(A) \subseteq MD
      BY <1>12 DEF Elements
    <2> QED
      BY <1>1, <1>2, <1>4, <1>11, <1>12, <2>1
  <1>18. \A x \in Elements(A) \cup X : g.start[x] = h.start[x] /\ g.own[x] = h.own[x]
    <2>1. \A x \in Elements(A) \cup X : g1.start[x] = h.start[x] /\ g1.own[x] = h.own[x]
      BY <1>1 DEF Same
    <2>2. \A x \in Elements(A) \cup X : g2.start[x] = g1.start[x] /\ g2.own[x] = g1.own[x]
      BY <1>1, <1>2 DEF Same
    <2>3. \A x \in Elements(A) \cup X : g.own[x] = g2.own[x]
      BY <1>8, <1>10, <1>17
    <2> QED
      BY <1>8, <1>10, <2>1, <2>2, <2>3
  <1>19. c = g1.start[e] /\ b # c /\ c \in Addr /\ b \in Addr
    <2>1. g2.start[e] = g1.start[e]
      BY <1>1, <1>2 DEF Same
    <2>2. g1.start[e] # g2.start[p]
      BY <1>1, <1>2
    <2> QED
      BY <1>1, <1>2, <1>15, <1>16, <2>1, <2>2
  <1>20. \A x \in Elements(A) : h.start[x] # c /\ h.start[x] # b /\ h.start[x] \in Addr
    <2>1. \A x \in Elements(A) : x \in MD /\ h.start[x] \in Addr
      BY BlocksApart
    <2>2. \A x \in Elements(A) : g1.start[x] = h.start[x] /\ x \in Elements(A1)
      BY <1>1 DEF Same
    <2> QED
      BY <1>1, <1>2, <1>16, <1>19, <2>1, <2>2
  <1>21. Brings(h, g, Elements(A), e, p, c, b, w)
    <2>1. g.start[e] = c /\ g.start[p] = b
      BY <1>8, <1>10, <1>15, <1>16
    <2>2. g.own[e] = w /\ g.own[p] = w
      BY <1>1, <1>4, <1>8, <1>10
    <2>3. \A x \in Elements(A) : g.start[x] = h.start[x] /\ g.own[x] = h.own[x] /\ h.start[x] \in Addr
      BY <1>18, <1>20
    <2> QED
      BY <1>19, <1>20, <2>1, <2>2, <2>3 DEF Brings
  <1>22. Elements(B) = Elements(A) \cup {e, p}
    BY <1>1, <1>2
  <1>23. Same(h, g, X)
    BY <1>18 DEF Same
  <1>24. new.env = c /\ new.page = b
    BY <1>15, <1>16
  <1>25. Sound(new.heap, B, X) /\ Same(h, new.heap, X)
         /\ Brings(h, new.heap, Elements(A), e, p, new.env, new.page, w)
    BY <1>10, <1>14, <1>21, <1>23, <1>24 DEF Sound
  <1> QED
    BY <1>2, <1>22, <1>25 DEF Loads

LEMMA CreatedLoads ==
  ASSUME NEW F, NEW A, Fits(heap, F, A, resident, {}), This \in {ospd} \cup Addr,
         NEW rb, Lends(heap, rb), NEW mode, NEW new, new = Created(mode, rb), new.done
  PROVE  Loads(heap, A, resident, new, IF mode = "loadgo" THEN new.page ELSE This)
  <1> PICK X : X = resident
    OBVIOUS
  <1> PICK h : h = heap
    OBVIOUS
  <1> PICK u : u = This
    OBVIOUS
  <1> PICK r1 : r1 = ffit(h, ENVLEN, rb, u)
    OBVIOUS
  <1> PICK e : e = r1.md
    OBVIOUS
  <1> PICK g1 : g1 = r1.heap
    OBVIOUS
  <1>0. Fits(h, F, A, X, {}) /\ u \in {ospd} \cup Addr
    OBVIOUS
  <1>1. new = Base(mode, r1)
    BY DEF Created
  <1>2. e # NULL /\ ~(largest(g1) < PDLEN)
    <2>1. CASE e = NULL
      BY <1>1, <2>1 DEF Base
    <2>2. CASE e # NULL /\ largest(g1) < PDLEN
      BY <1>1, <2>2 DEF Base
    <2> QED
      BY <2>1, <2>2
  <1> PICK L : L = largest(g1)
    OBVIOUS
  <1> PICK r2 : r2 = ffit(g1, L, NULL, u)
    OBVIOUS
  <1> PICK p : p = r2.md
    OBVIOUS
  <1> PICK g2 : g2 = r2.heap
    OBVIOUS
  <1>3. new = Page(mode, e, r2)
    BY <1>1, <1>2 DEF Base
  <1>4. Given(h, A, X, ENVLEN, u, r1)
    <2>1. ENVLEN \in Nat \ {0}
      BY MemoryAssumption
    <2>2. \/ ffit(h, ENVLEN, rb, u) = [md |-> NULL, heap |-> h]
          \/ Given(h, A, X, ENVLEN, u, ffit(h, ENVLEN, rb, u))
      BY <1>0, <2>1, FfitFits
    <2> QED
      BY <1>2, <2>2
  <1> PICK A1 : A1 = Inserted(A, 0, e)
    OBVIOUS
  <1>5. Grown(h, g1, A, A1, X, e)
    <2>1. Grown(h, r1.heap, A, Inserted(A, 0, r1.md), X, r1.md)
      BY <1>0, <1>4, GivenGrown
    <2> QED
      BY <2>1
  <1>6. /\ A1 \in Seq(MD) /\ Elements(A1) = Elements(A) \cup {e}
        /\ Sound(g1, A1, X) /\ Same(h, g1, Elements(A) \cup X)
        /\ e \in MD /\ e \notin Elements(A)
        /\ g1.start[e] \in Addr /\ \A x \in Elements(A) : h.start[x] # g1.start[e]
    BY <1>5 DEF Grown
  <1>7. PICK F1 : Fits(g1, F1, A1, X, {})
    BY <1>6 DEF Sound
  <1>8. largest(g1) > 0
    <2>1. largest(g1) \in 0..Size
      BY <1>7, LargestIs
    <2> QED
      BY <1>2, <2>1, MemoryAssumption
  <1>9. Given(g1, A1, X, L, u, r2)
    <2>1. Given(g1, A1, X, largest(g1), u, ffit(g1, largest(g1), NULL, u))
      BY <1>0, <1>7, <1>8, FfitLargest
    <2> QED
      BY <2>1
  <1> PICK B : B = Inserted(A1, 0, p)
    OBVIOUS
  <1>10. Grown(g1, g2, A1, B, X, p)
    <2>1. Grown(g1, r2.heap, A1, Inserted(A1, 0, r2.md), X, r2.md)
      BY <1>7, <1>9, GivenGrown
    <2> QED
      BY <2>1
  <1>11. PICK w : w = IF mode = "loadgo" THEN new.page ELSE u
    OBVIOUS
  <1>12. /\ new.page = g2.start[p] /\ new.env = g2.start[e]
         /\ new.heap = [g2 EXCEPT !.own = [g2.own EXCEPT ![e] = w, ![p] = w]]
    BY <1>3, <1>11 DEF Page
  <1>13. w \in {ospd} \cup Addr
    BY <1>0, <1>10, <1>11, <1>12 DEF Grown
  <1>14. Loads(h, A, X, new, w)
    BY ONLY <1>0, <1>5, <1>10, <1>12, <1>13, PageLoads
  <1> QED
    BY <1>11, <1>14

-----------------------------------------------------------------------------
\* no process that runs is at an address where no block is
LEMMA NotRunning ==
  ASSUME NEW h, NEW M, NEW r, NEW env, NEW t, NEW N, Family(h, M, r, env, t, N),
         NEW b \in Addr, \A x \in M : h.start[x] # b
  PROVE  b \notin Elements(r)
  <1>1. /\ r \in Seq(Addr \cup {ospd}) /\ r[1] = ospd
        /\ \A a \in Addr : env[a] # 0 => \E x \in M : h.start[x] = a
        /\ \A j \in 2..Len(r) : r[j] \in Addr /\ env[r[j]] # 0
    BY DEF Family
  <1>2. \A j \in 1..Len(r) : r[j] # b
    <2> SUFFICES ASSUME NEW j \in 1..Len(r), r[j] = b PROVE FALSE
      OBVIOUS
    <2>1. j = 1 \/ j \in 2..Len(r)
      OBVIOUS
    <2>2. j # 1
      BY <1>1, Descriptor DEF ospd
    <2> QED
      BY <1>1, <2>1, <2>2
  <1> QED
    BY <1>1, <1>2 DEF Elements

\* the program could be loaded
LEMMA LoadedKeeps ==
  ASSUME NEW h, NEW r, NEW env, NEW A, NEW X, Kin(h, Elements(A), r, env),
         NEW new, NEW w, Loads(h, A, X, new, w), NEW q, Starts(r, new.page, w, q),
         NEW e, e = [env EXCEPT ![new.page] = new.env]
  PROVE  State(new.heap, q, e, X)
  <1>1. PICK t, N : Family(h, Elements(A), r, env, t, N)
    BY DEF Kin
  <1>2. PICK B, y, p :
          /\ B \in Seq(MD) /\ Elements(B) = Elements(A) \cup {y, p}
          /\ Sound(new.heap, B, X)
          /\ Brings(h, new.heap, Elements(A), y, p, new.env, new.page, w)
    BY DEF Loads
  <1>3. PICK g : g = new.heap
    OBVIOUS
  <1>4. PICK b : b = new.page
    OBVIOUS
  <1>5. PICK c : c = new.env
    OBVIOUS
  <1>6. PICK M : M = Elements(A)
    OBVIOUS
  <1>7. PICK K : K = Elements(B)
    OBVIOUS
  <1>8. Kin(g, K, q, e)
    <2>1. Family(h, M, r, env, t, N) /\ Brings(h, g, M, y, p, c, b, w) /\ K = M \cup {y, p}
      BY <1>1, <1>2, <1>3, <1>4, <1>5, <1>6, <1>7
    <2>2. e = [env EXCEPT ![b] = c] /\ Starts(r, b, w, q)
      BY <1>4, <1>5
    <2> QED
      BY ONLY <2>1, <2>2, FamilyLoaded
  <1> QED
    BY <1>2, <1>3, <1>7, <1>8 DEF State

\* the program could not be loaded: what was for it is freed; what was for the
\* process that sets it up stays
LEMMA NotLoadedKeeps ==
  ASSUME NEW h, NEW F, NEW r, NEW env, NEW A, NEW X, Fits(h, F, A, X, {}), Kin(h, Elements(A), r, env),
         NEW new, NEW w, Loads(h, A, X, new, w),
         w = r[Len(r)] \/ w = new.page,
         NEW g, g = ixterm(new.heap, new.page), NEW e, e = Pages(g, env)
  PROVE  State(g, r, e, X)
  <1>1. PICK t, N : Family(h, Elements(A), r, env, t, N)
    BY DEF Kin
  <1>2. PICK B, y, p :
          /\ B \in Seq(MD) /\ Elements(B) = Elements(A) \cup {y, p}
          /\ Sound(new.heap, B, X)
          /\ Brings(h, new.heap, Elements(A), y, p, new.env, new.page, w)
          /\ Same(h, new.heap, X)
    BY DEF Loads
  <1>3. PICK k : k = new.heap
    OBVIOUS
  <1>4. PICK b : b = new.page
    OBVIOUS
  <1>5. PICK c : c = new.env
    OBVIOUS
  <1>6. /\ \A x \in Elements(A) : k.start[x] = h.start[x] /\ k.own[x] = h.own[x] /\ h.start[x] \in Addr
        /\ c \in Addr /\ b \in Addr /\ b # c
        /\ k.start[y] = c /\ k.start[p] = b /\ k.own[y] = w /\ k.own[p] = w
        /\ \A x \in Elements(A) : h.start[x] # c /\ h.start[x] # b
    BY <1>2, <1>3, <1>4, <1>5 DEF Brings
  <1>7. PICK G : Fits(k, G, B, X, {})
    BY <1>2, <1>3 DEF Sound
  <1>8. Swept(k, g, B, X, b, TRUE)
    <2>1. g = Sweep(k, b, TRUE)
      BY <1>3, <1>4 DEF ixterm
    <2> QED
      BY <1>7, <2>1, SweepFits
  <1>9. PICK D : /\ D \in Seq(MD) /\ Elements(D) = {x \in Elements(B) : k.own[x] # b}
                 /\ Sound(g, D, Aside(TRUE, B, D, X))
                 /\ Same(k, g, Elements(D) \cup Aside(TRUE, B, D, X))
    BY <1>8 DEF Swept
  <1>10. Sound(g, D, X) /\ Same(k, g, Elements(D) \cup X)
    BY <1>9 DEF Aside
  <1>11. b \notin Elements(r)
    BY <1>1, <1>6, NotRunning
  <1>12. \A x \in Elements(A) : h.own[x] \in Elements(r) /\ k.own[x] # b
    BY <1>1, <1>6, <1>11 DEF Family
  <1>13. CASE w = b
    <2>1. Elements(D) = Elements(A)
      BY <1>2, <1>6, <1>9, <1>12, <1>13
    <2>2. Same(h, g, Elements(D) \cup {})
      BY <1>6, <1>10, <2>1 DEF Same
    <2>3. /\ Fits(h, F, A, X, {}) /\ Kin(h, Elements(A), r, env) /\ e = Pages(g, env)
          /\ Elements(D) \subseteq Elements(A)
          /\ \A x \in Elements(A) \ Elements(D), j \in 2..Len(r) : h.start[x] # r[j]
      BY <2>1
    <2> QED
      BY ONLY <1>10, <2>2, <2>3, StateStays
  <1>14. CASE w # b
    <2>1. w = r[Len(r)]
      BY <1>4, <1>14
    <2>2. w \in Elements(r)
      BY <1>1, <2>1, LastIs
    <2>3. Elements(D) = Elements(B)
      BY <1>2, <1>6, <1>9, <1>12, <1>14
    <2>4. Family(k, Elements(A) \cup {y}, r, env, t, N)
      <3>1. Adds(h, k, Elements(A), r, y)
        BY <1>6, <2>2 DEF Adds
      <3> QED
        BY <1>1, <3>1, FamilyMore
    <2>5. Family(k, (Elements(A) \cup {y}) \cup {p}, r, env, t, N)
      <3>1. Adds(k, k, Elements(A) \cup {y}, r, p)
        BY <1>6, <2>2 DEF Adds
      <3> QED
        BY <2>4, <3>1, FamilyMore
    <2>6. (Elements(A) \cup {y}) \cup {p} = Elements(B)
      BY <1>2
    <2>7. Kin(k, Elements(B), r, env)
      BY <2>5, <2>6 DEF Kin
    <2>8. /\ e = Pages(g, env) /\ Elements(D) \subseteq Elements(B)
          /\ \A x \in Elements(B) \ Elements(D), j \in 2..Len(r) : k.start[x] # r[j]
      BY <2>3
    <2> QED
      BY ONLY <1>7, <1>10, <2>7, <2>8, StateStays
  <1> QED
    BY <1>13, <1>14

-----------------------------------------------------------------------------
\* the inductive invariant
MemInv == State(heap, run, p_env, resident)

LEMMA InitMemory == Init => MemInv
  <1> SUFFICES ASSUME Init PROVE MemInv
    OBVIOUS
  <1> PICK h : h = heap
    OBVIOUS
  <1> PICK F : F = <<themd>>
    OBVIOUS
  <1> PICK A : A = <<>>
    OBVIOUS
  <1>1. /\ h.link = [m \in MD \cup {MFL, MAL} |-> IF m = MFL THEN themd ELSE NULL]
        /\ h.start = [m \in MD |-> IF m = themd THEN 1 ELSE 0]
        /\ h.length = [m \in MD |-> IF m = themd THEN Size ELSE 0]
        /\ h.own = [m \in MD |-> NOBODY]
        /\ h.x_flag = [b \in Blocks |-> 0]
        /\ h.rover = themd /\ h.halted = FALSE
    BY DEF Init
  <1>2. h \in Heaps
    <2>1. /\ 0 \in 0..Size + 1 /\ 1 \in 0..Size + 1 /\ 0 \in 0..Size /\ Size \in 0..Size
          /\ themd \in MD
      BY Descriptor
    <2>2. /\ h.link \in [MD \cup {MFL, MAL} -> MD \cup {NULL}]
          /\ h.start \in [MD -> 0..Size + 1]
      BY <1>1, <2>1
    <2>3. /\ h.length \in [MD -> 0..Size]
          /\ h.own \in [MD -> {MF_FREE, NOBODY, ospd} \cup Addr]
          /\ h.x_flag \in [Blocks -> {-1, 0, 1}]
          /\ h.rover \in MD \cup {NULL} /\ h.halted \in BOOLEAN
      BY <1>1, <2>1
    <2>4. h = [link |-> h.link, start |-> h.start, length |-> h.length, own |-> h.own,
               x_flag |-> h.x_flag, rover |-> h.rover, halted |-> h.halted]
      BY DEF Init
    <2> QED
      BY <2>2, <2>3, <2>4 DEF Heaps
  <1>3. /\ F \in Seq(MD) /\ Len(F) = 1 /\ F[1] = themd /\ Elements(F) = {themd} /\ DOMAIN F = {1}
        /\ A \in Seq(MD) /\ Len(A) = 0 /\ Elements(A) = {} /\ DOMAIN A = {}
    BY Descriptor DEF Elements
  <1>4. All(F, A, {}) = {themd}
    BY <1>3 DEF All
  <1>5. Lists(h, F, A, {})
    <2>1. Follows(h, MFL, F) /\ Follows(h, MAL, A)
      BY <1>1, <1>3, Descriptor DEF Follows, After
    <2>2. Distinct(F) /\ Distinct(A)
      BY <1>3 DEF Distinct
    <2> QED
      BY <1>1, <1>3, <2>1, <2>2 DEF Lists
  <1>6. Ordered(h, F, {})
    BY <1>3 DEF Ordered
  <1>7. Tiled(h, {themd})
    <2>1. h.start[themd] = 1 /\ h.length[themd] = Size /\ End(h, themd) = 1 + Size
      BY <1>1, Descriptor DEF End
    <2>2. Space(h, themd) = Addr
      BY <2>1, Descriptor DEF Space
    <2> QED
      BY <2>1, <2>2, Descriptor DEF Tiled
  <1>8. Pool(h, {themd})
    <2> SUFFICES ASSUME NEW m \in MD \ {themd}
                 PROVE  IF h.x_flag[Block(m)] = 1 THEN h.own[m] = MF_FREE <=> m \notin {themd}
                                                  ELSE m \notin {themd}
      BY DEF Pool
    <2>1. Block(m) \in Blocks
      BY BlockNumbers
    <2>2. h.x_flag[Block(m)] = 0
      BY <1>1, <2>1
    <2> QED
      BY <2>2
  <1>9. Fits(h, F, A, {}, {})
    BY <1>1, <1>2, <1>4, <1>5, <1>6, <1>7, <1>8 DEF Fits
  <1> PICK t : t = [a \in Addr |-> 0]
    OBVIOUS
  <1>10. Family(h, {}, run, p_env, t, 0)
    <2>1. /\ run \in Seq(Addr \cup {ospd}) /\ run # <<>> /\ run[1] = ospd /\ Len(run) = 1
          /\ Distinct(run)
      BY DEF Init, Distinct
    <2>2. 2..Len(run) = {}
      BY <2>1
    <2>3. /\ p_env \in [Addr -> 0..Size] /\ \A a \in Addr : p_env[a] = 0
          /\ t \in [Addr -> 0..0] /\ 0 \in Nat
      BY Descriptor DEF Init
    <2> QED
      BY <2>1, <2>2, <2>3 DEF Family
  <1>11. Sound(h, A, {}) /\ Kin(h, Elements(A), run, p_env)
    BY <1>3, <1>9, <1>10 DEF Sound, Kin
  <1>12. State(h, run, p_env, {})
    BY <1>11 DEF State
  <1> QED
    BY <1>12 DEF MemInv, Init

LEMMA StateThis ==
  ASSUME NEW h, NEW r, NEW env, NEW X, State(h, r, env, X)
  PROVE  /\ r[Len(r)] \in {ospd} \cup Addr /\ env \in [Addr -> 0..Size]
         /\ h \in Heaps
  <1>1. PICK A : Sound(h, A, X) /\ Kin(h, Elements(A), r, env)
    BY DEF State
  <1>2. PICK F : Fits(h, F, A, X, {})
    BY <1>1 DEF Sound
  <1>3. PICK t, N : Family(h, Elements(A), r, env, t, N)
    BY <1>1 DEF Kin
  <1>4. h \in Heaps
    BY <1>2, FitsLists
  <1>5. r[Len(r)] \in {ospd} \cup Addr
    BY <1>3, LastIs
  <1>6. env \in [Addr -> 0..Size]
    BY <1>3 DEF Family
  <1> QED
    BY <1>4, <1>5, <1>6

LEMMA ReclaimableLends ==
  ASSUME NEW rb \in Reclaimable
  PROVE  Lends(heap, rb)
  BY DEF Reclaimable, Lends

LEMMA NextMemory == MemInv /\ [Next]_vars => MemInv'
  <1> SUFFICES ASSUME MemInv, [Next]_vars PROVE MemInv'
    OBVIOUS
  <1>0. State(heap, run, p_env, resident)
    BY DEF MemInv
  <1> SUFFICES State(heap', run', p_env', resident')
    BY DEF MemInv
  <1>1. ASSUME NEW n \in Amounts, Malloc(n)
        PROVE  State(heap', run', p_env', resident')
    <2>1. PICK rb \in Reclaimable : heap' = ffit(heap, n, rb, This).heap
      BY <1>1 DEF Malloc
    <2>2. Lends(heap, rb) /\ n \in Nat \ {0}
      BY <2>1, ReclaimableLends, MemoryAssumption
    <2>3. heap' = ffit(heap, n, rb, run[Len(run)]).heap
      BY <2>1 DEF This
    <2>4. State(heap', run, p_env, resident)
      BY <1>0, <2>2, <2>3, MallocKeeps
    <2> QED
      BY <1>1, <2>4 DEF Malloc
  <1>2. ASSUME NEW a \in Addr, Mfree(a)
        PROVE  State(heap', run', p_env', resident')
    <2>1. /\ a \notin Elements(run) /\ Find(heap, a) # NULL
          /\ heap' = xmfree(heap, a) /\ p_env' = Pages(heap', p_env)
      BY <1>2 DEF Mfree, Own, Owns
    <2>2. State(heap', run, p_env', resident)
      BY ONLY <1>0, <2>1, MfreeKeeps
    <2> QED
      BY <1>2, <2>2 DEF Mfree
  <1>3. ASSUME NEW a \in Addr, NEW n \in Addr, Mshrink(a, n)
        PROVE  State(heap', run', p_env', resident')
    <2>1. PICK rb \in Reclaimable : heap' = xsetblk(heap, a, n, rb)
      BY <1>3 DEF Mshrink
    <2>2. Lends(heap, rb) /\ n \in Nat \ {0} /\ p_env' = Pages(heap', p_env)
      BY <1>3, <2>1, ReclaimableLends, Descriptor DEF Mshrink
    <2>3. State(heap', run, p_env', resident)
      BY <1>0, <2>1, <2>2, MshrinkKeeps
    <2> QED
      BY <1>3, <2>3 DEF Mshrink
  <1>4. ASSUME NEW mode \in {"loadgo", "load"}, NEW loaded \in BOOLEAN, Pexec(mode, loaded)
        PROVE  State(heap', run', p_env', resident')
    <2>a. PICK rb \in Reclaimable : \E new \in {Created(mode, rb)} :
            /\ new.done
            /\ IF loaded
               THEN /\ heap' = new.heap
                    /\ p_env' = [p_env EXCEPT ![new.page] = new.env]
                    /\ run' = IF mode = "loadgo" THEN Append(run, new.page) ELSE run
               ELSE /\ heap' = ixterm(new.heap, new.page)
                    /\ p_env' = Pages(heap', p_env)
                    /\ UNCHANGED run
      BY <1>4 DEF Pexec
    <2>1. PICK new \in {Created(mode, rb)} :
            /\ new.done
            /\ IF loaded
               THEN /\ heap' = new.heap
                    /\ p_env' = [p_env EXCEPT ![new.page] = new.env]
                    /\ run' = IF mode = "loadgo" THEN Append(run, new.page) ELSE run
               ELSE /\ heap' = ixterm(new.heap, new.page)
                    /\ p_env' = Pages(heap', p_env)
                    /\ UNCHANGED run
      BY <2>a
    <2>2. PICK A : Sound(heap, A, resident) /\ Kin(heap, Elements(A), run, p_env)
      BY <1>0 DEF State
    <2>3. PICK F : Fits(heap, F, A, resident, {})
      BY <2>2 DEF Sound
    <2>4. PICK w : w = IF mode = "loadgo" THEN new.page ELSE This
      OBVIOUS
    <2>5. Loads(heap, A, resident, new, w)
      <3>1. This \in {ospd} \cup Addr
        BY <1>0, StateThis DEF This
      <3>2. Lends(heap, rb) /\ new = Created(mode, rb) /\ new.done
        BY <2>1, ReclaimableLends
      <3>3. Loads(heap, A, resident, new, IF mode = "loadgo" THEN new.page ELSE This)
        BY ONLY <2>3, <3>1, <3>2, CreatedLoads
      <3> QED
        BY <2>4, <3>3
    <2>6. resident' = resident
      BY <1>4 DEF Pexec
    <2>7. CASE loaded
      <3>1. /\ heap' = new.heap /\ p_env' = [p_env EXCEPT ![new.page] = new.env]
            /\ run' = IF mode = "loadgo" THEN Append(run, new.page) ELSE run
        BY <2>1, <2>7
      <3>2. Starts(run, new.page, w, run')
        BY <2>4, <3>1 DEF Starts, This
      <3>3. State(new.heap, run', p_env', resident)
        BY ONLY <2>2, <2>5, <3>1, <3>2, LoadedKeeps
      <3> QED
        BY <2>6, <3>1, <3>3
    <2>8. CASE ~loaded
      <3>1. heap' = ixterm(new.heap, new.page) /\ p_env' = Pages(heap', p_env) /\ run' = run
        BY <2>1, <2>8
      <3>2. w = run[Len(run)] \/ w = new.page
        BY <2>4 DEF This
      <3>3. State(heap', run, p_env', resident)
        BY ONLY <2>2, <2>3, <2>5, <3>1, <3>2, NotLoadedKeeps
      <3> QED
        BY <2>6, <3>1, <3>3
    <2> QED
      BY <2>7, <2>8
  <1>5. ASSUME NEW b \in Addr, NEW mode \in {"go", "gothenfree"}, PexecGo(b, mode)
        PROVE  State(heap', run', p_env', resident')
    <2>1. /\ p_env[b] # 0 /\ b \notin Elements(run) /\ Find(heap, b) # NULL
          /\ heap.own[Find(heap, b)] = run[Len(run)]
          /\ heap' = heap \/ heap' = xmsetown(xmsetown(heap, b, b), p_env[b], b)
          /\ run' = Append(run, b)
      BY <1>5 DEF PexecGo, Own, Owns, This
    <2>2. State(heap', run', p_env, resident)
      BY ONLY <1>0, <2>1, b \in Addr, GoKeeps
    <2> QED
      BY <1>5, <2>2 DEF PexecGo
  <1>6. CASE Pterm
    <2>1. /\ run[Len(run)] # ospd /\ heap' = ixterm(heap, run[Len(run)])
          /\ run' = SubSeq(run, 1, Len(run) - 1) /\ p_env' = Pages(heap', p_env)
      BY <1>6 DEF Pterm, This, Parents
    <2>2. State(heap', run', p_env', resident)
      BY ONLY <1>0, <2>1, PtermKeeps
    <2> QED
      BY <1>6, <2>2 DEF Pterm
  <1>7. ASSUME NEW n \in Addr, Ptermres(n)
        PROVE  State(heap', run', p_env', resident')
    <2>a. PICK rb \in Reclaimable : \E h \in {xsetblk(heap, This, n, rb)} :
            /\ heap' = ixterm(xmakeres(h, This), This)
            /\ resident' = resident \cup {m \in Elements(Allocated(h)) : h.own[m] = This}
      BY <1>7 DEF Ptermres
    <2>1. PICK h \in {xsetblk(heap, This, n, rb)} :
            /\ heap' = ixterm(xmakeres(h, This), This)
            /\ resident' = resident \cup {m \in Elements(Allocated(h)) : h.own[m] = This}
      BY <2>a
    <2>2. PICK w : w = run[Len(run)]
      OBVIOUS
    <2>3. /\ w # ospd /\ h = xsetblk(heap, w, n, rb)
          /\ heap' = ixterm(xmakeres(h, w), w)
          /\ resident' = resident \cup OwnedBy(h, w)
          /\ run' = SubSeq(run, 1, Len(run) - 1) /\ p_env' = Pages(heap', p_env)
      BY <1>7, <2>1, <2>2 DEF Ptermres, This, Parents, OwnedBy
    <2>4. Lends(heap, rb) /\ n \in Nat \ {0}
      BY <2>1, ReclaimableLends, Descriptor
    <2> QED
      BY ONLY <1>0, <2>2, <2>3, <2>4, PtermresKeeps
  <1>8. CASE mgetofd
    <2>1. PICK b \in Blocks :
            /\ b = Lowest({c \in Blocks : heap.x_flag[c] >= 0 /\
                             (heap.x_flag[c] > 0 => \A m \in buf(c) : heap.own[m] = MF_FREE)}
                          \cup {NBLOCKS + 1})
            /\ heap' = [heap EXCEPT
                 !.x_flag[b] = -1,
                 !.own = [m \in MD |-> IF m \in buf(b) THEN NOBODY ELSE heap.own[m]]]
      BY <1>8 DEF mgetofd
    <2>2. /\ heap.x_flag[b] >= 0
          /\ heap.x_flag[b] > 0 => \A m \in buf(b) : heap.own[m] = MF_FREE
      <3> DEFINE S == {c \in Blocks : heap.x_flag[c] >= 0 /\
                             (heap.x_flag[c] > 0 => \A m \in buf(c) : heap.own[m] = MF_FREE)}
                          \cup {NBLOCKS + 1}
      <3>1. S \in SUBSET Nat /\ S # {}
        BY MemoryAssumption DEF Blocks
      <3>2. b \in S
        <4> HIDE DEF S
        <4>1. b = Lowest(S)
          BY <2>1 DEF S
        <4> QED
          BY <3>1, <4>1, LowestIs
      <3>3. b # NBLOCKS + 1
        BY MemoryAssumption DEF Blocks
      <3> QED
        BY <3>2, <3>3
    <2>3. State(heap', run, p_env, resident)
      <3>1. Opens(heap, heap', b)
        BY <2>1, <2>2 DEF Opens
      <3> QED
        BY <1>0, <3>1, MgetofdKeeps
    <2> QED
      BY <1>8, <2>3 DEF mgetofd
  <1>9. ASSUME NEW b \in Blocks, oftdel(b)
        PROVE  State(heap', run', p_env', resident')
    <2>1. heap.x_flag[b] = -1 /\ heap' = [heap EXCEPT !.x_flag[b] = 0]
      BY <1>9 DEF oftdel
    <2>2. State(heap', run, p_env, resident)
      BY <1>0, <2>1, OftdelKeeps
    <2> QED
      BY <1>9, <2>2 DEF oftdel
  <1>10. CASE UNCHANGED vars
    BY <1>0, <1>10 DEF vars
  <1> QED
    BY <1>1, <1>2, <1>3, <1>4, <1>5, <1>6, <1>7, <1>8, <1>9, <1>10 DEF Next

\* Whatever programs do, and in whatever order, the lists, the pool, the processes
\* and the programs that are set up stay in the relation State: the invariant the
\* theorems below follow from.
THEOREM MemoryInvariant == Spec => []MemInv
  BY InitMemory, NextMemory, PTL DEF Spec

-----------------------------------------------------------------------------
\* the lists of the state, and what is known of them
LEMMA Unfolded ==
  ASSUME MemInv
  PROVE  Fits(heap, free, mal, resident, {}) /\ Kin(heap, Elements(mal), run, p_env)
  <1>1. PICK A : Sound(heap, A, resident) /\ Kin(heap, Elements(A), run, p_env)
    BY DEF MemInv, State
  <1>2. PICK F : Fits(heap, F, A, resident, {})
    BY <1>1 DEF Sound
  <1>3. Free(heap) = F /\ Allocated(heap) = A
    BY <1>2, FitsLists
  <1> QED
    BY <1>1, <1>2, <1>3 DEF free, mal

\* two lists with nothing in common
LEMMA Together ==
  ASSUME NEW F \in Seq(MD), NEW A \in Seq(MD), Distinct(F), Distinct(A), Elements(F) \cap Elements(A) = {}
  PROVE  Distinct(F \o A) /\ Elements(F \o A) = Elements(F) \cup Elements(A)
  <1> PICK s : s = F \o A
    OBVIOUS
  <1>1. /\ s \in Seq(MD) /\ Len(F) \in Nat /\ Len(A) \in Nat /\ Len(s) = Len(F) + Len(A)
        /\ DOMAIN F = 1..Len(F) /\ DOMAIN A = 1..Len(A) /\ DOMAIN s = 1..Len(F) + Len(A)
        /\ \A i \in 1..Len(F) + Len(A) : s[i] = IF i <= Len(F) THEN F[i] ELSE A[i - Len(F)]
    OBVIOUS
  <1>2. \A i \in 1..Len(F) + Len(A) :
          \/ i \in 1..Len(F) /\ s[i] = F[i] /\ F[i] \in Elements(F)
          \/ i - Len(F) \in 1..Len(A) /\ s[i] = A[i - Len(F)] /\ A[i - Len(F)] \in Elements(A)
    <2> SUFFICES ASSUME NEW i \in 1..Len(F) + Len(A)
                 PROVE  \/ i \in 1..Len(F) /\ s[i] = F[i] /\ F[i] \in Elements(F)
                        \/ i - Len(F) \in 1..Len(A) /\ s[i] = A[i - Len(F)] /\ A[i - Len(F)] \in Elements(A)
      OBVIOUS
    <2>1. CASE i <= Len(F)
      <3>1. i \in 1..Len(F) /\ s[i] = F[i]
        BY <1>1, <2>1
      <3> QED
        BY <1>1, <3>1 DEF Elements
    <2>2. CASE i > Len(F)
      <3>1. i - Len(F) \in 1..Len(A) /\ s[i] = A[i - Len(F)]
        BY <1>1, <2>2
      <3> QED
        BY <1>1, <3>1 DEF Elements
    <2> QED
      BY <1>1, <2>1, <2>2
  <1>3. Distinct(s)
    <2> SUFFICES ASSUME NEW i \in 1..Len(F) + Len(A), NEW j \in 1..Len(F) + Len(A), s[i] = s[j]
                 PROVE  i = j
      BY <1>1 DEF Distinct
    <2>1. \/ i \in 1..Len(F) /\ s[i] = F[i] /\ F[i] \in Elements(F)
          \/ i - Len(F) \in 1..Len(A) /\ s[i] = A[i - Len(F)] /\ A[i - Len(F)] \in Elements(A)
      BY <1>2
    <2>2. \/ j \in 1..Len(F) /\ s[j] = F[j] /\ F[j] \in Elements(F)
          \/ j - Len(F) \in 1..Len(A) /\ s[j] = A[j - Len(F)] /\ A[j - Len(F)] \in Elements(A)
      BY <1>2
    <2>3. CASE i \in 1..Len(F) /\ s[i] = F[i] /\ j \in 1..Len(F) /\ s[j] = F[j]
      BY <1>1, <2>3 DEF Distinct
    <2>4. CASE /\ i - Len(F) \in 1..Len(A) /\ s[i] = A[i - Len(F)]
               /\ j - Len(F) \in 1..Len(A) /\ s[j] = A[j - Len(F)]
      <3>1. i - Len(F) = j - Len(F)
        BY <1>1, <2>4 DEF Distinct
      <3> QED
        BY <1>1, <3>1
    <2> QED
      BY <2>1, <2>2, <2>3, <2>4
  <1>4. Elements(s) \subseteq Elements(F) \cup Elements(A)
    <2> SUFFICES ASSUME NEW x \in Elements(s) PROVE x \in Elements(F) \cup Elements(A)
      OBVIOUS
    <2>1. PICK i \in 1..Len(F) + Len(A) : s[i] = x
      BY <1>1 DEF Elements
    <2> QED
      BY <1>2, <2>1
  <1>5. \A i \in 1..Len(F) : F[i] \in Elements(s)
    <2> SUFFICES ASSUME NEW i \in 1..Len(F) PROVE F[i] \in Elements(s)
      OBVIOUS
    <2>1. i \in DOMAIN s /\ s[i] = F[i]
      BY <1>1
    <2> QED
      BY <2>1 DEF Elements
  <1>6. \A i \in 1..Len(A) : A[i] \in Elements(s)
    <2> SUFFICES ASSUME NEW i \in 1..Len(A) PROVE A[i] \in Elements(s)
      OBVIOUS
    <2>1. Len(F) + i \in DOMAIN s /\ s[Len(F) + i] = A[i]
      BY <1>1
    <2> QED
      BY <2>1 DEF Elements
  <1>7. Elements(F) \subseteq Elements(s) /\ Elements(A) \subseteq Elements(s)
    BY <1>1, <1>5, <1>6 DEF Elements
  <1> QED
    BY <1>3, <1>4, <1>7

LEMMA SoundBlocks == MemInv => BlocksSound
  <1> SUFFICES ASSUME MemInv PROVE BlocksSound
    OBVIOUS
  <1>1. Fits(heap, free, mal, resident, {}) /\ Kin(heap, Elements(mal), run, p_env)
    BY Unfolded
  <1>2. PICK t, N : Family(heap, Elements(mal), run, p_env, t, N)
    BY <1>1 DEF Kin
  <1> PICK h : h = heap
    OBVIOUS
  <1> PICK F : F = free
    OBVIOUS
  <1> PICK A : A = mal
    OBVIOUS
  <1> PICK X : X = resident
    OBVIOUS
  <1>a. Fits(h, F, A, X, {})
    BY <1>1
  <1>3. /\ h \in Heaps /\ ~h.halted /\ F \in Seq(MD) /\ A \in Seq(MD) /\ X \subseteq MD
        /\ Distinct(F) /\ Distinct(A)
        /\ Elements(F) \cap Elements(A) = {} /\ X \cap (Elements(F) \cup Elements(A)) = {}
        /\ (IF F = <<>> THEN h.rover = NULL ELSE h.rover \in Elements(F))
        /\ Ordered(h, F, {}) /\ Tiled(h, All(F, A, X)) /\ Pool(h, All(F, A, X))
        /\ All(F, A, X) \in SUBSET MD
    BY <1>a, FitsLists
  <1>4. Held = All(F, A, X)
    BY Zenon DEF Held, All
  <1>5. \A m \in MD : Extent(m) = Space(h, m)
    BY <1>3, HeapNumbers DEF Extent, Space, End
  <1>6. Tiled(h, Held)
    BY <1>3, <1>4
  <1>7. /\ \A m \in Held : h.length[m] > 0 /\ Extent(m) \subseteq Addr
        /\ \A a \in Addr : \E m \in Held : a \in Extent(m)
        /\ \A m, n \in Held : m # n => Extent(m) \cap Extent(n) = {}
        /\ themd \in Held
    BY <1>3, <1>4, <1>5, <1>6 DEF Tiled
  <1>8. TypeOK
    <2>1. /\ heap.link \in [MD \cup {MFL, MAL} -> MD \cup {NULL}]
          /\ heap.start \in [MD -> 0..Size + 1] /\ heap.length \in [MD -> 0..Size]
          /\ heap.own \in [MD -> {MF_FREE, NOBODY, ospd} \cup Addr]
          /\ heap.x_flag \in [Blocks -> {-1, 0, 1}]
          /\ heap.rover \in MD \cup {NULL} /\ heap.halted \in BOOLEAN
      BY <1>3 DEF Heaps
    <2>2. /\ run \in Seq(Addr \cup {ospd}) /\ run # <<>>
          /\ p_env \in [Addr -> 0..Size] /\ resident \subseteq MD
      BY <1>2, <1>3 DEF Family
    <2>3. \A m \in Held : heap.length[m] > 0
      BY <1>7
    <2> QED
      BY <2>1, <2>2, <2>3 DEF TypeOK
  <1>9. Tiling
    <2>1. Distinct(F \o A) /\ Elements(F \o A) = Elements(F) \cup Elements(A)
      BY <1>3, Together
    <2>2. Distinct(free \o mal) /\ resident \cap Elements(free \o mal) = {}
      BY <1>3, <2>1
    <2>3. \A m \in Held : Extent(m) \subseteq Addr
      BY <1>7
    <2> QED
      BY <1>7, <1>8, <2>2, <2>3 DEF Tiling
  <1>10. FreeListOK
    <2>1. \A i \in 1..Len(free) - 1 : h.start[F[i]] + h.length[F[i]] < h.start[F[i + 1]]
      <3> SUFFICES ASSUME NEW i \in 1..Len(F) - 1 PROVE h.start[F[i]] + h.length[F[i]] < h.start[F[i + 1]]
        OBVIOUS
      <3>1. Len(F) \in Nat /\ DOMAIN F = 1..Len(F)
        BY <1>3
      <3>2. i \in DOMAIN F /\ i + 1 \in DOMAIN F /\ i < i + 1 /\ F[i] \in MD /\ F[i + 1] \in MD
        BY <1>3, <3>1
      <3>3. End(h, F[i]) <= h.start[F[i + 1]] /\ End(h, F[i]) # h.start[F[i + 1]]
        BY <1>3, <3>2 DEF Ordered
      <3>4. h.start[F[i + 1]] \in Nat /\ End(h, F[i]) \in Nat
        BY <1>3, <3>2, HeapNumbers
      <3> QED
        BY <3>3, <3>4 DEF End
    <2> QED
      BY <1>3, <2>1 DEF FreeListOK
  <1>11. \A b \in Blocks, m \in MD \ {themd} : m \in buf(b) =>
           IF heap.x_flag[b] = 1 THEN heap.own[m] = MF_FREE <=> m \notin Held
           ELSE m \notin Held
    BY <1>3, <1>4 DEF Pool, buf
  <1>12. Descriptors
    BY <1>3, <1>7, <1>10, <1>11 DEF Descriptors
  <1> QED
    BY <1>9, <1>12 DEF BlocksSound

LEMMA OwnProcesses == MemInv => ProcessesOwn
  <1> SUFFICES ASSUME MemInv PROVE ProcessesOwn
    OBVIOUS
  <1>1. PICK t, N : Family(heap, Elements(mal), run, p_env, t, N)
    BY Unfolded DEF Kin
  <1> QED
    BY <1>1 DEF Family, ProcessesOwn

\* Every unit of memory is in exactly one block, free, allocated or resident, the
\* free list is in order, with neighbours joined and the rover on it, and a
\* descriptor is marked free exactly when no list uses it: the code of umem.c and
\* osmem.c keeps this for any memory, pool and programs.
THEOREM MemorySound == Spec => []BlocksSound
  BY MemoryInvariant, SoundBlocks, PTL

\* An allocated block belongs to a process that has not ended, however programs
\* are set up, run, and end: Pexec, Pterm and Ptermres leave no block behind.
THEOREM MemoryOwned == Spec => []ProcessesOwn
  BY MemoryInvariant, OwnProcesses, PTL

-----------------------------------------------------------------------------
\* n units in a row that no block of S has
Run(h, S, n) == \E a \in Addr : a + n - 1 <= Size /\ \A m \in S : a..(a + n - 1) \cap Space(h, m) = {}

\* free neighbours are joined, so that such a run lies in one free block
LEMMA RunIs ==
  ASSUME NEW h, NEW F, NEW A, NEW X, Fits(h, F, A, X, {}), NEW n \in Addr
  PROVE  Run(h, Elements(A) \cup X, n) <=> \E j \in 1..Len(F) : h.length[F[j]] >= n
  <1>1. /\ h \in Heaps /\ F \in Seq(MD) /\ A \in Seq(MD) /\ X \subseteq MD
        /\ Elements(F) \cap Elements(A) = {} /\ X \cap (Elements(F) \cup Elements(A)) = {}
        /\ Ordered(h, F, {}) /\ Tiled(h, All(F, A, X)) /\ All(F, A, X) \in SUBSET MD
    BY FitsLists
  <1>2. /\ Len(F) \in Nat /\ DOMAIN F = 1..Len(F)
        /\ \A j \in 1..Len(F) : F[j] \in MD /\ F[j] \in Elements(F)
    BY <1>1 DEF Elements
  <1>3. Size \in Nat \ {0} /\ Addr = 1..Size
    BY Descriptor
  <1> PICK S : S = Elements(A) \cup X
    OBVIOUS
  <1>4. /\ \A x \in S : x \in All(F, A, X) /\ x \notin Elements(F)
        /\ \A x \in All(F, A, X) : x \in Elements(F) \/ x \in S
        /\ \A x \in Elements(F) : x \in All(F, A, X)
    BY <1>1 DEF All
  <1>5. ASSUME NEW j \in 1..Len(F), h.length[F[j]] >= n
        PROVE  Run(h, S, n)
    <2> PICK m : m = F[j]
      OBVIOUS
    <2>1. m \in MD /\ m \in Elements(F) /\ m \in All(F, A, X)
      BY <1>2, <1>4
    <2> PICK a : a = h.start[m]
      OBVIOUS
    <2>2. /\ a \in Nat /\ h.length[m] \in Nat /\ End(h, m) = a + h.length[m]
          /\ \A b : b \in Space(h, m) <=> b \in Int /\ a <= b /\ b < End(h, m)
      BY <1>1, <2>1, HeapNumbers
    <2>3. a >= 1 /\ End(h, m) <= Size + 1 /\ a \in Addr
      BY <1>1, <2>1, Within
    <2>4. a + n - 1 <= Size
      BY <1>3, <1>5, <2>2, <2>3
    <2>5. \A b \in a..(a + n - 1) : b \in Space(h, m)
      BY <1>3, <1>5, <2>2
    <2>6. \A x \in S : Space(h, m) \cap Space(h, x) = {}
      <3> SUFFICES ASSUME NEW x \in S PROVE Space(h, m) \cap Space(h, x) = {}
        OBVIOUS
      <3>1. x \in All(F, A, X) /\ m # x
        BY <1>4, <2>1
      <3> QED
        BY <1>1, <2>1, <3>1 DEF Tiled
    <2>7. \A x \in S : a..(a + n - 1) \cap Space(h, x) = {}
      BY <2>5, <2>6
    <2> QED
      BY <2>3, <2>4, <2>7 DEF Run
  <1>6. ASSUME Run(h, S, n)
        PROVE  \E j \in 1..Len(F) : h.length[F[j]] >= n
    <2>1. PICK a \in Addr : a + n - 1 <= Size /\ \A m \in S : a..(a + n - 1) \cap Space(h, m) = {}
      BY <1>6 DEF Run
    <2>2. \A b \in a..(a + n - 1) : \E j \in 1..Len(F) : b \in Space(h, F[j])
      <3> SUFFICES ASSUME NEW b \in a..(a + n - 1) PROVE \E j \in 1..Len(F) : b \in Space(h, F[j])
        OBVIOUS
      <3>1. b \in Addr
        BY <1>3, <2>1
      <3>2. PICK m \in All(F, A, X) : b \in Space(h, m)
        BY <1>1, <3>1 DEF Tiled
      <3>3. m \notin S
        BY <2>1, <3>2
      <3>4. m \in Elements(F)
        BY <1>4, <3>3
      <3>5. PICK j \in 1..Len(F) : F[j] = m
        BY <1>2, <3>4 DEF Elements
      <3> QED
        BY <3>2, <3>5
    <2>3. a \in Int /\ n \in Int /\ a <= a + n - 1 /\ a >= 1 /\ a + n - 1 \in Int
      BY <1>3
    <2>4. PICK i \in 1..Len(F) : a \in Space(h, F[i])
      BY <2>2, <2>3
    <2> PICK e : e = End(h, F[i])
      OBVIOUS
    <2>5. /\ h.start[F[i]] \in Nat /\ h.length[F[i]] \in Nat /\ e \in Nat
          /\ e = h.start[F[i]] + h.length[F[i]]
          /\ h.start[F[i]] <= a /\ a < e
      <3>1. F[i] \in MD
        BY <1>2
      <3> QED
        BY <1>1, <2>4, <3>1, HeapNumbers
    <2>6. ~(e <= a + n - 1)
      <3> SUFFICES ASSUME e <= a + n - 1 PROVE FALSE
        OBVIOUS
      <3>1. e \in a..(a + n - 1)
        BY <2>3, <2>5
      <3>2. PICK j \in 1..Len(F) : e \in Space(h, F[j])
        BY <2>2, <3>1
      <3>3. /\ h.start[F[j]] \in Nat /\ End(h, F[j]) \in Nat
            /\ h.start[F[j]] <= e /\ e < End(h, F[j])
        <4>1. F[j] \in MD
          BY <1>2
        <4> QED
          BY <1>1, <3>2, <4>1, HeapNumbers
      <3>4. i < j => e <= h.start[F[j]] /\ e # h.start[F[j]]
        BY <1>1, <1>2 DEF Ordered
      <3>5. j < i => End(h, F[j]) <= h.start[F[i]]
        BY <1>1, <1>2 DEF Ordered
      <3>6. i # j
        BY <3>3
      <3> QED
        BY <1>2, <2>5, <3>3, <3>4, <3>5, <3>6
    <2>7. h.length[F[i]] >= n
      BY <2>3, <2>5, <2>6
    <2> QED
      BY <2>7
  <1> QED
    BY <1>5, <1>6

LEMMA FindsMemory ==
  ASSUME NEW h, NEW F, NEW A, NEW X, Fits(h, F, A, X, {}), NEW n \in Addr, mgetmd(h, NULL).md # NULL
  PROVE  Run(h, Elements(A) \cup X, n) <=> ffit(h, n, NULL, ospd).md # NULL
  <1>1. n \in Nat \ {0} /\ n \in Nat /\ ospd \in {ospd} \cup Addr /\ Lends(h, NULL)
    BY Descriptor DEF Lends
  <1>2. F \in Seq(MD) /\ h \in Heaps /\ \A j \in 1..Len(F) : h.length[F[j]] \in Nat
    <2>1. F \in Seq(MD) /\ h \in Heaps
      BY FitsLists
    <2> QED
      BY <2>1, HeapNumbers
  <1>3. Run(h, Elements(A) \cup X, n) <=> \E j \in 1..Len(F) : h.length[F[j]] >= n
    BY RunIs
  <1> PICK res : res = ffit(h, n, NULL, ospd)
    OBVIOUS
  <1>4. ASSUME \E j \in 1..Len(F) : h.length[F[j]] >= n
        PROVE  res.md # NULL
    <2>1. ~ \A j \in 1..Len(F) : h.length[F[j]] < n
      BY <1>1, <1>2, <1>4
    <2>2. \/ /\ ffit(h, n, NULL, ospd) = [md |-> NULL, heap |-> h]
             /\ (\A j \in 1..Len(F) : h.length[F[j]] < n) \/ mgetmd(h, NULL).md = NULL
          \/ Given(h, A, X, n, ospd, ffit(h, n, NULL, ospd))
      BY <1>1, FfitFits
    <2>3. Given(h, A, X, n, ospd, res)
      BY <2>1, <2>2
    <2> QED
      BY <2>3, Descriptor DEF Given
  <1>5. ASSUME ~ \E j \in 1..Len(F) : h.length[F[j]] >= n
        PROVE  res.md = NULL
    <2>1. \/ ffit(h, n, NULL, ospd) = [md |-> NULL, heap |-> h]
          \/ \E j \in 1..Len(F) : h.length[F[j]] >= n
      BY <1>1, FirstFitIs
    <2> QED
      BY <1>5, <2>1
  <1> QED
    BY <1>3, <1>4, <1>5

\* the most units in a row that no block of S has are the length of the largest free block
Most(h, S) == largest(h) = Highest({0} \cup {n \in Addr : Run(h, S, n)})

LEMMA TellsMost ==
  ASSUME NEW h, NEW F, NEW A, NEW X, Fits(h, F, A, X, {})
  PROVE  Most(h, Elements(A) \cup X)
  <1>1. F \in Seq(MD) /\ h \in Heaps /\ \A j \in 1..Len(F) : h.length[F[j]] \in Nat
    <2>1. F \in Seq(MD) /\ h \in Heaps
      BY FitsLists
    <2> QED
      BY <2>1, HeapNumbers
  <1> PICK l : l = largest(h)
    OBVIOUS
  <1>2. /\ l \in 0..Size
        /\ \A j \in 1..Len(F) : h.length[F[j]] <= l
        /\ l > 0 => \E j \in 1..Len(F) : h.length[F[j]] = l
    <2>1. /\ largest(h) \in 0..Size
          /\ \A j \in 1..Len(F) : h.length[F[j]] <= largest(h)
          /\ largest(h) > 0 => \E j \in 1..Len(F) : h.length[F[j]] = largest(h)
      BY LargestIs
    <2> QED
      BY <2>1
  <1>3. \A n \in Addr : Run(h, Elements(A) \cup X, n) <=> \E j \in 1..Len(F) : h.length[F[j]] >= n
    BY RunIs
  <1>4. Size \in Nat /\ Addr = 1..Size
    BY Descriptor
  <1> PICK S : S = {0} \cup {n \in Addr : Run(h, Elements(A) \cup X, n)}
    OBVIOUS
  <1>5. S \in SUBSET (0..Size) /\ S # {}
    BY <1>4
  <1>6. l \in S
    <2>1. CASE l = 0
      BY <2>1
    <2>2. CASE l > 0
      <3>1. l \in Addr
        BY <1>2, <1>4, <2>2
      <3>2. \E j \in 1..Len(F) : h.length[F[j]] >= l
        BY <1>2, <2>2
      <3> QED
        BY <1>3, <3>1, <3>2
    <2> QED
      BY <1>2, <2>1, <2>2
  <1>7. \A n \in S : n <= l
    <2> SUFFICES ASSUME NEW n \in S PROVE n <= l
      OBVIOUS
    <2>1. CASE n = 0
      BY <1>2, <2>1
    <2>2. CASE n \in Addr /\ Run(h, Elements(A) \cup X, n)
      <3>1. PICK j \in 1..Len(F) : h.length[F[j]] >= n
        BY <1>3, <2>2
      <3>2. h.length[F[j]] <= l /\ h.length[F[j]] \in Nat /\ n \in Nat
        BY <1>1, <1>2, <1>4, <2>2
      <3> QED
        BY <1>2, <3>1, <3>2
    <2> QED
      BY <2>1, <2>2
  <1>8. Highest(S) \in S /\ \A j \in S : Highest(S) >= j
    BY <1>4, <1>5, HighestIs
  <1> PICK x : x = Highest(S)
    OBVIOUS
  <1>9. x \in S /\ x \in 0..Size /\ x >= l
    BY <1>5, <1>6, <1>8
  <1>10. x <= l
    BY <1>7, <1>9
  <1>11. x = l
    BY <1>2, <1>4, <1>9, <1>10
  <1> QED
    BY <1>11 DEF Most

LEMMA ServesAll == MemInv => Served
  <1> SUFFICES ASSUME MemInv PROVE Served
    OBVIOUS
  <1> PICK h : h = heap
    OBVIOUS
  <1> PICK F : F = free
    OBVIOUS
  <1> PICK A : A = mal
    OBVIOUS
  <1> PICK X : X = resident
    OBVIOUS
  <1>1. Fits(h, F, A, X, {})
    BY Unfolded
  <1> DEFINE used == UNION {Extent(m) : m \in Elements(mal) \cup resident}
             Gap(n) == \E a \in Addr : a + n - 1 <= Size /\ a..(a + n - 1) \cap used = {}
  <1>2. \A n \in Addr : Gap(n) <=> Run(h, Elements(A) \cup X, n)
    <2>1. h \in Heaps /\ A \in Seq(MD) /\ X \subseteq MD
      BY <1>1, FitsLists
    <2>2. \A m \in Elements(A) \cup X : m \in MD
      BY <2>1 DEF Elements
    <2>3. \A m \in Elements(A) \cup X : Extent(m) = Space(h, m)
      <3> SUFFICES ASSUME NEW m \in Elements(A) \cup X PROVE Extent(m) = Space(h, m)
        OBVIOUS
      <3> PICK s, l : s = h.start[m] /\ l = h.length[m]
        OBVIOUS
      <3>1. s \in Nat /\ l \in Nat /\ End(h, m) = s + l
        BY <2>1, <2>2, HeapNumbers
      <3>2. Extent(m) = s..(s + l - 1)
        BY DEF Extent
      <3>3. Space(h, m) = s..(End(h, m) - 1)
        BY DEF Space
      <3> QED
        BY <3>1, <3>2, <3>3
    <2>4. \A b : b \in used <=> \E m \in Elements(A) \cup X : b \in Space(h, m)
      BY <2>3 DEF mal
    <2>5. \A T : T \cap used = {} <=> \A m \in Elements(A) \cup X : T \cap Space(h, m) = {}
      <3> HIDE DEF used
      <3> QED
        BY <2>4
    <2> HIDE DEF used
    <2> SUFFICES ASSUME NEW n \in Addr PROVE Gap(n) <=> Run(h, Elements(A) \cup X, n)
      OBVIOUS
    <2>6. ASSUME NEW a \in Addr
          PROVE  a..(a + n - 1) \cap used = {}
                 <=> \A m \in Elements(A) \cup X : a..(a + n - 1) \cap Space(h, m) = {}
      <3> PICK T : T = a..(a + n - 1)
        OBVIOUS
      <3> QED
        BY <2>5
    <2> QED
      BY <2>6 DEF Run
  <1>3. \A n \in Addr : mgetmd(heap, NULL).md # NULL => (Gap(n) <=> ffit(heap, n, NULL, ospd).md # NULL)
    <2> HIDE DEF Gap
    <2> SUFFICES ASSUME NEW n \in Addr, mgetmd(h, NULL).md # NULL
                 PROVE  Gap(n) <=> ffit(h, n, NULL, ospd).md # NULL
      OBVIOUS
    <2>1. Run(h, Elements(A) \cup X, n) <=> ffit(h, n, NULL, ospd).md # NULL
      BY <1>1, FindsMemory
    <2> QED
      BY <1>2, <2>1
  <1>4. largest(heap) = Highest({0} \cup {n \in Addr : Gap(n)})
    <2>1. largest(h) = Highest({0} \cup {n \in Addr : Run(h, Elements(A) \cup X, n)})
      <3>1. Most(h, Elements(A) \cup X)
        BY <1>1, TellsMost
      <3> QED
        BY <3>1 DEF Most
    <2>2. {n \in Addr : Run(h, Elements(A) \cup X, n)} = {n \in Addr : Gap(n)}
      <3> HIDE DEF Gap
      <3> QED
        BY <1>2
    <2> HIDE DEF Gap
    <2> QED
      BY <2>1, <2>2
  <1> HIDE DEF used, Gap
  <1>5. (/\ \A n \in Addr : mgetmd(heap, NULL).md # NULL => (Gap(n) <=> ffit(heap, n, NULL, ospd).md # NULL)
         /\ largest(heap) = Highest({0} \cup {n \in Addr : Gap(n)}))
    BY <1>3, <1>4
  <1> QED
    BY <1>5 DEF Served, used, Gap

\* Malloc finds n units, if a descriptor can be had, exactly when n units in a row
\* are neither allocated nor resident, and Malloc(-1) tells the most there are:
\* the search from the rover misses no block, and no two free blocks touch.
THEOREM MemoryServed == Spec => []Served
  BY MemoryInvariant, ServesAll, PTL
=============================================================================
