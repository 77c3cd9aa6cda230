--------------------------- MODULE FileIO_proofs ---------------------------
(* Proofs about reading, writing and seeking in a file, for all sizes of   *)
(* records and clusters, any requests and any disk.  IOInv says that the   *)
(* OFD is a place in a chain of clusters that is long enough for the file. *)
(* Each part of xrw has a lemma that says where it leaves that place, what *)
(* it moved and how much chain it added.                                   *)
EXTENDS FileIO, FiniteSetTheorems, NaturalsInduction, WellFoundedInduction, TLAPS

-----------------------------------------------------------------------------
(* The buffers.                                                             *)

Links == Clnums \cup {UNUSED, ENDOFCHAIN}
Ofds ==
  [strtcl : Nat, curcl : Nat, currec : Nat, curbyt : Nat, bytnum : Nat, fileln : Nat]
Stages ==
  [fat : [Clnums -> Links], ofd : Ofds, buf : Seq(Int), dirty : SUBSET Int,
   latest : SUBSET Int, fresh : SUBSET Int, moved : Seq(Int)]
Stage(s) == s \in Stages

\* no record is in two buffers
Apart(b) == \A j, k \in 1..Len(b) : b[j] = b[k] /\ b[j] # NoRecord => j = k
Held(s) ==
  /\ Len(s.buf) > 0 /\ Apart(s.buf)
  /\ Records \ s.fresh = s.dirty
  /\ s.dirty \subseteq s.latest /\ s.latest = ToSet(s.buf) \ {NoRecord}

\* n bytes of the disk, from a on
Addr(a, n) == [k \in 1..n |-> a + k - 1]
\* t is s after these have been moved, through buffers or not
Copies(t, s, a, n) ==
  /\ Stage(t) /\ Held(t) /\ t.fat = s.fat /\ t.ofd = s.ofd
  /\ t.moved = s.moved \o Addr(a, n)

LEMMA Sizes ==
  /\ recsiz \in Nat \ {0} /\ clsiz \in Nat \ {0} /\ m_numcl \in Nat
  /\ clsizb \in Nat \ {0} /\ Places \subseteq Nat /\ Counts \subseteq Nat \ {0}
  <1>1. recsiz \in Nat \ {0} /\ clsiz \in Nat \ {0}
    BY IOAssumption
  <1>2. recsiz * clsiz \in Nat /\ recsiz * clsiz > 0
    <2>1. ASSUME NEW a \in Nat, NEW b \in Nat, a > 0, b > 0 PROVE a * b \in Nat /\ a * b > 0
      BY <2>1
    <2> QED
      BY <1>1, <2>1
  <1> QED
    BY <1>1, <1>2, IOAssumption DEF clsizb

\* a record is a number, and not that of no record
LEMMA RecordsAre ==
  ASSUME NEW r \in Records
  PROVE  r \in Nat /\ r # NoRecord
  <1>1. PICK c \in Clnums, k \in 0..clsiz - 1 : r = c * clsiz + k
    BY DEF Records
  <1>2. c \in Nat /\ clsiz \in Nat /\ k \in Nat
    BY <1>1, Sizes DEF Clnums
  <1>3. c * clsiz \in Nat
    BY <1>2
  <1>4. r \in Nat
    BY <1>1, <1>2, <1>3
  <1> QED
    BY <1>4 DEF NoRecord

LEMMA AddrIs ==
  ASSUME NEW a \in Int, NEW n \in Nat
  PROVE  Addr(a, n) \in Seq(Int) /\ Len(Addr(a, n)) = n
  BY DEF Addr

\* a flush leaves clean what it was asked for
LEMMA Flushed ==
  ASSUME NEW s, Stage(s), Held(s), NEW r
  PROVE  LET f == flushbcb(s, r) IN
         /\ Stage(f) /\ Held(f) /\ f.fat = s.fat /\ f.ofd = s.ofd /\ f.moved = s.moved
         /\ f.buf = s.buf /\ f.latest = s.latest /\ r \notin f.dirty
         /\ f.dirty \subseteq s.dirty /\ (r \in s.dirty => f.dirty = {})
  <1>1. CASE r \notin s.dirty
    BY <1>1 DEF flushbcb
  <1>2. CASE r \in s.dirty
    <2> DEFINE fr == (s.fresh \ s.dirty) \cup (s.dirty \cap s.latest)
               f == [s EXCEPT !.fresh = fr, !.dirty = {}]
    <2>1. flushbcb(s, r) = f
      BY <1>2 DEF flushbcb, Stage, Stages
    <2>2. fr \in SUBSET Int
      BY DEF Stage, Stages
    <2>3. Records \subseteq fr
      BY DEF Held
    <2> HIDE DEF fr
    <2>4. /\ Stage(f) /\ f.fat = s.fat /\ f.ofd = s.ofd /\ f.moved = s.moved /\ f.buf = s.buf
          /\ f.latest = s.latest /\ f.dirty = {} /\ f.fresh = fr
      BY <2>2 DEF Stage, Stages
    <2> HIDE DEF f
    <2>5. Held(f)
      BY <2>3, <2>4 DEF Held
    <2> QED
      BY <2>1, <2>4, <2>5
  <1> QED
    BY <1>1, <1>2

\* one sequence behind another
Joined(a, b, u) ==
  /\ u \in Seq(Int) /\ Len(u) = Len(a) + Len(b)
  /\ \A i \in 1..Len(a) : u[i] = a[i]
  /\ \A i \in 1..Len(b) : u[Len(a) + i] = b[i]
LEMMA Join ==
  ASSUME NEW a \in Seq(Int), NEW b \in Seq(Int), NEW u, u = a \o b
  PROVE  Joined(a, b, u)
  BY DEF Joined

\* c is b with element k taken out and r put in front
FrontOf(c, b, k, r) ==
  /\ c \in Seq(Int) /\ Len(c) = Len(b) /\ Len(b) \in Nat /\ k \in 1..Len(b) /\ c[1] = r
  /\ \A j \in 2..k : c[j] = b[j - 1]
  /\ \A j \in k + 1..Len(b) : c[j] = b[j]

Fronted(b, k, r) == <<r>> \o SubSeq(b, 1, k - 1) \o SubSeq(b, k + 1, Len(b))
LEMMA FrontIs ==
  ASSUME NEW b, b \in Seq(Int), NEW k, k \in 1..Len(b), NEW r, r \in Int,
         NEW c, c = Fronted(b, k, r)
  PROVE  FrontOf(c, b, k, r)
  <1> DEFINE x == SubSeq(b, 1, k - 1)
             y == SubSeq(b, k + 1, Len(b))
             q == <<r>> \o x
  <1>1. Len(b) \in Nat /\ k \in Nat /\ k \in 1..Len(b)
    OBVIOUS
  <1>2. x \in Seq(Int) /\ Len(x) = k - 1 /\ \A j \in 1..k - 1 : x[j] = b[j]
    BY <1>1
  <1>3. y \in Seq(Int) /\ Len(y) = Len(b) - k /\ \A j \in 1..Len(b) - k : y[j] = b[k + j]
    BY <1>1
  <1> HIDE DEF x, y
  <1>4. <<r>> \in Seq(Int) /\ Len(<<r>>) = 1 /\ <<r>>[1] = r
    OBVIOUS
  <1>5. Joined(<<r>>, x, q)
    BY ONLY <1>2, <1>4, Join
  <1>6. q \in Seq(Int) /\ Len(q) = k /\ q[1] = r /\ \A i \in 1..k - 1 : q[1 + i] = b[i]
    BY ONLY <1>1, <1>2, <1>4, <1>5 DEF Joined
  <1>7. c = q \o y
    BY DEF x, y, Fronted
  <1> HIDE DEF q
  <1>8. Joined(q, y, c)
    BY ONLY <1>3, <1>6, <1>7, Join
  <1>9. /\ c \in Seq(Int) /\ Len(c) = Len(b)
        /\ \A i \in 1..k : c[i] = q[i]
        /\ \A i \in 1..Len(b) - k : c[k + i] = b[k + i]
    BY ONLY <1>1, <1>3, <1>6, <1>8 DEF Joined
  <1>10. c[1] = r
    BY ONLY <1>1, <1>6, <1>9
  <1>11. \A j \in 2..k : c[j] = b[j - 1]
    <2> SUFFICES ASSUME NEW j \in 2..k PROVE c[j] = b[j - 1]
      OBVIOUS
    <2>1. j - 1 \in 1..k - 1 /\ 1 + (j - 1) = j /\ j \in 1..k
      BY ONLY <1>1, j \in 2..k
    <2>2. q[1 + (j - 1)] = b[j - 1]
      BY ONLY <2>1, <1>6
    <2> QED
      BY ONLY <2>1, <2>2, <1>9
  <1>12. \A j \in k + 1..Len(b) : c[j] = b[j]
    <2> SUFFICES ASSUME NEW j \in k + 1..Len(b) PROVE c[j] = b[j]
      OBVIOUS
    <2>1. j - k \in 1..Len(b) - k /\ k + (j - k) = j
      BY ONLY <1>1, j \in k + 1..Len(b)
    <2>2. c[k + (j - k)] = b[k + (j - k)]
      BY ONLY <2>1, <1>9
    <2> QED
      BY ONLY <2>1, <2>2
  <1> QED
    BY ONLY <1>1, <1>9, <1>10, <1>11, <1>12 DEF FrontOf

\* a buffer is filled with r and comes first
LEMMA ToFront ==
  ASSUME NEW b, Apart(b), NEW k, NEW r, r # NoRecord, NEW c, FrontOf(c, b, k, r),
         \A j \in 1..Len(b) : j # k => b[j] # r
  PROVE  Apart(c) /\ ToSet(c) = {r} \cup {b[j] : j \in (1..Len(b)) \ {k}}
  <1>1. Len(b) \in Nat /\ k \in Nat /\ 1 <= k /\ k <= Len(b) /\ Len(c) = Len(b) /\ DOMAIN c = 1..Len(b)
    BY DEF FrontOf
  <1>2. c[1] = r
    BY DEF FrontOf
  <1>3. ASSUME NEW i, i \in 1..Len(b), i # 1
        PROVE  \E j \in (1..Len(b)) \ {k} : c[i] = b[j] /\ (i <= k => j = i - 1) /\ (i > k => j = i)
    <2>1. CASE i <= k
      <3>1. i \in 2..k /\ i - 1 \in (1..Len(b)) \ {k}
        BY ONLY <1>1, <1>3, <2>1
      <3>2. c[i] = b[i - 1]
        BY ONLY <3>1, FrontOf(c, b, k, r) DEF FrontOf
      <3>3. ~(i > k)
        BY ONLY <1>1, <1>3, <2>1
      <3> QED
        BY ONLY <3>1, <3>2, <3>3
    <2>2. CASE i > k
      <3>1. i \in k + 1..Len(b) /\ i \in (1..Len(b)) \ {k} /\ ~(i <= k)
        BY ONLY <1>1, <1>3, <2>2
      <3>2. c[i] = b[i]
        BY ONLY <3>1, FrontOf(c, b, k, r) DEF FrontOf
      <3> QED
        BY ONLY <3>1, <3>2
    <2> QED
      BY ONLY <1>1, <1>3, <2>1, <2>2
  <1>4. Apart(c)
    <2>a. ASSUME NEW i, NEW j, i \in 1..Len(b), j \in 1..Len(b),
                 c[i] = c[j], c[i] # NoRecord, i < j
          PROVE  FALSE
      <3>1. j # 1
        BY ONLY <1>1, <2>a
      <3>2. PICK j2 \in (1..Len(b)) \ {k} : c[j] = b[j2] /\ (j <= k => j2 = j - 1) /\ (j > k => j2 = j)
        BY <1>3, <2>a, <3>1
      <3>3. CASE i = 1
        BY <1>2, <3>2, <3>3, <2>a
      <3>4. CASE i # 1
        <4>1. PICK i2 \in (1..Len(b)) \ {k} : c[i] = b[i2] /\ (i <= k => i2 = i - 1) /\ (i > k => i2 = i)
          BY <1>3, <2>a, <3>4
        <4>2. i2 = j2
          BY <3>2, <4>1, <2>a DEF Apart
        <4> QED
          BY ONLY <1>1, <3>2, <4>1, <4>2, <2>a
      <3> QED
        BY ONLY <3>3, <3>4
    <2>b. ASSUME NEW i, NEW j, i \in 1..Len(b), j \in 1..Len(b), c[i] = c[j], c[i] # NoRecord
          PROVE  i = j
      <3>1. ~(i < j)
        BY ONLY <2>a, <2>b
      <3>2. ~(j < i)
        BY ONLY <2>a, <2>b
      <3> QED
        BY ONLY <1>1, <2>b, <3>1, <3>2
    <2> QED
      BY ONLY <1>1, <2>b DEF Apart
  <1>5. ToSet(c) \subseteq {r} \cup {b[j] : j \in (1..Len(b)) \ {k}}
    <2> DEFINE X == {r} \cup {b[j] : j \in (1..Len(b)) \ {k}}
    <2>1. ASSUME NEW i, i \in 1..Len(b) PROVE c[i] \in X
      BY <1>2, <1>3, <2>1
    <2> HIDE DEF X
    <2>2. ToSet(c) \subseteq X
      BY ONLY <1>1, <2>1 DEF ToSet
    <2> QED
      BY <2>2 DEF X
  <1>6. r \in ToSet(c)
    <2>1. 1 \in 1..Len(b)
      BY ONLY <1>1
    <2> QED
      BY ONLY <1>1, <1>2, <2>1 DEF ToSet
  <1>7. ASSUME NEW j, j \in (1..Len(b)) \ {k} PROVE b[j] \in ToSet(c)
    <2>1. CASE j < k
      <3>1. j + 1 \in 2..k /\ j + 1 \in 1..Len(b) /\ (j + 1) - 1 = j
        BY ONLY <1>1, <1>7, <2>1
      <3>2. c[j + 1] = b[(j + 1) - 1]
        BY ONLY <3>1, FrontOf(c, b, k, r) DEF FrontOf
      <3>3. c[j + 1] = b[j]
        BY ONLY <3>1, <3>2
      <3> QED
        BY ONLY <1>1, <3>1, <3>3 DEF ToSet
    <2>2. CASE j > k
      <3>1. j \in k + 1..Len(b) /\ j \in 1..Len(b)
        BY ONLY <1>1, <1>7, <2>2
      <3>2. c[j] = b[j]
        BY ONLY <3>1, FrontOf(c, b, k, r) DEF FrontOf
      <3> QED
        BY ONLY <1>1, <3>1, <3>2 DEF ToSet
    <2> QED
      BY ONLY <1>1, <1>7, <2>1, <2>2
  <1> QED
    BY <1>4, <1>5, <1>6, <1>7

\* the least and the last of some numbers
LEMMA HasLeast ==
  ASSUME NEW S, S \subseteq Nat, S # {}
  PROVE  \E m \in S : \A j \in S : m <= j
  <1> DEFINE R == {ss \in Nat \X Nat : ss[1] < ss[2]}
  <1>1. IsWellFoundedOn(R, Nat)
    <2>1. IsWellFoundedOn(OpToRel(<, Nat), Nat)
      BY NatLessThanWellFounded
    <2> QED
      BY <2>1 DEF OpToRel
  <1>2. \E i \in S : \A j \in S : ~ (<<j, i>> \in R)
    <2>1. S \in SUBSET Nat
      OBVIOUS
    <2> HIDE DEF R
    <2> QED
      BY <1>1, <2>1, WFMin, Zenon
  <1>3. PICK m \in S : \A j \in S : ~ (<<j, m>> \in R)
    BY <1>2
  <1>4. ASSUME NEW j, j \in S PROVE m <= j
    <2>1. j \in Nat /\ m \in Nat
      BY <1>4
    <2>2. ~(j < m)
      BY <1>3, <1>4, <2>1
    <2> QED
      BY ONLY <2>1, <2>2
  <1> QED
    BY <1>4
LEMMA HasLast ==
  ASSUME NEW n \in Nat, NEW S, S \subseteq 1..n, S # {}
  PROVE  \E m \in S : \A j \in S : j <= m
  <1> DEFINE D == {n - j : j \in S}
  <1>1. ASSUME NEW d, d \in D PROVE d \in Nat
    <2>1. PICK j : j \in S /\ d = n - j
      BY <1>1
    <2>2. j \in 1..n
      BY <2>1
    <2> QED
      BY ONLY <2>1, <2>2, n \in Nat
  <1>a. D # {}
    OBVIOUS
  <1> HIDE DEF D
  <1>2. PICK d \in D : \A e \in D : d <= e
    BY <1>1, <1>a, HasLeast
  <1>3. PICK m \in S : d = n - m
    BY DEF D
  <1>4. ASSUME NEW j \in S PROVE j <= m
    <2>1. n - j \in D
      BY DEF D
    <2>2. d <= n - j /\ j \in 1..n /\ m \in 1..n
      BY <1>2, <2>1
    <2> QED
      BY ONLY <1>3, <2>2, n \in Nat
  <1> QED
    BY <1>4

\* t with r in the buffer k that has been made free for it
Freed(t, r, k) ==
  /\ Stage(t) /\ Apart(t.buf)
  /\ Records \ t.fresh = t.dirty /\ t.dirty \subseteq t.latest
  /\ t.latest = ({r} \cup {t.buf[j] : j \in (1..Len(t.buf)) \ {k}}) \ {NoRecord}
  /\ \A j \in 1..Len(t.buf) : j # k => t.buf[j] # r
PutFirst(t, r, wrt, c) ==
  [t EXCEPT !.buf = c, !.dirty = IF wrt THEN @ \cup {r} ELSE @,
            !.fresh = IF wrt THEN @ \ {r} ELSE @]
LEMMA Placed ==
  ASSUME NEW t, NEW r, r \in Records, NEW k, Freed(t, r, k), NEW wrt, NEW c, FrontOf(c, t.buf, k, r),
         NEW u, u = PutFirst(t, r, wrt, c)
  PROVE  /\ Stage(u) /\ Held(u) /\ u.fat = t.fat /\ u.ofd = t.ofd /\ u.moved = t.moved
         /\ r \in u.latest
  <1>a. /\ Stage(t) /\ Apart(t.buf)
        /\ Records \ t.fresh = t.dirty /\ t.dirty \subseteq t.latest
        /\ t.latest = ({r} \cup {t.buf[j] : j \in (1..Len(t.buf)) \ {k}}) \ {NoRecord}
        /\ \A j \in 1..Len(t.buf) : j # k => t.buf[j] # r
    BY DEF Freed
  <1>1. r \in Nat /\ r # NoRecord
    BY RecordsAre
  <1>2. Apart(c) /\ ToSet(c) = {r} \cup {t.buf[j] : j \in (1..Len(t.buf)) \ {k}}
    BY <1>a, <1>1, ToFront
  <1>3. c \in Seq(Int) /\ Len(c) > 0
    BY DEF FrontOf
  <1> DEFINE di == IF wrt THEN t.dirty \cup {r} ELSE t.dirty
             fr == IF wrt THEN t.fresh \ {r} ELSE t.fresh
  <1>4. di \in SUBSET Int /\ fr \in SUBSET Int
    BY <1>a, <1>1 DEF Stage, Stages
  <1>5. r \in t.latest
    BY <1>a, <1>1
  <1>6. Records \ fr = di /\ di \subseteq t.latest
    BY <1>a, <1>5
  <1>7. u = [t EXCEPT !.buf = c, !.dirty = di, !.fresh = fr]
    BY <1>a DEF Stage, Stages, PutFirst
  <1> HIDE DEF di, fr
  <1>8. /\ Stage(u) /\ u.fat = t.fat /\ u.ofd = t.ofd /\ u.moved = t.moved /\ u.latest = t.latest
        /\ u.buf = c /\ u.dirty = di /\ u.fresh = fr
    BY ONLY <1>3, <1>4, <1>7, <1>a DEF Stage, Stages
  <1>9. t.latest = ToSet(c) \ {NoRecord}
    BY <1>a, <1>2
  <1>10. Held(u)
    BY ONLY <1>2, <1>3, <1>6, <1>8, <1>9 DEF Held
  <1> QED
    BY ONLY <1>5, <1>8, <1>10

LEMMA GetrecIs ==
  ASSUME NEW s, Stage(s), Held(s), NEW r, r \in Records, NEW wrt, NEW u, u = Getrec(s, r, wrt)
  PROVE  /\ Stage(u) /\ Held(u) /\ u.fat = s.fat /\ u.ofd = s.ofd /\ u.moved = s.moved
         /\ r \in u.latest
  <1> DEFINE last(S) == CHOOSE k \in S : \A j \in S : j <= k
             at == {k \in DOMAIN s.buf : s.buf[k] = r}
             empty == {k \in DOMAIN s.buf : s.buf[k] = NoRecord}
             k == IF at # {} THEN last(at)
                  ELSE IF empty # {} THEN last(empty) ELSE Len(s.buf)
             f == flushbcb(s, s.buf[k])
             la == (f.latest \ {r, s.buf[k]}) \cup ({r} \cap f.fresh)
             t == IF at # {} THEN s ELSE [f EXCEPT !.latest = la]
             c == <<r>> \o SubSeq(t.buf, 1, k - 1) \o SubSeq(t.buf, k + 1, Len(t.buf))
  <1>1. r \in Nat /\ r # NoRecord
    BY RecordsAre
  <1>2. s.buf \in Seq(Int) /\ Len(s.buf) \in Nat /\ Len(s.buf) > 0 /\ DOMAIN s.buf = 1..Len(s.buf)
    BY DEF Stage, Stages, Held
  <1>3. k \in 1..Len(s.buf) /\ (at # {} => s.buf[k] = r)
    <2>1. ASSUME NEW S, S \subseteq 1..Len(s.buf), S # {} PROVE last(S) \in S
      <3>1. \E m \in S : \A j \in S : j <= m
        BY <1>2, <2>1, HasLast
      <3> QED
        BY ONLY <3>1
    <2>2. at \subseteq 1..Len(s.buf) /\ empty \subseteq 1..Len(s.buf)
      BY <1>2
    <2>3. at # {} => last(at) \in at
      BY <2>1, <2>2
    <2>4. empty # {} => last(empty) \in empty
      BY <2>1, <2>2
    <2> HIDE DEF last
    <2>5. at # {} => k \in at
      BY <2>3
    <2>6. at = {} => k \in 1..Len(s.buf)
      BY <1>2, <2>2, <2>4
    <2> QED
      BY <2>2, <2>5, <2>6
  <1>4. u = PutFirst(t, r, wrt, c)
    BY DEF Getrec, PutFirst
  <1> HIDE DEF k
  <1>5. /\ Stage(t) /\ t.fat = s.fat /\ t.ofd = s.ofd /\ t.moved = s.moved /\ t.buf = s.buf
        /\ Records \ t.fresh = t.dirty /\ t.dirty \subseteq t.latest
        /\ t.latest = ({r} \cup {t.buf[j] : j \in (1..Len(t.buf)) \ {k}}) \ {NoRecord}
        /\ \A j \in 1..Len(t.buf) : j # k => t.buf[j] # r
    <2>1. CASE at # {}
      <3>1. t = s
        BY <2>1
      <3>2. s.buf[k] = r
        BY <1>3, <2>1
      <3>3. \A j \in 1..Len(s.buf) : j # k => s.buf[j] # r
        BY <1>1, <1>3, <3>2 DEF Held, Apart
      <3>4. ToSet(s.buf) = {r} \cup {s.buf[j] : j \in (1..Len(s.buf)) \ {k}}
        BY <1>2, <1>3, <3>2 DEF ToSet
      <3> HIDE DEF t
      <3> QED
        BY <3>1, <3>3, <3>4 DEF Held
    <2>2. CASE at = {}
      <3>1. /\ Stage(f) /\ Held(f) /\ f.fat = s.fat /\ f.ofd = s.ofd /\ f.moved = s.moved
            /\ f.buf = s.buf /\ f.latest = s.latest /\ s.buf[k] \notin f.dirty
        BY Flushed
      <3>2. t = [f EXCEPT !.latest = la]
        BY <2>2
      <3>3. r \notin ToSet(s.buf)
        BY <1>2, <2>2 DEF ToSet
      <3>4. \A j \in 1..Len(s.buf) : s.buf[j] # r
        BY <1>2, <2>2
      <3> HIDE DEF f, t, at
      <3>5. r \notin f.latest /\ r \notin f.dirty /\ r \in f.fresh
        BY <3>1, <3>3 DEF Held
      <3>6. s.buf[k] \in Int
        BY <1>2, <1>3
      <3>7. la = (f.latest \ {s.buf[k]}) \cup {r}
        BY <3>5
      <3> HIDE DEF la
      <3>8. la \in SUBSET Int
        BY <1>1, <3>1, <3>7 DEF Stage, Stages
      <3>9. /\ Stage(t) /\ t.fat = s.fat /\ t.ofd = s.ofd /\ t.moved = s.moved /\ t.buf = s.buf
            /\ t.latest = la /\ t.dirty = f.dirty /\ t.fresh = f.fresh
        BY ONLY <3>1, <3>2, <3>8 DEF Stage, Stages
      <3>10. ToSet(s.buf) = {s.buf[k]} \cup {s.buf[j] : j \in (1..Len(s.buf)) \ {k}}
        BY <1>2, <1>3 DEF ToSet
      <3>11. s.buf[k] # NoRecord => s.buf[k] \notin {s.buf[j] : j \in (1..Len(s.buf)) \ {k}}
        BY <1>3 DEF Held, Apart
      <3>12. f.latest = ToSet(s.buf) \ {NoRecord}
        BY <3>1 DEF Held
      <3>13. la = ({r} \cup {s.buf[j] : j \in (1..Len(s.buf)) \ {k}}) \ {NoRecord}
        BY ONLY <1>1, <3>7, <3>10, <3>11, <3>12
      <3>14. Records \ f.fresh = f.dirty /\ f.dirty \subseteq la
        BY <3>1, <3>7 DEF Held
      <3> QED
        BY <3>4, <3>9, <3>13, <3>14
    <2> QED
      BY <2>1, <2>2
  <1> HIDE DEF t, at
  <1>6. t.buf \in Seq(Int) /\ k \in 1..Len(t.buf)
    BY ONLY <1>2, <1>3, <1>5
  <1>7. c = Fronted(t.buf, k, r) /\ r \in Int
    BY <1>1 DEF Fronted
  <1> HIDE DEF c
  <1>8. FrontOf(c, t.buf, k, r)
    BY ONLY <1>1, <1>6, <1>7, FrontIs
  <1>9. Freed(t, r, k)
    <2>1. Apart(t.buf)
      BY <1>5 DEF Held
    <2> QED
      BY ONLY <1>5, <2>1 DEF Freed
  <1>10. /\ Stage(u) /\ Held(u) /\ u.fat = t.fat /\ u.ofd = t.ofd /\ u.moved = t.moved
         /\ r \in u.latest
    BY ONLY <1>4, <1>8, <1>9, r \in Records, Placed
  <1> QED
    BY ONLY <1>5, <1>10

LEMMA MovesIs ==
  ASSUME NEW s, Stage(s), Held(s), NEW a \in Int, NEW n \in Nat, NEW u, u = Moves(s, a, n, TRUE)
  PROVE  Copies(u, s, a, n)
  <1> DEFINE m == s.moved \o Addr(a, n)
  <1>1. u = [s EXCEPT !.moved = m]
    BY DEF Moves, Addr, Stage, Stages
  <1>2. m \in Seq(Int)
    <2>1. s.moved \in Seq(Int) /\ Addr(a, n) \in Seq(Int)
      BY AddrIs DEF Stage, Stages
    <2> QED
      BY <2>1
  <1> HIDE DEF m
  <1>3. /\ Stage(u) /\ u.fat = s.fat /\ u.ofd = s.ofd /\ u.moved = m /\ u.latest = s.latest
        /\ u.buf = s.buf /\ u.dirty = s.dirty /\ u.fresh = s.fresh
    BY ONLY <1>1, <1>2, Stage(s) DEF Stage, Stages
  <1>4. Held(u)
    BY ONLY <1>3, Held(s) DEF Held
  <1> QED
    BY <1>3, <1>4 DEF Copies, m

\* bytes go through a buffer
LEMMA ThroughIs ==
  ASSUME NEW s, Stage(s), Held(s), NEW r, r \in Records, NEW wrt, NEW at \in Nat, NEW n \in Nat,
         NEW u, u = Through(s, wrt, r, at, n)
  PROVE  Copies(u, s, r * recsiz + at, n)
  <1> DEFINE t == Getrec(s, r, wrt)
  <1>1. /\ Stage(t) /\ Held(t) /\ t.fat = s.fat /\ t.ofd = s.ofd /\ t.moved = s.moved
        /\ r \in t.latest
    BY GetrecIs
  <1>2. u = Moves(t, r * recsiz + at, n, TRUE)
    BY <1>1 DEF Through
  <1> HIDE DEF t
  <1>3. r * recsiz + at \in Int
    <2>1. r \in Nat /\ recsiz \in Nat
      BY RecordsAre, Sizes
    <2>2. r * recsiz \in Nat
      BY ONLY <2>1
    <2> QED
      BY <2>2
  <1>4. Copies(u, t, r * recsiz + at, n)
    BY <1>1, <1>2, <1>3, MovesIs
  <1> QED
    BY ONLY <1>1, <1>4 DEF Copies

\* b without the records of S
Dropped(b, S) == SubSeq([k \in DOMAIN b |-> IF b[k] \in S THEN NoRecord ELSE b[k]], 1, Len(b))
LEMMA DroppedIs ==
  ASSUME NEW b, b \in Seq(Int), Apart(b), NEW S, NEW c, c = Dropped(b, S)
  PROVE  /\ c \in Seq(Int) /\ Len(c) = Len(b) /\ Apart(c)
         /\ ToSet(c) \ {NoRecord} = (ToSet(b) \ {NoRecord}) \ S
  <1> DEFINE d == [k \in DOMAIN b |-> IF b[k] \in S THEN NoRecord ELSE b[k]]
  <1>1. Len(b) \in Nat /\ DOMAIN b = 1..Len(b) /\ \A k \in 1..Len(b) : b[k] \in Int
    OBVIOUS
  <1>2. d \in [1..Len(b) -> Int]
    BY <1>1 DEF NoRecord
  <1>3. d \in Seq(Int) /\ Len(d) = Len(b)
    BY ONLY <1>1, <1>2
  <1>4. \A k \in 1..Len(b) : d[k] = IF b[k] \in S THEN NoRecord ELSE b[k]
    BY ONLY <1>1
  <1>5. c = SubSeq(d, 1, Len(b))
    BY DEF Dropped
  <1> HIDE DEF d
  <1>6. c \in Seq(Int) /\ Len(c) = Len(b) /\ \A k \in 1..Len(b) : c[k] = d[k]
    BY ONLY <1>1, <1>3, <1>5
  <1>7. \A k \in 1..Len(b) : c[k] = IF b[k] \in S THEN NoRecord ELSE b[k]
    BY ONLY <1>4, <1>6
  <1>8. Apart(c)
    BY ONLY <1>6, <1>7, Apart(b) DEF Apart
  <1>9. DOMAIN c = 1..Len(b)
    BY ONLY <1>6
  <1>10. ToSet(c) \ {NoRecord} = (ToSet(b) \ {NoRecord}) \ S
    <2>1. ASSUME NEW x, x \in ToSet(c), x # NoRecord PROVE x \in ToSet(b) /\ x \notin S
      <3>1. PICK k \in 1..Len(b) : x = c[k]
        BY ONLY <1>9, <2>1 DEF ToSet
      <3>2. b[k] \notin S /\ x = b[k]
        BY ONLY <1>7, <2>1, <3>1
      <3> QED
        BY ONLY <1>1, <3>2 DEF ToSet
    <2>2. ASSUME NEW x, x \in ToSet(b), x \notin S PROVE x \in ToSet(c)
      <3>1. PICK k \in 1..Len(b) : x = b[k]
        BY ONLY <1>1, <2>2 DEF ToSet
      <3>2. x = c[k]
        BY ONLY <1>7, <2>2, <3>1
      <3> QED
        BY ONLY <1>9, <3>2 DEF ToSet
    <2> QED
      BY ONLY <2>1, <2>2
  <1> QED
    BY ONLY <1>6, <1>8, <1>10

\* records are moved themselves
LEMMA usrioIs ==
  ASSUME NEW s, Stage(s), Held(s), NEW wrt, NEW count, count \in Nat, NEW r, r \in Nat,
         r..r + count - 1 \subseteq Records, NEW u, u = usrio(s, wrt, count, r)
  PROVE  Copies(u, s, r * recsiz, count * recsiz)
  <1> DEFINE range == r..r + count - 1
             held == range \cap ToSet(s.buf)
             f == IF held \cap s.dirty = {} THEN s
                  ELSE flushbcb(s, CHOOSE x \in held \cap s.dirty : TRUE)
             c == Dropped(f.buf, range)
             la == f.latest \ range
             t == [f EXCEPT !.buf = c, !.latest = la]
             v == Moves(t, r * recsiz, count * recsiz, wrt \/ range \subseteq t.fresh)
  <1>1. u = IF wrt THEN [v EXCEPT !.fresh = @ \cup range] ELSE v
    BY DEF usrio, Dropped
  <1>2. /\ Stage(f) /\ Held(f) /\ f.fat = s.fat /\ f.ofd = s.ofd /\ f.moved = s.moved
        /\ range \cap f.dirty = {}
    <2>1. CASE held \cap s.dirty = {}
      BY <2>1 DEF Held
    <2>2. CASE held \cap s.dirty # {}
      <3> DEFINE x == CHOOSE x \in held \cap s.dirty : TRUE
      <3>1. x \in s.dirty
        BY <2>2
      <3>2. f = flushbcb(s, x)
        BY <2>2
      <3> HIDE DEF x, f
      <3> QED
        BY <3>1, <3>2, Flushed
    <2> QED
      BY <2>1, <2>2
  <1> HIDE DEF f
  <1>3. range \subseteq Records
    OBVIOUS
  <1> HIDE DEF range
  <1>4. f.buf \in Seq(Int) /\ f.latest \in SUBSET Int /\ Apart(f.buf)
    BY ONLY <1>2 DEF Stage, Stages, Held
  <1>5. /\ c \in Seq(Int) /\ Len(c) = Len(f.buf) /\ Apart(c)
        /\ ToSet(c) \ {NoRecord} = (ToSet(f.buf) \ {NoRecord}) \ range
    BY ONLY <1>4, DroppedIs
  <1>6. la \in SUBSET Int
    BY ONLY <1>4
  <1>7. la = ToSet(c) \ {NoRecord} /\ f.dirty \subseteq la /\ Len(c) > 0
    BY ONLY <1>2, <1>5 DEF Held
  <1> HIDE DEF c, la
  <1>8. /\ Stage(t) /\ t.fat = s.fat /\ t.ofd = s.ofd /\ t.moved = s.moved /\ t.buf = c
        /\ t.latest = la /\ t.dirty = f.dirty /\ t.fresh = f.fresh
    BY ONLY <1>2, <1>5, <1>6 DEF Stage, Stages
  <1> HIDE DEF t
  <1>9. Held(t)
    BY ONLY <1>2, <1>5, <1>7, <1>8 DEF Held
  <1>10. range \subseteq t.fresh
    BY ONLY <1>2, <1>3, <1>8 DEF Held
  <1>11. r * recsiz \in Int /\ count * recsiz \in Nat
    <2>1. ASSUME NEW a \in Nat, NEW b \in Nat PROVE a * b \in Nat
      OBVIOUS
    <2> QED
      BY Sizes, <2>1
  <1>12. Copies(v, t, r * recsiz, count * recsiz)
    BY <1>8, <1>9, <1>10, <1>11, MovesIs
  <1> HIDE DEF v
  <1>13. CASE ~wrt
    BY <1>1, <1>8, <1>12, <1>13 DEF Copies
  <1>14. CASE wrt
    <2> DEFINE fr == v.fresh \cup range
    <2>1. u = [v EXCEPT !.fresh = fr]
      BY <1>1, <1>12, <1>14 DEF Copies, Stage, Stages
    <2>2. Stage(v) /\ Held(v)
      BY <1>12 DEF Copies
    <2>3. fr \in SUBSET Int
      <3>1. range \subseteq Int
        BY <1>3, RecordsAre
      <3> QED
        BY ONLY <2>2, <3>1 DEF Stage, Stages
    <2>4. Records \ fr = v.dirty
      <3>1. v.fresh = t.fresh /\ v.dirty = t.dirty
        BY <1>8 DEF v, Moves, Stage, Stages
      <3> QED
        BY ONLY <1>10, <2>2, <3>1 DEF Held
    <2> HIDE DEF fr
    <2>5. /\ Stage(u) /\ u.fat = v.fat /\ u.ofd = v.ofd /\ u.moved = v.moved /\ u.buf = v.buf
          /\ u.latest = v.latest /\ u.dirty = v.dirty /\ u.fresh = fr
      BY ONLY <2>1, <2>2, <2>3 DEF Stage, Stages
    <2>6. Held(u)
      BY ONLY <2>2, <2>4, <2>5 DEF Held
    <2> QED
      BY ONLY <1>8, <1>12, <2>5, <2>6 DEF Copies
  <1> QED
    BY <1>13, <1>14

-----------------------------------------------------------------------------
(* The file.                                                                *)

\* ch are the clusters of a file that begins with strt
Chain(ch, f, strt) ==
  /\ ch \in Seq(Clnums)
  /\ \A j, k \in 1..Len(ch) : ch[j] = ch[k] => j = k
  /\ strt = IF Len(ch) = 0 THEN 0 ELSE ch[1]
  /\ \A j \in 1..Len(ch) : f[ch[j]] = IF j < Len(ch) THEN ch[j + 1] ELSE ENDOFCHAIN
\* ch2 is ch, or ch with more behind it
Longer(ch2, ch) == Len(ch2) >= Len(ch) /\ \A j \in 1..Len(ch) : ch2[j] = ch[j]

\* the bytes m of the disk are those of the file from b on
Leads(m, ch, b) ==
  \A k \in 1..Len(m) : \E j \in 1..Len(ch), e \in 0..clsizb - 1 :
    m[k] = ch[j] * clsizb + e /\ b + k - 1 = (j - 1) * clsizb + e

Spare(f) == {c \in 2..m_numcl - 1 : f[c] = UNUSED}
Most(a, b) == IF b > a THEN b ELSE a

\* Within a call that began at byte b of a file of length l, which can have q
\* clusters: what has been moved, and how long the file is
Base(s, ch, b, l, q) ==
  /\ Stage(s) /\ Held(s) /\ Chain(ch, s.fat, s.ofd.strtcl)
  /\ b \in Nat /\ l \in Nat /\ l <= Len(ch) * clsizb
  /\ s.ofd.bytnum = b + Len(s.moved) /\ s.ofd.fileln = Most(l, s.ofd.bytnum)
  /\ Leads(s.moved, ch, b)
  /\ Len(ch) + Cardinality(Spare(s.fat)) = q
\* the OFD is in the i-th cluster
At(o, ch, i) ==
  /\ i \in 0..Len(ch) /\ o.curcl = (IF i = 0 THEN 0 ELSE ch[i])
  /\ o.currec = o.curcl * clsiz
\* the bytes up to the d-th of the i-th cluster
Byte(i, d) == IF i = 0 THEN 0 ELSE (i - 1) * clsizb + d
\* the position is there, and not before all of the cluster
Behind(o, i, d) ==
  /\ d \in 0..clsizb /\ (i = 0 <=> d = 0)
  /\ o.bytnum = Byte(i, d)
  /\ o.curbyt = d \/ (d = clsizb /\ o.curbyt = 0)
On(s, ch, i, d, b, l, q) == Base(s, ch, b, l, q) /\ At(s.ofd, ch, i) /\ Behind(s.ofd, i, d)
\* the position is before byte e of the i-th cluster
Fore(s, ch, i, e, b, l, q) ==
  /\ Base(s, ch, b, l, q) /\ At(s.ofd, ch, i) /\ i > 0
  /\ e \in 0..clsizb - 1 /\ s.ofd.curbyt = e /\ s.ofd.bytnum = (i - 1) * clsizb + e

LEMMA OneMore ==
  ASSUME NEW n \in Nat, NEW w \in Nat
  PROVE  (n + 1) * w = n * w + w /\ n * w \in Nat
  OBVIOUS
LEMMA Wider ==
  ASSUME NEW n \in Nat, NEW m \in Nat, NEW w \in Nat, n <= m
  PROVE  n * w <= m * w /\ n * w \in Nat /\ m * w \in Nat
  OBVIOUS

LEMMA LongerLeads ==
  ASSUME NEW m, NEW ch, Len(ch) \in Nat, NEW b, Leads(m, ch, b), NEW ch2, Len(ch2) \in Nat,
         Longer(ch2, ch)
  PROVE  Leads(m, ch2, b)
  <1> SUFFICES ASSUME NEW k, k \in 1..Len(m)
               PROVE  \E j \in 1..Len(ch2), e \in 0..clsizb - 1 :
                        m[k] = ch2[j] * clsizb + e /\ b + k - 1 = (j - 1) * clsizb + e
    BY DEF Leads
  <1>1. PICK j \in 1..Len(ch), e \in 0..clsizb - 1 :
          m[k] = ch[j] * clsizb + e /\ b + k - 1 = (j - 1) * clsizb + e
    BY DEF Leads
  <1>2. j \in 1..Len(ch2) /\ ch2[j] = ch[j]
    BY DEF Longer
  <1> QED
    BY ONLY <1>1, <1>2

\* what follows on disk and in the file
LEMMA LeadsMore ==
  ASSUME NEW m, m \in Seq(Int), NEW x, x \in Seq(Int), NEW ch, NEW b \in Int, NEW y, y = m \o x,
         Leads(m, ch, b), Leads(x, ch, b + Len(m))
  PROVE  Leads(y, ch, b)
  <1>1. Joined(m, x, y)
    BY Join
  <1>2. Len(m) \in Nat /\ Len(x) \in Nat /\ Len(y) = Len(m) + Len(x)
    BY <1>1 DEF Joined
  <1> SUFFICES ASSUME NEW k, k \in 1..Len(y)
               PROVE  \E j \in 1..Len(ch), e \in 0..clsizb - 1 :
                        y[k] = ch[j] * clsizb + e /\ b + k - 1 = (j - 1) * clsizb + e
    BY DEF Leads
  <1>3. CASE k <= Len(m)
    <2>1. k \in 1..Len(m)
      BY ONLY <1>2, <1>3, k \in 1..Len(y)
    <2>2. y[k] = m[k]
      BY ONLY <2>1, <1>1 DEF Joined
    <2> QED
      BY ONLY <2>1, <2>2, Leads(m, ch, b) DEF Leads
  <1>4. CASE k > Len(m)
    <2> DEFINE h == k - Len(m)
    <2>1. h \in 1..Len(x) /\ Len(m) + h = k /\ k \in Int
      BY ONLY <1>2, <1>4, k \in 1..Len(y)
    <2>2. (b + Len(m)) + h - 1 = b + k - 1
      BY ONLY <1>2, <2>1, b \in Int
    <2>3. y[Len(m) + h] = x[h]
      BY ONLY <2>1, <1>1 DEF Joined
    <2> HIDE DEF h
    <2>4. \E j \in 1..Len(ch), e \in 0..clsizb - 1 :
            x[h] = ch[j] * clsizb + e /\ (b + Len(m)) + h - 1 = (j - 1) * clsizb + e
      BY ONLY <2>1, Leads(x, ch, b + Len(m)) DEF Leads
    <2> QED
      BY ONLY <2>1, <2>2, <2>3, <2>4
  <1> QED
    BY ONLY <1>2, <1>3, <1>4, k \in 1..Len(y)

\* bytes of one cluster
LEMMA LeadsHere ==
  ASSUME NEW ch, NEW i, i \in 1..Len(ch), Len(ch) \in Nat, ch[i] \in Nat, NEW e \in Nat, NEW n \in Nat,
         e + n <= clsizb, NEW a, a = ch[i] * clsizb + e, NEW b, b = (i - 1) * clsizb + e
  PROVE  Leads(Addr(a, n), ch, b)
  <1> DEFINE x == ch[i] * clsizb
             y == (i - 1) * clsizb
  <1>1. clsizb \in Nat
    BY Sizes
  <1>2. x \in Nat /\ y \in Nat
    <2>1. ASSUME NEW u \in Nat, NEW v \in Nat PROVE u * v \in Nat
      OBVIOUS
    <2>2. i - 1 \in Nat
      OBVIOUS
    <2> QED
      BY ONLY <1>1, <2>1, <2>2, ch[i] \in Nat
  <1>3. a = x + e /\ b = y + e
    OBVIOUS
  <1>4. Len(Addr(a, n)) = n /\ \A k \in 1..n : Addr(a, n)[k] = a + k - 1
    BY DEF Addr
  <1> HIDE DEF x, y
  <1>5. ASSUME NEW k, k \in 1..n
        PROVE  \E j \in 1..Len(ch), f \in 0..clsizb - 1 :
                 Addr(a, n)[k] = ch[j] * clsizb + f /\ b + k - 1 = (j - 1) * clsizb + f
    <2>1. /\ e + k - 1 \in 0..clsizb - 1 /\ a + k - 1 = x + (e + k - 1)
          /\ b + k - 1 = y + (e + k - 1)
      BY ONLY <1>1, <1>2, <1>3, <1>5, n \in Nat, e \in Nat, e + n <= clsizb
    <2>2. Addr(a, n)[k] = a + k - 1
      BY ONLY <1>4, <1>5
    <2>3. x = ch[i] * clsizb /\ y = (i - 1) * clsizb
      BY DEF x, y
    <2> QED
      BY ONLY <2>1, <2>2, <2>3, i \in 1..Len(ch)
  <1> QED
    BY ONLY <1>4, <1>5 DEF Leads

\* the OFD, n bytes on, and m of them in its cluster
Forth(p, o, n, m) ==
  /\ p.strtcl = o.strtcl /\ p.curcl = o.curcl /\ p.currec = o.currec
  /\ p.bytnum = o.bytnum + n /\ p.curbyt = o.curbyt + m
  /\ p.fileln = Most(o.fileln, o.bytnum + n)
\* n bytes from a on have been moved, and counted
Ran(u, s, a, n, m) ==
  /\ Stage(u) /\ Held(u) /\ u.fat = s.fat /\ Forth(u.ofd, s.ofd, n, m)
  /\ u.moved = s.moved \o Addr(a, n)

LEMMA additIs ==
  ASSUME NEW s, Stage(s), NEW n, n \in Nat, NEW flg, NEW u, u = addit(s, n, flg),
         NEW m, m = IF flg THEN n ELSE 0
  PROVE  /\ Stage(u) /\ u.fat = s.fat /\ u.moved = s.moved /\ Forth(u.ofd, s.ofd, n, m)
         /\ Held(s) => Held(u)
  <1> DEFINE o == s.ofd
             b == o.bytnum + n
             c == IF flg THEN o.curbyt + n ELSE o.curbyt
             l == IF b > o.fileln THEN b ELSE o.fileln
             p == [o EXCEPT !.bytnum = b, !.curbyt = c, !.fileln = l]
  <1>1. o \in Ofds
    BY DEF Stage, Stages
  <1>2. u = [s EXCEPT !.ofd = p]
    BY <1>1 DEF addit, Stage, Stages, Ofds
  <1>3. b \in Nat /\ c \in Nat /\ l \in Nat
    BY <1>1 DEF Ofds
  <1>4. l = Most(o.fileln, b)
    BY DEF Most
  <1>5. b = o.bytnum + n /\ c = o.curbyt + m
    BY <1>1 DEF Ofds
  <1> HIDE DEF b, c, l
  <1>6. /\ p \in Ofds /\ p.strtcl = o.strtcl /\ p.curcl = o.curcl /\ p.currec = o.currec
        /\ p.bytnum = b /\ p.curbyt = c /\ p.fileln = l
    BY ONLY <1>1, <1>3 DEF Ofds
  <1> HIDE DEF p
  <1>7. /\ Stage(u) /\ u.fat = s.fat /\ u.moved = s.moved /\ u.ofd = p /\ u.buf = s.buf
        /\ u.dirty = s.dirty /\ u.latest = s.latest /\ u.fresh = s.fresh
    BY ONLY <1>2, <1>6, Stage(s) DEF Stage, Stages
  <1>8. Held(s) => Held(u)
    BY ONLY <1>7 DEF Held
  <1>9. Forth(u.ofd, s.ofd, n, m)
    BY ONLY <1>4, <1>5, <1>6, <1>7 DEF Forth, o
  <1> QED
    BY <1>7, <1>8, <1>9

LEMMA RanAfter ==
  ASSUME NEW s, NEW a, NEW n, n \in Nat, NEW v, Copies(v, s, a, n), NEW flg,
         NEW u, u = addit(v, n, flg), NEW m, m = IF flg THEN n ELSE 0
  PROVE  Ran(u, s, a, n, m)
  <1>1. /\ Stage(v) /\ Held(v) /\ v.fat = s.fat /\ v.ofd = s.ofd
        /\ v.moved = s.moved \o Addr(a, n)
    BY DEF Copies
  <1>2. /\ Stage(u) /\ Held(u) /\ u.fat = v.fat /\ u.moved = v.moved
        /\ Forth(u.ofd, v.ofd, n, m)
    <2>1. Stage(v) /\ Held(v)
      BY <1>1
    <2> QED
      BY ONLY <2>1, n \in Nat, u = addit(v, n, flg), m = (IF flg THEN n ELSE 0), additIs
  <1> QED
    BY ONLY <1>1, <1>2 DEF Ran
LEMMA RanBefore ==
  ASSUME NEW s, Stage(s), Held(s), NEW a, NEW n, n \in Nat, NEW flg,
         NEW v, v = addit(s, n, flg), NEW m, m = (IF flg THEN n ELSE 0), NEW u, Copies(u, v, a, n)
  PROVE  Ran(u, s, a, n, m)
  <1>1. /\ Stage(u) /\ Held(u) /\ u.fat = v.fat /\ u.ofd = v.ofd
        /\ u.moved = v.moved \o Addr(a, n)
    BY DEF Copies
  <1>2. v.fat = s.fat /\ v.moved = s.moved /\ Forth(v.ofd, s.ofd, n, m)
    BY additIs
  <1> QED
    BY ONLY <1>1, <1>2 DEF Ran

LEMMA StageNumbers ==
  ASSUME NEW s, Stage(s)
  PROVE  /\ s.ofd.strtcl \in Nat /\ s.ofd.curcl \in Nat /\ s.ofd.currec \in Nat
         /\ s.ofd.curbyt \in Nat /\ s.ofd.bytnum \in Nat /\ s.ofd.fileln \in Nat
         /\ s.moved \in Seq(Int) /\ Len(s.moved) \in Nat
  <1>1. s.ofd \in Ofds /\ s.moved \in Seq(Int)
    BY DEF Stage, Stages
  <1> QED
    BY ONLY <1>1 DEF Ofds

LEMMA ChainIs ==
  ASSUME NEW ch, NEW f, NEW strt, Chain(ch, f, strt)
  PROVE  /\ ch \in Seq(Clnums) /\ Len(ch) \in Nat
         /\ \A j \in 1..Len(ch) : ch[j] \in Clnums /\ ch[j] \in Nat /\ ch[j] >= 2
  <1>1. ch \in Seq(Clnums)
    BY DEF Chain
  <1>2. \A c \in Clnums : c \in Nat /\ c >= 2
    BY Sizes DEF Clnums
  <1> QED
    BY ONLY <1>1, <1>2

LEMMA BaseRan ==
  ASSUME NEW s, NEW ch, NEW b, NEW l, NEW q, Base(s, ch, b, l, q),
         NEW u, NEW a \in Int, NEW n, n \in Nat, NEW m, Ran(u, s, a, n, m),
         Leads(Addr(a, n), ch, s.ofd.bytnum)
  PROVE  Base(u, ch, b, l, q) /\ Len(u.moved) = Len(s.moved) + n
  <1>1. /\ Stage(s) /\ Chain(ch, s.fat, s.ofd.strtcl) /\ b \in Nat /\ l \in Nat
        /\ l <= Len(ch) * clsizb
        /\ s.ofd.bytnum = b + Len(s.moved) /\ s.ofd.fileln = Most(l, s.ofd.bytnum)
        /\ Leads(s.moved, ch, b) /\ Len(ch) + Cardinality(Spare(s.fat)) = q
    BY DEF Base
  <1>2. /\ Stage(u) /\ Held(u) /\ u.fat = s.fat /\ Forth(u.ofd, s.ofd, n, m)
        /\ u.moved = s.moved \o Addr(a, n)
    BY DEF Ran
  <1>3. Addr(a, n) \in Seq(Int) /\ Len(Addr(a, n)) = n
    BY AddrIs
  <1>4. s.ofd.bytnum \in Nat /\ s.moved \in Seq(Int) /\ Len(s.moved) \in Nat
    BY <1>1, StageNumbers
  <1>5. Joined(s.moved, Addr(a, n), u.moved)
    BY ONLY <1>2, <1>3, <1>4, Join
  <1>6. Len(u.moved) = Len(s.moved) + n
    BY ONLY <1>3, <1>5 DEF Joined
  <1>7. Leads(u.moved, ch, b)
    <2>1. Leads(Addr(a, n), ch, b + Len(s.moved)) /\ b \in Int
      BY <1>1
    <2> QED
      BY ONLY <1>1, <1>2, <1>3, <1>4, <2>1, LeadsMore
  <1>8. u.ofd.bytnum = b + Len(u.moved)
    BY ONLY <1>1, <1>2, <1>4, <1>6, n \in Nat DEF Forth
  <1>9. u.ofd.fileln = Most(l, u.ofd.bytnum)
    <2>1. ASSUME NEW x \in Nat, NEW y \in Nat
          PROVE  Most(Most(l, x), x + y) = Most(l, x + y)
      BY <1>1 DEF Most
    <2>2. Most(Most(l, s.ofd.bytnum), s.ofd.bytnum + n) = Most(l, s.ofd.bytnum + n)
      BY ONLY <1>4, <2>1, n \in Nat
    <2> QED
      BY ONLY <1>1, <1>2, <2>2 DEF Forth
  <1>10. u.ofd.strtcl = s.ofd.strtcl
    BY ONLY <1>2 DEF Forth
  <1> QED
    BY ONLY <1>1, <1>2, <1>6, <1>7, <1>8, <1>9, <1>10 DEF Base

\* n bytes on in a cluster
LEMMA WentThere ==
  ASSUME NEW s, NEW ch, NEW i, NEW e, NEW b, NEW l, NEW q, Fore(s, ch, i, e, b, l, q),
         NEW n, n \in Nat, n >= 1, e + n <= clsizb, NEW a, a = ch[i] * clsizb + e,
         NEW u, Ran(u, s, a, n, n)
  PROVE  /\ On(u, ch, i, e + n, b, l, q) /\ u.ofd.curbyt = e + n
         /\ Len(u.moved) = Len(s.moved) + n
  <1>1. /\ Base(s, ch, b, l, q) /\ At(s.ofd, ch, i) /\ i > 0
        /\ e \in 0..clsizb - 1 /\ s.ofd.curbyt = e /\ s.ofd.bytnum = (i - 1) * clsizb + e
    BY DEF Fore
  <1>2. Chain(ch, s.fat, s.ofd.strtcl)
    BY <1>1 DEF Base
  <1>3. clsizb \in Nat /\ clsizb > 0
    BY Sizes
  <1>4. Len(ch) \in Nat /\ i \in 1..Len(ch)
    <2>1. Len(ch) \in Nat
      BY <1>2, ChainIs
    <2> QED
      BY ONLY <1>1, <2>1 DEF At
  <1>5. ch[i] \in Nat
    BY <1>2, <1>4, ChainIs
  <1>6. e \in Nat /\ a \in Int
    <2>1. ch[i] * clsizb \in Nat
      BY ONLY <1>3, <1>5
    <2> QED
      BY ONLY <1>1, <1>3, <2>1, a = ch[i] * clsizb + e
  <1>7. Leads(Addr(a, n), ch, s.ofd.bytnum)
    <2>1. Len(ch) \in Nat /\ s.ofd.bytnum = (i - 1) * clsizb + e
      BY <1>1, <1>4
    <2> QED
      BY ONLY <1>4, <1>5, <1>6, <2>1, n \in Nat, e + n <= clsizb, a = ch[i] * clsizb + e, LeadsHere
  <1>8. Base(u, ch, b, l, q) /\ Len(u.moved) = Len(s.moved) + n
    <2>1. Base(s, ch, b, l, q) /\ a \in Int
      BY <1>1, <1>6
    <2> QED
      BY ONLY <1>7, <2>1, n \in Nat, Ran(u, s, a, n, n), BaseRan
  <1>9. Forth(u.ofd, s.ofd, n, n)
    BY DEF Ran
  <1>10. At(u.ofd, ch, i) /\ u.ofd.curbyt = e + n
    BY ONLY <1>1, <1>9 DEF Forth, At
  <1>11. Behind(u.ofd, i, e + n)
    <2>1. (i - 1) * clsizb \in Nat
      BY ONLY <1>3, <1>4
    <2> DEFINE y == (i - 1) * clsizb
    <2>2. u.ofd.bytnum = (y + e) + n
      BY ONLY <1>1, <1>9 DEF Forth
    <2>3. Byte(i, e + n) = y + (e + n)
      BY ONLY <1>1, <1>4 DEF Byte
    <2> HIDE DEF y
    <2>4. y \in Nat
      BY ONLY <2>1 DEF y
    <2>5. u.ofd.bytnum = Byte(i, e + n)
      BY ONLY <1>6, <2>2, <2>3, <2>4, n \in Nat
    <2>6. e + n \in 0..clsizb /\ ~(i = 0) /\ ~(e + n = 0)
      BY ONLY <1>3, <1>4, <1>6, n \in Nat, n >= 1, e + n <= clsizb
    <2> QED
      BY ONLY <1>10, <2>5, <2>6 DEF Behind
  <1> QED
    BY ONLY <1>8, <1>10, <1>11 DEF On

LEMMA RoverIs ==
  ASSUME NEW f, NEW cl, cl \in Nat
  PROVE  Rover(f, cl) \in Spare(f) \/ (Rover(f, cl) = 0 /\ Spare(f) = {})
  <1> DEFINE first == IF cl < 2 THEN 2 ELSE cl
             after == {c \in first..m_numcl - 1 : f[c] = UNUSED}
             least(S) == CHOOSE c \in S : \A x \in S : c <= x
  <1>1. ASSUME NEW S, S \subseteq Spare(f), S # {} PROVE least(S) \in S
    <2>1. S \subseteq Nat
      BY <1>1, Sizes DEF Spare
    <2>2. \E m \in S : \A j \in S : m <= j
      BY <1>1, <2>1, HasLeast
    <2> QED
      BY ONLY <2>2
  <1>2. after \subseteq Spare(f)
    BY Sizes DEF Spare
  <1>3. Rover(f, cl) = IF after # {} THEN least(after)
                       ELSE IF Spare(f) # {} THEN least(Spare(f)) ELSE 0
    BY DEF Rover, Spare
  <1> HIDE DEF after, least
  <1>4. after # {} => least(after) \in Spare(f)
    BY <1>1, <1>2
  <1>5. Spare(f) # {} => least(Spare(f)) \in Spare(f)
    BY <1>1
  <1> QED
    BY ONLY <1>3, <1>4, <1>5

LEMMA SpareIs ==
  ASSUME NEW f
  PROVE  /\ IsFiniteSet(Spare(f)) /\ Cardinality(Spare(f)) \in Nat
         /\ Spare(f) \subseteq Clnums /\ \A c \in Spare(f) : f[c] = UNUSED
  <1>1. IsFiniteSet(2..m_numcl - 1)
    BY Sizes, FS_Interval
  <1>2. Spare(f) \subseteq 2..m_numcl - 1
    BY DEF Spare
  <1>3. IsFiniteSet(Spare(f)) /\ Cardinality(Spare(f)) \in Nat
    BY ONLY <1>1, <1>2, FS_Subset, FS_CardinalityType
  <1>4. 2..m_numcl - 1 \subseteq Clnums
    BY Sizes DEF Clnums
  <1> QED
    BY <1>2, <1>3, <1>4 DEF Spare

\* c is linked behind the last cluster of ch
Linked(f2, f, ch, c) ==
  /\ f2 \in [Clnums -> Links] /\ f2[c] = ENDOFCHAIN
  /\ Len(ch) > 0 => f2[ch[Len(ch)]] = c
  /\ \A x \in Clnums : x # c /\ (Len(ch) > 0 => x # ch[Len(ch)]) => f2[x] = f[x]

LEMMA LinkedChain ==
  ASSUME NEW ch, NEW f, NEW strt, Chain(ch, f, strt), NEW c, c \in Clnums, f[c] = UNUSED,
         NEW f2, Linked(f2, f, ch, c), NEW ch2, ch2 = Append(ch, c),
         NEW strt2, strt2 = IF Len(ch) = 0 THEN c ELSE strt
  PROVE  Chain(ch2, f2, strt2)
  <1>a. /\ f2[c] = ENDOFCHAIN /\ (Len(ch) > 0 => f2[ch[Len(ch)]] = c)
        /\ \A x \in Clnums : x # c /\ (Len(ch) > 0 => x # ch[Len(ch)]) => f2[x] = f[x]
    BY DEF Linked
  <1>b. /\ \A j, k \in 1..Len(ch) : ch[j] = ch[k] => j = k
        /\ strt = IF Len(ch) = 0 THEN 0 ELSE ch[1]
        /\ \A j \in 1..Len(ch) : f[ch[j]] = IF j < Len(ch) THEN ch[j + 1] ELSE ENDOFCHAIN
    BY DEF Chain
  <1>1. ch \in Seq(Clnums) /\ Len(ch) \in Nat /\ \A j \in 1..Len(ch) : ch[j] \in Clnums /\ ch[j] \in Nat /\ ch[j] >= 2
    BY ChainIs
  <1>2. ch2 \in Seq(Clnums) /\ Len(ch2) = Len(ch) + 1 /\ ch2[Len(ch) + 1] = c
        /\ \A j \in 1..Len(ch) : ch2[j] = ch[j]
    BY <1>1
  <1>3. ASSUME NEW j, j \in 1..Len(ch) PROVE ch[j] # c
    <2>1. CASE j < Len(ch)
      <3>1. f[ch[j]] = ch[j + 1] /\ j + 1 \in 1..Len(ch)
        BY <1>1, <1>b, <1>3, <2>1
      <3>2. ch[j + 1] # UNUSED
        BY <1>1, <3>1 DEF UNUSED
      <3> QED
        BY ONLY <3>1, <3>2, f[c] = UNUSED
    <2>2. CASE ~(j < Len(ch))
      <3>1. f[ch[j]] = ENDOFCHAIN
        BY ONLY <1>b, <1>3, <2>2
      <3> QED
        BY ONLY <3>1, f[c] = UNUSED DEF ENDOFCHAIN, UNUSED
    <2> QED
      BY ONLY <2>1, <2>2
  <1>4. ASSUME NEW j, NEW k, j \in 1..Len(ch2), k \in 1..Len(ch2), ch2[j] = ch2[k] PROVE j = k
    <2>1. CASE j \in 1..Len(ch) /\ k \in 1..Len(ch)
      BY ONLY <1>2, <1>4, <1>b, <2>1
    <2>2. CASE j \in 1..Len(ch) /\ k = Len(ch) + 1
      BY ONLY <1>2, <1>3, <1>4, <2>2
    <2>3. CASE k \in 1..Len(ch) /\ j = Len(ch) + 1
      BY ONLY <1>2, <1>3, <1>4, <2>3
    <2>4. CASE k = Len(ch) + 1 /\ j = Len(ch) + 1
      BY ONLY <2>4
    <2>5. /\ j \in 1..Len(ch) \/ j = Len(ch) + 1
          /\ k \in 1..Len(ch) \/ k = Len(ch) + 1
      BY ONLY <1>1, <1>2, <1>4
    <2> QED
      BY ONLY <2>1, <2>2, <2>3, <2>4, <2>5
  <1>5. ASSUME NEW j, j \in 1..Len(ch2)
        PROVE  f2[ch2[j]] = IF j < Len(ch2) THEN ch2[j + 1] ELSE ENDOFCHAIN
    <2>1. CASE j < Len(ch)
      <3>1. j \in 1..Len(ch) /\ j + 1 \in 1..Len(ch) /\ Len(ch) \in 1..Len(ch) /\ j # Len(ch)
        BY ONLY <1>1, <1>2, <1>5, <2>1
      <3>2. ch[j] # ch[Len(ch)] /\ ch[j] # c /\ ch[j] \in Clnums
        BY ONLY <1>1, <1>3, <1>b, <3>1
      <3>3. f2[ch[j]] = f[ch[j]] /\ f[ch[j]] = ch[j + 1]
        BY ONLY <1>a, <1>b, <3>1, <3>2, <2>1
      <3>4. ch2[j] = ch[j] /\ ch2[j + 1] = ch[j + 1] /\ j < Len(ch2)
        BY ONLY <1>1, <1>2, <3>1, <2>1
      <3> QED
        BY ONLY <3>3, <3>4
    <2>2. CASE j = Len(ch)
      <3>1. Len(ch) > 0 /\ j \in 1..Len(ch) /\ j < Len(ch2)
        BY ONLY <1>1, <1>2, <1>5, <2>2
      <3>2. f2[ch2[j]] = c /\ ch2[j + 1] = c
        BY ONLY <1>a, <1>2, <2>2, <3>1
      <3> QED
        BY ONLY <3>1, <3>2
    <2>3. CASE j = Len(ch) + 1
      <3>1. ~(j < Len(ch2))
        BY ONLY <1>1, <1>2, <2>3
      <3> QED
        BY ONLY <1>2, <1>a, <2>3, <3>1
    <2> QED
      BY ONLY <1>1, <1>2, <1>5, <2>1, <2>2, <2>3
  <1>6. strt2 = IF Len(ch2) = 0 THEN 0 ELSE ch2[1]
    <2>1. Len(ch2) # 0
      BY ONLY <1>1, <1>2
    <2>2. CASE Len(ch) = 0
      BY <1>2, <2>1, <2>2
    <2>3. CASE Len(ch) # 0
      <3>1. 1 \in 1..Len(ch)
        BY ONLY <1>1, <2>3
      <3> QED
        BY <1>2, <1>b, <2>1, <2>3, <3>1
    <2> QED
      BY ONLY <2>2, <2>3
  <1> QED
    BY ONLY <1>2, <1>4, <1>5, <1>6 DEF Chain

\* u is s with the FAT f2 and the OFD at the start of cluster c
Enters(u, s, f2, strt2, c) ==
  /\ Stage(u) /\ Held(u) /\ u.fat = f2 /\ u.moved = s.moved
  /\ u.ofd.strtcl = strt2 /\ u.ofd.curcl = c /\ u.ofd.currec = c * clsiz /\ u.ofd.curbyt = 0
  /\ u.ofd.bytnum = s.ofd.bytnum /\ u.ofd.fileln = s.ofd.fileln

Entered(s, c) ==
  [s EXCEPT !.ofd.curcl = c, !.ofd.currec = c * clsiz, !.ofd.curbyt = 0]
LEMMA EnteredIs ==
  ASSUME NEW s, Stage(s), Held(s), NEW c, c \in Nat, NEW u, u = Entered(s, c)
  PROVE  Enters(u, s, s.fat, s.ofd.strtcl, c)
  <1> DEFINE o == s.ofd
             r == c * clsiz
             p == [o EXCEPT !.curcl = c, !.currec = r, !.curbyt = 0]
  <1>1. o \in Ofds
    BY DEF Stage, Stages
  <1>2. u = [s EXCEPT !.ofd = p]
    BY <1>1 DEF Entered, Stage, Stages, Ofds
  <1>3. r \in Nat
    <2>1. clsiz \in Nat
      BY Sizes
    <2> QED
      BY ONLY <2>1, c \in Nat
  <1> HIDE DEF r
  <1>4. /\ p \in Ofds /\ p.strtcl = o.strtcl /\ p.curcl = c /\ p.currec = r
        /\ p.bytnum = o.bytnum /\ p.curbyt = 0 /\ p.fileln = o.fileln
    BY ONLY <1>1, <1>3, c \in Nat DEF Ofds
  <1> HIDE DEF p
  <1>5. /\ Stage(u) /\ u.fat = s.fat /\ u.moved = s.moved /\ u.ofd = p /\ u.buf = s.buf
        /\ u.dirty = s.dirty /\ u.latest = s.latest /\ u.fresh = s.fresh
    BY ONLY <1>2, <1>4, Stage(s) DEF Stage, Stages
  <1>6. Held(u)
    BY ONLY <1>5, Held(s) DEF Held
  <1> QED
    BY ONLY <1>4, <1>5, <1>6 DEF Enters, r, o

\* the new cluster in the FAT and, if it is the first, in the OFD
WithFat(s, f2) == [s EXCEPT !.fat = f2]
WithStart(s, f2, new) == [s EXCEPT !.ofd.strtcl = new, !.fat = f2]
LEMMA WithFatIs ==
  ASSUME NEW s, Stage(s), Held(s), NEW f2, f2 \in [Clnums -> Links], NEW u, u = WithFat(s, f2)
  PROVE  /\ Stage(u) /\ Held(u) /\ u.fat = f2 /\ u.moved = s.moved /\ u.ofd = s.ofd
  <1>1. /\ Stage(u) /\ u.fat = f2 /\ u.moved = s.moved /\ u.ofd = s.ofd /\ u.buf = s.buf
        /\ u.dirty = s.dirty /\ u.latest = s.latest /\ u.fresh = s.fresh
    BY DEF Stage, Stages, WithFat
  <1> QED
    BY ONLY <1>1, Held(s) DEF Held
LEMMA WithStartIs ==
  ASSUME NEW s, Stage(s), Held(s), NEW f2, f2 \in [Clnums -> Links], NEW new, new \in Nat,
         NEW u, u = WithStart(s, f2, new)
  PROVE  /\ Stage(u) /\ Held(u) /\ u.fat = f2 /\ u.moved = s.moved /\ u.ofd.strtcl = new
         /\ u.ofd.bytnum = s.ofd.bytnum /\ u.ofd.fileln = s.ofd.fileln
  <1> DEFINE o == s.ofd
             p == [o EXCEPT !.strtcl = new]
  <1>1. o \in Ofds
    BY DEF Stage, Stages
  <1>2. u = [s EXCEPT !.ofd = p, !.fat = f2]
    BY <1>1 DEF WithStart, Stage, Stages, Ofds
  <1>4. /\ p \in Ofds /\ p.strtcl = new /\ p.bytnum = o.bytnum /\ p.fileln = o.fileln
    BY ONLY <1>1, new \in Nat DEF Ofds
  <1> HIDE DEF p
  <1>5. /\ Stage(u) /\ u.fat = f2 /\ u.moved = s.moved /\ u.ofd = p /\ u.buf = s.buf
        /\ u.dirty = s.dirty /\ u.latest = s.latest /\ u.fresh = s.fresh
    BY ONLY <1>2, <1>4, f2 \in [Clnums -> Links], Stage(s) DEF Stage, Stages
  <1>6. Held(u)
    BY ONLY <1>5, Held(s) DEF Held
  <1> QED
    BY ONLY <1>4, <1>5, <1>6

\* it is the one after the i-th, of ch or of the longer ch2
Comes(u, s, ch2, i, b, l, q) ==
  /\ Base(u, ch2, b, l, q) /\ At(u.ofd, ch2, i + 1) /\ u.ofd.curbyt = 0
  /\ u.ofd.bytnum = s.ofd.bytnum /\ u.moved = s.moved
LEMMA ComesAfter ==
  ASSUME NEW s, NEW ch, NEW b, NEW l, NEW q, Base(s, ch, b, l, q),
         NEW u, NEW f2, NEW strt2, NEW c, Enters(u, s, f2, strt2, c),
         NEW ch2, Longer(ch2, ch), Chain(ch2, f2, strt2),
         Len(ch2) + Cardinality(Spare(f2)) = q,
         NEW i, i \in 0..Len(ch2) - 1, c = ch2[i + 1]
  PROVE  Comes(u, s, ch2, i, b, l, q)
  <1>1. /\ Stage(s) /\ Chain(ch, s.fat, s.ofd.strtcl) /\ b \in Nat /\ l \in Nat
        /\ l <= Len(ch) * clsizb
        /\ s.ofd.bytnum = b + Len(s.moved) /\ s.ofd.fileln = Most(l, s.ofd.bytnum)
        /\ Leads(s.moved, ch, b)
    BY DEF Base
  <1>2. /\ Stage(u) /\ Held(u) /\ u.fat = f2 /\ u.moved = s.moved
        /\ u.ofd.strtcl = strt2 /\ u.ofd.curcl = c /\ u.ofd.currec = c * clsiz
        /\ u.ofd.curbyt = 0
        /\ u.ofd.bytnum = s.ofd.bytnum /\ u.ofd.fileln = s.ofd.fileln
    BY DEF Enters
  <1>3. Len(ch) \in Nat /\ Len(ch2) \in Nat /\ Len(ch) <= Len(ch2)
    BY <1>1, ChainIs DEF Longer
  <1>4. l <= Len(ch2) * clsizb
    <2>1. Len(ch) * clsizb <= Len(ch2) * clsizb /\ Len(ch) * clsizb \in Nat /\ Len(ch2) * clsizb \in Nat
      BY <1>3, Sizes, Wider
    <2> QED
      BY ONLY <1>1, <2>1
  <1>5. Leads(s.moved, ch2, b)
    BY <1>1, <1>3, LongerLeads
  <1>6. Base(u, ch2, b, l, q)
    BY ONLY <1>1, <1>2, <1>4, <1>5, Chain(ch2, f2, strt2), Len(ch2) + Cardinality(Spare(f2)) = q
       DEF Base
  <1>7. At(u.ofd, ch2, i + 1)
    <2>1. i + 1 \in 0..Len(ch2) /\ i + 1 # 0
      BY ONLY <1>3, i \in 0..Len(ch2) - 1
    <2> QED
      BY ONLY <1>2, <2>1, c = ch2[i + 1] DEF At
  <1> QED
    BY ONLY <1>2, <1>6, <1>7 DEF Comes

LEMMA nextclIs ==
  ASSUME NEW s, NEW ch, NEW i, NEW b, NEW l, NEW q, Base(s, ch, b, l, q), At(s.ofd, ch, i),
         NEW wrt, NEW n, n = nextcl(s, wrt)
  PROVE  /\ ~n.ok => n.s = s /\ i = Len(ch) /\ (wrt => Spare(s.fat) = {})
         /\ n.ok => \E ch2 : Longer(ch2, ch) /\ Comes(n.s, s, ch2, i, b, l, q)
  <1> DEFINE cl == s.ofd.curcl
             follows == IF cl # 0 THEN s.fat[cl]
                        ELSE IF s.ofd.strtcl # 0 THEN s.ofd.strtcl ELSE ENDOFCHAIN
             new == IF wrt /\ follows = ENDOFCHAIN THEN Rover(s.fat, cl) ELSE 0
             c == IF follows # ENDOFCHAIN THEN follows ELSE new
             g1 == [s.fat EXCEPT ![cl] = new, ![new] = ENDOFCHAIN]
             g2 == [s.fat EXCEPT ![new] = ENDOFCHAIN]
             linked == IF new = 0 THEN s
                       ELSE IF cl # 0 THEN WithFat(s, g1) ELSE WithStart(s, g2, new)
  <1>1. /\ Stage(s) /\ Held(s) /\ Chain(ch, s.fat, s.ofd.strtcl)
        /\ Len(ch) + Cardinality(Spare(s.fat)) = q
    BY DEF Base
  <1>2. /\ ch \in Seq(Clnums) /\ Len(ch) \in Nat
        /\ \A j \in 1..Len(ch) : ch[j] \in Clnums /\ ch[j] \in Nat /\ ch[j] >= 2
    BY <1>1, ChainIs
  <1>3. s.ofd.strtcl = (IF Len(ch) = 0 THEN 0 ELSE ch[1])
        /\ \A j \in 1..Len(ch) : s.fat[ch[j]] = IF j < Len(ch) THEN ch[j + 1] ELSE ENDOFCHAIN
    BY <1>1 DEF Chain
  <1>4. i \in 0..Len(ch) /\ cl = IF i = 0 THEN 0 ELSE ch[i]
    BY DEF At
  <1>5. s.fat \in [Clnums -> Links]
    BY <1>1 DEF Stage, Stages
  <1>6. cl \in Nat /\ (i = 0 => cl = 0) /\ (i # 0 => cl # 0 /\ i \in 1..Len(ch) /\ cl = ch[i])
    BY ONLY <1>2, <1>4
  <1>7. n = IF c = 0 THEN [s |-> s, ok |-> FALSE] ELSE [s |-> Entered(linked, c), ok |-> TRUE]
    <2>1. [s EXCEPT !.fat[cl] = new, !.fat[new] = ENDOFCHAIN] = WithFat(s, g1)
      BY <1>1, <1>5 DEF WithFat, Stage, Stages
    <2>2. [s EXCEPT !.ofd.strtcl = new, !.fat[new] = ENDOFCHAIN] = WithStart(s, g2, new)
      BY <1>1, <1>5 DEF WithStart, Stage, Stages
    <2> QED
      BY <2>1, <2>2 DEF nextcl, Entered
  <1>8. follows = IF i < Len(ch) THEN ch[i + 1] ELSE ENDOFCHAIN
    <2>1. CASE i = 0
      <3>1. follows = IF s.ofd.strtcl # 0 THEN s.ofd.strtcl ELSE ENDOFCHAIN
        BY <1>6, <2>1
      <3>2. Len(ch) # 0 => 1 \in 1..Len(ch) /\ ch[1] # 0
        BY ONLY <1>2
      <3>3. i < Len(ch) <=> Len(ch) # 0
        BY ONLY <1>2, <2>1
      <3>4. i + 1 = 1
        BY ONLY <2>1
      <3> HIDE DEF follows
      <3> QED
        BY ONLY <1>3, <3>1, <3>2, <3>3, <3>4
    <2>2. CASE i # 0
      <3>1. follows = s.fat[ch[i]] /\ i \in 1..Len(ch)
        BY <1>6, <2>2
      <3> HIDE DEF follows
      <3> QED
        BY ONLY <1>3, <3>1
    <2> QED
      BY <2>1, <2>2
  <1>9. CASE i < Len(ch)
    <2>1. i + 1 \in 1..Len(ch) /\ i \in 0..Len(ch) - 1
      BY ONLY <1>2, <1>4, <1>9
    <2>2. ch[i + 1] # ENDOFCHAIN /\ ch[i + 1] # 0
      BY ONLY <1>2, <2>1 DEF ENDOFCHAIN
    <2>3. follows = ch[i + 1] /\ follows # ENDOFCHAIN
      BY <1>8, <1>9, <2>2
    <2> HIDE DEF follows
    <2>4. c = ch[i + 1] /\ new = 0
      BY <2>3
    <2>5. linked = s
      BY <2>4
    <2> HIDE DEF c, linked
    <2>6. n = [s |-> Entered(s, c), ok |-> TRUE]
      BY ONLY <1>7, <2>2, <2>4, <2>5
    <2>7. n.ok /\ n.s = Entered(s, c)
      BY ONLY <2>6
    <2>8. Enters(n.s, s, s.fat, s.ofd.strtcl, c)
      <3>1. c \in Nat
        BY ONLY <1>2, <2>1, <2>4
      <3> QED
        BY ONLY <1>1, <2>7, <3>1, EnteredIs
    <2>9. Longer(ch, ch)
      BY ONLY <1>2 DEF Longer
    <2>10. Comes(n.s, s, ch, i, b, l, q)
      BY ONLY <1>1, <2>1, <2>4, <2>8, <2>9, Base(s, ch, b, l, q), ComesAfter
    <2> QED
      BY ONLY <2>7, <2>9, <2>10
  <1>10. CASE ~(i < Len(ch)) /\ new = 0
    <2>1. follows = ENDOFCHAIN /\ i = Len(ch)
      BY <1>2, <1>4, <1>8, <1>10
    <2>2. c = 0
      BY <1>10, <2>1
    <2>3. wrt => Spare(s.fat) = {}
      <3>1. SUFFICES ASSUME wrt PROVE Spare(s.fat) = {}
        OBVIOUS
      <3>2. new = Rover(s.fat, cl)
        BY <2>1, <3>1
      <3>3. Rover(s.fat, cl) \notin Spare(s.fat)
        BY <1>10, <3>2, Sizes DEF Spare
      <3> QED
        BY ONLY <1>6, <3>3, RoverIs
    <2> HIDE DEF c
    <2>4. n.s = s /\ ~n.ok
      BY ONLY <1>7, <2>2
    <2> QED
      BY ONLY <2>1, <2>3, <2>4
  <1>11. CASE ~(i < Len(ch)) /\ new # 0
    <2>1. follows = ENDOFCHAIN /\ i = Len(ch)
      BY <1>2, <1>4, <1>8, <1>11
    <2> DEFINE f2 == IF cl # 0 THEN g1 ELSE g2
               strt2 == IF Len(ch) = 0 THEN new ELSE s.ofd.strtcl
               ch2 == Append(ch, new)
    <2>2. new \in Spare(s.fat)
      <3>1. new = Rover(s.fat, cl)
        BY <1>11, <2>1
      <3> HIDE DEF new
      <3> QED
        BY ONLY <1>6, <1>11, <3>1, RoverIs
    <2>3. new \in Clnums /\ new \in Nat /\ s.fat[new] = UNUSED /\ new \in Links
      <3>1. Clnums \subseteq Nat
        BY Sizes DEF Clnums
      <3> HIDE DEF new
      <3> QED
        BY ONLY <2>2, <3>1, SpareIs DEF Links
    <2>4. c = new
      BY <2>1
    <2> HIDE DEF new, c
    <2>5. i # 0 => ch[i] \in Clnums /\ ch[i] # new
      <3>1. SUFFICES ASSUME i # 0 PROVE ch[i] \in Clnums /\ ch[i] # new
        OBVIOUS
      <3>2. i \in 1..Len(ch) /\ ~(i < Len(ch))
        BY ONLY <1>6, <2>1, <3>1, <1>2
      <3>3. s.fat[ch[i]] = ENDOFCHAIN /\ ch[i] \in Clnums
        BY ONLY <1>2, <1>3, <3>2
      <3>4. ENDOFCHAIN # UNUSED
        BY DEF ENDOFCHAIN, UNUSED
      <3> QED
        BY ONLY <2>3, <3>3, <3>4
    <2>6. ENDOFCHAIN \in Links
      BY DEF Links
    <2>7. Linked(f2, s.fat, ch, new)
      <3>1. CASE i = 0
        <4>1. f2 = g2 /\ ~(Len(ch) > 0)
          BY <1>6, <2>1, <3>1
        <4> HIDE DEF f2
        <4> QED
          BY ONLY <1>5, <2>3, <2>6, <4>1 DEF Linked, g2
      <3>2. CASE i # 0
        <4>1. f2 = g1
          BY <1>6, <3>2
        <4>2. Len(ch) = i /\ cl = ch[i]
          BY ONLY <1>6, <2>1, <3>2
        <4> HIDE DEF f2, cl
        <4> QED
          BY ONLY <1>5, <2>3, <2>5, <2>6, <3>2, <4>1, <4>2 DEF Linked, g1
      <3> QED
        BY ONLY <3>1, <3>2
    <2>8. Chain(ch2, f2, strt2)
      <3> HIDE DEF f2
      <3> QED
        BY <1>1, <2>3, <2>7, LinkedChain
    <2>9. /\ Stage(linked) /\ Held(linked) /\ linked.fat = f2 /\ linked.moved = s.moved
          /\ linked.ofd.strtcl = strt2
          /\ linked.ofd.bytnum = s.ofd.bytnum /\ linked.ofd.fileln = s.ofd.fileln
      <3>0. f2 \in [Clnums -> Links]
        BY <2>7 DEF Linked
      <3>1. CASE i = 0
        <4>1. linked = WithStart(s, f2, new) /\ strt2 = new
          BY <1>6, <1>11, <2>1, <3>1
        <4> HIDE DEF f2, linked, strt2
        <4> QED
          BY ONLY <1>1, <2>3, <3>0, <4>1, WithStartIs
      <3>2. CASE i # 0
        <4>1. linked = WithFat(s, f2) /\ strt2 = s.ofd.strtcl
          BY <1>6, <1>11, <2>1, <3>2
        <4> HIDE DEF f2, linked, strt2
        <4> QED
          BY ONLY <1>1, <3>0, <4>1, WithFatIs
      <3> QED
        BY ONLY <3>1, <3>2
    <2>10. n.ok /\ n.s = Entered(linked, c)
      <3>1. c # 0
        BY <1>11, <2>4
      <3> HIDE DEF linked
      <3> QED
        BY ONLY <1>7, <3>1
    <2> HIDE DEF linked, f2
    <2>11. Enters(n.s, s, f2, strt2, c)
      <3>1. Enters(n.s, linked, linked.fat, linked.ofd.strtcl, c)
        BY ONLY <2>3, <2>4, <2>9, <2>10, EnteredIs
      <3> HIDE DEF strt2
      <3> QED
        BY ONLY <2>9, <3>1 DEF Enters
    <2>12. Len(ch2) = Len(ch) + 1 /\ ch2[i + 1] = new /\ Longer(ch2, ch)
      BY ONLY <1>2, <2>1, <2>3 DEF Longer, ch2
    <2>13. Len(ch2) + Cardinality(Spare(f2)) = q
      <3>1. Spare(f2) = Spare(s.fat) \ {new}
        <4>1. f2[new] = ENDOFCHAIN /\ ENDOFCHAIN # UNUSED
              /\ \A x \in Clnums : x # new /\ (Len(ch) > 0 => x # ch[Len(ch)]) => f2[x] = s.fat[x]
          BY <2>7 DEF Linked, ENDOFCHAIN, UNUSED
        <4>2. i # 0 => ch[i] \notin Spare(s.fat) /\ f2[ch[i]] # UNUSED
          <5>1. SUFFICES ASSUME i # 0 PROVE ch[i] \notin Spare(s.fat) /\ f2[ch[i]] # UNUSED
            OBVIOUS
          <5>2. i \in 1..Len(ch) /\ ~(i < Len(ch)) /\ Len(ch) > 0 /\ i = Len(ch)
            BY ONLY <1>2, <1>6, <2>1, <5>1
          <5>3. s.fat[ch[i]] = ENDOFCHAIN
            BY ONLY <1>3, <5>2
          <5>4. f2[ch[i]] = new /\ new # UNUSED
            <6>1. f2[ch[Len(ch)]] = new
              BY ONLY <2>7, <5>2 DEF Linked
            <6>2. new # UNUSED
              BY <1>11 DEF UNUSED
            <6> QED
              BY ONLY <5>2, <6>1, <6>2
          <5> QED
            BY <4>1, <5>3, <5>4 DEF Spare
        <4>3. ASSUME NEW x, x \in 2..m_numcl - 1
              PROVE  f2[x] = UNUSED <=> s.fat[x] = UNUSED /\ x # new
          <5>1. x \in Clnums
            BY <4>3, Sizes DEF Clnums
          <5>2. CASE x = new
            BY ONLY <4>1, <5>2
          <5>3. CASE x # new /\ i # 0 /\ x = ch[i]
            BY <4>2, <4>3, <5>3 DEF Spare
          <5>4. CASE x # new /\ ~(i # 0 /\ x = ch[i])
            <6>1. Len(ch) > 0 => x # ch[Len(ch)]
              BY ONLY <1>2, <2>1, <5>4
            <6> QED
              BY ONLY <4>1, <5>1, <5>4, <6>1
          <5> QED
            BY ONLY <5>2, <5>3, <5>4
        <4> QED
          BY ONLY <4>3 DEF Spare
      <3>2. Cardinality(Spare(f2)) = Cardinality(Spare(s.fat)) - 1
        BY ONLY <2>2, <3>1, SpareIs, FS_RemoveElement
      <3>3. Cardinality(Spare(s.fat)) \in Nat
        BY ONLY SpareIs
      <3> QED
        BY ONLY <1>1, <1>2, <2>12, <3>2, <3>3
    <2>14. i \in 0..Len(ch2) - 1
      BY ONLY <1>2, <1>4, <2>12
    <2> HIDE DEF ch2, strt2
    <2>15. Comes(n.s, s, ch2, i, b, l, q)
      BY ONLY <2>4, <2>8, <2>11, <2>12, <2>13, <2>14, Base(s, ch, b, l, q), ComesAfter
    <2> QED
      BY ONLY <2>10, <2>12, <2>15
  <1> QED
    BY <1>9, <1>10, <1>11

-----------------------------------------------------------------------------
(* Numbers of bytes and records.                                            *)

\* numbers that are reached one after the other
LEMMA Upward ==
  ASSUME NEW S \in SUBSET Nat, 0 \in S, NEW N \in Nat,
         \A n \in 0..N : n \in S /\ n < N => n + 1 \in S
  PROVE  0..N \subseteq S
  <1> DEFINE Rest == {n \in 0..N : n \notin S}
  <1>1. SUFFICES ASSUME Rest # {} PROVE FALSE
    OBVIOUS
  <1>2. Rest \subseteq Nat
    OBVIOUS
  <1> HIDE DEF Rest
  <1>3. PICK i \in Rest : \A j \in Rest : i <= j
    BY <1>1, <1>2, HasLeast
  <1> USE DEF Rest
  <1>4. i \in 1..N /\ i - 1 \in 0..N /\ ~(i <= i - 1)
    BY <1>3
  <1>5. i - 1 \in S
    BY <1>3, <1>4
  <1>6. (i - 1) + 1 = i /\ i - 1 < N
    BY <1>4
  <1> QED
    BY <1>3, <1>4, <1>5, <1>6

\* quotient and remainder are the only ones there are
LEMMA Quotient ==
  ASSUME NEW c \in Int, NEW t \in Int, t > 0, NEW q \in Int, NEW r \in Int,
         c = t * q + r, 0 <= r, r < t
  PROVE  q = c \div t
  OBVIOUS
LEMMA Remainder ==
  ASSUME NEW c \in Int, NEW t \in Int, t > 0, NEW q \in Int, NEW r \in Int,
         c = t * q + r, 0 <= r, r < t
  PROVE  r = c % t
  OBVIOUS
LEMMA Divides ==
  ASSUME NEW t, t \in Nat, t > 0, NEW c, c \in Nat
  PROVE  c = t * (c \div t) + (c % t) /\ (c % t) \in 0..t - 1 /\ c \div t \in Nat
  <1> DEFINE S == {n \in Nat : \E q \in Nat, r \in 0..t - 1 : n = t * q + r}
  <1>1. 0 \in S
    OBVIOUS
  <1>2. ASSUME NEW n \in S PROVE n + 1 \in S
    <2>1. PICK q \in Nat, r \in 0..t - 1 : n = t * q + r
      OBVIOUS
    <2>2. CASE r < t - 1
      <3>1. r + 1 \in 0..t - 1 /\ n + 1 = t * q + (r + 1)
        BY <2>1, <2>2
      <3> QED
        BY <3>1
    <2>3. CASE r = t - 1
      <3>0. t * (q + 1) = t * q + t /\ t * q \in Nat
        BY ONLY q \in Nat, t \in Nat
      <3> DEFINE x == t * q
                 y == t * (q + 1)
      <3>2. y = x + t /\ x \in Nat /\ n = x + r
        BY <2>1, <3>0
      <3> HIDE DEF x, y
      <3>3. n + 1 = y + 0
        BY ONLY <2>3, <3>2, t \in Nat, t > 0
      <3>4. n + 1 = t * (q + 1) + 0
        BY <3>3 DEF y
      <3>5. q + 1 \in Nat /\ 0 \in 0..t - 1
        BY ONLY q \in Nat, t \in Nat, t > 0
      <3>6. \E v \in Nat, z \in 0..t - 1 : n + 1 = t * v + z
        BY ONLY <3>4, <3>5
      <3>7. n + 1 \in Nat
        OBVIOUS
      <3> QED
        BY ONLY <3>6, <3>7 DEF S
    <2> QED
      BY <2>1, <2>2, <2>3
  <1>3. c \in S
    <2>1. S \in SUBSET Nat /\ \A n \in 0..c : n \in S /\ n < c => n + 1 \in S
      BY <1>2
    <2> HIDE DEF S
    <2>2. 0..c \subseteq S
      BY <1>1, <2>1, Upward
    <2> QED
      BY <2>2
  <1>4. PICK q \in Nat, r \in 0..t - 1 : c = t * q + r
    BY <1>3
  <1>0. c \in Int /\ t \in Int /\ t > 0 /\ q \in Int /\ r \in Int /\ 0 <= r /\ r < t
    OBVIOUS
  <1> HIDE DEF S
  <1>5. q = c \div t
    BY <1>0, <1>4, Quotient
  <1>6. r = (c % t)
    BY <1>0, <1>4, Remainder
  <1>7. c = t * (c \div t) + (c % t)
    BY <1>4, <1>5, <1>6, Zenon
  <1>8. (c % t) \in 0..t - 1 /\ c \div t \in Nat
    BY <1>4, <1>5, <1>6, Zenon
  <1> QED
    BY <1>7, <1>8

\* x is q times t
LEMMA Whole ==
  ASSUME NEW t, t \in Nat, t > 0, NEW q, q \in Nat, NEW x, x = q * t
  PROVE  x \div t = q /\ x % t = 0 /\ x \in Nat
  <1>1. x = t * q + 0 /\ x \in Nat
    OBVIOUS
  <1>2. q = x \div t
    BY <1>1, Quotient
  <1>3. 0 = (x % t)
    BY <1>1, Remainder
  <1> QED
    BY ONLY <1>1, <1>2, <1>3

\* a smaller factor makes a smaller product
LEMMA Narrower ==
  ASSUME NEW a, a \in Nat, NEW b, b \in Nat, NEW t, t \in Nat, a * t < b * t
  PROVE  a + 1 <= b
  <1>1. SUFFICES ASSUME b <= a PROVE FALSE
    OBVIOUS
  <1>2. b * t <= a * t /\ b * t \in Nat /\ a * t \in Nat
    BY <1>1, Wider
  <1> QED
    BY ONLY <1>2, a * t < b * t

\* records of a cluster, and where they are on the disk
LEMMA ClusterRecords ==
  ASSUME NEW c, c \in Clnums, NEW w, w \in Nat, NEW n, n \in Nat, w + n <= clsiz
  PROVE  /\ w + c * clsiz \in Nat
         /\ (w + c * clsiz)..(w + c * clsiz) + n - 1 \subseteq Records
         /\ (w + c * clsiz) * recsiz = c * clsizb + w * recsiz
         /\ w * recsiz \in Nat /\ n * recsiz \in Nat
         /\ w * recsiz + n * recsiz <= clsizb
  <1>1. c \in Nat /\ clsiz \in Nat /\ recsiz \in Nat /\ clsizb = recsiz * clsiz
    BY Sizes DEF Clnums, clsizb
  <1>2. c * clsiz \in Nat
    BY ONLY <1>1
  <1>3. w + c * clsiz \in Nat
    BY ONLY <1>2, w \in Nat
  <1>4. ASSUME NEW r, r \in (w + c * clsiz)..(w + c * clsiz) + n - 1 PROVE r \in Records
    <2> DEFINE x == c * clsiz
               k == r - x
    <2>1. x \in Nat /\ x = c * clsiz
      BY <1>2
    <2> HIDE DEF x
    <2>2. k \in 0..clsiz - 1 /\ r = x + k
      BY ONLY <1>1, <1>4, <2>1, w \in Nat, n \in Nat, w + n <= clsiz
    <2> HIDE DEF k
    <2> QED
      BY ONLY <2>1, <2>2, c \in Clnums DEF Records
  <1>5. (w + c * clsiz) * recsiz = c * clsizb + w * recsiz
    <2>1. ASSUME NEW x \in Nat, NEW y \in Nat, NEW z \in Nat, NEW u \in Nat
          PROVE  (u + x * y) * z = x * (z * y) + u * z
      OBVIOUS
    <2> QED
      BY ONLY <1>1, <2>1, w \in Nat
  <1>6. w * recsiz \in Nat /\ n * recsiz \in Nat
    BY ONLY <1>1, w \in Nat, n \in Nat
  <1>7. w * recsiz + n * recsiz <= clsizb
    <2>1. (w + n) * recsiz <= clsiz * recsiz
      <3>1. w + n \in Nat
        OBVIOUS
      <3> QED
        BY ONLY <1>1, <3>1, w + n <= clsiz, Wider
    <2>2. ASSUME NEW x \in Nat, NEW y \in Nat, NEW z \in Nat
          PROVE  (x + y) * z = x * z + y * z /\ x * z = z * x
      OBVIOUS
    <2>3. (w + n) * recsiz = w * recsiz + n * recsiz /\ clsiz * recsiz = recsiz * clsiz
      BY ONLY <1>1, <2>2, w \in Nat, n \in Nat
    <2> QED
      BY ONLY <1>1, <2>1, <2>3
  <1> QED
    BY <1>3, <1>4, <1>5, <1>6, <1>7

-----------------------------------------------------------------------------
(* The parts of xrw.                                                        *)

LEMMA ClusterWhole == clsizb \div recsiz = clsiz /\ clsizb % recsiz = 0
  <1>1. recsiz \in Nat /\ recsiz > 0 /\ clsiz \in Nat
    BY Sizes
  <1>2. clsizb = clsiz * recsiz
    BY <1>1 DEF clsizb
  <1> QED
    BY ONLY <1>1, <1>2, Whole

\* what On says, one by one
LEMMA OnIs ==
  ASSUME NEW s, NEW ch, NEW i, NEW d, NEW b, NEW l, NEW q, On(s, ch, i, d, b, l, q)
  PROVE  /\ Base(s, ch, b, l, q) /\ At(s.ofd, ch, i) /\ Stage(s) /\ Held(s)
         /\ Len(ch) \in Nat /\ i \in 0..Len(ch) /\ d \in 0..clsizb /\ d \in Nat /\ (i = 0 <=> d = 0)
         /\ i # 0 => /\ i \in 1..Len(ch) /\ ch[i] \in Clnums /\ ch[i] \in Nat
                     /\ s.ofd.currec = ch[i] * clsiz /\ s.ofd.curcl = ch[i]
         /\ s.ofd.curbyt = d \/ (d = clsizb /\ s.ofd.curbyt = 0)
         /\ Len(s.moved) \in Nat /\ s.ofd.bytnum \in Nat /\ s.ofd.bytnum = Byte(i, d)
  <1>1. Base(s, ch, b, l, q) /\ At(s.ofd, ch, i) /\ Behind(s.ofd, i, d)
    BY DEF On
  <1>2. Stage(s) /\ Held(s) /\ Chain(ch, s.fat, s.ofd.strtcl)
    BY <1>1 DEF Base
  <1>3. Len(ch) \in Nat /\ \A j \in 1..Len(ch) : ch[j] \in Clnums /\ ch[j] \in Nat
    BY <1>2, ChainIs
  <1>4. /\ i \in 0..Len(ch) /\ s.ofd.curcl = (IF i = 0 THEN 0 ELSE ch[i])
        /\ s.ofd.currec = s.ofd.curcl * clsiz
    BY <1>1 DEF At
  <1>5. i # 0 => i \in 1..Len(ch)
    BY ONLY <1>3, <1>4
  <1>6. d \in 0..clsizb /\ (i = 0 <=> d = 0) /\ (s.ofd.curbyt = d \/ (d = clsizb /\ s.ofd.curbyt = 0))
        /\ s.ofd.bytnum = Byte(i, d)
    BY <1>1 DEF Behind
  <1>7. d \in Nat
    BY ONLY <1>6
  <1>8. Len(s.moved) \in Nat /\ s.ofd.bytnum \in Nat
    BY ONLY <1>2, StageNumbers
  <1> QED
    BY ONLY <1>1, <1>2, <1>3, <1>4, <1>5, <1>6, <1>7, <1>8

\* within a cluster the position is before its next byte
LEMMA Within ==
  ASSUME NEW s, NEW ch, NEW i, NEW d, NEW b, NEW l, NEW q, On(s, ch, i, d, b, l, q),
         s.ofd.curbyt # 0, d # clsizb
  PROVE  Fore(s, ch, i, d, b, l, q) /\ s.ofd.curbyt = d /\ d > 0
  <1>1. /\ Base(s, ch, b, l, q) /\ At(s.ofd, ch, i) /\ i \in 0..Len(ch) /\ d \in 0..clsizb
        /\ (i = 0 <=> d = 0) /\ (s.ofd.curbyt = d \/ (d = clsizb /\ s.ofd.curbyt = 0))
        /\ Len(ch) \in Nat /\ s.ofd.bytnum = Byte(i, d)
    BY OnIs
  <1>2. s.ofd.curbyt = d
    BY ONLY <1>1, s.ofd.curbyt # 0
  <1>3. d > 0 /\ d \in 0..clsizb - 1
    BY ONLY <1>1, <1>2, s.ofd.curbyt # 0, d # clsizb, Sizes
  <1>4. i > 0 /\ i # 0
    BY ONLY <1>1, <1>3
  <1>5. s.ofd.bytnum = (i - 1) * clsizb + d
    BY ONLY <1>1, <1>4 DEF Byte
  <1> QED
    BY ONLY <1>1, <1>2, <1>3, <1>4, <1>5 DEF Fore

\* a request of len bytes has h.len of them left
Left(h, s, len) == h.len \in Nat /\ Len(h.s.moved) + h.len = Len(s.moved) + len

LEMMA HeaderIs ==
  ASSUME NEW s, NEW ch, NEW i, NEW d, NEW b, NEW l, NEW q, On(s, ch, i, d, b, l, q),
         NEW wrt, NEW len, len \in Nat, len > 0, NEW h, h = Header(s, wrt, len)
  PROVE  /\ \E d2 : On(h.s, ch, i, d2, b, l, q)
         /\ Left(h, s, len) /\ (h.len = 0 \/ h.s.ofd.curbyt % recsiz = 0)
  <1> DEFINE bytn == s.ofd.curbyt % recsiz
             recn == s.ofd.curbyt \div recsiz + s.ofd.currec
             n == MIN(len, recsiz - bytn)
             v == Through(s, wrt, recn, bytn, n)
             u == addit(v, n, TRUE)
  <1>1. h = IF bytn = 0 THEN [s |-> s, len |-> len] ELSE [s |-> u, len |-> len - n]
    BY DEF Header
  <1>2. /\ Stage(s) /\ Held(s) /\ Len(s.moved) \in Nat
        /\ i # 0 => /\ ch[i] \in Clnums /\ ch[i] \in Nat /\ s.ofd.currec = ch[i] * clsiz
    BY OnIs
  <1>3. recsiz \in Nat /\ recsiz > 0 /\ clsiz \in Nat
    BY Sizes
  <1>4. CASE bytn = 0
    <2>1. h.s = s /\ h.len = len
      BY <1>1, <1>4
    <2>2. h.s.ofd.curbyt % recsiz = 0
      BY <1>4, <2>1
    <2>3. Left(h, s, len)
      BY ONLY <1>2, <2>1, len \in Nat DEF Left
    <2>4. On(h.s, ch, i, d, b, l, q)
      BY ONLY <2>1, On(s, ch, i, d, b, l, q)
    <2> QED
      BY ONLY <2>2, <2>3, <2>4
  <1>5. CASE bytn # 0
    <2>1. s.ofd.curbyt # 0
      <3>1. 0 % recsiz = 0
        <4>1. 0 = 0 * recsiz /\ 0 \in Nat
          BY ONLY <1>3
        <4> QED
          BY ONLY <1>3, <4>1, Whole
      <3> QED
        BY <1>5, <3>1
    <2>2. d # clsizb
      <3>1. SUFFICES ASSUME d = clsizb PROVE FALSE
        OBVIOUS
      <3>2. s.ofd.curbyt = clsizb
        BY <2>1, <3>1, OnIs
      <3> QED
        BY <1>5, <3>2, ClusterWhole
    <2>3. Fore(s, ch, i, d, b, l, q) /\ s.ofd.curbyt = d /\ d > 0
      BY ONLY <2>1, <2>2, On(s, ch, i, d, b, l, q), Within
    <2>4. i # 0 /\ d \in 0..clsizb - 1 /\ d \in Nat
      BY ONLY <2>3, Sizes DEF Fore
    <2> DEFINE w == d \div recsiz
               x == w * recsiz
    <2>5. d = recsiz * w + bytn /\ bytn \in 0..recsiz - 1 /\ w \in Nat
      BY ONLY <1>3, <2>3, <2>4, Divides DEF bytn
    <2>6. recn = w + ch[i] * clsiz
      BY <1>2, <2>3, <2>4
    <2> HIDE DEF bytn, w, recn
    <2>7. d = x + bytn /\ x \in Nat
      BY ONLY <1>3, <2>5 DEF x
    <2>8. w + 1 <= clsiz
      <3>1. clsizb = clsiz * recsiz
        BY <1>3 DEF clsizb
      <3>2. w * recsiz < clsiz * recsiz
        <4>1. x < clsizb
          BY ONLY <2>4, <2>5, <2>7, Sizes
        <4> QED
          BY ONLY <3>1, <4>1 DEF x
      <3> QED
        BY ONLY <1>3, <2>5, <3>2, Narrower
    <2>9. /\ recn \in Nat /\ recn..recn + 1 - 1 \subseteq Records
          /\ recn * recsiz = ch[i] * clsizb + x /\ x + 1 * recsiz <= clsizb
      BY ONLY <1>2, <2>4, <2>5, <2>6, <2>8, 1 \in Nat, ClusterRecords DEF x
    <2>10. recn \in Records /\ x + recsiz <= clsizb
      BY ONLY <1>3, <2>9
    <2>11. n \in Nat /\ n >= 1 /\ n <= len /\ n <= recsiz - bytn /\ (n = len \/ n = recsiz - bytn)
      BY ONLY <1>3, <1>5, <2>5, len \in Nat, len > 0 DEF MIN, n
    <2> HIDE DEF n, x
    <2>12. d + n <= clsizb /\ bytn \in Nat
      BY ONLY <1>3, <2>5, <2>7, <2>10, <2>11, Sizes
    <2>13. recn * recsiz + bytn = ch[i] * clsizb + d
      <3>1. ch[i] * clsizb \in Nat
        <4>1. ch[i] \in Nat /\ clsizb \in Nat
          BY <1>2, <2>4, Sizes
        <4> QED
          BY ONLY <4>1
      <3> DEFINE y == ch[i] * clsizb
      <3>2. recn * recsiz = y + x /\ y \in Nat
        BY ONLY <2>9, <3>1 DEF y
      <3> HIDE DEF y
      <3>3. recn * recsiz + bytn = y + d
        BY ONLY <2>7, <2>12, <3>2
      <3> QED
        BY ONLY <3>3 DEF y
    <2>14. Copies(v, s, recn * recsiz + bytn, n)
      BY ONLY <1>2, <2>10, <2>11, <2>12, ThroughIs DEF v
    <2>15. Ran(u, s, recn * recsiz + bytn, n, n)
      <3>1. n = IF TRUE THEN n ELSE 0
        OBVIOUS
      <3> QED
        BY ONLY <2>11, <2>14, <3>1, RanAfter DEF u
    <2> HIDE DEF u, v
    <2>16. /\ On(u, ch, i, d + n, b, l, q) /\ u.ofd.curbyt = d + n
           /\ Len(u.moved) = Len(s.moved) + n
      BY ONLY <2>3, <2>11, <2>12, <2>13, <2>15, WentThere
    <2>17. h.s = u /\ h.len = len - n
      BY ONLY <1>1, <1>5
    <2>18. Left(h, s, len)
      BY ONLY <1>2, <2>11, <2>16, <2>17, len \in Nat DEF Left
    <2>19. h.len = 0 \/ h.s.ofd.curbyt % recsiz = 0
      <3>1. CASE n = len
        BY ONLY <2>17, <3>1, len \in Nat
      <3>2. CASE n = recsiz - bytn
        <4>1. d + n = x + recsiz
          BY ONLY <1>3, <2>5, <2>7, <3>2
        <4>2. (w + 1) * recsiz = x + recsiz /\ w + 1 \in Nat
          BY ONLY <1>3, <2>5, OneMore DEF x
        <4>3. (d + n) % recsiz = 0
          BY ONLY <1>3, <4>1, <4>2, Whole
        <4> QED
          BY ONLY <2>16, <2>17, <4>3
      <3> QED
        BY ONLY <2>11, <3>1, <3>2
    <2> QED
      BY ONLY <2>16, <2>17, <2>18, <2>19
  <1> QED
    BY <1>4, <1>5

\* whole records are left, and of more than none only whole clusters follow
Records1(m, i, d) ==
  /\ \E k \in Nat : m.len = k * recsiz
  /\ m.s.ofd.curbyt % recsiz = 0
  /\ m.len = 0 \/ i = 0 \/ d = clsizb

\* where the OFD is in its cluster, in records
LEMMA Aligned ==
  ASSUME NEW s, NEW ch, NEW i, NEW d, NEW b, NEW l, NEW q, On(s, ch, i, d, b, l, q),
         s.ofd.curbyt % recsiz = 0, NEW w, w = s.ofd.curbyt \div recsiz
  PROVE  /\ w \in 0..clsiz /\ s.ofd.curbyt = w * recsiz
         /\ (w = 0 \/ w = clsiz => i = 0 \/ d = clsizb)
         /\ (w # 0 /\ w # clsiz => d # clsizb /\ s.ofd.curbyt # 0)
  <1>1. recsiz \in Nat /\ recsiz > 0 /\ clsiz \in Nat /\ clsizb \in Nat /\ clsizb > 0
    BY Sizes
  <1>2. /\ d \in 0..clsizb /\ d \in Nat /\ (i = 0 <=> d = 0)
        /\ s.ofd.curbyt = d \/ (d = clsizb /\ s.ofd.curbyt = 0)
    BY OnIs
  <1>3. s.ofd.curbyt \in Nat
    BY ONLY <1>1, <1>2
  <1>4. s.ofd.curbyt = recsiz * w + (s.ofd.curbyt % recsiz) /\ w \in Nat
    BY ONLY <1>1, <1>3, w = s.ofd.curbyt \div recsiz, Divides
  <1>5. s.ofd.curbyt = w * recsiz
    <2>1. recsiz * w = w * recsiz /\ w * recsiz \in Nat
      BY ONLY <1>1, <1>4
    <2> QED
      BY ONLY <1>4, <2>1, s.ofd.curbyt % recsiz = 0
  <1>6. clsizb = clsiz * recsiz
    BY <1>1 DEF clsizb
  <1>7. w <= clsiz
    <2>1. SUFFICES ASSUME ~(w <= clsiz) PROVE FALSE
      OBVIOUS
    <2>2. clsiz + 1 <= w
      BY ONLY <1>1, <1>4, <2>1
    <2>3. (clsiz + 1) * recsiz <= w * recsiz /\ (clsiz + 1) * recsiz = clsiz * recsiz + recsiz
      <3>1. clsiz + 1 \in Nat
        BY ONLY <1>1
      <3> QED
        BY ONLY <1>1, <1>4, <2>2, <3>1, Wider, OneMore
    <2>4. s.ofd.curbyt <= clsizb
      BY ONLY <1>1, <1>2
    <2>5. clsizb + recsiz <= s.ofd.curbyt
      BY ONLY <1>5, <1>6, <2>3
    <2> QED
      BY ONLY <1>1, <1>3, <2>4, <2>5
  <1>8. w = 0 => s.ofd.curbyt = 0
    BY ONLY <1>1, <1>5
  <1>9. w = clsiz => s.ofd.curbyt = clsizb
    BY ONLY <1>5, <1>6
  <1>10. s.ofd.curbyt = 0 => w = 0
    BY ONLY <1>1, <1>4, <1>5, Whole
  <1>11. s.ofd.curbyt = clsizb => w = clsiz
    BY ONLY ClusterWhole, w = s.ofd.curbyt \div recsiz
  <1> QED
    BY ONLY <1>1, <1>2, <1>4, <1>5, <1>7, <1>8, <1>9, <1>10, <1>11

LEMMA HeaderRecordsIs ==
  ASSUME NEW s, NEW ch, NEW i, NEW d, NEW b, NEW l, NEW q, On(s, ch, i, d, b, l, q),
         s.ofd.curbyt % recsiz = 0,
         NEW wrt, NEW len, NEW mr, mr \in Nat, mr > 0, len = mr * recsiz,
         NEW m, m = HeaderRecords(s, wrt, len)
  PROVE  \E d2 : On(m.s, ch, i, d2, b, l, q) /\ Left(m, s, len) /\ Records1(m, i, d2)
  <1> DEFINE w == s.ofd.curbyt \div recsiz
             recn == w + s.ofd.currec
             hdrrec == recn % clsiz
             n == MIN(len \div recsiz, clsiz - hdrrec)
             v == usrio(s, wrt, n, recn)
             u == addit(v, n * recsiz, TRUE)
  <1>1. m = IF hdrrec = 0 THEN [s |-> s, len |-> len] ELSE [s |-> u, len |-> len - n * recsiz]
    BY DEF HeaderRecords
  <1>2. /\ Stage(s) /\ Held(s) /\ Len(s.moved) \in Nat
        /\ i # 0 => /\ ch[i] \in Clnums /\ ch[i] \in Nat /\ s.ofd.currec = ch[i] * clsiz
    BY OnIs
  <1>3. recsiz \in Nat /\ recsiz > 0 /\ clsiz \in Nat /\ clsiz > 0
    BY Sizes
  <1>4. len \div recsiz = mr /\ len \in Nat
    BY ONLY <1>3, mr \in Nat, len = mr * recsiz, Whole
  <1>5. /\ w \in 0..clsiz /\ s.ofd.curbyt = w * recsiz
        /\ (w = 0 \/ w = clsiz => i = 0 \/ d = clsizb)
        /\ (w # 0 /\ w # clsiz => d # clsizb /\ s.ofd.curbyt # 0)
    BY Aligned
  <1>6. /\ s.ofd.currec = s.ofd.curcl * clsiz /\ s.ofd.curcl \in Nat
    <2>1. At(s.ofd, ch, i)
      BY OnIs
    <2> QED
      BY ONLY <1>2, <2>1, StageNumbers DEF At
  <1> HIDE DEF w
  <1>7. w # clsiz => hdrrec = w
    <2>1. SUFFICES ASSUME w # clsiz PROVE hdrrec = w
      OBVIOUS
    <2>2. w \in Int /\ 0 <= w /\ w < clsiz
      BY ONLY <1>3, <1>5, <2>1
    <2>3. s.ofd.curcl * clsiz = clsiz * s.ofd.curcl /\ s.ofd.curcl * clsiz \in Nat
      BY ONLY <1>3, <1>6
    <2>4. recn = clsiz * s.ofd.curcl + w /\ recn \in Int
      <3>1. ASSUME NEW x \in Nat, NEW y \in Int PROVE y + x = x + y /\ y + x \in Int
        OBVIOUS
      <3>2. recn = w + s.ofd.curcl * clsiz
        BY ONLY <1>6 DEF recn
      <3> QED
        BY ONLY <2>2, <2>3, <3>1, <3>2
    <2> HIDE DEF recn
    <2>5. w = (recn % clsiz)
      <3> DEFINE y == s.ofd.curcl
      <3>1. y \in Int /\ recn = clsiz * y + w
        BY ONLY <1>6, <2>4
      <3> HIDE DEF y
      <3>2. clsiz \in Int /\ clsiz > 0
        BY ONLY <1>3
      <3> QED
        BY ONLY <2>2, <2>4, <3>1, <3>2, Remainder
    <2> QED
      BY ONLY <2>5
  <1>8. CASE hdrrec = 0
    <2>1. m.s = s /\ m.len = len
      BY <1>1, <1>8
    <2>2. i = 0 \/ d = clsizb
      BY ONLY <1>5, <1>7, <1>8
    <2>3. Left(m, s, len)
      BY ONLY <1>2, <1>4, <2>1 DEF Left
    <2>4. On(m.s, ch, i, d, b, l, q)
      BY ONLY <2>1, On(s, ch, i, d, b, l, q)
    <2>5. Records1(m, i, d)
      BY ONLY <2>1, <2>2, s.ofd.curbyt % recsiz = 0, mr \in Nat, len = mr * recsiz DEF Records1
    <2> QED
      BY ONLY <2>3, <2>4, <2>5
  <1>9. CASE hdrrec # 0
    <2>1. w # clsiz
      <3>1. SUFFICES ASSUME w = clsiz PROVE FALSE
        OBVIOUS
      <3>2. recn = (s.ofd.curcl + 1) * clsiz /\ s.ofd.curcl + 1 \in Nat
        <4>1. (s.ofd.curcl + 1) * clsiz = s.ofd.curcl * clsiz + clsiz /\ s.ofd.curcl * clsiz \in Nat
          BY ONLY <1>3, <1>6, OneMore
        <4>2. ASSUME NEW x \in Nat, NEW y \in Nat PROVE y + x = x + y
          OBVIOUS
        <4>3. recn = clsiz + s.ofd.curcl * clsiz
          BY ONLY <1>6, <3>1 DEF recn
        <4> QED
          BY ONLY <1>3, <1>6, <4>1, <4>2, <4>3
      <3> HIDE DEF recn
      <3>3. recn % clsiz = 0
        BY ONLY <1>3, <3>2, Whole
      <3> QED
        BY ONLY <1>9, <3>3
    <2>2. hdrrec = w /\ w # 0 /\ d # clsizb /\ s.ofd.curbyt # 0
      BY ONLY <1>5, <1>7, <1>9, <2>1
    <2>3. Fore(s, ch, i, d, b, l, q) /\ s.ofd.curbyt = d /\ d > 0
      BY ONLY <2>2, On(s, ch, i, d, b, l, q), Within
    <2>4. i # 0
      BY ONLY <2>3 DEF Fore
    <2>5. n \in Nat /\ n >= 1 /\ n <= mr /\ w + n <= clsiz /\ (n = mr \/ w + n = clsiz)
      BY ONLY <1>3, <1>4, <1>5, <2>1, <2>2, mr \in Nat, mr > 0 DEF MIN, n
    <2>6. recn = w + ch[i] * clsiz /\ w \in Nat
      BY ONLY <1>2, <1>5, <2>4 DEF recn
    <2> HIDE DEF hdrrec, recn, n
    <2>7. /\ recn \in Nat /\ recn..recn + n - 1 \subseteq Records
          /\ recn * recsiz = ch[i] * clsizb + w * recsiz
          /\ w * recsiz \in Nat /\ n * recsiz \in Nat /\ w * recsiz + n * recsiz <= clsizb
      BY ONLY <1>2, <2>4, <2>5, <2>6, ClusterRecords
    <2>8. n * recsiz >= 1
      <3>1. 1 * recsiz <= n * recsiz
        BY ONLY <1>3, <2>5, 1 \in Nat, Wider
      <3> DEFINE y == n * recsiz
      <3>2. recsiz <= y /\ y \in Nat
        BY ONLY <1>3, <2>7, <3>1
      <3> HIDE DEF y
      <3>3. y >= 1
        BY ONLY <1>3, <3>2
      <3> QED
        BY ONLY <3>3 DEF y
    <2>9. d + n * recsiz <= clsizb /\ recn * recsiz = ch[i] * clsizb + d
      BY ONLY <1>5, <2>3, <2>7
    <2>10. Copies(v, s, recn * recsiz, n * recsiz)
      BY ONLY <1>2, <2>5, <2>7, usrioIs DEF v
    <2>11. Ran(u, s, recn * recsiz, n * recsiz, n * recsiz)
      <3>1. n * recsiz = IF TRUE THEN n * recsiz ELSE 0
        OBVIOUS
      <3> QED
        BY ONLY <2>7, <2>10, <3>1, RanAfter DEF u
    <2> HIDE DEF u, v
    <2>12. /\ On(u, ch, i, d + n * recsiz, b, l, q) /\ u.ofd.curbyt = d + n * recsiz
           /\ Len(u.moved) = Len(s.moved) + n * recsiz
      <3> DEFINE y == n * recsiz
                 x == recn * recsiz
      <3>1. /\ Fore(s, ch, i, d, b, l, q) /\ y \in Nat /\ y >= 1 /\ d + y <= clsizb
            /\ x = ch[i] * clsizb + d /\ Ran(u, s, x, y, y)
        BY ONLY <2>3, <2>7, <2>8, <2>9, <2>11
      <3> HIDE DEF x, y
      <3>2. /\ On(u, ch, i, d + y, b, l, q) /\ u.ofd.curbyt = d + y
            /\ Len(u.moved) = Len(s.moved) + y
        BY ONLY <3>1, WentThere
      <3> QED
        BY ONLY <3>2 DEF y
    <2>13. m.s = u /\ m.len = len - n * recsiz
      BY ONLY <1>1, <1>9 DEF hdrrec
    <2>14. m.len = (mr - n) * recsiz /\ mr - n \in Nat /\ m.len \in Nat
           /\ (n = mr => m.len = 0)
      <3>1. ASSUME NEW x \in Nat, NEW y \in Nat, NEW z \in Nat, y <= x
            PROVE  x * z - y * z = (x - y) * z /\ x - y \in Nat
        <4> DEFINE h == x - y
        <4>1. h \in Nat /\ x = h + y
          BY <3>1
        <4> HIDE DEF h
        <4>2. (h + y) * z = h * z + y * z /\ h * z \in Nat /\ y * z \in Nat
          BY <4>1
        <4>3. x * z - y * z = h * z
          BY ONLY <4>1, <4>2
        <4> QED
          BY <4>1, <4>3 DEF h
      <3>2. m.len = (mr - n) * recsiz /\ mr - n \in Nat
        BY ONLY <1>3, <2>5, <2>13, <3>1, mr \in Nat, len = mr * recsiz
      <3>3. (mr - n) * recsiz \in Nat
        <4> DEFINE y == mr - n
        <4>1. y \in Nat
          BY ONLY <3>2
        <4> HIDE DEF y
        <4>2. y * recsiz \in Nat
          BY ONLY <1>3, <4>1
        <4> QED
          BY ONLY <4>2 DEF y
      <3>4. n = mr => m.len = 0
        BY ONLY <1>4, <2>13, len = mr * recsiz
      <3> QED
        BY ONLY <3>2, <3>3, <3>4
    <2>15. Left(m, s, len)
      <3> DEFINE y == n * recsiz
      <3>1. y \in Nat /\ m.len = len - y /\ Len(u.moved) = Len(s.moved) + y
        BY ONLY <2>7, <2>12, <2>13
      <3> HIDE DEF y
      <3> QED
        BY ONLY <1>2, <1>4, <2>13, <2>14, <3>1 DEF Left
    <2>16. d + n * recsiz = (w + n) * recsiz
      <3>1. ASSUME NEW x \in Nat, NEW y \in Nat, NEW z \in Nat
            PROVE  x * z + y * z = (x + y) * z
        OBVIOUS
      <3>2. d = w * recsiz
        BY ONLY <1>5, <2>3
      <3> QED
        BY ONLY <1>3, <2>5, <2>6, <3>1, <3>2
    <2>17. Records1(m, i, d + n * recsiz)
      <3>1. (d + n * recsiz) % recsiz = 0
        <4>1. w + n \in Nat
          BY ONLY <2>5, <2>6
        <4> QED
          BY ONLY <1>3, <2>16, <4>1, Whole
      <3>2. w + n = clsiz => d + n * recsiz = clsizb
        <4>1. clsizb = clsiz * recsiz
          BY <1>3 DEF clsizb
        <4> QED
          BY ONLY <2>16, <4>1
      <3> QED
        BY ONLY <2>5, <2>12, <2>13, <2>14, <3>1, <3>2 DEF Records1
    <2> QED
      BY ONLY <2>12, <2>13, <2>15, <2>17
  <1> QED
    BY <1>8, <1>9

-----------------------------------------------------------------------------
(* Whole clusters.                                                          *)

LEMMA LongerStill ==
  ASSUME NEW a, NEW b, NEW c, Len(a) \in Nat, Len(b) \in Nat, Len(c) \in Nat,
         Longer(b, a), Longer(c, b)
  PROVE  Longer(c, a)
  <1>1. Len(c) >= Len(a)
    BY DEF Longer
  <1>2. ASSUME NEW j, j \in 1..Len(a) PROVE c[j] = a[j]
    <2>1. j \in 1..Len(b)
      BY ONLY <1>2, Longer(b, a), Len(a) \in Nat, Len(b) \in Nat DEF Longer
    <2> QED
      BY ONLY <1>2, <2>1, Longer(b, a), Longer(c, b) DEF Longer
  <1> QED
    BY ONLY <1>1, <1>2 DEF Longer
LEMMA LongerSame ==
  ASSUME NEW a, Len(a) \in Nat
  PROVE  Longer(a, a)
  BY DEF Longer

\* nothing moved is a move too
LEMMA CopiesNone ==
  ASSUME NEW s, Stage(s), Held(s)
  PROVE  Copies(s, s, 0, 0)
  <1>1. s.moved \in Seq(Int)
    BY StageNumbers
  <1>2. Addr(0, 0) = <<>>
    BY DEF Addr
  <1>3. s.moved = s.moved \o <<>>
    BY ONLY <1>1
  <1>4. s.moved = s.moved \o Addr(0, 0)
    BY ONLY <1>2, <1>3
  <1> QED
    BY ONLY <1>4, Stage(s), Held(s) DEF Copies

Turns == [s : Stages, last : Nat, nrecs : Nat, eof : BOOLEAN]
\* the pending records are those of the file up to the end of its p-th cluster
Queue(t, ch, p, b, l, q) ==
  /\ t \in Turns /\ Base(t.s, ch, b, l, q)
  /\ t.s.ofd.bytnum + t.nrecs * recsiz = p * clsizb
  /\ t.nrecs = 0 => t.last = 0
  /\ t.nrecs > 0 =>
       /\ t.last..t.last + t.nrecs - 1 \subseteq Records
       /\ Leads(Addr(t.last * recsiz, t.nrecs * recsiz), ch, t.s.ofd.bytnum)
Total(t) == Len(t.s.moved) + t.nrecs * recsiz

\* they have been moved
Settles(v, t, ch, p, b, l, q) ==
  /\ Base(v, ch, b, l, q) /\ v.ofd.bytnum = p * clsizb /\ v.fat = t.s.fat
  /\ v.ofd.curcl = t.s.ofd.curcl /\ v.ofd.currec = t.s.ofd.currec
  /\ v.ofd.curbyt = t.s.ofd.curbyt /\ Len(v.moved) = Total(t)

LEMMA SettlesIs ==
  ASSUME NEW t, NEW ch, NEW p, NEW b, NEW l, NEW q, Queue(t, ch, p, b, l, q), NEW wrt,
         NEW v, v = addit(IF t.nrecs = 0 THEN t.s ELSE usrio(t.s, wrt, t.nrecs, t.last),
                          t.nrecs * recsiz, FALSE)
  PROVE  Settles(v, t, ch, p, b, l, q)
  <1> DEFINE a == IF t.nrecs = 0 THEN 0 ELSE t.last * recsiz
             n == t.nrecs * recsiz
             x == IF t.nrecs = 0 THEN t.s ELSE usrio(t.s, wrt, t.nrecs, t.last)
  <1>1. /\ t \in Turns /\ Base(t.s, ch, b, l, q)
        /\ t.s.ofd.bytnum + n = p * clsizb
        /\ t.nrecs > 0 =>
             /\ t.last..t.last + t.nrecs - 1 \subseteq Records
             /\ Leads(Addr(t.last * recsiz, n), ch, t.s.ofd.bytnum)
    BY DEF Queue
  <1>2. Stage(t.s) /\ Held(t.s) /\ t.last \in Nat /\ t.nrecs \in Nat
    <2>1. t.last \in Nat /\ t.nrecs \in Nat
      BY ONLY <1>1 DEF Turns
    <2>2. Stage(t.s) /\ Held(t.s)
      BY ONLY <1>1 DEF Base
    <2> QED
      BY ONLY <2>1, <2>2
  <1>3. recsiz \in Nat
    BY Sizes
  <1>4. n \in Nat /\ a \in Int /\ t.last * recsiz \in Nat
    <2>1. ASSUME NEW y \in Nat PROVE y * recsiz \in Nat
      BY <1>3
    <2>2. t.last * recsiz \in Nat /\ t.nrecs * recsiz \in Nat
      BY ONLY <1>2, <2>1
    <2> QED
      BY <2>2
  <1>5. Copies(x, t.s, a, n) /\ Leads(Addr(a, n), ch, t.s.ofd.bytnum)
    <2>1. CASE t.nrecs = 0
      <3>1. n = 0
        BY ONLY <1>3, <2>1 DEF n
      <3>2. x = t.s /\ a = 0
        BY ONLY <2>1 DEF x, a
      <3>3. Leads(Addr(0, 0), ch, t.s.ofd.bytnum)
        <4>1. Len(Addr(0, 0)) = 0
          BY ONLY AddrIs, 0 \in Int, 0 \in Nat
        <4> QED
          BY ONLY <4>1 DEF Leads
      <3> HIDE DEF n, x, a
      <3> QED
        BY ONLY <1>2, <3>1, <3>2, <3>3, CopiesNone
    <2>2. CASE t.nrecs # 0
      <3>1. x = usrio(t.s, wrt, t.nrecs, t.last) /\ a = t.last * recsiz /\ t.nrecs > 0
        BY ONLY <1>2, <2>2 DEF x, a
      <3> HIDE DEF x, a
      <3>2. Copies(x, t.s, t.last * recsiz, t.nrecs * recsiz)
        BY ONLY <1>1, <1>2, <3>1, usrioIs
      <3> QED
        BY ONLY <1>1, <3>1, <3>2 DEF n
    <2> QED
      BY ONLY <2>1, <2>2
  <1>6. v = addit(x, n, FALSE)
    OBVIOUS
  <1> HIDE DEF x, n, a
  <1>7. Ran(v, t.s, a, n, 0)
    <2>1. 0 = IF FALSE THEN n ELSE 0
      OBVIOUS
    <2> QED
      BY ONLY <1>4, <1>5, <1>6, <2>1, RanAfter
  <1>8. Base(v, ch, b, l, q) /\ Len(v.moved) = Len(t.s.moved) + n
    <2>1. Base(t.s, ch, b, l, q) /\ n \in Nat /\ a \in Int
          /\ Leads(Addr(a, n), ch, t.s.ofd.bytnum)
      BY ONLY <1>1, <1>4, <1>5
    <2> QED
      BY ONLY <1>7, <2>1, BaseRan
  <1>9. v.fat = t.s.fat /\ Forth(v.ofd, t.s.ofd, n, 0)
    BY ONLY <1>7 DEF Ran
  <1>10. t.s.ofd.curbyt \in Nat
    BY ONLY <1>2, StageNumbers
  <1>11. /\ v.ofd.bytnum = p * clsizb /\ v.ofd.curcl = t.s.ofd.curcl
         /\ v.ofd.currec = t.s.ofd.currec /\ v.ofd.curbyt = t.s.ofd.curbyt
    BY ONLY <1>1, <1>9, <1>10 DEF Forth
  <1> QED
    BY ONLY <1>8, <1>9, <1>11 DEF Settles, Total, n

LEMMA mulioIs ==
  ASSUME NEW t, NEW ch, NEW p, NEW b, NEW l, NEW q, Queue(t, ch, p, b, l, q), NEW wrt,
         NEW ok, NEW u, u = mulio(t, wrt, ok)
  PROVE  /\ u \in Turns /\ Settles(u.s, t, ch, p, b, l, q)
         /\ ok => u.last = t.s.ofd.currec /\ u.nrecs = clsiz /\ u.eof = FALSE
         /\ ~ok => u.eof = TRUE
  <1> DEFINE v == addit(IF t.nrecs = 0 THEN t.s ELSE usrio(t.s, wrt, t.nrecs, t.last),
                        t.nrecs * recsiz, FALSE)
  <1>1. Settles(v, t, ch, p, b, l, q)
    BY SettlesIs
  <1>2. u = IF ~ok THEN [t EXCEPT !.s = v, !.eof = TRUE]
            ELSE [s |-> v, last |-> v.ofd.currec, nrecs |-> clsiz, eof |-> FALSE]
    BY DEF mulio
  <1> HIDE DEF v
  <1>3. v \in Stages /\ v.ofd.currec = t.s.ofd.currec /\ v.ofd.currec \in Nat
    <2>1. Stage(v)
      BY ONLY <1>1 DEF Settles, Base
    <2>2. v.ofd.currec \in Nat
      BY ONLY <2>1, StageNumbers
    <2> QED
      BY ONLY <1>1, <2>1, <2>2 DEF Settles, Stage
  <1>4. t \in Turns
    BY DEF Queue
  <1>5. clsiz \in Nat
    BY Sizes
  <1>6. CASE ok
    <2>1. u = [s |-> v, last |-> v.ofd.currec, nrecs |-> clsiz, eof |-> FALSE]
      BY ONLY <1>2, <1>6
    <2>2. u \in Turns /\ u.s = v /\ u.last = v.ofd.currec /\ u.nrecs = clsiz /\ u.eof = FALSE
      BY ONLY <1>3, <1>5, <2>1 DEF Turns
    <2> QED
      BY ONLY <1>1, <1>3, <1>6, <2>2
  <1>7. CASE ~ok
    <2>1. u = [t EXCEPT !.s = v, !.eof = TRUE]
      BY ONLY <1>2, <1>7
    <2>2. u \in Turns /\ u.s = v /\ u.eof = TRUE
      BY ONLY <1>3, <1>4, <2>1 DEF Turns
    <2> QED
      BY ONLY <1>1, <1>7, <2>2
  <1> QED
    BY ONLY <1>6, <1>7

\* the OFD is at the end of its cluster, or before any
Edge(o, i) == o.bytnum = i * clsizb /\ (o.curbyt = 0 \/ (i > 0 /\ o.curbyt = clsizb))
\* the clusters up to the i-th are pending
Pend(t, ch, i, b, l, q) ==
  /\ Queue(t, ch, i, b, l, q) /\ At(t.s.ofd, ch, i) /\ t.eof = FALSE
  /\ t.nrecs = 0 => t.s.ofd.curbyt = 0 \/ (i > 0 /\ t.s.ofd.curbyt = clsizb)
  /\ t.nrecs > 0 => /\ i > 0 /\ t.s.ofd.curbyt = 0
                    /\ t.last + t.nrecs = t.s.ofd.currec + clsiz
\* they have been moved; there is no other
Stops(t, ch, i, b, l, q, wrt) ==
  /\ t \in Turns /\ t.eof = TRUE /\ Base(t.s, ch, b, l, q) /\ At(t.s.ofd, ch, i)
  /\ Edge(t.s.ofd, i) /\ i = Len(ch) /\ (wrt => Spare(t.s.fat) = {})
\* they have been moved, which were all
Rests(t, ch, i, b, l, q) ==
  /\ t \in Turns /\ t.eof = FALSE /\ Base(t.s, ch, b, l, q) /\ At(t.s.ofd, ch, i)
  /\ Edge(t.s.ofd, i)

LEMMA AddrJoin ==
  ASSUME NEW a, a \in Int, NEW n, n \in Nat, NEW m, m \in Nat
  PROVE  Addr(a, n + m) = Addr(a, n) \o Addr(a + n, m)
  <1>1. /\ Addr(a, n) \in Seq(Int) /\ Len(Addr(a, n)) = n
        /\ Addr(a + n, m) \in Seq(Int) /\ Len(Addr(a + n, m)) = m
        /\ Addr(a, n + m) \in Seq(Int) /\ Len(Addr(a, n + m)) = n + m
    <2>1. a + n \in Int /\ n + m \in Nat
      OBVIOUS
    <2> QED
      BY <2>1, AddrIs
  <1> DEFINE x == Addr(a, n)
             y == Addr(a + n, m)
             z == Addr(a, n + m)
             u == x \o y
  <1>2. /\ \A k \in 1..n : x[k] = a + k - 1
        /\ \A k \in 1..m : y[k] = (a + n) + k - 1
        /\ \A k \in 1..n + m : z[k] = a + k - 1
    BY DEF Addr
  <1> HIDE DEF x, y, z
  <1>3. Joined(x, y, u)
    BY <1>1, Join DEF x, y
  <1>4. /\ x \in Seq(Int) /\ Len(x) = n /\ y \in Seq(Int) /\ Len(y) = m
        /\ z \in Seq(Int) /\ Len(z) = n + m
    BY <1>1 DEF x, y, z
  <1> HIDE DEF u
  <1>5. u \in Seq(Int) /\ Len(u) = n + m
    BY ONLY <1>3, <1>4 DEF Joined
  <1>6. ASSUME NEW k, k \in 1..n + m PROVE z[k] = u[k]
    <2>1. CASE k <= n
      <3>1. k \in 1..n /\ k \in 1..Len(x)
        BY ONLY <1>4, <1>6, <2>1, n \in Nat, m \in Nat
      <3>2. u[k] = x[k]
        BY ONLY <1>3, <3>1 DEF Joined
      <3> QED
        BY ONLY <1>2, <1>6, <3>1, <3>2
    <2>2. CASE k > n
      <3> DEFINE h == k - n
      <3>1. h \in 1..m /\ h \in 1..Len(y) /\ Len(x) + h = k /\ (a + n) + h - 1 = a + k - 1
        BY ONLY <1>4, <1>6, <2>2, n \in Nat, m \in Nat, a \in Int
      <3> HIDE DEF h
      <3>2. u[Len(x) + h] = y[h]
        BY ONLY <1>3, <3>1 DEF Joined
      <3>3. u[k] = y[h] /\ y[h] = (a + n) + h - 1
        BY ONLY <1>2, <3>1, <3>2
      <3> QED
        BY ONLY <1>2, <1>6, <3>1, <3>3
    <2> QED
      BY ONLY <1>6, <2>1, <2>2, n \in Nat, m \in Nat
  <1>7. z = u
    <2>1. DOMAIN z = 1..n + m /\ DOMAIN u = 1..n + m
      BY ONLY <1>4, <1>5
    <2>2. z = [k \in 1..n + m |-> z[k]] /\ u = [k \in 1..n + m |-> u[k]]
      BY ONLY <1>4, <1>5, <2>1
    <2> QED
      BY ONLY <1>6, <2>2
  <1> QED
    BY <1>7 DEF z, u, x, y

\* the records of a cluster are its bytes in the file
LEMMA WholeCluster ==
  ASSUME NEW ch, NEW f, NEW strt, Chain(ch, f, strt), NEW i, i \in 0..Len(ch) - 1,
         NEW o, At(o, ch, i + 1), NEW r, r = o.currec
  PROVE  /\ r \in Nat /\ r > 0 /\ r..r + clsiz - 1 \subseteq Records
         /\ clsiz * recsiz = clsizb
         /\ r * recsiz = ch[i + 1] * clsizb /\ r * recsiz \in Int
         /\ Leads(Addr(r * recsiz, clsizb), ch, i * clsizb)
  <1> DEFINE c == ch[i + 1]
  <1>1. Len(ch) \in Nat /\ i \in Nat /\ i + 1 \in 1..Len(ch) /\ (i + 1) - 1 = i
    <2>1. Len(ch) \in Nat
      BY ChainIs
    <2> QED
      BY ONLY <2>1, i \in 0..Len(ch) - 1
  <1>2. c \in Clnums /\ c \in Nat /\ c >= 2
    BY <1>1, ChainIs
  <1>3. recsiz \in Nat /\ clsiz \in Nat /\ clsiz > 0 /\ clsizb \in Nat
    BY Sizes
  <1>4. r = c * clsiz
    <2>1. i + 1 # 0
      BY ONLY <1>1
    <2> QED
      BY <2>1 DEF At
  <1> HIDE DEF c
  <1>5. clsiz * recsiz = clsizb
    BY <1>3 DEF clsizb
  <1>6. /\ 0 + c * clsiz \in Nat
        /\ (0 + c * clsiz)..(0 + c * clsiz) + clsiz - 1 \subseteq Records
        /\ (0 + c * clsiz) * recsiz = c * clsizb + 0 * recsiz
    BY ONLY <1>2, <1>3, 0 \in Nat, 0 + clsiz <= clsiz, ClusterRecords
  <1>7. c * clsiz \in Nat /\ c * clsizb \in Nat /\ 0 * recsiz = 0 /\ c * clsiz > 0
    <2>1. ASSUME NEW x \in Nat, NEW y \in Nat PROVE x * y \in Nat /\ 0 * y = 0
      OBVIOUS
    <2>2. 1 * clsiz <= c * clsiz /\ 1 * clsiz = clsiz
      BY ONLY <1>2, <1>3, 1 \in Nat, Wider
    <2>3. c * clsiz \in Nat /\ c * clsizb \in Nat /\ 0 * recsiz = 0
      BY ONLY <1>2, <1>3, <2>1
    <2> QED
      BY ONLY <1>3, <2>2, <2>3
  <1>8. 0 + c * clsiz = r /\ r \in Nat /\ r > 0
    BY ONLY <1>4, <1>7
  <1>9. r * recsiz = c * clsizb + 0 /\ c * clsizb + 0 = c * clsizb
    BY ONLY <1>6, <1>7, <1>8
  <1>10. Leads(Addr(r * recsiz, clsizb), ch, i * clsizb)
    <2>1. i * clsizb \in Nat
      BY ONLY <1>1, <1>3
    <2>2. i * clsizb = ((i + 1) - 1) * clsizb + 0
      BY ONLY <1>1, <2>1
    <2>3. 0 + clsizb <= clsizb
      BY ONLY <1>3
    <2>4. ch[i + 1] \in Nat /\ r * recsiz = ch[i + 1] * clsizb + 0
      BY ONLY <1>2, <1>9 DEF c
    <2> QED
      BY ONLY <1>1, <1>3, <2>2, <2>3, <2>4, 0 \in Nat, LeadsHere
  <1>11. r..r + clsiz - 1 \subseteq Records
    BY ONLY <1>6, <1>8
  <1> QED
    BY ONLY <1>5, <1>7, <1>8, <1>9, <1>10, <1>11 DEF c

\* the i-th and the next cluster
LEMMA NextBytes ==
  ASSUME NEW i, i \in Nat
  PROVE  (i + 1) * clsizb = i * clsizb + clsizb /\ i * clsizb \in Nat /\ clsizb \in Nat
  <1>1. clsizb \in Nat
    BY Sizes
  <1> QED
    BY ONLY <1>1, i \in Nat, OneMore

\* the OFD has gone on to the cluster behind those that are pending
Ahead(t, ch, i, b, l, q) ==
  /\ Queue(t, ch, i, b, l, q) /\ At(t.s.ofd, ch, i + 1) /\ t.s.ofd.curbyt = 0
  /\ i \in 0..Len(ch) - 1

LEMMA AheadIs ==
  ASSUME NEW t, NEW ch, NEW i, NEW b, NEW l, NEW q, Ahead(t, ch, i, b, l, q)
  PROVE  /\ t \in Turns /\ Base(t.s, ch, b, l, q) /\ Len(ch) \in Nat /\ i \in Nat
         /\ Chain(ch, t.s.fat, t.s.ofd.strtcl) /\ At(t.s.ofd, ch, i + 1)
         /\ t.s.ofd.curbyt = 0 /\ i \in 0..Len(ch) - 1
         /\ t.last \in Nat /\ t.nrecs \in Nat /\ t.s.ofd.bytnum \in Nat /\ t.s.ofd.currec \in Nat
         /\ Len(t.s.moved) \in Nat /\ Total(t) \in Nat
  <1>1. /\ Queue(t, ch, i, b, l, q) /\ At(t.s.ofd, ch, i + 1) /\ t.s.ofd.curbyt = 0
        /\ i \in 0..Len(ch) - 1
    BY DEF Ahead
  <1>2. t \in Turns /\ Base(t.s, ch, b, l, q)
    BY ONLY <1>1 DEF Queue
  <1>3. Stage(t.s) /\ Chain(ch, t.s.fat, t.s.ofd.strtcl)
    BY ONLY <1>2 DEF Base
  <1>4. Len(ch) \in Nat
    BY ONLY <1>3, ChainIs
  <1>5. t.s.ofd.bytnum \in Nat /\ t.s.ofd.currec \in Nat /\ Len(t.s.moved) \in Nat
    BY ONLY <1>3, StageNumbers
  <1>6. t.last \in Nat /\ t.nrecs \in Nat
    BY ONLY <1>2 DEF Turns
  <1>7. Total(t) \in Nat
    <2>1. recsiz \in Nat
      BY Sizes
    <2>2. t.nrecs * recsiz \in Nat
      BY ONLY <1>6, <2>1
    <2> QED
      BY ONLY <1>5, <2>2 DEF Total
  <1>8. i \in Nat
    BY ONLY <1>1, <1>4
  <1> QED
    BY ONLY <1>1, <1>2, <1>3, <1>4, <1>5, <1>6, <1>7, <1>8

\* it follows on disk too
LEMMA PendMore ==
  ASSUME NEW t, NEW ch, NEW i, NEW b, NEW l, NEW q, Ahead(t, ch, i, b, l, q), t.eof = FALSE,
         t.s.ofd.currec = t.last + t.nrecs, NEW g, g = [t EXCEPT !.nrecs = @ + clsiz]
  PROVE  Pend(g, ch, i + 1, b, l, q) /\ Total(g) = Total(t) + clsizb
  <1>1. /\ t \in Turns /\ Base(t.s, ch, b, l, q) /\ Len(ch) \in Nat /\ i \in Nat
        /\ Chain(ch, t.s.fat, t.s.ofd.strtcl) /\ At(t.s.ofd, ch, i + 1)
        /\ t.s.ofd.curbyt = 0 /\ i \in 0..Len(ch) - 1
        /\ t.last \in Nat /\ t.nrecs \in Nat /\ t.s.ofd.bytnum \in Nat
        /\ Len(t.s.moved) \in Nat
    BY AheadIs
  <1>2. /\ t.s.ofd.bytnum + t.nrecs * recsiz = i * clsizb
        /\ t.nrecs = 0 => t.last = 0
        /\ t.nrecs > 0 =>
             /\ t.last..t.last + t.nrecs - 1 \subseteq Records
             /\ Leads(Addr(t.last * recsiz, t.nrecs * recsiz), ch, t.s.ofd.bytnum)
    BY DEF Ahead, Queue
  <1>3. recsiz \in Nat /\ clsiz \in Nat /\ clsiz > 0 /\ clsizb \in Nat
    BY Sizes
  <1> DEFINE r == t.s.ofd.currec
             n == t.nrecs * recsiz
             a == t.last * recsiz
             b0 == t.s.ofd.bytnum
  <1>4. /\ r \in Nat /\ r > 0 /\ r..r + clsiz - 1 \subseteq Records
        /\ clsiz * recsiz = clsizb
        /\ Leads(Addr(r * recsiz, clsizb), ch, i * clsizb)
    BY ONLY <1>1, WholeCluster
  <1>5. t.nrecs > 0
    BY ONLY <1>1, <1>2, <1>4, t.s.ofd.currec = t.last + t.nrecs
  <1>6. g \in Turns /\ g.s = t.s /\ g.last = t.last /\ g.nrecs = t.nrecs + clsiz /\ g.eof = FALSE
    <2>1. t.nrecs + clsiz \in Nat
      BY ONLY <1>1, <1>3
    <2> QED
      BY ONLY <1>1, <2>1, t.eof = FALSE, g = [t EXCEPT !.nrecs = @ + clsiz] DEF Turns
  <1>7. n \in Nat /\ a \in Nat /\ r * recsiz = a + n /\ g.nrecs * recsiz = n + clsizb
    <2>1. ASSUME NEW x \in Nat, NEW y \in Nat
          PROVE  (x + y) * recsiz = x * recsiz + y * recsiz /\ x * recsiz \in Nat
      BY <1>3
    <2> QED
      BY ONLY <1>1, <1>3, <1>4, <1>6, <2>1, t.s.ofd.currec = t.last + t.nrecs
  <1>8. b0 + n = i * clsizb /\ Leads(Addr(a, n), ch, b0)
    BY ONLY <1>2, <1>5
  <1>9. (i + 1) * clsizb = i * clsizb + clsizb
    BY ONLY <1>1, NextBytes
  <1>10. g.last..g.last + g.nrecs - 1 \subseteq Records
    <2>1. ASSUME NEW x, x \in g.last..g.last + g.nrecs - 1 PROVE x \in Records
      <3>1. x \in t.last..t.last + t.nrecs - 1 \/ x \in r..r + clsiz - 1
        BY ONLY <1>1, <1>3, <1>6, <2>1, t.s.ofd.currec = t.last + t.nrecs DEF r
      <3> QED
        BY ONLY <1>2, <1>4, <1>5, <3>1
    <2> QED
      BY ONLY <2>1
  <1> HIDE DEF r, n, a, b0
  <1>11. Leads(Addr(a, n + clsizb), ch, b0)
    <2> DEFINE x == Addr(a, n)
               y == Addr(a + n, clsizb)
               z == Addr(a, n + clsizb)
    <2>1. z = x \o y
      <3>1. a \in Int /\ n \in Nat /\ clsizb \in Nat
        BY ONLY <1>3, <1>7
      <3> QED
        BY ONLY <3>1, AddrJoin
    <2>2. x \in Seq(Int) /\ y \in Seq(Int) /\ Len(x) = n
      <3>1. a \in Int /\ a + n \in Int
        BY ONLY <1>7
      <3> QED
        BY ONLY <1>3, <1>7, <3>1, AddrIs
    <2>3. Leads(x, ch, b0) /\ Leads(y, ch, b0 + Len(x))
      <3>1. y = Addr(r * recsiz, clsizb)
        BY ONLY <1>7
      <3>2. b0 + Len(x) = i * clsizb
        BY ONLY <1>8, <2>2
      <3> HIDE DEF y
      <3>3. Leads(y, ch, i * clsizb)
        BY ONLY <1>4, <3>1
      <3> HIDE DEF x
      <3> QED
        BY ONLY <1>8, <3>2, <3>3 DEF x
    <2>4. b0 \in Int
      BY ONLY <1>1 DEF b0
    <2> HIDE DEF x, y, z
    <2>5. Leads(z, ch, b0)
      BY ONLY <2>1, <2>2, <2>3, <2>4, LeadsMore
    <2> QED
      BY ONLY <2>5 DEF z
  <1>12. Leads(Addr(g.last * recsiz, g.nrecs * recsiz), ch, g.s.ofd.bytnum)
    BY ONLY <1>6, <1>7, <1>11 DEF a, b0
  <1>13. g.s.ofd.bytnum + g.nrecs * recsiz = (i + 1) * clsizb
    <2>1. b0 \in Nat
      BY ONLY <1>1 DEF b0
    <2>2. g.s.ofd.bytnum = b0
      BY ONLY <1>6 DEF b0
    <2> QED
      BY ONLY <1>3, <1>7, <1>8, <1>9, <2>1, <2>2
  <1>14. g.nrecs > 0
    BY ONLY <1>1, <1>3, <1>6
  <1>15. Queue(g, ch, i + 1, b, l, q)
    <2>1. Base(g.s, ch, b, l, q)
      BY ONLY <1>1, <1>6
    <2>2. ~(g.nrecs = 0)
      BY ONLY <1>14
    <2> QED
      BY ONLY <1>6, <1>10, <1>12, <1>13, <2>1, <2>2 DEF Queue
  <1>16. Pend(g, ch, i + 1, b, l, q)
    <2>1. g.last + g.nrecs = g.s.ofd.currec + clsiz
      BY ONLY <1>1, <1>3, <1>6, t.s.ofd.currec = t.last + t.nrecs
    <2>2. i + 1 > 0 /\ ~(g.nrecs = 0)
      BY ONLY <1>1, <1>14
    <2>3. At(g.s.ofd, ch, i + 1) /\ g.s.ofd.curbyt = 0
      BY ONLY <1>1, <1>6
    <2> QED
      BY ONLY <1>6, <1>15, <2>1, <2>2, <2>3 DEF Pend
  <1>17. Total(g) = Total(t) + clsizb
    <2>1. Total(t) = Len(t.s.moved) + n
      BY DEF Total, n
    <2>2. Total(g) = Len(t.s.moved) + (n + clsizb)
      BY ONLY <1>6, <1>7 DEF Total
    <2>3. n \in Nat /\ clsizb \in Nat /\ Len(t.s.moved) \in Nat
      BY ONLY <1>1, <1>3, <1>7
    <2>4. ASSUME NEW x \in Nat, NEW y \in Nat, NEW z \in Nat PROVE x + (y + z) = (x + y) + z
      OBVIOUS
    <2>5. Len(t.s.moved) + (n + clsizb) = (Len(t.s.moved) + n) + clsizb
      BY ONLY <2>3, <2>4
    <2> QED
      BY ONLY <2>1, <2>2, <2>5
  <1> QED
    BY ONLY <1>16, <1>17

\* what is pending is moved, and it is pending
LEMMA PendFresh ==
  ASSUME NEW t, NEW ch, NEW i, NEW b, NEW l, NEW q, Ahead(t, ch, i, b, l, q),
         NEW wrt, NEW g, g = mulio(t, wrt, TRUE)
  PROVE  Pend(g, ch, i + 1, b, l, q) /\ Total(g) = Total(t) + clsizb
  <1>1. /\ t \in Turns /\ Base(t.s, ch, b, l, q) /\ Len(ch) \in Nat /\ i \in Nat
        /\ Chain(ch, t.s.fat, t.s.ofd.strtcl) /\ At(t.s.ofd, ch, i + 1)
        /\ t.s.ofd.curbyt = 0 /\ i \in 0..Len(ch) - 1 /\ Total(t) \in Nat
    BY AheadIs
  <1>2. Queue(t, ch, i, b, l, q)
    BY DEF Ahead
  <1>3. g \in Turns /\ Settles(g.s, t, ch, i, b, l, q)
        /\ g.last = t.s.ofd.currec /\ g.nrecs = clsiz /\ g.eof = FALSE
    BY ONLY <1>2, g = mulio(t, wrt, TRUE), mulioIs
  <1>4. /\ Base(g.s, ch, b, l, q) /\ g.s.ofd.bytnum = i * clsizb /\ g.s.fat = t.s.fat
        /\ g.s.ofd.curcl = t.s.ofd.curcl /\ g.s.ofd.currec = t.s.ofd.currec
        /\ g.s.ofd.curbyt = t.s.ofd.curbyt /\ Len(g.s.moved) = Total(t)
    BY ONLY <1>3 DEF Settles
  <1>5. recsiz \in Nat /\ clsiz \in Nat /\ clsiz > 0 /\ clsizb \in Nat
    BY Sizes
  <1>6. At(g.s.ofd, ch, i + 1)
    BY ONLY <1>1, <1>4 DEF At
  <1> DEFINE r == g.s.ofd.currec
  <1>7. /\ r \in Nat /\ r..r + clsiz - 1 \subseteq Records
        /\ clsiz * recsiz = clsizb
        /\ Leads(Addr(r * recsiz, clsizb), ch, i * clsizb)
    <2>1. Chain(ch, g.s.fat, g.s.ofd.strtcl)
      BY ONLY <1>4 DEF Base
    <2> QED
      BY ONLY <1>1, <1>6, <2>1, WholeCluster
  <1>8. g.last = r
    BY ONLY <1>3, <1>4
  <1> HIDE DEF r
  <1>9. /\ g.last..g.last + g.nrecs - 1 \subseteq Records
        /\ Leads(Addr(g.last * recsiz, g.nrecs * recsiz), ch, g.s.ofd.bytnum)
    BY ONLY <1>3, <1>4, <1>7, <1>8
  <1>10. g.s.ofd.bytnum + g.nrecs * recsiz = (i + 1) * clsizb
    <2>1. (i + 1) * clsizb = i * clsizb + clsizb
      BY ONLY <1>1, NextBytes
    <2> QED
      BY ONLY <1>3, <1>4, <1>7, <2>1
  <1>11. g.nrecs > 0 /\ ~(g.nrecs = 0) /\ i + 1 > 0
    BY ONLY <1>1, <1>3, <1>5
  <1>12. Queue(g, ch, i + 1, b, l, q)
    BY ONLY <1>3, <1>4, <1>9, <1>10, <1>11 DEF Queue
  <1>13. Pend(g, ch, i + 1, b, l, q)
    BY ONLY <1>1, <1>3, <1>4, <1>6, <1>11, <1>12 DEF Pend
  <1>14. Total(g) = Total(t) + clsizb
    BY ONLY <1>3, <1>4, <1>7 DEF Total
  <1> QED
    BY ONLY <1>13, <1>14

\* nextcl has found the cluster behind the pending ones
Onward(t, s) == [t EXCEPT !.s = s]
OneAhead(u, t, s, ch, i, b, l, q) ==
  /\ Ahead(u, ch, i, b, l, q) /\ Total(u) = Total(t) /\ u.eof = FALSE
  /\ u.last = t.last /\ u.nrecs = t.nrecs /\ u.s = s
LEMMA GoesAhead ==
  ASSUME NEW t, NEW ch, NEW i, NEW b, NEW l, NEW q, Pend(t, ch, i, b, l, q),
         NEW s, NEW ch2, Longer(ch2, ch), Comes(s, t.s, ch2, i, b, l, q),
         NEW u, u = Onward(t, s)
  PROVE  OneAhead(u, t, s, ch2, i, b, l, q)
  <1>1. Queue(t, ch, i, b, l, q) /\ At(t.s.ofd, ch, i) /\ t.eof = FALSE
    BY DEF Pend
  <1>2. /\ t \in Turns /\ Base(t.s, ch, b, l, q)
        /\ t.s.ofd.bytnum + t.nrecs * recsiz = i * clsizb
        /\ t.nrecs = 0 => t.last = 0
        /\ t.nrecs > 0 =>
             /\ t.last..t.last + t.nrecs - 1 \subseteq Records
             /\ Leads(Addr(t.last * recsiz, t.nrecs * recsiz), ch, t.s.ofd.bytnum)
    BY <1>1 DEF Queue
  <1>3. /\ Base(s, ch2, b, l, q) /\ At(s.ofd, ch2, i + 1) /\ s.ofd.curbyt = 0
        /\ s.ofd.bytnum = t.s.ofd.bytnum /\ s.moved = t.s.moved
    BY DEF Comes
  <1>4. s \in Stages
    BY ONLY <1>3 DEF Base, Stage
  <1>5. u \in Turns /\ u.s = s /\ u.last = t.last /\ u.nrecs = t.nrecs /\ u.eof = FALSE
    BY ONLY <1>1, <1>2, <1>4, u = Onward(t, s) DEF Turns, Onward
  <1>6. Len(ch) \in Nat /\ Len(ch2) \in Nat
    <2>1. Chain(ch, t.s.fat, t.s.ofd.strtcl) /\ Chain(ch2, s.fat, s.ofd.strtcl)
      BY ONLY <1>2, <1>3 DEF Base
    <2> QED
      BY ONLY <2>1, ChainIs
  <1>7. t.nrecs > 0 => Leads(Addr(t.last * recsiz, t.nrecs * recsiz), ch2, t.s.ofd.bytnum)
    BY ONLY <1>2, <1>6, Longer(ch2, ch), LongerLeads
  <1>8. Queue(u, ch2, i, b, l, q)
    BY ONLY <1>2, <1>3, <1>5, <1>7 DEF Queue
  <1>9. i \in 0..Len(ch2) - 1
    <2>1. i \in 0..Len(ch) /\ i + 1 \in 0..Len(ch2)
      BY ONLY <1>1, <1>3 DEF At
    <2> QED
      BY ONLY <1>6, <2>1
  <1>10. Ahead(u, ch2, i, b, l, q)
    BY ONLY <1>3, <1>5, <1>8, <1>9 DEF Ahead
  <1>11. Total(u) = Total(t)
    BY ONLY <1>3, <1>5 DEF Total
  <1> QED
    BY ONLY <1>5, <1>10, <1>11 DEF OneAhead

LEMMA PendTotal ==
  ASSUME NEW t, NEW ch, NEW i, NEW b, NEW l, NEW q, Pend(t, ch, i, b, l, q)
  PROVE  Total(t) \in Nat /\ Len(t.s.moved) \in Nat /\ Len(ch) \in Nat /\ i \in 0..Len(ch) /\ t \in Turns
         /\ Base(t.s, ch, b, l, q)
  <1>1. Queue(t, ch, i, b, l, q) /\ At(t.s.ofd, ch, i)
    BY DEF Pend
  <1>2. t \in Turns /\ Base(t.s, ch, b, l, q)
    BY ONLY <1>1 DEF Queue
  <1>3. Stage(t.s) /\ Chain(ch, t.s.fat, t.s.ofd.strtcl)
    BY ONLY <1>2 DEF Base
  <1>4. Len(t.s.moved) \in Nat /\ Len(ch) \in Nat
    BY ONLY <1>3, StageNumbers, ChainIs
  <1>5. t.nrecs \in Nat /\ recsiz \in Nat
    BY ONLY <1>2, Sizes DEF Turns
  <1>6. t.nrecs * recsiz \in Nat
    BY ONLY <1>5
  <1>7. Total(t) \in Nat
    BY ONLY <1>4, <1>6 DEF Total
  <1>8. i \in 0..Len(ch)
    BY ONLY <1>1 DEF At
  <1> QED
    BY ONLY <1>2, <1>4, <1>7, <1>8

\* one cluster more
Turned(v, t, ch, i, b, l, q, wrt, left) ==
  \E ch2 :
    /\ Longer(ch2, ch)
    /\ \/ left # 0 /\ Pend(v, ch2, i + 1, b, l, q) /\ Total(v) = Total(t) + clsizb
       \/ left = 0 /\ Rests(v, ch2, i + 1, b, l, q) /\ Len(v.s.moved) = Total(t) + clsizb
       \/ Stops(v, ch2, i, b, l, q, wrt) /\ Len(v.s.moved) = Total(t)
LEMMA ClusterIs ==
  ASSUME NEW t, NEW ch, NEW i, NEW b, NEW l, NEW q, Pend(t, ch, i, b, l, q),
         NEW wrt, NEW left, NEW v, v = Cluster(t, wrt, left)
  PROVE  Turned(v, t, ch, i, b, l, q, wrt, left)
  <1> DEFINE n == nextcl(t.s, wrt)
             u == [t EXCEPT !.s = n.s]
             goes == IF n.ok /\ n.s.ofd.currec = t.last + t.nrecs
                     THEN [u EXCEPT !.nrecs = @ + clsiz]
                     ELSE mulio(u, wrt, n.ok)
  <1>1. /\ Queue(t, ch, i, b, l, q) /\ At(t.s.ofd, ch, i) /\ t.eof = FALSE
        /\ t.nrecs = 0 => t.s.ofd.curbyt = 0 \/ (i > 0 /\ t.s.ofd.curbyt = clsizb)
        /\ t.nrecs > 0 => i > 0 /\ t.s.ofd.curbyt = 0
    BY DEF Pend
  <1>2. t \in Turns /\ Base(t.s, ch, b, l, q) /\ Len(ch) \in Nat /\ i \in 0..Len(ch)
    BY PendTotal
  <1>3. v = IF left = 0 /\ n.ok THEN mulio(goes, wrt, TRUE) ELSE goes
    BY <1>1 DEF Cluster
  <1>4. /\ ~n.ok => n.s = t.s /\ i = Len(ch) /\ (wrt => Spare(t.s.fat) = {})
        /\ n.ok => \E ch2 : Longer(ch2, ch) /\ Comes(n.s, t.s, ch2, i, b, l, q)
    BY ONLY <1>1, <1>2, nextclIs DEF n
  <1>a. n.ok = TRUE \/ n.ok = FALSE
    BY DEF n, nextcl
  <1> HIDE DEF n
  <1>5. CASE ~n.ok
    <2>1. u = t
      <3>1. n.s = t.s
        BY ONLY <1>4, <1>5
      <3> QED
        BY ONLY <1>2, <3>1 DEF Turns
    <2>2. v = mulio(t, wrt, FALSE)
      BY <1>3, <1>5, <1>a, <2>1
    <2>3. v \in Turns /\ Settles(v.s, t, ch, i, b, l, q) /\ v.eof = TRUE
      BY ONLY <1>1, <2>2, mulioIs
    <2>4. /\ Base(v.s, ch, b, l, q) /\ v.s.ofd.bytnum = i * clsizb /\ v.s.fat = t.s.fat
          /\ v.s.ofd.curcl = t.s.ofd.curcl /\ v.s.ofd.currec = t.s.ofd.currec
          /\ v.s.ofd.curbyt = t.s.ofd.curbyt /\ Len(v.s.moved) = Total(t)
      BY ONLY <2>3 DEF Settles
    <2>5. At(v.s.ofd, ch, i)
      BY ONLY <1>1, <2>4 DEF At
    <2>6. Edge(v.s.ofd, i)
      <3>1. t.nrecs = 0 \/ t.nrecs > 0
        BY ONLY <1>2 DEF Turns
      <3> QED
        BY ONLY <1>1, <2>4, <3>1 DEF Edge
    <2>7. Stops(v, ch, i, b, l, q, wrt)
      BY ONLY <1>4, <1>5, <2>3, <2>4, <2>5, <2>6 DEF Stops
    <2>8. Longer(ch, ch)
      BY ONLY <1>2, LongerSame
    <2> QED
      BY ONLY <2>4, <2>7, <2>8 DEF Turned
  <1>6. CASE n.ok
    <2>1. PICK ch2 : Longer(ch2, ch) /\ Comes(n.s, t.s, ch2, i, b, l, q)
      BY ONLY <1>4, <1>6
    <2>2. /\ Ahead(u, ch2, i, b, l, q) /\ Total(u) = Total(t) /\ u.eof = FALSE
          /\ u.last = t.last /\ u.nrecs = t.nrecs /\ u.s = n.s
      <3>1. u = Onward(t, n.s)
        BY DEF Onward
      <3> HIDE DEF u
      <3> QED
        <4>1. OneAhead(u, t, n.s, ch2, i, b, l, q)
          BY ONLY <2>1, <3>1, Pend(t, ch, i, b, l, q), GoesAhead
        <4> QED
          BY ONLY <4>1 DEF OneAhead
    <2>3. goes = IF u.s.ofd.currec = u.last + u.nrecs
                 THEN [u EXCEPT !.nrecs = @ + clsiz] ELSE mulio(u, wrt, TRUE)
      <3> HIDE DEF u
      <3> QED
        BY <1>6, <1>a, <2>2
    <2> HIDE DEF u, goes
    <2>4. Pend(goes, ch2, i + 1, b, l, q) /\ Total(goes) = Total(t) + clsizb
      <3>1. CASE u.s.ofd.currec = u.last + u.nrecs
        <4>1. goes = [u EXCEPT !.nrecs = @ + clsiz]
          BY ONLY <2>3, <3>1
        <4> QED
          BY ONLY <2>2, <3>1, <4>1, PendMore
      <3>2. CASE u.s.ofd.currec # u.last + u.nrecs
        <4>1. goes = mulio(u, wrt, TRUE)
          BY ONLY <2>3, <3>2
        <4> QED
          BY ONLY <2>2, <4>1, PendFresh
      <3> QED
        BY ONLY <3>1, <3>2
    <2>5. CASE left # 0
      <3>1. v = goes
        BY ONLY <1>3, <2>5
      <3> QED
        BY ONLY <2>1, <2>4, <2>5, <3>1 DEF Turned
    <2>6. CASE left = 0
      <3>1. v = mulio(goes, wrt, TRUE)
        BY ONLY <1>3, <1>6, <2>6
      <3>2. Queue(goes, ch2, i + 1, b, l, q) /\ At(goes.s.ofd, ch2, i + 1)
            /\ (goes.nrecs = 0 => goes.s.ofd.curbyt = 0 \/ (i + 1 > 0 /\ goes.s.ofd.curbyt = clsizb))
            /\ (goes.nrecs > 0 => i + 1 > 0 /\ goes.s.ofd.curbyt = 0)
        BY ONLY <2>4 DEF Pend
      <3>3. v \in Turns /\ Settles(v.s, goes, ch2, i + 1, b, l, q) /\ v.eof = FALSE
        BY ONLY <3>1, <3>2, mulioIs
      <3>4. /\ Base(v.s, ch2, b, l, q) /\ v.s.ofd.bytnum = (i + 1) * clsizb
            /\ v.s.ofd.curcl = goes.s.ofd.curcl /\ v.s.ofd.currec = goes.s.ofd.currec
            /\ v.s.ofd.curbyt = goes.s.ofd.curbyt /\ Len(v.s.moved) = Total(goes)
        BY ONLY <3>3 DEF Settles
      <3>5. At(v.s.ofd, ch2, i + 1)
        BY ONLY <3>2, <3>4 DEF At
      <3>6. Edge(v.s.ofd, i + 1)
        <4>0. goes \in Turns
          BY ONLY <3>2 DEF Queue
        <4>1. goes.nrecs = 0 \/ goes.nrecs > 0
          BY ONLY <4>0 DEF Turns
        <4> QED
          BY ONLY <3>2, <3>4, <4>1 DEF Edge
      <3>7. Rests(v, ch2, i + 1, b, l, q)
        BY ONLY <3>3, <3>4, <3>5, <3>6 DEF Rests
      <3>8. Len(v.s.moved) = Total(t) + clsizb
        BY ONLY <2>4, <3>4
      <3> QED
        BY ONLY <2>1, <2>6, <3>7, <3>8 DEF Turned
    <2> QED
      BY ONLY <2>5, <2>6
  <1> QED
    BY ONLY <1>5, <1>6

\* the turns of the loop, one after the other
First(s) == [s |-> s, last |-> 0, nrecs |-> 0, eof |-> FALSE]
Loop(f, s, wrt, num) ==
  f = [k \in 0..num |-> IF k = 0 THEN First(s) ELSE Cluster(f[k - 1], wrt, num - k)]
\* the recursion of WholeClusters has a solution
LEMMA LoopExists ==
  ASSUME NEW s, NEW wrt, NEW num, num \in Nat
  PROVE  \E f : Loop(f, s, wrt, num)
  <1> DEFINE T(k, x) == Cluster(x, wrt, num - k)
             Upto(n, f) == f = [k \in 0..n |-> IF k = 0 THEN First(s) ELSE T(k, f[k - 1])]
             S == {n \in Nat : \E f : Upto(n, f)}
  <1>1. 0 \in S
    <2> DEFINE g == [k \in 0..0 |-> First(s)]
    <2>1. g = [k \in 0..0 |-> IF k = 0 THEN First(s) ELSE T(k, g[k - 1])]
      OBVIOUS
    <2> QED
      BY <2>1
  <1>2. ASSUME NEW n \in S PROVE n + 1 \in S
    <2>1. PICK f : Upto(n, f)
      OBVIOUS
    <2> HIDE DEF T
    <2>2. \A k \in 0..n : f[k] = IF k = 0 THEN First(s) ELSE T(k, f[k - 1])
      BY <2>1
    <2> DEFINE g == [k \in 0..n + 1 |-> IF k <= n THEN f[k] ELSE T(n + 1, f[n])]
    <2>3. \A k \in 0..n + 1 : g[k] = IF k = 0 THEN First(s) ELSE T(k, g[k - 1])
      <3> TAKE k \in 0..n + 1
      <3>1. CASE k = 0
        <4>1. g[0] = f[0] /\ 0 \in 0..n
          OBVIOUS
        <4> HIDE DEF g
        <4> QED
          BY <2>2, <3>1, <4>1
      <3>2. CASE k > 0 /\ k <= n
        <4>1. g[k] = f[k] /\ g[k - 1] = f[k - 1] /\ k \in 0..n
          BY <3>2
        <4> HIDE DEF g
        <4> QED
          BY <2>2, <3>2, <4>1
      <3>3. CASE k = n + 1
        <4>1. g[k] = T(n + 1, f[n]) /\ g[k - 1] = f[n]
          BY <3>3
        <4> HIDE DEF g
        <4> QED
          BY <3>3, <4>1
      <3> QED
        BY <3>1, <3>2, <3>3
    <2>4. g = [k \in 0..n + 1 |-> IF k = 0 THEN First(s) ELSE T(k, g[k - 1])]
      <3>1. g = [k \in 0..n + 1 |-> g[k]]
        OBVIOUS
      <3> HIDE DEF g
      <3> QED
        BY <2>3, <3>1
    <2>5. Upto(n + 1, g) /\ n + 1 \in Nat
      BY <2>4
    <2> HIDE DEF g, Upto
    <2> QED
      BY <2>5
  <1>3. num \in S
    <2>1. S \in SUBSET Nat /\ \A n \in 0..num : n \in S /\ n < num => n + 1 \in S
      BY <1>2
    <2> HIDE DEF S
    <2>2. 0..num \subseteq S
      BY <1>1, <2>1, Upward
    <2> QED
      BY <2>2
  <1>4. PICK f : Upto(num, f)
    BY <1>3
  <1> QED
    BY <1>4 DEF Loop
\* and WholeClusters is the end of it
LEMMA LoopIs ==
  ASSUME NEW s, NEW wrt, NEW num, num \in Nat
  PROVE  \E f : /\ WholeClusters(s, wrt, num) = f[num] /\ f[0] = First(s)
                /\ \A k \in 0..num - 1 : f[k + 1] = Cluster(f[k], wrt, num - (k + 1))
  <1> DEFINE g == CHOOSE f : Loop(f, s, wrt, num)
  <1>1. Loop(g, s, wrt, num)
    BY LoopExists
  <1>2. WholeClusters(s, wrt, num) = g[num]
    BY DEF WholeClusters, Loop, First
  <1> HIDE DEF g
  <1>3. \A k \in 0..num : g[k] = IF k = 0 THEN First(s) ELSE Cluster(g[k - 1], wrt, num - k)
    BY <1>1 DEF Loop
  <1>4. g[0] = First(s)
    BY <1>3
  <1>5. ASSUME NEW k \in 0..num - 1
        PROVE  g[k + 1] = Cluster(g[k], wrt, num - (k + 1))
    <2>1. k + 1 \in 0..num /\ k + 1 # 0 /\ (k + 1) - 1 = k
      OBVIOUS
    <2> QED
      BY ONLY <1>3, <2>1
  <1> QED
    BY <1>2, <1>4, <1>5

LEMMA OnEdge ==
  ASSUME NEW s, NEW ch, NEW i, NEW d, NEW b, NEW l, NEW q, On(s, ch, i, d, b, l, q),
         i = 0 \/ d = clsizb
  PROVE  Edge(s.ofd, i)
  <1>1. /\ Len(ch) \in Nat /\ i \in 0..Len(ch) /\ d \in 0..clsizb /\ d \in Nat /\ (i = 0 <=> d = 0)
        /\ s.ofd.curbyt = d \/ (d = clsizb /\ s.ofd.curbyt = 0)
        /\ s.ofd.bytnum = Byte(i, d)
    BY OnIs
  <1>2. clsizb \in Nat /\ clsizb > 0
    BY Sizes
  <1>3. CASE i = 0
    <2>1. s.ofd.curbyt = 0 /\ s.ofd.bytnum = 0
      BY ONLY <1>1, <1>2, <1>3 DEF Byte
    <2>2. 0 * clsizb = 0
      BY ONLY <1>2
    <2> QED
      BY ONLY <1>3, <2>1, <2>2 DEF Edge
  <1>4. CASE i # 0
    <2>1. d = clsizb /\ i > 0 /\ i - 1 \in Nat /\ (i - 1) + 1 = i
      BY ONLY <1>1, <1>4, i = 0 \/ d = clsizb
    <2>2. i * clsizb = (i - 1) * clsizb + clsizb
      BY ONLY <2>1, NextBytes
    <2>3. s.ofd.bytnum = (i - 1) * clsizb + d
      BY ONLY <1>1, <1>4 DEF Byte
    <2> QED
      BY ONLY <1>1, <2>1, <2>2, <2>3 DEF Edge
  <1> QED
    BY ONLY <1>3, <1>4
LEMMA EdgeOn ==
  ASSUME NEW s, NEW ch, NEW i, NEW b, NEW l, NEW q, Base(s, ch, b, l, q), At(s.ofd, ch, i),
         Edge(s.ofd, i)
  PROVE  \E d : On(s, ch, i, d, b, l, q) /\ (i = 0 \/ d = clsizb)
  <1>1. clsizb \in Nat /\ clsizb > 0
    BY Sizes
  <1>2. Len(ch) \in Nat /\ i \in 0..Len(ch)
    <2>1. Chain(ch, s.fat, s.ofd.strtcl)
      BY DEF Base
    <2> QED
      BY ONLY <2>1, At(s.ofd, ch, i), ChainIs DEF At
  <1>3. s.ofd.bytnum = i * clsizb /\ (s.ofd.curbyt = 0 \/ (i > 0 /\ s.ofd.curbyt = clsizb))
    BY DEF Edge
  <1>4. CASE i = 0
    <2>1. 0 * clsizb = 0
      BY ONLY <1>1
    <2>2. Behind(s.ofd, i, 0)
      BY ONLY <1>1, <1>3, <1>4, <2>1 DEF Behind, Byte
    <2> QED
      BY ONLY <1>4, <2>2, Base(s, ch, b, l, q), At(s.ofd, ch, i) DEF On
  <1>5. CASE i # 0
    <2>1. i - 1 \in Nat /\ (i - 1) + 1 = i
      BY ONLY <1>2, <1>5
    <2>2. i * clsizb = (i - 1) * clsizb + clsizb
      BY ONLY <2>1, NextBytes
    <2>3. s.ofd.bytnum = Byte(i, clsizb)
      BY ONLY <1>3, <1>5, <2>2 DEF Byte
    <2>4. Behind(s.ofd, i, clsizb)
      BY ONLY <1>1, <1>3, <1>5, <2>3 DEF Behind
    <2> QED
      BY ONLY <2>4, Base(s, ch, b, l, q), At(s.ofd, ch, i) DEF On
  <1> QED
    BY ONLY <1>4, <1>5

\* after k of num turns, which began with m bytes moved
Running(x, ch, k, num, m, b, l, q, wrt) ==
  \E ch2, i :
    /\ Longer(ch2, ch) /\ Len(ch2) \in Nat
    /\ \/ k < num /\ Pend(x, ch2, i, b, l, q) /\ Total(x) = m + k * clsizb
       \/ k = num /\ Rests(x, ch2, i, b, l, q) /\ Len(x.s.moved) = m + num * clsizb
       \/ Stops(x, ch2, i, b, l, q, wrt) /\ Len(x.s.moved) <= m + num * clsizb

LEMMA RunsOn ==
  ASSUME NEW ch, Len(ch) \in Nat, NEW num, num \in Nat, NEW m, m \in Nat, NEW b, NEW l, NEW q, NEW wrt,
         NEW k, k \in 0..num - 1, NEW x, Running(x, ch, k, num, m, b, l, q, wrt),
         NEW v, v = Cluster(x, wrt, num - (k + 1))
  PROVE  Running(v, ch, k + 1, num, m, b, l, q, wrt)
  <1>1. PICK ch2, i :
          /\ Longer(ch2, ch) /\ Len(ch2) \in Nat
          /\ \/ k < num /\ Pend(x, ch2, i, b, l, q) /\ Total(x) = m + k * clsizb
             \/ k = num /\ Rests(x, ch2, i, b, l, q) /\ Len(x.s.moved) = m + num * clsizb
             \/ Stops(x, ch2, i, b, l, q, wrt) /\ Len(x.s.moved) <= m + num * clsizb
    BY DEF Running
  <1>2. k \in Nat /\ k + 1 <= num /\ ~(k = num) /\ (k + 1) * clsizb = k * clsizb + clsizb
        /\ k * clsizb \in Nat /\ clsizb \in Nat
    <2>1. k \in Nat /\ k + 1 <= num /\ ~(k = num)
      BY ONLY k \in 0..num - 1, num \in Nat
    <2> QED
      BY ONLY <2>1, NextBytes
  <1>3. CASE Pend(x, ch2, i, b, l, q) /\ Total(x) = m + k * clsizb
    <2> DEFINE left == num - (k + 1)
    <2>0. Turned(v, x, ch2, i, b, l, q, wrt, left)
      BY ONLY <1>3, v = Cluster(x, wrt, num - (k + 1)), ClusterIs
    <2>1. left # 0 => k + 1 < num
      BY ONLY <1>2, num \in Nat
    <2>2. left = 0 => k + 1 = num
      BY ONLY <1>2, num \in Nat
    <2> HIDE DEF left
    <2>3. PICK ch3 :
            /\ Longer(ch3, ch2)
            /\ \/ left # 0 /\ Pend(v, ch3, i + 1, b, l, q) /\ Total(v) = Total(x) + clsizb
               \/ left = 0 /\ Rests(v, ch3, i + 1, b, l, q) /\ Len(v.s.moved) = Total(x) + clsizb
               \/ Stops(v, ch3, i, b, l, q, wrt) /\ Len(v.s.moved) = Total(x)
      BY ONLY <2>0 DEF Turned
    <2>4. Len(ch3) \in Nat
      <3>1. \E i2 : Pend(v, ch3, i2, b, l, q) \/ Rests(v, ch3, i2, b, l, q) \/ Stops(v, ch3, i2, b, l, q, wrt)
        BY ONLY <2>3
      <3>2. Base(v.s, ch3, b, l, q)
        BY ONLY <3>1, PendTotal DEF Rests, Stops
      <3>3. Chain(ch3, v.s.fat, v.s.ofd.strtcl)
        BY ONLY <3>2 DEF Base
      <3> QED
        BY ONLY <3>3, ChainIs
    <2>5. Longer(ch3, ch)
      BY ONLY <1>1, <2>3, <2>4, Len(ch) \in Nat, LongerStill
    <2>6. Total(x) + clsizb = m + (k + 1) * clsizb
      <3>1. ASSUME NEW y \in Nat, NEW z \in Nat PROVE (m + y) + z = m + (y + z)
        BY m \in Nat
      <3> QED
        BY ONLY <1>2, <1>3, <3>1
    <2>7. CASE left # 0 /\ Pend(v, ch3, i + 1, b, l, q) /\ Total(v) = Total(x) + clsizb
      <3>1. k + 1 < num
        BY ONLY <2>1, <2>7
      <3> QED
        BY ONLY <2>4, <2>5, <2>6, <2>7, <3>1 DEF Running
    <2>8. CASE left = 0 /\ Rests(v, ch3, i + 1, b, l, q) /\ Len(v.s.moved) = Total(x) + clsizb
      <3>1. k + 1 = num
        BY ONLY <2>2, <2>8
      <3>2. Len(v.s.moved) = m + num * clsizb
        BY ONLY <2>6, <2>8, <3>1
      <3> QED
        BY ONLY <2>4, <2>5, <2>8, <3>1, <3>2 DEF Running
    <2>9. CASE Stops(v, ch3, i, b, l, q, wrt) /\ Len(v.s.moved) = Total(x)
      <3>1. k * clsizb <= num * clsizb /\ num * clsizb \in Nat
        <4>1. k <= num
          BY ONLY <1>2, num \in Nat
        <4> QED
          BY ONLY <1>2, <4>1, num \in Nat, Wider
      <3> DEFINE y == k * clsizb
                 z == num * clsizb
      <3>2. y \in Nat /\ z \in Nat /\ y <= z /\ Len(v.s.moved) = m + y
        BY ONLY <1>2, <1>3, <2>9, <3>1
      <3> HIDE DEF y, z
      <3>3. Len(v.s.moved) <= m + z
        BY ONLY <3>2, m \in Nat
      <3>4. Len(v.s.moved) <= m + num * clsizb
        BY ONLY <3>3 DEF z
      <3> QED
        BY ONLY <2>4, <2>5, <2>9, <3>4 DEF Running
    <2> QED
      BY ONLY <2>3, <2>7, <2>8, <2>9
  <1>4. CASE Stops(x, ch2, i, b, l, q, wrt) /\ Len(x.s.moved) <= m + num * clsizb
    <2>1. v = x
      <3>1. x.eof = TRUE
        BY ONLY <1>4 DEF Stops
      <3> QED
        BY <3>1 DEF Cluster
    <2> QED
      BY ONLY <1>1, <1>4, <2>1 DEF Running
  <1> QED
    BY ONLY <1>1, <1>2, <1>3, <1>4

\* all of them, or as many as there are
LEMMA WholeClustersIs ==
  ASSUME NEW s, NEW ch, NEW i, NEW d, NEW b, NEW l, NEW q, On(s, ch, i, d, b, l, q),
         i = 0 \/ d = clsizb, NEW wrt, NEW num, num \in Nat, num > 0,
         NEW t, t = WholeClusters(s, wrt, num)
  PROVE  Running(t, ch, num, num, Len(s.moved), b, l, q, wrt)
  <1>1. PICK f : /\ WholeClusters(s, wrt, num) = f[num] /\ f[0] = First(s)
                 /\ \A k \in 0..num - 1 : f[k + 1] = Cluster(f[k], wrt, num - (k + 1))
    BY LoopIs
  <1>2. /\ Base(s, ch, b, l, q) /\ At(s.ofd, ch, i) /\ Len(ch) \in Nat /\ Stage(s)
        /\ Len(s.moved) \in Nat /\ s.ofd.bytnum \in Nat
    BY OnIs
  <1>3. Edge(s.ofd, i)
    BY OnEdge
  <1> DEFINE m == Len(s.moved)
             S == {k \in 0..num : Running(f[k], ch, k, num, m, b, l, q, wrt)}
  <1>4. 0 \in S
    <2>1. First(s) \in Turns
      BY ONLY <1>2, 0 \in Nat, FALSE \in BOOLEAN DEF First, Turns, Stage
    <2>2. /\ First(s).s = s /\ First(s).nrecs = 0 /\ First(s).last = 0 /\ First(s).eof = FALSE
      BY DEF First
    <2>3. recsiz \in Nat /\ clsizb \in Nat
      BY Sizes
    <2>4. 0 * recsiz = 0 /\ 0 * clsizb = 0
      BY ONLY <2>3
    <2>5. s.ofd.bytnum + 0 * recsiz = i * clsizb
      BY ONLY <1>2, <1>3, <2>4 DEF Edge
    <2>6. ~(0 > 0)
      OBVIOUS
    <2>7. Queue(First(s), ch, i, b, l, q)
      BY ONLY <1>2, <2>1, <2>2, <2>5, <2>6 DEF Queue
    <2>8. Pend(First(s), ch, i, b, l, q)
      BY ONLY <1>2, <1>3, <2>2, <2>6, <2>7 DEF Pend, Edge
    <2>9. Total(First(s)) = m + 0 * clsizb
      BY ONLY <2>2, <2>4 DEF Total, m
    <2>10. Longer(ch, ch)
      BY ONLY <1>2, LongerSame
    <2>11. Running(First(s), ch, 0, num, m, b, l, q, wrt)
      BY ONLY <1>2, <2>8, <2>9, <2>10, num > 0 DEF Running
    <2> HIDE DEF m
    <2>12. 0 \in 0..num
      OBVIOUS
    <2> QED
      BY ONLY <1>1, <2>11, <2>12 DEF S
  <1>5. ASSUME NEW k, k \in 0..num, k \in S, k < num PROVE k + 1 \in S
    <2>1. k \in 0..num - 1 /\ k + 1 \in 0..num
      BY ONLY <1>5, num \in Nat
    <2>2. f[k + 1] = Cluster(f[k], wrt, num - (k + 1))
      BY ONLY <1>1, <2>1
    <2>3. Running(f[k], ch, k, num, m, b, l, q, wrt)
      BY ONLY <1>5 DEF S
    <2>4. m \in Nat
      BY ONLY <1>2 DEF m
    <2> HIDE DEF m
    <2>5. Running(f[k + 1], ch, k + 1, num, m, b, l, q, wrt)
      BY ONLY <1>2, <2>1, <2>2, <2>3, <2>4, num \in Nat, RunsOn
    <2> QED
      BY ONLY <2>1, <2>5 DEF S
  <1>6. S \in SUBSET Nat /\ \A k \in 0..num : k \in S /\ k < num => k + 1 \in S
    <2>1. S \subseteq 0..num /\ 0..num \subseteq Nat
      BY DEF S
    <2> HIDE DEF S
    <2> QED
      BY ONLY <1>5, <2>1
  <1> HIDE DEF S
  <1>7. num \in S
    <2>1. 0..num \subseteq S
      BY <1>4, <1>6, Upward
    <2> QED
      BY <2>1
  <1>8. Running(f[num], ch, num, num, m, b, l, q, wrt)
    BY ONLY <1>7 DEF S
  <1> QED
    BY <1>1, <1>8

-----------------------------------------------------------------------------
(* What is left of a request.                                               *)

\* at the start of the next cluster
LEMMA ForeStart ==
  ASSUME NEW s, NEW i, i \in Nat, Edge(s.ofd, i), NEW u, NEW ch, NEW b, NEW l, NEW q,
         Comes(u, s, ch, i, b, l, q)
  PROVE  Fore(u, ch, i + 1, 0, b, l, q) /\ u.moved = s.moved
  <1>1. /\ Base(u, ch, b, l, q) /\ At(u.ofd, ch, i + 1) /\ u.ofd.curbyt = 0
        /\ u.ofd.bytnum = s.ofd.bytnum /\ u.moved = s.moved
    BY DEF Comes
  <1>2. s.ofd.bytnum = i * clsizb
    BY DEF Edge
  <1>3. i * clsizb = ((i + 1) - 1) * clsizb + 0
    <2>1. i * clsizb \in Nat
      BY NextBytes
    <2>2. (i + 1) - 1 = i
      BY ONLY i \in Nat
    <2> QED
      BY ONLY <2>1, <2>2
  <1>4. 0 \in 0..clsizb - 1 /\ i + 1 > 0
    BY Sizes
  <1> QED
    BY ONLY <1>1, <1>2, <1>3, <1>4 DEF Fore

\* a turn from which the request goes on, at byte d of the i-th cluster
GoesOn(t, ch, i, d, b, l, q) == t \in Turns /\ t.eof = FALSE /\ On(t.s, ch, i, d, b, l, q)

LEMMA TailRecordsIs ==
  ASSUME NEW t, NEW ch, NEW i, NEW d, NEW b, NEW l, NEW q, GoesOn(t, ch, i, d, b, l, q),
         NEW wrt, NEW n, n \in Nat, n < clsiz, n = 0 \/ i = 0 \/ d = clsizb,
         NEW r, r = TailRecords(t, wrt, n)
  PROVE  \E ch2, i2, d2 :
           /\ Longer(ch2, ch) /\ Len(ch2) \in Nat
           /\ \/ /\ GoesOn(r, ch2, i2, d2, b, l, q)
                 /\ Len(r.s.moved) = Len(t.s.moved) + n * recsiz
                 /\ r.s = t.s \/ r.s.ofd.curbyt % recsiz = 0
              \/ Stops(r, ch2, i2, b, l, q, wrt) /\ Len(r.s.moved) = Len(t.s.moved)
  <1> DEFINE x == nextcl(t.s, wrt)
             v == addit(x.s, n * recsiz, TRUE)
             u == usrio(v, wrt, n, x.s.ofd.currec)
  <1>1. t \in Turns /\ t.eof = FALSE /\ On(t.s, ch, i, d, b, l, q)
    BY DEF GoesOn
  <1>2. /\ Base(t.s, ch, b, l, q) /\ At(t.s.ofd, ch, i) /\ Len(ch) \in Nat /\ i \in 0..Len(ch)
        /\ Len(t.s.moved) \in Nat /\ i \in Nat
    <2>1. /\ Base(t.s, ch, b, l, q) /\ At(t.s.ofd, ch, i) /\ Len(ch) \in Nat /\ i \in 0..Len(ch)
          /\ Len(t.s.moved) \in Nat
      BY ONLY <1>1, OnIs
    <2> QED
      BY ONLY <2>1
  <1>3. recsiz \in Nat /\ clsiz \in Nat /\ clsizb \in Nat /\ recsiz > 0
    BY Sizes
  <1>4. Longer(ch, ch)
    BY ONLY <1>2, LongerSame
  <1>5. CASE n = 0
    <2>1. r = t
      BY <1>5 DEF TailRecords
    <2>2. Len(r.s.moved) = Len(t.s.moved) + n * recsiz
      <3>1. n * recsiz = 0
        BY ONLY <1>3, <1>5
      <3> QED
        BY ONLY <1>2, <2>1, <3>1
    <2> QED
      BY ONLY <1>2, <1>4, <2>1, <2>2, GoesOn(t, ch, i, d, b, l, q)
  <1>6. CASE n # 0
    <2>1. Edge(t.s.ofd, i)
      BY ONLY <1>1, <1>6, n = 0 \/ i = 0 \/ d = clsizb, OnEdge
    <2>2. /\ ~x.ok => x.s = t.s /\ i = Len(ch) /\ (wrt => Spare(t.s.fat) = {})
          /\ x.ok => \E ch2 : Longer(ch2, ch) /\ Comes(x.s, t.s, ch2, i, b, l, q)
      BY ONLY <1>2, nextclIs
    <2>3. r = IF ~x.ok THEN [t EXCEPT !.eof = TRUE] ELSE Onward(t, u)
      BY <1>1, <1>6 DEF TailRecords, Onward
    <2> HIDE DEF x
    <2>4. CASE ~x.ok
      <3>1. r = [t EXCEPT !.eof = TRUE]
        BY ONLY <2>3, <2>4
      <3>2. r \in Turns /\ r.eof = TRUE /\ r.s = t.s
        BY ONLY <1>1, <3>1 DEF Turns
      <3>3. Stops(r, ch, i, b, l, q, wrt)
        BY ONLY <1>2, <2>1, <2>2, <2>4, <3>2 DEF Stops
      <3> QED
        BY ONLY <1>2, <1>4, <3>2, <3>3
    <2>5. CASE x.ok
      <3>1. PICK ch2 : Longer(ch2, ch) /\ Comes(x.s, t.s, ch2, i, b, l, q)
        BY ONLY <2>2, <2>5
      <3> DEFINE s == x.s
      <3>2. Fore(s, ch2, i + 1, 0, b, l, q) /\ s.moved = t.s.moved
        BY ONLY <1>2, <2>1, <3>1, ForeStart DEF s
      <3>3. u = usrio(v, wrt, n, s.ofd.currec) /\ v = addit(s, n * recsiz, TRUE) /\ r = Onward(t, u)
        BY ONLY <2>3, <2>5 DEF s, u, v
      <3> HIDE DEF s, v, u
      <3>4. Base(s, ch2, b, l, q) /\ At(s.ofd, ch2, i + 1)
        BY ONLY <3>2 DEF Fore
      <3>5. Stage(s) /\ Held(s) /\ Chain(ch2, s.fat, s.ofd.strtcl)
        BY ONLY <3>4 DEF Base
      <3>6. Len(ch2) \in Nat /\ i \in 0..Len(ch2) - 1
        <4>1. Len(ch2) \in Nat
          BY ONLY <3>5, ChainIs
        <4>2. i + 1 \in 0..Len(ch2)
          BY ONLY <3>4 DEF At
        <4> QED
          BY ONLY <1>2, <4>1, <4>2
      <3> DEFINE c == s.ofd.currec
      <3>7. /\ c \in Nat /\ c..c + clsiz - 1 \subseteq Records /\ clsiz * recsiz = clsizb
            /\ c * recsiz = ch2[i + 1] * clsizb /\ c * recsiz \in Int
        BY ONLY <3>4, <3>5, <3>6, WholeCluster
      <3>8. c..c + n - 1 \subseteq Records
        <4> HIDE DEF c
        <4>1. c..c + n - 1 \subseteq c..c + clsiz - 1
          BY ONLY <1>3, <3>7, n \in Nat, n < clsiz
        <4> QED
          BY ONLY <3>7, <4>1
      <3>9. n * recsiz \in Nat /\ n * recsiz >= 1 /\ n * recsiz <= clsizb
        <4>1. n * recsiz <= clsiz * recsiz /\ 1 * recsiz <= n * recsiz /\ n * recsiz \in Nat
          <5>1. n <= clsiz /\ 1 <= n /\ 1 \in Nat
            BY ONLY <1>3, <1>6, n \in Nat, n < clsiz
          <5> QED
            BY ONLY <1>3, <5>1, n \in Nat, Wider
        <4>2. 1 * recsiz = recsiz
          BY ONLY <1>3
        <4> DEFINE y == n * recsiz
        <4>3. y \in Nat /\ recsiz <= y /\ y <= clsizb
          BY ONLY <3>7, <4>1, <4>2
        <4> HIDE DEF y
        <4>4. y \in Nat /\ y >= 1 /\ y <= clsizb
          BY ONLY <1>3, <4>3
        <4> QED
          BY ONLY <4>4 DEF y
      <3> DEFINE y == n * recsiz
                 a == c * recsiz
      <3>10. Stage(v) /\ Held(v) /\ v.ofd.currec = c
        <4>1. y = IF TRUE THEN y ELSE 0
          OBVIOUS
        <4>2. v = addit(s, y, TRUE) /\ y \in Nat
          BY ONLY <3>3, <3>9
        <4> HIDE DEF y
        <4>3. Stage(v) /\ (Held(s) => Held(v)) /\ Forth(v.ofd, s.ofd, y, y)
          BY ONLY <3>5, <4>1, <4>2, additIs
        <4> QED
          BY ONLY <3>5, <4>3 DEF Forth, c
      <3>11. Copies(u, v, a, y)
        <4> HIDE DEF c
        <4>1. u = usrio(v, wrt, n, c)
          BY ONLY <3>3 DEF c
        <4> QED
          BY ONLY <3>7, <3>8, <3>10, <4>1, n \in Nat, usrioIs DEF a, y
      <3>12. /\ y \in Nat /\ y >= 1 /\ 0 + y <= clsizb /\ a = ch2[i + 1] * clsizb + 0
             /\ v = addit(s, y, TRUE)
        <4>1. a = ch2[i + 1] * clsizb + 0
          BY ONLY <3>7
        <4>2. 0 + y = y
          BY ONLY <3>9
        <4> QED
          BY ONLY <3>3, <3>9, <4>1, <4>2
      <3>13. y % recsiz = 0
        BY ONLY <1>3, n \in Nat, Whole
      <3>14. y = n * recsiz
        OBVIOUS
      <3> HIDE DEF y, a, c
      <3>15. Ran(u, s, a, y, y)
        <4>1. y = IF TRUE THEN y ELSE 0
          OBVIOUS
        <4> QED
          BY ONLY <3>5, <3>11, <3>12, <4>1, RanBefore
      <3>16. /\ On(u, ch2, i + 1, 0 + y, b, l, q) /\ u.ofd.curbyt = 0 + y
             /\ Len(u.moved) = Len(s.moved) + y
        <4> DEFINE e == 0
                   j == i + 1
        <4>1. /\ Fore(s, ch2, j, e, b, l, q) /\ y \in Nat /\ y >= 1 /\ e + y <= clsizb
              /\ a = ch2[j] * clsizb + e /\ Ran(u, s, a, y, y)
          BY ONLY <3>2, <3>12, <3>15 DEF e, j
        <4> HIDE DEF e, j
        <4>2. /\ On(u, ch2, j, e + y, b, l, q) /\ u.ofd.curbyt = e + y
              /\ Len(u.moved) = Len(s.moved) + y
          BY ONLY <4>1, WentThere
        <4> QED
          BY ONLY <4>2 DEF e, j
      <3>17. u \in Stages
        BY ONLY <3>16 DEF On, Base, Stage
      <3>18. r \in Turns /\ r.eof = FALSE /\ r.s = u
        BY ONLY <1>1, <3>3, <3>17 DEF Turns, Onward
      <3>19. GoesOn(r, ch2, i + 1, 0 + y, b, l, q)
        BY ONLY <3>16, <3>18 DEF GoesOn
      <3>20. Len(r.s.moved) = Len(t.s.moved) + n * recsiz
        BY ONLY <3>2, <3>14, <3>16, <3>18
      <3>21. r.s.ofd.curbyt % recsiz = 0
        <4>1. 0 + y = y
          BY ONLY <3>12
        <4> QED
          BY ONLY <3>13, <3>16, <3>18, <4>1
      <3> QED
        BY ONLY <3>1, <3>6, <3>19, <3>20, <3>21
    <2> QED
      BY ONLY <2>4, <2>5
  <1> QED
    BY ONLY <1>5, <1>6

\* the request ends early: with the last cluster there is
Ends(u, ch, i, d, wrt) ==
  i = Len(ch) /\ (i = 0 \/ d = clsizb) /\ (wrt => Spare(u.fat) = {})
\* a call moves all n bytes, or no more than there are
Result(u, ch, n, b, l, q, wrt) ==
  \E ch2, i, d :
    /\ Longer(ch2, ch) /\ Len(ch2) \in Nat /\ On(u, ch2, i, d, b, l, q)
    /\ Len(u.moved) = n \/ (Len(u.moved) <= n /\ Ends(u, ch2, i, d, wrt))

LEMMA Tail0Is ==
  ASSUME NEW t, NEW ch, NEW i, NEW d, NEW b, NEW l, NEW q, GoesOn(t, ch, i, d, b, l, q),
         NEW wrt, NEW n, n \in Nat, n < recsiz, n = 0 \/ t.s.ofd.curbyt % recsiz = 0,
         NEW u, u = Tail0(t, wrt, n)
  PROVE  Result(u, ch, Len(t.s.moved) + n, b, l, q, wrt)
  <1> DEFINE s == t.s
             w == s.ofd.curbyt \div recsiz
             edge == w = 0 \/ w = clsiz
             x == nextcl(s, wrt)
             y == IF edge THEN x ELSE [s |-> s, ok |-> TRUE]
             r == y.s.ofd.currec + (IF edge THEN 0 ELSE w)
             v == Through(y.s, wrt, r, 0, n)
  <1>1. t.eof = FALSE /\ On(s, ch, i, d, b, l, q)
    BY DEF GoesOn
  <1>2. /\ Base(s, ch, b, l, q) /\ At(s.ofd, ch, i) /\ Len(ch) \in Nat /\ i \in 0..Len(ch)
        /\ Len(s.moved) \in Nat /\ Stage(s) /\ Held(s)
        /\ i # 0 => ch[i] \in Clnums /\ s.ofd.currec = ch[i] * clsiz
    BY ONLY <1>1, OnIs
  <1>a. i \in Nat
    BY ONLY <1>2
  <1>3. recsiz \in Nat /\ clsiz \in Nat /\ clsizb \in Nat /\ recsiz > 0 /\ clsiz > 0
    BY Sizes
  <1>b. recsiz <= clsizb /\ clsizb = clsiz * recsiz
    <2>1. clsizb = clsiz * recsiz
      BY <1>3 DEF clsizb
    <2>2. 1 * recsiz <= clsiz * recsiz /\ 1 * recsiz = recsiz
      BY ONLY <1>3, 1 \in Nat, Wider
    <2> QED
      BY ONLY <2>1, <2>2
  <1>4. Longer(ch, ch)
    BY ONLY <1>2, LongerSame
  <1>5. u = IF t.eof \/ n = 0 \/ ~y.ok THEN s ELSE addit(v, n, TRUE)
    BY DEF Tail0
  <1>6. CASE n = 0
    <2>1. u = s
      BY <1>5, <1>6
    <2>2. Len(u.moved) = Len(s.moved) + n
      BY ONLY <1>2, <1>6, <2>1
    <2> QED
      BY ONLY <1>1, <1>2, <1>4, <2>1, <2>2 DEF Result, s
  <1>7. CASE n # 0
    <2>1. /\ w \in 0..clsiz /\ s.ofd.curbyt = w * recsiz
          /\ (w = 0 \/ w = clsiz => i = 0 \/ d = clsizb)
          /\ (w # 0 /\ w # clsiz => d # clsizb /\ s.ofd.curbyt # 0)
      BY ONLY <1>1, <1>7, n = 0 \/ t.s.ofd.curbyt % recsiz = 0, Aligned DEF s, w
    <2>2. 0 \in Nat /\ n >= 1
      BY ONLY <1>7, n \in Nat
    <2>3. CASE edge
      <3>1. Edge(s.ofd, i)
        BY ONLY <1>1, <2>1, <2>3, OnEdge DEF edge
      <3>2. /\ ~x.ok => x.s = s /\ i = Len(ch) /\ (wrt => Spare(s.fat) = {})
            /\ x.ok => \E ch2 : Longer(ch2, ch) /\ Comes(x.s, s, ch2, i, b, l, q)
        BY ONLY <1>2, nextclIs DEF x
      <3>3. y = x /\ r = x.s.ofd.currec + 0
        BY ONLY <2>3 DEF y, r
      <3>4. CASE ~x.ok
        <4>1. u = s
          BY ONLY <1>5, <3>3, <3>4
        <4>2. Ends(u, ch, i, d, wrt)
          BY ONLY <2>1, <2>3, <3>2, <3>4, <4>1 DEF Ends, edge
        <4>3. Len(u.moved) <= Len(t.s.moved) + n
          BY ONLY <1>2, <4>1, n \in Nat DEF s
        <4>4. On(u, ch, i, d, b, l, q)
          BY ONLY <1>1, <4>1
        <4> QED
          BY ONLY <1>2, <1>4, <4>2, <4>3, <4>4 DEF Result
      <3>5. CASE x.ok
        <4>1. PICK ch2 : Longer(ch2, ch) /\ Comes(x.s, s, ch2, i, b, l, q)
          BY ONLY <3>2, <3>5
        <4> DEFINE z == x.s
        <4>2. Fore(z, ch2, i + 1, 0, b, l, q) /\ z.moved = s.moved
          BY ONLY <1>a, <3>1, <4>1, ForeStart DEF z
        <4>3. u = addit(Through(z, wrt, r, 0, n), n, TRUE) /\ r = z.ofd.currec + 0
          BY ONLY <1>1, <1>5, <1>7, <3>3, <3>5 DEF z, v
        <4> HIDE DEF z, r
        <4>4. Base(z, ch2, b, l, q) /\ At(z.ofd, ch2, i + 1)
          BY ONLY <4>2 DEF Fore
        <4>5. Stage(z) /\ Held(z) /\ Chain(ch2, z.fat, z.ofd.strtcl)
          BY ONLY <4>4 DEF Base
        <4>6. Len(ch2) \in Nat /\ i \in 0..Len(ch2) - 1
          <5>1. Len(ch2) \in Nat
            BY ONLY <4>5, ChainIs
          <5>2. i + 1 \in 0..Len(ch2)
            BY ONLY <4>4 DEF At
          <5> QED
            BY ONLY <1>a, <5>1, <5>2
        <4> DEFINE c == z.ofd.currec
        <4>7. /\ c \in Nat /\ c..c + clsiz - 1 \subseteq Records
              /\ c * recsiz = ch2[i + 1] * clsizb /\ c * recsiz \in Int
          BY ONLY <4>4, <4>5, <4>6, WholeCluster
        <4> HIDE DEF c
        <4>8. r = c /\ r \in Records
          <5>1. r = c
            BY ONLY <4>3, <4>7 DEF c
          <5>2. c \in c..c + clsiz - 1
            BY ONLY <1>3, <4>7
          <5> QED
            BY ONLY <4>7, <5>1, <5>2
        <4> DEFINE e == 0
                   j == i + 1
                   a == r * recsiz + e
                   o == Through(z, wrt, r, e, n)
        <4>9. Copies(o, z, a, n)
          BY ONLY <2>2, <4>5, <4>8, n \in Nat, ThroughIs
        <4>10. u = addit(o, n, TRUE)
          BY ONLY <4>3
        <4>11. /\ Fore(z, ch2, j, e, b, l, q) /\ e + n <= clsizb /\ a = ch2[j] * clsizb + e
          <5>1. e + n <= clsizb
            BY ONLY <1>3, <1>b, n \in Nat, n < recsiz
          <5>2. a = ch2[j] * clsizb + e
            BY ONLY <4>7, <4>8
          <5> QED
            BY ONLY <4>2, <5>1, <5>2
        <4> HIDE DEF e, j, a, o
        <4>12. Ran(u, z, a, n, n)
          <5>1. n = IF TRUE THEN n ELSE 0
            OBVIOUS
          <5> QED
            BY ONLY <4>9, <4>10, <5>1, n \in Nat, RanAfter
        <4>13. /\ On(u, ch2, j, e + n, b, l, q) /\ Len(u.moved) = Len(z.moved) + n
          BY ONLY <2>2, <4>11, <4>12, n \in Nat, WentThere
        <4>14. Len(u.moved) = Len(t.s.moved) + n
          BY ONLY <4>2, <4>13 DEF s
        <4> QED
          BY ONLY <4>1, <4>6, <4>13, <4>14 DEF Result
      <3> QED
        BY ONLY <3>4, <3>5
    <2>4. CASE ~edge
      <3>1. w # 0 /\ w # clsiz /\ d # clsizb /\ s.ofd.curbyt # 0
        BY ONLY <2>1, <2>4 DEF edge
      <3>2. Fore(s, ch, i, d, b, l, q) /\ s.ofd.curbyt = d
        BY ONLY <1>1, <3>1, Within
      <3>3. i # 0
        BY ONLY <3>2 DEF Fore
      <3>4. y.s = s /\ y.ok = TRUE
        BY ONLY <2>4 DEF y
      <3>5. r = s.ofd.currec + w
        BY ONLY <2>4, <3>4 DEF r
      <3>6. u = addit(v, n, TRUE) /\ v = Through(s, wrt, r, 0, n)
        BY ONLY <1>1, <1>5, <1>7, <3>4 DEF v
      <3> HIDE DEF v, r, y, w
      <3>7. w \in Nat /\ w + 1 <= clsiz /\ 1 \in Nat
        BY ONLY <1>3, <2>1, <3>1
      <3>8. /\ w + ch[i] * clsiz \in Nat
            /\ (w + ch[i] * clsiz)..(w + ch[i] * clsiz) + 1 - 1 \subseteq Records
            /\ (w + ch[i] * clsiz) * recsiz = ch[i] * clsizb + w * recsiz
            /\ w * recsiz \in Nat /\ w * recsiz + 1 * recsiz <= clsizb
        BY ONLY <1>2, <3>3, <3>7, ClusterRecords
      <3>9. r = w + ch[i] * clsiz
        <4>1. ch[i] * clsiz \in Nat
          <5>1. ch[i] \in Nat
            BY ONLY <1>2, <3>3, Sizes DEF Clnums
          <5> QED
            BY ONLY <1>3, <5>1
        <4>2. ASSUME NEW g \in Nat, NEW h \in Nat PROVE g + h = h + g
          OBVIOUS
        <4> QED
          BY ONLY <1>2, <3>3, <3>5, <3>7, <4>1, <4>2
      <3>10. r \in Records
        <4>1. r \in Nat /\ r..r + 1 - 1 \subseteq Records
          BY ONLY <3>8, <3>9
        <4> QED
          BY ONLY <4>1
      <3> DEFINE e == 0
                 a == r * recsiz + e
      <3>11. a = ch[i] * clsizb + d
        <4>1. d = w * recsiz
          BY ONLY <2>1, <3>2
        <4>2. r * recsiz = ch[i] * clsizb + d
          BY ONLY <3>8, <3>9, <4>1
        <4>3. r \in Nat
          BY ONLY <3>8, <3>9
        <4>4. r * recsiz \in Nat
          BY ONLY <1>3, <4>3
        <4> QED
          BY ONLY <4>2, <4>4
      <3>12. d + n <= clsizb
        <4>1. 1 * recsiz = recsiz
          BY ONLY <1>3
        <4> DEFINE g == w * recsiz
        <4>2. g \in Nat /\ g + recsiz <= clsizb /\ d = g
          BY ONLY <2>1, <3>2, <3>8, <4>1
        <4> HIDE DEF g
        <4> QED
          BY ONLY <1>3, <4>2, n \in Nat, n < recsiz
      <3>13. Copies(v, s, a, n)
        BY ONLY <1>2, <2>2, <3>6, <3>10, n \in Nat, ThroughIs
      <3> HIDE DEF a, e
      <3>14. Ran(u, s, a, n, n)
        <4>1. n = IF TRUE THEN n ELSE 0
          OBVIOUS
        <4> QED
          BY ONLY <3>6, <3>13, <4>1, n \in Nat, RanAfter
      <3> HIDE DEF s
      <3>15. On(u, ch, i, d + n, b, l, q) /\ Len(u.moved) = Len(s.moved) + n
        BY ONLY <2>2, <3>2, <3>11, <3>12, <3>14, n \in Nat, WentThere
      <3> QED
        BY ONLY <1>2, <1>4, <3>15 DEF Result, s
    <2> QED
      BY ONLY <2>3, <2>4
  <1> QED
    BY ONLY <1>6, <1>7

-----------------------------------------------------------------------------
(* xrw, put together.                                                       *)

\* k records: whole clusters of them, and what is left
LEMMA ClustersOf ==
  ASSUME NEW k, k \in Nat, NEW len, len = k * recsiz, NEW num, num = len \div clsizb,
         NEW n, n = (len \div recsiz) % clsiz
  PROVE  /\ num \in Nat /\ n \in Nat /\ n < clsiz /\ len \in Nat
         /\ len = num * clsizb + n * recsiz
         /\ (len = 0 => num = 0 /\ n = 0)
  <1>1. recsiz \in Nat /\ recsiz > 0 /\ clsiz \in Nat /\ clsiz > 0 /\ clsizb \in Nat /\ clsizb > 0
    BY Sizes
  <1>2. len \div recsiz = k /\ len \in Nat
    BY ONLY <1>1, k \in Nat, len = k * recsiz, Whole
  <1>3. n = k % clsiz
    BY ONLY <1>2, n = (len \div recsiz) % clsiz
  <1> DEFINE p == k \div clsiz
  <1>4. k = clsiz * p + n /\ n \in 0..clsiz - 1 /\ p \in Nat
    BY ONLY <1>1, <1>3, k \in Nat, Divides
  <1> HIDE DEF p
  <1>5. n \in Nat /\ n < clsiz /\ n + 1 <= clsiz
    BY ONLY <1>1, <1>4
  <1>6. len = clsizb * p + n * recsiz /\ len = p * clsizb + n * recsiz
    <2>1. ASSUME NEW x \in Nat, NEW y \in Nat, NEW z \in Nat, NEW w \in Nat
          PROVE  (x * y + z) * w = (w * x) * y + z * w /\ (w * x) * y = y * (w * x)
      OBVIOUS
    <2>2. (clsiz * p + n) * recsiz = (recsiz * clsiz) * p + n * recsiz
          /\ (recsiz * clsiz) * p = p * (recsiz * clsiz)
      BY ONLY <1>1, <1>4, <1>5, <2>1
    <2> QED
      BY ONLY <1>4, <2>2, len = k * recsiz DEF clsizb
  <1>7. n * recsiz \in Nat /\ n * recsiz < clsizb
    <2>1. (n + 1) * recsiz <= clsiz * recsiz /\ (n + 1) * recsiz = n * recsiz + recsiz /\ n * recsiz \in Nat
      <3>1. n + 1 \in Nat
        BY ONLY <1>5
      <3> QED
        BY ONLY <1>1, <1>5, <3>1, Wider, OneMore
    <2>2. clsiz * recsiz = clsizb
      BY ONLY <1>1 DEF clsizb
    <2> DEFINE x == n * recsiz
    <2>3. x \in Nat /\ x + recsiz <= clsizb
      BY ONLY <2>1, <2>2
    <2> HIDE DEF x
    <2>4. x < clsizb
      BY ONLY <1>1, <2>3
    <2> QED
      BY ONLY <2>3, <2>4 DEF x
  <1>8. p = num
    <2> DEFINE x == n * recsiz
    <2>1. len \in Int /\ clsizb \in Int /\ clsizb > 0 /\ p \in Int /\ x \in Int
          /\ len = clsizb * p + x /\ 0 <= x /\ x < clsizb
      BY ONLY <1>1, <1>2, <1>4, <1>6, <1>7
    <2> HIDE DEF x
    <2>2. p = len \div clsizb
      BY ONLY <2>1, Quotient
    <2> QED
      BY ONLY <2>2, num = len \div clsizb
  <1>9. len = 0 => num = 0 /\ n = 0
    <2>1. SUFFICES ASSUME len = 0 PROVE num = 0 /\ n = 0
      OBVIOUS
    <2>2. k = 0
      <3>1. 0 = 0 * recsiz /\ 0 \in Nat
        BY ONLY <1>1
      <3>2. len = 0 * recsiz
        BY ONLY <2>1, <3>1
      <3>3. len \div recsiz = 0
        BY ONLY <1>1, <3>1, <3>2, Whole
      <3> QED
        BY ONLY <1>2, <3>3
    <2>3. 0 = clsizb * 0 + 0 /\ 0 = clsiz * 0 + 0
      BY ONLY <1>1
    <2>4. 0 = 0 \div clsizb
      BY ONLY <1>1, <2>3, Quotient
    <2>5. 0 = 0 % clsiz
      BY ONLY <1>1, <2>3, Remainder
    <2> QED
      BY ONLY <1>3, <2>1, <2>2, <2>4, <2>5, num = len \div clsizb
  <1> QED
    BY ONLY <1>2, <1>4, <1>5, <1>6, <1>8, <1>9

\* the records before the first whole cluster
LEMMA MidIs ==
  ASSUME NEW s, NEW ch, NEW i, NEW d, NEW b, NEW l, NEW q, On(s, ch, i, d, b, l, q),
         NEW wrt, NEW len, len \in Nat, len = 0 \/ s.ofd.curbyt % recsiz = 0,
         NEW tail, tail = len % recsiz,
         NEW m, m = IF len = tail THEN [s |-> s, len |-> 0] ELSE HeaderRecords(s, wrt, len - tail)
  PROVE  /\ tail \in Nat /\ tail < recsiz /\ (len = 0 => tail = 0)
         /\ \E d2 : /\ On(m.s, ch, i, d2, b, l, q) /\ Left(m, s, len - tail)
                    /\ len = 0 \/ m.s.ofd.curbyt % recsiz = 0
                    /\ m.len = 0 \/ i = 0 \/ d2 = clsizb
                    /\ \E k \in Nat : m.len = k * recsiz
  <1>1. recsiz \in Nat /\ recsiz > 0
    BY Sizes
  <1> DEFINE mr == len \div recsiz
  <1>2. len = recsiz * mr + tail /\ tail \in 0..recsiz - 1 /\ mr \in Nat
    BY ONLY <1>1, len \in Nat, tail = len % recsiz, Divides
  <1> HIDE DEF mr
  <1>3. tail \in Nat /\ tail < recsiz /\ recsiz * mr = mr * recsiz /\ mr * recsiz \in Nat
    BY ONLY <1>1, <1>2
  <1>4. len = 0 => tail = 0
    BY ONLY <1>2, <1>3
  <1>5. Len(s.moved) \in Nat
    BY OnIs
  <1>6. CASE len = tail
    <2>1. m = [s |-> s, len |-> 0]
      BY ONLY <1>6, m = IF len = tail THEN [s |-> s, len |-> 0] ELSE HeaderRecords(s, wrt, len - tail)
    <2>2. m.s = s /\ m.len = 0
      BY ONLY <2>1
    <2>3. Left(m, s, len - tail)
      BY ONLY <1>5, <1>6, <2>2, len \in Nat DEF Left
    <2>4. 0 \in Nat /\ 0 = 0 * recsiz
      BY ONLY <1>1
    <2> QED
      BY ONLY <1>3, <1>4, <2>2, <2>3, <2>4, len = 0 \/ s.ofd.curbyt % recsiz = 0, On(s, ch, i, d, b, l, q)
  <1>7. CASE len # tail
    <2>1. m = HeaderRecords(s, wrt, len - tail)
      BY ONLY <1>7, m = IF len = tail THEN [s |-> s, len |-> 0] ELSE HeaderRecords(s, wrt, len - tail)
    <2>2. len - tail = mr * recsiz /\ mr > 0 /\ len # 0
      <3>1. len - tail = mr * recsiz
        BY ONLY <1>2, <1>3
      <3>2. mr # 0
        <4>1. SUFFICES ASSUME mr = 0 PROVE FALSE
          OBVIOUS
        <4>2. len - tail = 0 * recsiz /\ 0 * recsiz = 0
          BY ONLY <1>1, <3>1, <4>1
        <4> QED
          BY ONLY <1>3, <1>7, <4>2, len \in Nat
      <3>3. len # 0
        BY ONLY <1>4, <1>7
      <3> QED
        BY ONLY <1>2, <3>1, <3>2, <3>3
    <2>3. s.ofd.curbyt % recsiz = 0
      BY ONLY <2>2, len = 0 \/ s.ofd.curbyt % recsiz = 0
    <2> DEFINE e == len - tail
    <2>4. e = mr * recsiz /\ m = HeaderRecords(s, wrt, e)
      BY ONLY <2>1, <2>2
    <2> HIDE DEF e
    <2>5. PICK d2 : On(m.s, ch, i, d2, b, l, q) /\ Left(m, s, e) /\ Records1(m, i, d2)
      BY ONLY <1>2, <2>2, <2>3, <2>4, On(s, ch, i, d, b, l, q), HeaderRecordsIs
    <2>6. Left(m, s, len - tail)
      BY ONLY <2>5 DEF e
    <2> QED
      BY ONLY <1>3, <1>4, <2>5, <2>6 DEF Records1
  <1> QED
    BY ONLY <1>6, <1>7

\* after the whole clusters: num of them were moved, or all there are
Middle(t, s, ch, i, d, num, b, l, q, wrt) ==
  \E ch2, i2, d2 :
    /\ Longer(ch2, ch) /\ Len(ch2) \in Nat
    /\ \/ /\ GoesOn(t, ch2, i2, d2, b, l, q) /\ Len(t.s.moved) = Len(s.moved) + num * clsizb
          /\ \/ num = 0 /\ t.s = s /\ i2 = i /\ d2 = d
             \/ (i2 = 0 \/ d2 = clsizb) /\ t.s.ofd.curbyt % recsiz = 0
       \/ Stops(t, ch2, i2, b, l, q, wrt) /\ Len(t.s.moved) <= Len(s.moved) + num * clsizb

LEMMA MiddleIs ==
  ASSUME NEW s, NEW ch, NEW i, NEW d, NEW b, NEW l, NEW q, On(s, ch, i, d, b, l, q),
         NEW wrt, NEW num, num \in Nat, num = 0 \/ i = 0 \/ d = clsizb,
         NEW t, t = WholeClusters(s, wrt, num)
  PROVE  Middle(t, s, ch, i, d, num, b, l, q, wrt)
  <1>1. recsiz \in Nat /\ recsiz > 0 /\ clsizb \in Nat
    BY Sizes
  <1>2. Len(ch) \in Nat /\ Len(s.moved) \in Nat /\ Stage(s)
    BY OnIs
  <1>3. CASE num = 0
    <2>1. PICK f : WholeClusters(s, wrt, num) = f[num] /\ f[0] = First(s)
      BY LoopIs
    <2>2. t = First(s)
      BY ONLY <1>3, <2>1, t = WholeClusters(s, wrt, num)
    <2>3. t.s = s /\ t.eof = FALSE /\ t \in Turns
      BY ONLY <1>2, <2>2, 0 \in Nat, FALSE \in BOOLEAN DEF First, Turns, Stage
    <2>4. GoesOn(t, ch, i, d, b, l, q)
      BY ONLY <2>3, On(s, ch, i, d, b, l, q) DEF GoesOn
    <2>5. Len(t.s.moved) = Len(s.moved) + num * clsizb
      <3>1. 0 * clsizb = 0
        BY ONLY <1>1
      <3> QED
        BY ONLY <1>2, <1>3, <2>3, <3>1
    <2>6. Longer(ch, ch)
      BY ONLY <1>2, LongerSame
    <2> QED
      BY ONLY <1>2, <1>3, <2>3, <2>4, <2>5, <2>6 DEF Middle
  <1>4. CASE num # 0
    <2>1. num > 0 /\ (i = 0 \/ d = clsizb)
      BY ONLY <1>4, num \in Nat, num = 0 \/ i = 0 \/ d = clsizb
    <2>2. Running(t, ch, num, num, Len(s.moved), b, l, q, wrt)
      BY ONLY <2>1, num \in Nat, t = WholeClusters(s, wrt, num), On(s, ch, i, d, b, l, q), WholeClustersIs
    <2>3. ~(num < num)
      BY ONLY num \in Nat
    <2>4. PICK ch2, i2 :
            /\ Longer(ch2, ch) /\ Len(ch2) \in Nat
            /\ \/ Rests(t, ch2, i2, b, l, q) /\ Len(t.s.moved) = Len(s.moved) + num * clsizb
               \/ Stops(t, ch2, i2, b, l, q, wrt) /\ Len(t.s.moved) <= Len(s.moved) + num * clsizb
      BY ONLY <2>2, <2>3 DEF Running
    <2>5. CASE Rests(t, ch2, i2, b, l, q) /\ Len(t.s.moved) = Len(s.moved) + num * clsizb
      <3>1. /\ t \in Turns /\ t.eof = FALSE /\ Base(t.s, ch2, b, l, q) /\ At(t.s.ofd, ch2, i2)
            /\ Edge(t.s.ofd, i2)
        BY ONLY <2>5 DEF Rests
      <3>2. PICK d2 : On(t.s, ch2, i2, d2, b, l, q) /\ (i2 = 0 \/ d2 = clsizb)
        BY ONLY <3>1, EdgeOn
      <3>3. t.s.ofd.curbyt % recsiz = 0
        <4>1. t.s.ofd.curbyt = 0 \/ t.s.ofd.curbyt = clsizb
          BY ONLY <3>1 DEF Edge
        <4>2. 0 % recsiz = 0
          BY ONLY <1>1
        <4> QED
          BY ONLY <4>1, <4>2, ClusterWhole
      <3> QED
        BY ONLY <2>4, <2>5, <3>1, <3>2, <3>3 DEF Middle, GoesOn
    <2>6. CASE Stops(t, ch2, i2, b, l, q, wrt) /\ Len(t.s.moved) <= Len(s.moved) + num * clsizb
      BY ONLY <2>4, <2>6 DEF Middle
    <2> QED
      BY ONLY <2>4, <2>5, <2>6
  <1> QED
    BY ONLY <1>3, <1>4

\* a request that has ended early is left alone
LEMMA StopsStay ==
  ASSUME NEW t, NEW ch, NEW i, NEW b, NEW l, NEW q, NEW wrt, Stops(t, ch, i, b, l, q, wrt),
         NEW m, NEW n, NEW x, Len(t.s.moved) <= x
  PROVE  /\ TailRecords(t, wrt, m) = t /\ Tail0(t, wrt, n) = t.s
         /\ Result(t.s, ch, x, b, l, q, wrt)
  <1>1. /\ t \in Turns /\ t.eof = TRUE /\ Base(t.s, ch, b, l, q) /\ At(t.s.ofd, ch, i)
        /\ Edge(t.s.ofd, i) /\ i = Len(ch) /\ (wrt => Spare(t.s.fat) = {})
    BY DEF Stops
  <1>2. TailRecords(t, wrt, m) = t
    BY <1>1 DEF TailRecords
  <1>3. Tail0(t, wrt, n) = t.s
    BY <1>1 DEF Tail0
  <1>4. PICK d : On(t.s, ch, i, d, b, l, q) /\ (i = 0 \/ d = clsizb)
    BY ONLY <1>1, EdgeOn
  <1>5. Len(ch) \in Nat /\ Longer(ch, ch)
    <2>1. Len(ch) \in Nat
      BY ONLY <1>4, OnIs
    <2> QED
      BY ONLY <2>1, LongerSame
  <1>6. Ends(t.s, ch, i, d, wrt)
    BY ONLY <1>1, <1>4 DEF Ends
  <1>7. Result(t.s, ch, x, b, l, q, wrt)
    BY ONLY <1>4, <1>5, <1>6, Len(t.s.moved) <= x DEF Result
  <1> QED
    BY ONLY <1>2, <1>3, <1>7

LEMMA ResultOf ==
  ASSUME NEW u, NEW ch, Len(ch) \in Nat, NEW ch2, Len(ch2) \in Nat, Longer(ch2, ch),
         NEW n, NEW b, NEW l, NEW q, NEW wrt, Result(u, ch2, n, b, l, q, wrt)
  PROVE  Result(u, ch, n, b, l, q, wrt)
  <1>1. PICK ch3, i, d :
          /\ Longer(ch3, ch2) /\ Len(ch3) \in Nat /\ On(u, ch3, i, d, b, l, q)
          /\ Len(u.moved) = n \/ (Len(u.moved) <= n /\ Ends(u, ch3, i, d, wrt))
    BY DEF Result
  <1>2. Longer(ch3, ch)
    BY <1>1, LongerStill
  <1> QED
    BY ONLY <1>1, <1>2 DEF Result

\* after the last whole records
LEMMA TailIs ==
  ASSUME NEW c, NEW s, NEW ch, Len(ch) \in Nat, NEW i, NEW d, NEW num, NEW b, NEW l, NEW q, NEW wrt,
         Middle(c, s, ch, i, d, num, b, l, q, wrt), num \in Nat, Len(s.moved) \in Nat,
         NEW n, n \in Nat, n < clsiz, num # 0 \/ n = 0 \/ i = 0 \/ d = clsizb,
         NEW tail, tail \in Nat, tail < recsiz, tail = 0 \/ s.ofd.curbyt % recsiz = 0,
         NEW u, u = Tail0(TailRecords(c, wrt, n), wrt, tail)
  PROVE  Result(u, ch, Len(s.moved) + num * clsizb + n * recsiz + tail, b, l, q, wrt)
  <1> DEFINE r == TailRecords(c, wrt, n)
             x == num * clsizb
             y == n * recsiz
             z == Len(s.moved) + x + y + tail
  <1>1. x \in Nat /\ y \in Nat
    <2>1. recsiz \in Nat /\ clsizb \in Nat
      BY Sizes
    <2> QED
      BY ONLY <2>1, num \in Nat, n \in Nat
  <1>2. u = Tail0(r, wrt, tail)
    OBVIOUS
  <1>3. PICK ch2, i2, d2 :
          /\ Longer(ch2, ch) /\ Len(ch2) \in Nat
          /\ \/ /\ GoesOn(c, ch2, i2, d2, b, l, q) /\ Len(c.s.moved) = Len(s.moved) + x
                /\ \/ num = 0 /\ c.s = s /\ i2 = i /\ d2 = d
                   \/ (i2 = 0 \/ d2 = clsizb) /\ c.s.ofd.curbyt % recsiz = 0
             \/ Stops(c, ch2, i2, b, l, q, wrt) /\ Len(c.s.moved) <= Len(s.moved) + x
    BY DEF Middle
  <1> HIDE DEF r
  <1>4. CASE Stops(c, ch2, i2, b, l, q, wrt) /\ Len(c.s.moved) <= Len(s.moved) + x
    <2>1. Len(c.s.moved) \in Nat
      <3>1. Base(c.s, ch2, b, l, q)
        BY ONLY <1>4 DEF Stops
      <3> QED
        BY ONLY <3>1, StageNumbers DEF Base
    <2> HIDE DEF x, y
    <2>2. Len(c.s.moved) <= z
      BY ONLY <1>1, <1>4, <2>1, Len(s.moved) \in Nat, tail \in Nat
    <2> HIDE DEF z
    <2>3. r = c /\ u = c.s /\ Result(c.s, ch2, z, b, l, q, wrt)
      <3>1. /\ TailRecords(c, wrt, n) = c /\ Tail0(c, wrt, tail) = c.s
            /\ Result(c.s, ch2, z, b, l, q, wrt)
        BY ONLY <1>4, <2>2, StopsStay
      <3>2. r = c
        BY ONLY <3>1 DEF r
      <3> QED
        BY ONLY <1>2, <3>1, <3>2
    <2>4. Result(u, ch, z, b, l, q, wrt)
      BY ONLY <1>3, <2>3, Len(ch) \in Nat, ResultOf
    <2> QED
      BY ONLY <2>4 DEF z, x, y
  <1>5. CASE /\ GoesOn(c, ch2, i2, d2, b, l, q) /\ Len(c.s.moved) = Len(s.moved) + x
             /\ \/ num = 0 /\ c.s = s /\ i2 = i /\ d2 = d
                \/ (i2 = 0 \/ d2 = clsizb) /\ c.s.ofd.curbyt % recsiz = 0
    <2>1. n = 0 \/ i2 = 0 \/ d2 = clsizb
      BY ONLY <1>5, num # 0 \/ n = 0 \/ i = 0 \/ d = clsizb
    <2>2. tail = 0 \/ c.s.ofd.curbyt % recsiz = 0
      BY ONLY <1>5, tail = 0 \/ s.ofd.curbyt % recsiz = 0
    <2>3. PICK ch3, i3, d3 :
            /\ Longer(ch3, ch2) /\ Len(ch3) \in Nat
            /\ \/ /\ GoesOn(r, ch3, i3, d3, b, l, q)
                  /\ Len(r.s.moved) = Len(c.s.moved) + n * recsiz
                  /\ r.s = c.s \/ r.s.ofd.curbyt % recsiz = 0
               \/ Stops(r, ch3, i3, b, l, q, wrt) /\ Len(r.s.moved) = Len(c.s.moved)
      <3>1. r = TailRecords(c, wrt, n)
        BY DEF r
      <3>2. GoesOn(c, ch2, i2, d2, b, l, q)
        BY ONLY <1>5
      <3> HIDE DEF x, y, z
      <3> QED
        BY ONLY <2>1, <3>1, <3>2, n \in Nat, n < clsiz, TailRecordsIs
    <2>4. Longer(ch3, ch)
      BY ONLY <1>3, <2>3, Len(ch) \in Nat, LongerStill
    <2>5. CASE Stops(r, ch3, i3, b, l, q, wrt) /\ Len(r.s.moved) = Len(c.s.moved)
      <3> HIDE DEF x, y
      <3>1. Len(r.s.moved) <= z
        BY ONLY <1>1, <1>5, <2>5, Len(s.moved) \in Nat, tail \in Nat
      <3> HIDE DEF z
      <3>2. u = r.s /\ Result(r.s, ch3, z, b, l, q, wrt)
        <4>1. Tail0(r, wrt, tail) = r.s /\ Result(r.s, ch3, z, b, l, q, wrt)
          BY ONLY <2>5, <3>1, StopsStay
        <4> QED
          BY ONLY <1>2, <4>1
      <3>3. Result(u, ch, z, b, l, q, wrt)
        BY ONLY <2>3, <2>4, <3>2, Len(ch) \in Nat, ResultOf
      <3> QED
        BY ONLY <3>3 DEF z, x, y
    <2>6. CASE /\ GoesOn(r, ch3, i3, d3, b, l, q)
               /\ Len(r.s.moved) = Len(c.s.moved) + n * recsiz
               /\ r.s = c.s \/ r.s.ofd.curbyt % recsiz = 0
      <3>1. tail = 0 \/ r.s.ofd.curbyt % recsiz = 0
        BY ONLY <2>2, <2>6
      <3>2. Result(u, ch3, Len(r.s.moved) + tail, b, l, q, wrt)
        BY ONLY <1>2, <2>6, <3>1, tail \in Nat, tail < recsiz, Tail0Is
      <3>3. Len(r.s.moved) + tail = z
        <4>1. Len(r.s.moved) = Len(c.s.moved) + y
          BY ONLY <2>6 DEF y
        <4> HIDE DEF x, y
        <4> QED
          BY ONLY <1>1, <1>5, <4>1, Len(s.moved) \in Nat, tail \in Nat
      <3> HIDE DEF z
      <3>4. Result(u, ch3, z, b, l, q, wrt)
        BY ONLY <3>2, <3>3
      <3>5. Result(u, ch, z, b, l, q, wrt)
        BY ONLY <2>3, <2>4, <3>4, Len(ch) \in Nat, ResultOf
      <3> QED
        BY ONLY <3>5 DEF z, x, y
    <2> QED
      BY ONLY <2>3, <2>5, <2>6
  <1> QED
    BY ONLY <1>3, <1>4, <1>5

LEMMA xrwIs ==
  ASSUME NEW s, NEW ch, NEW i, NEW d, NEW b, NEW l, NEW q, On(s, ch, i, d, b, l, q),
         NEW wrt, NEW len, len \in Nat, len > 0, NEW u, u = xrw(s, wrt, len)
  PROVE  Result(u, ch, Len(s.moved) + len, b, l, q, wrt)
  <1> DEFINE h == Header(s, wrt, len)
             tail == h.len % recsiz
             m == IF h.len = tail THEN [s |-> h.s, len |-> 0]
                  ELSE HeaderRecords(h.s, wrt, h.len - tail)
             num == m.len \div clsizb
             c == WholeClusters(m.s, wrt, num)
             n == (m.len \div recsiz) % clsiz
  <1>1. u = Tail0(TailRecords(c, wrt, n), wrt, tail)
    BY DEF xrw
  <1>2. PICK d1 : On(h.s, ch, i, d1, b, l, q) /\ Left(h, s, len)
                  /\ (h.len = 0 \/ h.s.ofd.curbyt % recsiz = 0)
    <2>1. h = Header(s, wrt, len)
      OBVIOUS
    <2> HIDE DEF h
    <2> QED
      BY ONLY <2>1, On(s, ch, i, d, b, l, q), len \in Nat, len > 0, HeaderIs
  <1>3. h.len \in Nat /\ Len(h.s.moved) + h.len = Len(s.moved) + len
    BY ONLY <1>2 DEF Left
  <1> HIDE DEF h
  <1>4. /\ tail \in Nat /\ tail < recsiz /\ (h.len = 0 => tail = 0)
        /\ \E d2 : /\ On(m.s, ch, i, d2, b, l, q) /\ Left(m, h.s, h.len - tail)
                   /\ h.len = 0 \/ m.s.ofd.curbyt % recsiz = 0
                   /\ m.len = 0 \/ i = 0 \/ d2 = clsizb
                   /\ \E k \in Nat : m.len = k * recsiz
    <2> DEFINE sh == h.s
               lh == h.len
    <2>1. tail = lh % recsiz /\ m = IF lh = tail THEN [s |-> sh, len |-> 0] ELSE HeaderRecords(sh, wrt, lh - tail)
      OBVIOUS
    <2>2. On(sh, ch, i, d1, b, l, q) /\ lh \in Nat /\ (lh = 0 \/ sh.ofd.curbyt % recsiz = 0)
      BY ONLY <1>2, <1>3
    <2> HIDE DEF sh, lh, tail, m
    <2>3. /\ tail \in Nat /\ tail < recsiz /\ (lh = 0 => tail = 0)
          /\ \E d2 : /\ On(m.s, ch, i, d2, b, l, q) /\ Left(m, sh, lh - tail)
                     /\ lh = 0 \/ m.s.ofd.curbyt % recsiz = 0
                     /\ m.len = 0 \/ i = 0 \/ d2 = clsizb
                     /\ \E k \in Nat : m.len = k * recsiz
      BY ONLY <2>1, <2>2, MidIs
    <2> QED
      BY ONLY <2>3 DEF sh, lh
  <1> HIDE DEF tail, m
  <1>5. PICK d2 : /\ On(m.s, ch, i, d2, b, l, q) /\ Left(m, h.s, h.len - tail)
                  /\ h.len = 0 \/ m.s.ofd.curbyt % recsiz = 0
                  /\ m.len = 0 \/ i = 0 \/ d2 = clsizb
                  /\ \E k \in Nat : m.len = k * recsiz
    BY ONLY <1>4
  <1>6. /\ num \in Nat /\ n \in Nat /\ n < clsiz /\ m.len \in Nat
        /\ m.len = num * clsizb + n * recsiz /\ (m.len = 0 => num = 0 /\ n = 0)
    <2>1. PICK k \in Nat : m.len = k * recsiz
      BY ONLY <1>5
    <2> DEFINE lm == m.len
    <2>2. lm = k * recsiz /\ num = lm \div clsizb /\ n = (lm \div recsiz) % clsiz
      BY ONLY <2>1
    <2> HIDE DEF lm, num, n
    <2>3. /\ num \in Nat /\ n \in Nat /\ n < clsiz /\ lm \in Nat
          /\ lm = num * clsizb + n * recsiz /\ (lm = 0 => num = 0 /\ n = 0)
      BY ONLY <2>2, k \in Nat, ClustersOf
    <2> QED
      BY ONLY <2>3 DEF lm
  <1>7. c = WholeClusters(m.s, wrt, num)
    OBVIOUS
  <1> HIDE DEF c, num, n
  <1>8. Middle(c, m.s, ch, i, d2, num, b, l, q, wrt)
    <2>1. num = 0 \/ i = 0 \/ d2 = clsizb
      BY ONLY <1>5, <1>6
    <2> DEFINE sm == m.s
    <2>2. On(sm, ch, i, d2, b, l, q) /\ c = WholeClusters(sm, wrt, num)
      BY ONLY <1>5, <1>7
    <2> HIDE DEF sm
    <2>3. Middle(c, sm, ch, i, d2, num, b, l, q, wrt)
      BY ONLY <1>6, <2>1, <2>2, MiddleIs
    <2> QED
      BY ONLY <2>3 DEF sm
  <1>9. Len(ch) \in Nat /\ Len(m.s.moved) \in Nat
    BY ONLY <1>5, OnIs
  <1>10. Result(u, ch, Len(m.s.moved) + num * clsizb + n * recsiz + tail, b, l, q, wrt)
    <2>1. num # 0 \/ n = 0 \/ i = 0 \/ d2 = clsizb
      BY ONLY <1>5, <1>6
    <2>2. tail = 0 \/ m.s.ofd.curbyt % recsiz = 0
      BY ONLY <1>4, <1>5
    <2> DEFINE sm == m.s
    <2>3. /\ Middle(c, sm, ch, i, d2, num, b, l, q, wrt) /\ Len(sm.moved) \in Nat
          /\ tail = 0 \/ sm.ofd.curbyt % recsiz = 0
      BY ONLY <1>8, <1>9, <2>2
    <2> HIDE DEF sm
    <2>4. tail \in Nat /\ tail < recsiz
      BY ONLY <1>4
    <2>5. Result(u, ch, Len(sm.moved) + num * clsizb + n * recsiz + tail, b, l, q, wrt)
      BY ONLY <1>1, <1>6, <1>9, <2>1, <2>3, <2>4, TailIs
    <2> QED
      BY ONLY <2>5 DEF sm
  <1>11. Len(m.s.moved) + num * clsizb + n * recsiz + tail = Len(s.moved) + len
    <2>1. Len(m.s.moved) + m.len = Len(h.s.moved) + (h.len - tail)
      BY ONLY <1>5 DEF Left
    <2> DEFINE x == num * clsizb
               y == n * recsiz
    <2>2. x \in Nat /\ y \in Nat /\ m.len = x + y
      <3>1. recsiz \in Nat /\ clsizb \in Nat
        BY Sizes
      <3> QED
        BY ONLY <1>6, <3>1
    <2>3. Len(h.s.moved) \in Nat
      BY ONLY <1>2, OnIs
    <2> HIDE DEF x, y
    <2>4. Len(m.s.moved) + x + y + tail = Len(s.moved) + len
      <3>1. tail \in Nat /\ Len(m.s.moved) \in Nat /\ Len(m.s.moved) + (x + y) = Len(h.s.moved) + (h.len - tail)
        BY ONLY <1>4, <1>9, <2>1, <2>2
      <3>2. ASSUME NEW e \in Nat, NEW f \in Nat, NEW g \in Nat, e + (x + y) = f + (g - tail)
            PROVE  e + x + y + tail = f + g
        BY ONLY <2>2, <3>1, <3>2
      <3>3. Len(m.s.moved) + x + y + tail = Len(h.s.moved) + h.len
        BY ONLY <1>3, <2>3, <3>1, <3>2
      <3> QED
        BY ONLY <1>3, <3>3
    <2> QED
      BY ONLY <2>4 DEF x, y
  <1> QED
    BY ONLY <1>10, <1>11

-----------------------------------------------------------------------------
(* The state between calls: the OFD names a place in a chain that is long   *)
(* enough for the file.                                                     *)

IOInv == \E ch, i, d, q : On(Now, ch, i, d, ofd.bytnum, ofd.fileln, q)

LEMMA NowIs ==
  /\ Now.fat = fat /\ Now.ofd = ofd /\ Now.buf = buf /\ Now.dirty = dirty
  /\ Now.latest = latest /\ Now.fresh = fresh /\ Now.moved = <<>> /\ Len(Now.moved) = 0
  BY DEF Now
LEMMA NowNext ==
  /\ Now'.fat = fat' /\ Now'.ofd = ofd' /\ Now'.buf = buf' /\ Now'.dirty = dirty'
  /\ Now'.latest = latest' /\ Now'.fresh = fresh' /\ Now'.moved = <<>> /\ Len(Now'.moved) = 0
  BY DEF Now

\* the place is within the chain
LEMMA Reaches ==
  ASSUME NEW i, i \in Nat, NEW n, n \in Nat, i <= n, NEW d, d \in 0..clsizb
  PROVE  Byte(i, d) \in Nat /\ Byte(i, d) <= n * clsizb
  <1>1. clsizb \in Nat
    BY Sizes
  <1>2. CASE i = 0
    <2>1. n * clsizb \in Nat
      BY ONLY <1>1, n \in Nat
    <2> QED
      BY ONLY <1>2, <2>1 DEF Byte
  <1>3. CASE i # 0
    <2>1. i - 1 \in Nat /\ (i - 1) + 1 = i
      BY ONLY <1>3, i \in Nat
    <2>2. (i - 1) * clsizb \in Nat /\ i * clsizb = (i - 1) * clsizb + clsizb
      BY ONLY <1>1, <2>1, OneMore
    <2>3. i * clsizb <= n * clsizb /\ i * clsizb \in Nat /\ n * clsizb \in Nat
      BY ONLY <1>1, i \in Nat, n \in Nat, i <= n, Wider
    <2> DEFINE x == (i - 1) * clsizb
               y == i * clsizb
               z == n * clsizb
    <2>4. x \in Nat /\ y = x + clsizb /\ y <= z /\ z \in Nat
      BY ONLY <2>2, <2>3
    <2>5. Byte(i, d) = x + d
      BY ONLY <1>3 DEF Byte
    <2> HIDE DEF x, y, z
    <2>6. Byte(i, d) \in Nat /\ Byte(i, d) <= z
      BY ONLY <1>1, <2>4, <2>5, d \in 0..clsizb
    <2> QED
      BY ONLY <2>6 DEF z
  <1> QED
    BY ONLY <1>2, <1>3

\* what a call leaves, as a state
LEMMA CallEnds ==
  ASSUME NEW u, NEW ch, NEW i, NEW d, NEW b, NEW l, NEW q, On(u, ch, i, d, b, l, q), Becomes(u)
  PROVE  On(Now', ch, i, d, ofd'.bytnum, ofd'.fileln, q)
  <1>1. /\ Base(u, ch, b, l, q) /\ At(u.ofd, ch, i) /\ Len(ch) \in Nat /\ i \in 0..Len(ch)
        /\ Stage(u) /\ Held(u) /\ d \in 0..clsizb /\ u.ofd.bytnum = Byte(i, d)
    BY OnIs
  <1>2. Behind(u.ofd, i, d)
    BY DEF On
  <1>3. /\ Now'.fat = u.fat /\ Now'.ofd = u.ofd /\ Now'.buf = u.buf /\ Now'.dirty = u.dirty
        /\ Now'.latest = u.latest /\ Now'.fresh = u.fresh /\ Now'.moved = <<>> /\ Len(Now'.moved) = 0
        /\ ofd' = u.ofd
    BY NowNext DEF Becomes
  <1>4. Now' \in [fat : [Clnums -> Links], ofd : Ofds, buf : Seq(Int), dirty : SUBSET Int,
                  latest : SUBSET Int, fresh : SUBSET Int, moved : Seq(Int)]
    <2>1. /\ u.fat \in [Clnums -> Links] /\ u.ofd \in Ofds /\ u.buf \in Seq(Int)
          /\ u.dirty \in SUBSET Int /\ u.latest \in SUBSET Int /\ u.fresh \in SUBSET Int
      BY <1>1 DEF Stage, Stages
    <2>2. /\ fat' = u.fat /\ ofd' = u.ofd /\ buf' = u.buf /\ dirty' = u.dirty
          /\ latest' = u.latest /\ fresh' = u.fresh
      BY DEF Becomes
    <2>3. <<>> \in Seq(Int)
      OBVIOUS
    <2>4. Now' = [fat |-> fat', ofd |-> ofd', buf |-> buf', dirty |-> dirty',
                  latest |-> latest', fresh |-> fresh', moved |-> <<>>]
      BY DEF Now
    <2> QED
      BY ONLY <2>1, <2>2, <2>3, <2>4
  <1>5. Stage(Now')
    BY ONLY <1>4 DEF Stage, Stages
  <1>6. Held(Now')
    BY ONLY <1>1, <1>3 DEF Held
  <1>7. Chain(ch, Now'.fat, Now'.ofd.strtcl) /\ Len(ch) + Cardinality(Spare(Now'.fat)) = q
    BY ONLY <1>1, <1>3 DEF Base
  <1>8. ofd'.bytnum \in Nat /\ ofd'.fileln \in Nat /\ Now'.ofd.bytnum = ofd'.bytnum + Len(Now'.moved)
    <2>1. u.ofd.bytnum \in Nat /\ u.ofd.fileln \in Nat
      BY ONLY <1>1, StageNumbers
    <2> QED
      BY ONLY <1>3, <2>1
  <1>9. /\ ofd'.fileln <= Len(ch) * clsizb /\ Now'.ofd.fileln = Most(ofd'.fileln, Now'.ofd.bytnum)
    <2>1. l \in Nat /\ l <= Len(ch) * clsizb /\ u.ofd.fileln = Most(l, u.ofd.bytnum)
      BY ONLY <1>1 DEF Base
    <2>2. i \in Nat /\ i <= Len(ch)
      BY ONLY <1>1
    <2>3. u.ofd.bytnum <= Len(ch) * clsizb
      BY ONLY <1>1, <2>2, Reaches
    <2>4. Len(ch) * clsizb \in Nat
      <3>1. clsizb \in Nat
        BY Sizes
      <3> QED
        BY ONLY <1>1, <3>1
    <2> DEFINE x == Len(ch) * clsizb
    <2>5. l <= x /\ u.ofd.bytnum <= x /\ x \in Nat
      BY ONLY <2>1, <2>3, <2>4
    <2> HIDE DEF x
    <2>6. u.ofd.fileln <= x /\ u.ofd.fileln = Most(u.ofd.fileln, u.ofd.bytnum)
      <3>1. u.ofd.bytnum \in Nat
        BY ONLY <1>1, StageNumbers
      <3> QED
        BY ONLY <2>1, <2>5, <3>1 DEF Most
    <2> QED
      BY ONLY <1>3, <2>6 DEF x
  <1>10. Leads(Now'.moved, ch, ofd'.bytnum)
    BY ONLY <1>3 DEF Leads
  <1>11. Base(Now', ch, ofd'.bytnum, ofd'.fileln, q)
    BY ONLY <1>5, <1>6, <1>7, <1>8, <1>9, <1>10 DEF Base
  <1>12. At(Now'.ofd, ch, i) /\ Behind(Now'.ofd, i, d)
    BY ONLY <1>1, <1>2, <1>3
  <1> QED
    BY ONLY <1>11, <1>12 DEF On

LEMMA ReadKeeps ==
  ASSUME NEW ch, NEW i, NEW d, NEW q, On(Now, ch, i, d, ofd.bytnum, ofd.fileln, q),
         NEW len, len \in Nat, ixread(len)
  PROVE  \E u : /\ Becomes(u)
                /\ Result(u, ch, MIN(len, ofd.fileln - ofd.bytnum), ofd.bytnum, ofd.fileln, q, FALSE)
  <1> DEFINE n == MIN(len, ofd.fileln - ofd.bytnum)
  <1>1. Becomes(IF n > 0 THEN xrw(Now, FALSE, n) ELSE Now)
    BY DEF ixread
  <1>2. ofd.bytnum \in Nat /\ ofd.fileln \in Nat /\ ofd.bytnum <= ofd.fileln /\ Len(ch) \in Nat
    <2>1. Base(Now, ch, ofd.bytnum, ofd.fileln, q) /\ Len(ch) \in Nat
      BY OnIs
    <2>2. /\ ofd.bytnum \in Nat /\ ofd.fileln \in Nat /\ ofd.fileln = Most(ofd.fileln, ofd.bytnum)
      BY ONLY <2>1, NowIs DEF Base
    <2> QED
      BY ONLY <2>1, <2>2 DEF Most
  <1>3. n \in Nat
    BY <1>2 DEF MIN
  <1> HIDE DEF n
  <1>4. CASE n > 0
    <2>1. Becomes(xrw(Now, FALSE, n))
      BY ONLY <1>1, <1>4
    <2>2. Result(xrw(Now, FALSE, n), ch, Len(Now.moved) + n, ofd.bytnum, ofd.fileln, q, FALSE)
      BY ONLY <1>3, <1>4, On(Now, ch, i, d, ofd.bytnum, ofd.fileln, q), xrwIs
    <2>3. Len(Now.moved) + n = n
      BY ONLY <1>3, NowIs
    <2> QED
      BY ONLY <2>1, <2>2, <2>3 DEF n
  <1>6. n > 0 \/ n = 0
    BY ONLY <1>3
  <1>5. CASE n = 0
    <2>1. Becomes(Now)
      BY ONLY <1>1, <1>5
    <2>2. Longer(ch, ch) /\ Len(Now.moved) = n
      BY ONLY <1>2, <1>5, LongerSame, NowIs
    <2>3. Result(Now, ch, n, ofd.bytnum, ofd.fileln, q, FALSE)
      BY ONLY <1>2, <2>2, On(Now, ch, i, d, ofd.bytnum, ofd.fileln, q) DEF Result
    <2> QED
      BY ONLY <2>1, <2>3 DEF n
  <1> QED
    BY ONLY <1>4, <1>5, <1>6, Zenon

LEMMA WriteKeeps ==
  ASSUME NEW ch, NEW i, NEW d, NEW q, On(Now, ch, i, d, ofd.bytnum, ofd.fileln, q),
         NEW len, len \in Nat, len > 0, ixwrite(len)
  PROVE  \E u : Becomes(u) /\ Result(u, ch, len, ofd.bytnum, ofd.fileln, q, TRUE)
  <1>1. Becomes(xrw(Now, TRUE, len))
    BY DEF ixwrite
  <1>2. Result(xrw(Now, TRUE, len), ch, Len(Now.moved) + len, ofd.bytnum, ofd.fileln, q, TRUE)
    BY ONLY len \in Nat, len > 0, On(Now, ch, i, d, ofd.bytnum, ofd.fileln, q), xrwIs
  <1>3. Len(Now.moved) + len = len
    BY ONLY len \in Nat, NowIs
  <1> QED
    BY ONLY <1>1, <1>2, <1>3

LEMMA CloseKeeps ==
  ASSUME NEW ch, NEW i, NEW d, NEW q, On(Now, ch, i, d, ofd.bytnum, ofd.fileln, q), ixclose
  PROVE  \E u : Becomes(u) /\ u.ofd = ofd /\ u.moved = <<>> /\ On(u, ch, i, d, ofd.bytnum, ofd.fileln, q)
  <1>1. PICK r \in dirty : Becomes(flushbcb(Now, r))
    BY DEF ixclose
  <1> DEFINE f == flushbcb(Now, r)
  <1>2. Stage(Now) /\ Held(Now)
    BY OnIs
  <1>3. /\ Stage(f) /\ Held(f) /\ f.fat = Now.fat /\ f.ofd = Now.ofd /\ f.moved = Now.moved
    BY ONLY <1>2, Flushed
  <1> HIDE DEF f
  <1>4. On(f, ch, i, d, ofd.bytnum, ofd.fileln, q)
    BY ONLY <1>3, On(Now, ch, i, d, ofd.bytnum, ofd.fileln, q) DEF On, Base
  <1>5. Becomes(f)
    BY <1>1 DEF f
  <1> QED
    BY ONLY <1>3, <1>4, <1>5, NowIs

\* the walk of ixlseek follows the chain
LEMMA WalkIs ==
  ASSUME NEW ch, Chain(ch, fat, ofd.strtcl), NEW i, i \in 1..Len(ch), NEW n, n \in Nat,
         i + n <= Len(ch)
  PROVE  Walk(ch[i], n) = ch[i + n]
  <1> DEFINE Steps(f) == f = [k \in 0..n |-> IF k = 0 THEN ch[i] ELSE fat[f[k - 1]]]
             h == [k \in 0..n |-> ch[i + k]]
             g == CHOOSE f : Steps(f)
  <1>1. Len(ch) \in Nat
    BY ChainIs
  <1>2. \A j \in 1..Len(ch) : fat[ch[j]] = IF j < Len(ch) THEN ch[j + 1] ELSE ENDOFCHAIN
    BY DEF Chain
  <1>3. Steps(h)
    <2>1. \A k \in 0..n : h[k] = IF k = 0 THEN ch[i] ELSE fat[h[k - 1]]
      <3> TAKE k \in 0..n
      <3>1. CASE k = 0
        <4>1. h[k] = ch[i + k]
          OBVIOUS
        <4>2. i + k = i
          BY ONLY <3>1, <1>1, i \in 1..Len(ch)
        <4> HIDE DEF h
        <4> QED
          BY ONLY <3>1, <4>1, <4>2
      <3>2. CASE k # 0
        <4>1. k - 1 \in 0..n
          BY ONLY <3>2, n \in Nat, k \in 0..n
        <4>2. h[k] = ch[i + k] /\ h[k - 1] = ch[i + (k - 1)]
          BY ONLY <4>1, k \in 0..n
        <4> HIDE DEF h
        <4>3. i + (k - 1) \in 1..Len(ch) /\ i + (k - 1) < Len(ch) /\ (i + (k - 1)) + 1 = i + k
          BY ONLY <1>1, <3>2, k \in 0..n, n \in Nat, i \in 1..Len(ch), i + n <= Len(ch)
        <4> QED
          BY ONLY <1>2, <3>2, <4>2, <4>3
      <3> QED
        BY ONLY <3>1, <3>2
    <2>2. h = [k \in 0..n |-> h[k]]
      OBVIOUS
    <2> HIDE DEF h
    <2>3. h = [k \in 0..n |-> IF k = 0 THEN ch[i] ELSE fat[h[k - 1]]]
      BY ONLY <2>1, <2>2
    <2> QED
      BY ONLY <2>3
  <1>4. Steps(g)
    <2> HIDE DEF Steps, h
    <2> QED
      BY <1>3
  <1>5. Walk(ch[i], n) = g[n]
    BY DEF Walk
  <1> HIDE DEF g, h
  <1>6. \A k \in 0..n : g[k] = IF k = 0 THEN ch[i] ELSE fat[g[k - 1]]
    BY <1>4
  <1> DEFINE S == {k \in 0..n : g[k] = ch[i + k]}
  <1>7. 0 \in S
    <2>1. g[0] = ch[i] /\ i + 0 = i
      BY <1>6
    <2> QED
      BY ONLY <2>1, n \in Nat
  <1>8. ASSUME NEW k, k \in 0..n, k \in S, k < n PROVE k + 1 \in S
    <2>1. k + 1 \in 0..n /\ (k + 1) - 1 = k /\ k + 1 # 0 /\ i + k \in 1..Len(ch) /\ i + k < Len(ch)
          /\ (i + k) + 1 = i + (k + 1)
      BY ONLY <1>1, <1>8, n \in Nat, i \in 1..Len(ch), i + n <= Len(ch)
    <2>2. g[k + 1] = fat[g[k]] /\ g[k] = ch[i + k]
      BY ONLY <1>6, <1>8, <2>1
    <2>3. fat[ch[i + k]] = ch[(i + k) + 1]
      BY ONLY <1>2, <2>1
    <2> QED
      BY ONLY <2>1, <2>2, <2>3
  <1>9. 0..n \subseteq S
    <2>1. S \in SUBSET Nat /\ \A k \in 0..n : k \in S /\ k < n => k + 1 \in S
      <3>1. S \subseteq 0..n /\ 0..n \subseteq Nat
        BY ONLY n \in Nat
      <3> HIDE DEF S
      <3> QED
        BY ONLY <1>8, <3>1
    <2> HIDE DEF S
    <2> QED
      BY ONLY <1>7, <2>1, n \in Nat, Upward
  <1>10. g[n] = ch[i + n]
    BY <1>9
  <1> QED
    BY ONLY <1>5, <1>10

\* Clnums has m_numcl members
LEMMA ChainFits ==
  ASSUME NEW ch, NEW f, NEW strt, Chain(ch, f, strt)
  PROVE  Len(ch) \in 0..m_numcl
  <1>1. ch \in Seq(Clnums) /\ Len(ch) \in Nat /\ \A j, k \in 1..Len(ch) : ch[j] = ch[k] => j = k
    BY ChainIs DEF Chain
  <1>2. m_numcl \in Nat
    BY Sizes
  <1>3. IsFiniteSet(Clnums) /\ Cardinality(Clnums) = m_numcl
    <2> DEFINE hi == m_numcl + 1
    <2>1. 2 \in Int /\ hi \in Int
      BY <1>2
    <2>2. (IF 2 > hi THEN 0 ELSE hi - 2 + 1) = m_numcl
      BY ONLY <1>2
    <2>3. Clnums = 2..hi
      BY DEF Clnums
    <2> HIDE DEF hi
    <2>4. IsFiniteSet(2..hi) /\ Cardinality(2..hi) = IF 2 > hi THEN 0 ELSE hi - 2 + 1
      BY ONLY <2>1, FS_Interval
    <2> QED
      BY ONLY <2>2, <2>3, <2>4
  <1>4. ch \in Injection(1..Len(ch), Clnums)
    <2>1. ch \in [1..Len(ch) -> Clnums]
      BY ONLY <1>1
    <2> QED
      BY ONLY <1>1, <2>1 DEF Injection, IsInjective
  <1>5. Cardinality(1..Len(ch)) <= m_numcl
    BY ONLY <1>3, <1>4, FS_Injection
  <1>6. Cardinality(1..Len(ch)) = Len(ch)
    <2>1. 1 \in Int /\ Len(ch) \in Int
      BY ONLY <1>1
    <2>2. Cardinality(1..Len(ch)) = IF 1 > Len(ch) THEN 0 ELSE Len(ch) - 1 + 1
      BY ONLY <2>1, FS_Interval
    <2> QED
      BY ONLY <1>1, <2>2
  <1> QED
    BY ONLY <1>1, <1>2, <1>5, <1>6

\* what chain finds are the clusters of the file
LEMMA chainIs ==
  ASSUME NEW ch, Chain(ch, fat, ofd.strtcl)
  PROVE  chain = ch
  <1> DEFINE head == IF ofd.strtcl = 0 THEN ENDOFCHAIN ELSE ofd.strtcl
             next(x) == IF x = ENDOFCHAIN THEN ENDOFCHAIN ELSE fat[x]
             Steps(f) == f = [k \in 0..m_numcl |->
                                IF k = 0 THEN IF ofd.strtcl = 0 THEN ENDOFCHAIN ELSE ofd.strtcl
                                ELSE IF f[k - 1] = ENDOFCHAIN THEN ENDOFCHAIN ELSE fat[f[k - 1]]]
             at(k) == IF k < Len(ch) THEN ch[k + 1] ELSE ENDOFCHAIN
             h == [k \in 0..m_numcl |-> at(k)]
             g == CHOOSE f : Steps(f)
  <1>1. Len(ch) \in Nat /\ \A j \in 1..Len(ch) : ch[j] \in Nat /\ ch[j] >= 2
    BY ChainIs
  <1>2. /\ ofd.strtcl = (IF Len(ch) = 0 THEN 0 ELSE ch[1])
        /\ \A j \in 1..Len(ch) : fat[ch[j]] = IF j < Len(ch) THEN ch[j + 1] ELSE ENDOFCHAIN
    BY DEF Chain
  <1>3. m_numcl \in Nat /\ Len(ch) \in 0..m_numcl
    BY Sizes, ChainFits
  <1>4. head = at(0)
    <2>1. CASE Len(ch) = 0
      BY ONLY <1>1, <1>2, <2>1
    <2>2. CASE Len(ch) # 0
      <3>1. 1 \in 1..Len(ch) /\ 0 < Len(ch) /\ 0 + 1 = 1
        BY ONLY <1>1, <2>2
      <3>2. ofd.strtcl = ch[1] /\ ch[1] >= 2 /\ ch[1] \in Nat
        BY ONLY <1>1, <1>2, <2>2, <3>1
      <3>3. head = ch[1] /\ at(0) = ch[1]
        BY ONLY <3>1, <3>2
      <3> QED
        BY ONLY <3>3
    <2> QED
      BY ONLY <2>1, <2>2
  <1>5. ASSUME NEW k, k \in 1..m_numcl PROVE at(k) = next(at(k - 1))
    <2>1. CASE k - 1 < Len(ch)
      <3>1. k \in 1..Len(ch) /\ (k - 1) + 1 = k
        BY ONLY <1>1, <1>3, <1>5, <2>1
      <3>2. at(k - 1) = ch[k]
        BY ONLY <2>1, <3>1
      <3>3. ch[k] # ENDOFCHAIN
        BY ONLY <1>1, <3>1 DEF ENDOFCHAIN
      <3>4. next(ch[k]) = fat[ch[k]]
        BY ONLY <3>3
      <3>5. fat[ch[k]] = at(k)
        BY ONLY <1>2, <3>1
      <3> QED
        BY ONLY <3>2, <3>4, <3>5
    <2>2. CASE ~(k - 1 < Len(ch))
      <3>1. at(k - 1) = ENDOFCHAIN
        BY ONLY <2>2
      <3>2. ~(k < Len(ch))
        BY ONLY <1>1, <1>3, <1>5, <2>2
      <3>3. at(k) = ENDOFCHAIN
        BY ONLY <3>2
      <3>4. next(ENDOFCHAIN) = ENDOFCHAIN
        OBVIOUS
      <3> QED
        BY ONLY <3>1, <3>3, <3>4
    <2> QED
      BY ONLY <2>1, <2>2
  <1> HIDE DEF at, head, next
  <1>6. Steps(h)
    <2>1. \A k \in 0..m_numcl : h[k] = IF k = 0 THEN head ELSE next(h[k - 1])
      <3> TAKE k \in 0..m_numcl
      <3>1. CASE k = 0
        <4>1. h[k] = at(0)
          BY ONLY <3>1, k \in 0..m_numcl
        <4> HIDE DEF h
        <4> QED
          BY ONLY <1>4, <3>1, <4>1
      <3>2. CASE k # 0
        <4>1. k \in 1..m_numcl /\ k - 1 \in 0..m_numcl
          BY ONLY <1>3, <3>2, k \in 0..m_numcl
        <4>2. h[k] = at(k) /\ h[k - 1] = at(k - 1)
          BY ONLY <4>1, k \in 0..m_numcl
        <4> HIDE DEF h
        <4> QED
          BY ONLY <1>5, <3>2, <4>1, <4>2
      <3> QED
        BY ONLY <3>1, <3>2
    <2>2. h = [k \in 0..m_numcl |-> h[k]]
      OBVIOUS
    <2> HIDE DEF h
    <2>3. h = [k \in 0..m_numcl |-> IF k = 0 THEN head ELSE next(h[k - 1])]
      BY ONLY <2>1, <2>2
    <2> QED
      BY ONLY <2>3 DEF head, next
  <1>7. Steps(g)
    <2> HIDE DEF Steps, h
    <2> QED
      BY <1>6
  <1> DEFINE C == Cardinality({j \in 1..m_numcl : g[j - 1] # ENDOFCHAIN})
  <1>8. chain = [k \in 1..C |-> g[k - 1]]
    BY DEF chain
  <1>9. \A k \in 0..m_numcl : g[k] = IF k = 0 THEN head ELSE next(g[k - 1])
    BY <1>7 DEF head, next
  <1> HIDE DEF g, h
  <1> DEFINE S == {k \in 0..m_numcl : g[k] = at(k)}
  <1>10. 0 \in S
    <2>1. 0 \in 0..m_numcl
      BY ONLY <1>3
    <2> QED
      BY ONLY <1>4, <1>9, <2>1
  <1>11. ASSUME NEW k, k \in 0..m_numcl, k \in S, k < m_numcl PROVE k + 1 \in S
    <2>1. k + 1 \in 0..m_numcl /\ (k + 1) - 1 = k /\ k + 1 # 0 /\ k + 1 \in 1..m_numcl
      BY ONLY <1>3, <1>11
    <2>2. g[k] = at(k)
      BY ONLY <1>11
    <2>3. g[k + 1] = next(g[k])
      BY ONLY <1>9, <2>1
    <2>4. at(k + 1) = next(at(k))
      BY ONLY <1>5, <2>1
    <2> QED
      BY ONLY <2>1, <2>2, <2>3, <2>4
  <1>12. 0..m_numcl \subseteq S
    <2>1. S \in SUBSET Nat /\ \A k \in 0..m_numcl : k \in S /\ k < m_numcl => k + 1 \in S
      <3>1. S \subseteq 0..m_numcl /\ 0..m_numcl \subseteq Nat
        BY ONLY <1>3
      <3> HIDE DEF S
      <3> QED
        BY ONLY <1>11, <3>1
    <2> HIDE DEF S
    <2> QED
      BY ONLY <1>3, <1>10, <2>1, Upward
  <1>13. \A k \in 1..m_numcl : g[k - 1] = IF k - 1 < Len(ch) THEN ch[k] ELSE ENDOFCHAIN
    <2> TAKE k \in 1..m_numcl
    <2>1. k - 1 \in 0..m_numcl /\ (k - 1) + 1 = k
      BY ONLY <1>3, k \in 1..m_numcl
    <2>2. g[k - 1] = at(k - 1)
      BY ONLY <1>12, <2>1
    <2> QED
      BY ONLY <2>1, <2>2 DEF at
  <1>14. \A k \in 1..m_numcl : g[k - 1] # ENDOFCHAIN <=> k \in 1..Len(ch)
    <2> TAKE k \in 1..m_numcl
    <2>1. CASE k - 1 < Len(ch)
      <3>1. k \in 1..Len(ch)
        BY ONLY <1>1, <1>3, <2>1, k \in 1..m_numcl
      <3>2. ch[k] # ENDOFCHAIN
        BY ONLY <1>1, <3>1 DEF ENDOFCHAIN
      <3> QED
        BY ONLY <1>13, <2>1, <3>1, <3>2
    <2>2. CASE ~(k - 1 < Len(ch))
      <3>1. k \notin 1..Len(ch)
        BY ONLY <1>1, <1>3, <2>2, k \in 1..m_numcl
      <3> QED
        BY ONLY <1>13, <2>2, <3>1
    <2> QED
      BY ONLY <2>1, <2>2
  <1>15. {j \in 1..m_numcl : g[j - 1] # ENDOFCHAIN} = 1..Len(ch)
    <2>1. 1..Len(ch) \subseteq 1..m_numcl
      BY ONLY <1>1, <1>3
    <2> QED
      BY ONLY <1>14, <2>1
  <1>16. C = Len(ch)
    <2>1. 1 \in Int /\ Len(ch) \in Int
      BY ONLY <1>1
    <2>2. Cardinality(1..Len(ch)) = IF 1 > Len(ch) THEN 0 ELSE Len(ch) - 1 + 1
      BY ONLY <2>1, FS_Interval
    <2>3. C = Cardinality(1..Len(ch))
      BY ONLY <1>15, Zenon
    <2> HIDE DEF C
    <2>4. Cardinality(1..Len(ch)) = Len(ch)
      BY ONLY <1>1, <2>2
    <2> QED
      BY ONLY <2>3, <2>4
  <1> HIDE DEF C
  <1>17. \A k \in 1..Len(ch) : g[k - 1] = ch[k]
    <2> TAKE k \in 1..Len(ch)
    <2>1. k \in 1..m_numcl /\ k - 1 < Len(ch)
      BY ONLY <1>1, <1>3, k \in 1..Len(ch)
    <2> QED
      BY ONLY <1>13, <2>1
  <1>18. [k \in 1..Len(ch) |-> g[k - 1]] = [k \in 1..Len(ch) |-> ch[k]]
    BY ONLY <1>17
  <1>19. ch = [k \in 1..Len(ch) |-> ch[k]]
    <2>1. ch \in Seq(Clnums)
      BY ChainIs
    <2> QED
      BY ONLY <2>1
  <1> QED
    BY ONLY <1>8, <1>16, <1>18, <1>19

-----------------------------------------------------------------------------
(* Where a position is.                                                     *)

LEMMA PlaceIs ==
  ASSUME NEW i, i \in Nat, NEW d, d \in 0..clsizb, (i = 0 <=> d = 0), NEW n, n = Byte(i, d)
  PROVE  /\ n \in Nat /\ (n + clsizb - 1) \div clsizb = i
         /\ n \div clsizb = (IF i = 0 \/ d = clsizb THEN i ELSE i - 1)
         /\ n % clsizb = (IF i = 0 \/ d = clsizb THEN 0 ELSE d)
         /\ i # 0 => n > (i - 1) * clsizb
  <1>1. clsizb \in Nat /\ clsizb > 0
    BY Sizes
  <1>2. CASE i = 0
    <2>1. n = 0
      BY ONLY <1>2, n = Byte(i, d) DEF Byte
    <2>2. 0 = clsizb * 0 + 0 /\ 0 + clsizb - 1 = clsizb * 0 + (clsizb - 1)
      BY ONLY <1>1
    <2>3. 0 = 0 \div clsizb
      BY ONLY <1>1, <2>2, Quotient
    <2>4. 0 = 0 % clsizb
      BY ONLY <1>1, <2>2, Remainder
    <2>5. 0 = (0 + clsizb - 1) \div clsizb
      <3> DEFINE c == 0 + clsizb - 1
                 r == clsizb - 1
      <3>1. c \in Int /\ r \in Int /\ c = clsizb * 0 + r /\ 0 <= r /\ r < clsizb
        BY ONLY <1>1, <2>2
      <3> HIDE DEF c, r
      <3>2. 0 = c \div clsizb
        BY ONLY <1>1, <3>1, Quotient
      <3> QED
        BY ONLY <3>2 DEF c
    <2> QED
      BY ONLY <1>2, <2>1, <2>3, <2>4, <2>5
  <1>3. CASE i # 0
    <2> DEFINE x == (i - 1) * clsizb
    <2>1. i - 1 \in Nat /\ (i - 1) + 1 = i /\ d \in 1..clsizb
      BY ONLY <1>1, <1>3, i \in Nat, d \in 0..clsizb, i = 0 <=> d = 0
    <2>2. /\ x \in Nat /\ x = clsizb * (i - 1) /\ clsizb * i = x + clsizb /\ i * clsizb = x + clsizb
      <3>1. ASSUME NEW a \in Nat, NEW w \in Nat
            PROVE  a * w \in Nat /\ a * w = w * a /\ w * (a + 1) = a * w + w /\ (a + 1) * w = a * w + w
        OBVIOUS
      <3> QED
        BY ONLY <1>1, <2>1, <3>1
    <2>3. n = x + d
      BY ONLY <1>3, n = Byte(i, d) DEF Byte
    <2> HIDE DEF x
    <2>4. n \in Nat /\ n > x
      BY ONLY <1>1, <2>1, <2>2, <2>3
    <2>5. (n + clsizb - 1) \div clsizb = i
      <3> DEFINE c == n + clsizb - 1
                 r == d - 1
      <3>1. c \in Int /\ r \in Int /\ c = clsizb * i + r /\ 0 <= r /\ r < clsizb /\ i \in Int
        BY ONLY <1>1, <2>1, <2>2, <2>3, i \in Nat
      <3> HIDE DEF c, r
      <3>2. i = c \div clsizb
        BY ONLY <1>1, <3>1, Quotient
      <3> QED
        BY ONLY <3>2 DEF c
    <2>6. CASE d = clsizb
      <3>1. n = clsizb * i + 0 /\ n \in Int /\ i \in Int
        BY ONLY <1>1, <2>2, <2>3, <2>6, i \in Nat
      <3>2. i = n \div clsizb
        BY ONLY <1>1, <3>1, Quotient
      <3>3. 0 = n % clsizb
        BY ONLY <1>1, <3>1, Remainder
      <3> QED
        BY ONLY <1>3, <2>4, <2>5, <2>6, <3>2, <3>3 DEF x
    <2>7. CASE d # clsizb
      <3>1. n = clsizb * (i - 1) + d /\ n \in Int /\ i - 1 \in Int /\ 0 <= d /\ d < clsizb /\ d \in Int
        BY ONLY <1>1, <2>1, <2>2, <2>3, <2>4, <2>7
      <3> DEFINE p == i - 1
      <3>2. n = clsizb * p + d /\ p \in Int /\ n \in Int /\ 0 <= d /\ d < clsizb /\ d \in Int
        BY ONLY <3>1
      <3> HIDE DEF p
      <3>3. p = n \div clsizb
        BY ONLY <1>1, <3>2, Quotient
      <3>4. d = n % clsizb
        BY ONLY <1>1, <3>2, Remainder
      <3> QED
        BY ONLY <1>3, <2>4, <2>5, <2>7, <3>3, <3>4 DEF x, p
    <2> QED
      BY ONLY <2>6, <2>7
  <1> QED
    BY ONLY <1>2, <1>3

\* the cluster of a position, and the byte in it
ClusterAt(n) == n \div clsizb + IF n % clsizb # 0 THEN 1 ELSE 0
ByteAt(n) == IF n % clsizb # 0 THEN n % clsizb ELSE IF n \div clsizb = 0 THEN 0 ELSE clsizb

LEMMA PlaceOf ==
  ASSUME NEW n, n \in Nat
  PROVE  /\ ClusterAt(n) \in Nat /\ ByteAt(n) \in 0..clsizb /\ (ClusterAt(n) = 0 <=> ByteAt(n) = 0)
         /\ n = Byte(ClusterAt(n), ByteAt(n))
         /\ (n % clsizb = ByteAt(n) \/ (ByteAt(n) = clsizb /\ n % clsizb = 0))
         /\ (n = 0 <=> ClusterAt(n) = 0)
         /\ n \div clsizb \in Nat /\ n % clsizb \in Nat
  <1>1. clsizb \in Nat /\ clsizb > 0
    BY Sizes
  <1> DEFINE k == n \div clsizb
             r == n % clsizb
  <1>2. n = clsizb * k + r /\ r \in 0..clsizb - 1 /\ k \in Nat
    BY ONLY <1>1, n \in Nat, Divides
  <1>3. /\ ClusterAt(n) = k + (IF r # 0 THEN 1 ELSE 0)
        /\ ByteAt(n) = IF r # 0 THEN r ELSE IF k = 0 THEN 0 ELSE clsizb
    BY DEF ClusterAt, ByteAt
  <1> HIDE DEF k, r
  <1>4. /\ ClusterAt(n) \in Nat /\ ByteAt(n) \in 0..clsizb /\ (ClusterAt(n) = 0 <=> ByteAt(n) = 0)
        /\ (r = ByteAt(n) \/ (ByteAt(n) = clsizb /\ r = 0)) /\ r \in Nat
    BY ONLY <1>1, <1>2, <1>3
  <1>5. k * clsizb = clsizb * k /\ clsizb * k \in Nat
    BY ONLY <1>1, <1>2
  <1>6. n = Byte(ClusterAt(n), ByteAt(n))
    <2>1. CASE r # 0
      <3>1. ClusterAt(n) # 0 /\ ClusterAt(n) - 1 = k /\ ByteAt(n) = r
        BY ONLY <1>2, <1>3, <2>1
      <3>2. Byte(ClusterAt(n), ByteAt(n)) = k * clsizb + r
        BY ONLY <3>1 DEF Byte
      <3> QED
        BY ONLY <1>2, <1>5, <3>2
    <2>2. CASE r = 0 /\ k # 0
      <3>1. ClusterAt(n) # 0 /\ ClusterAt(n) = k /\ ByteAt(n) = clsizb
        BY ONLY <1>2, <1>3, <2>2
      <3>2. Byte(ClusterAt(n), ByteAt(n)) = (k - 1) * clsizb + clsizb
        BY ONLY <3>1 DEF Byte
      <3>3. k - 1 \in Nat /\ (k - 1) + 1 = k
        BY ONLY <1>2, <2>2
      <3>4. k * clsizb = (k - 1) * clsizb + clsizb
        BY ONLY <1>1, <3>3, OneMore
      <3> QED
        BY ONLY <1>2, <1>5, <2>2, <3>2, <3>4
    <2>3. CASE r = 0 /\ k = 0
      <3>1. n = 0
        <4>1. clsizb * 0 = 0
          BY ONLY <1>1
        <4> QED
          BY ONLY <1>2, <2>3, <4>1
      <3>2. ClusterAt(n) = 0
        BY ONLY <1>3, <2>3
      <3> QED
        BY ONLY <3>1, <3>2 DEF Byte
    <2> QED
      BY ONLY <2>1, <2>2, <2>3
  <1>7. n = 0 <=> ClusterAt(n) = 0
    <2>1. ClusterAt(n) = 0 => n = 0
      BY ONLY <1>6 DEF Byte
    <2>2. ClusterAt(n) # 0 => n > (ClusterAt(n) - 1) * clsizb
      BY ONLY <1>4, <1>6, PlaceIs
    <2>3. ClusterAt(n) # 0 => (ClusterAt(n) - 1) * clsizb \in Nat
      <3>1. ClusterAt(n) # 0 => ClusterAt(n) - 1 \in Nat
        BY ONLY <1>4
      <3> QED
        BY ONLY <1>1, <3>1
    <2> DEFINE x == (ClusterAt(n) - 1) * clsizb
    <2>4. ClusterAt(n) # 0 => x \in Nat /\ n > x
      BY ONLY <2>2, <2>3
    <2> HIDE DEF x
    <2>5. ClusterAt(n) # 0 => n # 0
      BY ONLY <2>4
    <2> QED
      BY ONLY <2>1, <2>5
  <1> QED
    BY ONLY <1>2, <1>4, <1>6, <1>7 DEF k, r

\* a position further on is in the same cluster or a later one
LEMMA PlaceUp ==
  ASSUME NEW n, n \in Nat, NEW j, j \in Nat, n > j * clsizb
  PROVE  j <= n \div clsizb /\ (j = n \div clsizb => n % clsizb # 0)
  <1>1. clsizb \in Nat /\ clsizb > 0
    BY Sizes
  <1> DEFINE k == n \div clsizb
             r == n % clsizb
  <1>2. n = clsizb * k + r /\ r \in 0..clsizb - 1 /\ k \in Nat
    BY ONLY <1>1, n \in Nat, Divides
  <1> HIDE DEF k, r
  <1>3. k * clsizb = clsizb * k /\ k * clsizb \in Nat /\ (k + 1) * clsizb = k * clsizb + clsizb
        /\ j * clsizb \in Nat
    BY ONLY <1>1, <1>2, j \in Nat
  <1>4. j * clsizb < (k + 1) * clsizb
    <2> DEFINE x == j * clsizb
               y == k * clsizb
               z == (k + 1) * clsizb
    <2>1. x \in Nat /\ y \in Nat /\ z = y + clsizb /\ n = y + r /\ n > x
      BY ONLY <1>2, <1>3, n > j * clsizb
    <2> HIDE DEF x, y, z
    <2>2. x < z
      BY ONLY <1>1, <1>2, <2>1
    <2> QED
      BY ONLY <2>2 DEF x, z
  <1>5. j + 1 <= k + 1
    <2>1. k + 1 \in Nat
      BY ONLY <1>2
    <2> QED
      BY ONLY <1>1, <1>4, <2>1, j \in Nat, Narrower
  <1>6. j <= k
    BY ONLY <1>2, <1>5, j \in Nat
  <1>7. j = k => r # 0
    <2> SUFFICES ASSUME j = k, r = 0 PROVE FALSE
      OBVIOUS
    <2>1. n = j * clsizb + 0
      BY ONLY <1>2, <1>3, j = k, r = 0
    <2> DEFINE x == j * clsizb
    <2>2. n = x + 0 /\ n > x /\ x \in Nat
      BY ONLY <1>3, <2>1, n > j * clsizb
    <2> HIDE DEF x
    <2> QED
      BY ONLY <2>2
  <1> QED
    BY ONLY <1>6, <1>7 DEF k, r

\* what ixlseek finds for a position after the first
SeekTo(n) ==
  LET curflg == IF ofd.curbyt # 0 /\ ofd.curbyt # clsizb THEN 0 ELSE 1
      onward == ofd.curcl # 0 /\ n >= ofd.bytnum
      clnum == IF onward THEN n \div clsizb - ofd.bytnum \div clsizb + curflg
               ELSE n \div clsizb
      start == IF onward THEN ofd.curcl ELSE ofd.strtcl
  IN  Walk(start, (IF clnum > 0 THEN clnum - 1 ELSE 0)
                   + IF n % clsizb # 0 /\ clnum # 0 THEN 1 ELSE 0)

LEMMA SeekToIs ==
  ASSUME NEW ch, NEW i, NEW d, NEW q, On(Now, ch, i, d, ofd.bytnum, ofd.fileln, q),
         NEW n, n \in 1..ofd.fileln
  PROVE  ClusterAt(n) \in 1..Len(ch) /\ SeekTo(n) = ch[ClusterAt(n)]
  <1> DEFINE curflg == IF ofd.curbyt # 0 /\ ofd.curbyt # clsizb THEN 0 ELSE 1
             onward == ofd.curcl # 0 /\ n >= ofd.bytnum
             k == n \div clsizb
             r == n % clsizb
             kb == ofd.bytnum \div clsizb
             clnum == IF onward THEN k - kb + curflg ELSE k
             start == IF onward THEN ofd.curcl ELSE ofd.strtcl
             steps == (IF clnum > 0 THEN clnum - 1 ELSE 0) + IF r # 0 /\ clnum # 0 THEN 1 ELSE 0
             j == IF onward THEN i ELSE 1
  <1>1. clsizb \in Nat /\ clsizb > 0
    BY Sizes
  <1>2. SeekTo(n) = Walk(start, steps)
    BY DEF SeekTo
  <1>3. /\ Base(Now, ch, ofd.bytnum, ofd.fileln, q) /\ Len(ch) \in Nat
        /\ i \in 0..Len(ch) /\ d \in 0..clsizb /\ (i = 0 <=> d = 0)
        /\ ofd.curcl = (IF i = 0 THEN 0 ELSE ch[i])
        /\ ofd.curbyt = d \/ (d = clsizb /\ ofd.curbyt = 0)
        /\ ofd.bytnum \in Nat /\ ofd.bytnum = Byte(i, d)
    <2>1. /\ Base(Now, ch, ofd.bytnum, ofd.fileln, q) /\ Len(ch) \in Nat /\ At(Now.ofd, ch, i)
          /\ i \in 0..Len(ch) /\ d \in 0..clsizb /\ (i = 0 <=> d = 0)
          /\ Now.ofd.curbyt = d \/ (d = clsizb /\ Now.ofd.curbyt = 0)
          /\ Now.ofd.bytnum \in Nat /\ Now.ofd.bytnum = Byte(i, d)
      BY OnIs
    <2> QED
      BY ONLY <2>1, NowIs DEF At
  <1>4. /\ Chain(ch, fat, ofd.strtcl) /\ ofd.fileln \in Nat /\ ofd.fileln <= Len(ch) * clsizb
    BY ONLY <1>3, NowIs DEF Base
  <1>5. n \in Nat /\ n > 0
    BY ONLY <1>4, n \in 1..ofd.fileln
  <1>6. /\ ClusterAt(n) \in Nat /\ ClusterAt(n) # 0 /\ k \in Nat /\ r \in Nat
        /\ n = Byte(ClusterAt(n), ByteAt(n)) /\ ByteAt(n) \in 0..clsizb
        /\ (ClusterAt(n) = 0 <=> ByteAt(n) = 0)
    BY ONLY <1>5, PlaceOf
  <1>7. ClusterAt(n) = k + IF r # 0 THEN 1 ELSE 0
    BY DEF ClusterAt
  <1>8. ClusterAt(n) <= Len(ch)
    <2>1. n > (ClusterAt(n) - 1) * clsizb
      BY ONLY <1>6, PlaceIs
    <2>2. ClusterAt(n) - 1 \in Nat /\ (ClusterAt(n) - 1) + 1 = ClusterAt(n)
      BY ONLY <1>6
    <2>3. (ClusterAt(n) - 1) * clsizb \in Nat /\ Len(ch) * clsizb \in Nat
      BY ONLY <1>1, <1>3, <2>2
    <2>4. (ClusterAt(n) - 1) * clsizb < Len(ch) * clsizb
      <3> DEFINE x == (ClusterAt(n) - 1) * clsizb
                 y == Len(ch) * clsizb
      <3>1. x \in Nat /\ y \in Nat /\ n > x /\ ofd.fileln <= y
        BY ONLY <1>4, <2>1, <2>3
      <3> HIDE DEF x, y
      <3>2. x < y
        BY ONLY <1>4, <1>5, <3>1, n \in 1..ofd.fileln
      <3> QED
        BY ONLY <3>2 DEF x, y
    <2>5. (ClusterAt(n) - 1) + 1 <= Len(ch)
      BY ONLY <1>1, <1>3, <2>2, <2>4, Narrower
    <2> QED
      BY ONLY <2>2, <2>5
  <1> HIDE DEF k, r, kb
  <1>9. /\ j \in 1..Len(ch) /\ start = ch[j] /\ clnum = k - j + 1 /\ j - 1 <= k
        /\ (j - 1 = k => r # 0)
    <2>1. CASE onward
      <3>1. i # 0 /\ ofd.curcl = ch[i] /\ n >= ofd.bytnum /\ d # 0
        BY ONLY <1>3, <2>1
      <3>2. kb = (IF d = clsizb THEN i ELSE i - 1) /\ ofd.bytnum > (i - 1) * clsizb
        <4>1. i \in Nat
          BY ONLY <1>3
        <4> DEFINE m == ofd.bytnum
        <4>3. i \in Nat /\ d \in 0..clsizb /\ (i = 0 <=> d = 0) /\ m = Byte(i, d)
          BY ONLY <1>3, <4>1
        <4> HIDE DEF m
        <4>4. /\ m \div clsizb = (IF i = 0 \/ d = clsizb THEN i ELSE i - 1)
              /\ i # 0 => m > (i - 1) * clsizb
          BY ONLY <4>3, PlaceIs, Zenon
        <4>2. /\ ofd.bytnum \div clsizb = (IF i = 0 \/ d = clsizb THEN i ELSE i - 1)
              /\ i # 0 => ofd.bytnum > (i - 1) * clsizb
          BY ONLY <4>4 DEF m
        <4> QED
          BY ONLY <3>1, <4>2 DEF kb
      <3>3. curflg = IF d = clsizb THEN 1 ELSE 0
        BY ONLY <1>1, <1>3, <3>1
      <3>4. clnum = k - i + 1
        <4>1. clnum = k - kb + curflg
          BY ONLY <2>1
        <4> HIDE DEF clnum, curflg
        <4> QED
          BY ONLY <1>3, <1>6, <3>2, <3>3, <4>1
      <3>5. i - 1 <= k /\ (i - 1 = k => r # 0)
        <4>1. i - 1 \in Nat
          BY ONLY <1>3, <3>1
        <4> DEFINE p == i - 1
        <4>2. p * clsizb \in Nat
          BY ONLY <1>1, <4>1
        <4>3. n > p * clsizb
          <5> DEFINE x == p * clsizb
          <5>1. x \in Nat /\ ofd.bytnum > x
            BY ONLY <3>2, <4>2
          <5> HIDE DEF x
          <5>2. n > x
            BY ONLY <1>3, <1>5, <3>1, <5>1
          <5> QED
            BY ONLY <5>2 DEF x
        <4>4. p \in Nat
          BY ONLY <4>1
        <4> HIDE DEF p
        <4>5. p <= n \div clsizb /\ (p = n \div clsizb => n % clsizb # 0)
          BY ONLY <1>5, <4>3, <4>4, PlaceUp
        <4> QED
          BY ONLY <4>5 DEF p, k, r
      <3> HIDE DEF clnum
      <3>6. j = i /\ start = ch[i] /\ i \in 1..Len(ch)
        BY ONLY <1>3, <2>1, <3>1
      <3> QED
        BY ONLY <3>4, <3>5, <3>6
    <2>2. CASE ~onward
      <3>1. j = 1 /\ start = ofd.strtcl /\ clnum = k
        BY ONLY <2>2
      <3>2. 1 \in 1..Len(ch) /\ Len(ch) # 0
        BY ONLY <1>3, <1>6, <1>8
      <3>3. ofd.strtcl = ch[1]
        BY ONLY <1>4, <3>2 DEF Chain
      <3>4. k = 0 => r # 0
        BY ONLY <1>6, <1>7
      <3> HIDE DEF j, start, clnum, onward
      <3> QED
        BY ONLY <1>6, <3>1, <3>2, <3>3, <3>4
    <2> QED
      BY ONLY <2>1, <2>2
  <1> HIDE DEF j, start, clnum
  <1>10. steps \in Nat /\ j + steps = ClusterAt(n)
    BY ONLY <1>3, <1>6, <1>7, <1>9
  <1> HIDE DEF steps
  <1>11. Walk(ch[j], steps) = ch[j + steps]
    <2>1. j + steps <= Len(ch)
      BY ONLY <1>8, <1>10
    <2> QED
      BY ONLY <1>4, <1>9, <1>10, <2>1, WalkIs
  <1> QED
    BY ONLY <1>2, <1>3, <1>6, <1>8, <1>9, <1>10, <1>11

LEMMA SeekKeeps ==
  ASSUME NEW ch, NEW i, NEW d, NEW q, On(Now, ch, i, d, ofd.bytnum, ofd.fileln, q),
         NEW n, n \in Nat, ixlseek(n)
  PROVE  \E u : /\ Becomes(u) /\ u.moved = <<>> /\ n \in 0..ofd.fileln
                /\ u.ofd.bytnum = n /\ u.ofd.fileln = ofd.fileln
                /\ \E i2, d2 : On(u, ch, i2, d2, n, ofd.fileln, q)
  <1> DEFINE clx == IF n = 0 THEN 0 ELSE SeekTo(n)
             o == [ofd EXCEPT !.curcl = clx, !.currec = clx * clsiz, !.bytnum = n,
                              !.curbyt = n % clsizb]
             u == [Now EXCEPT !.ofd = o]
  <1>1. /\ n \in 0..ofd.fileln /\ ofd' = o /\ moved' = <<>>
        /\ fat' = fat /\ buf' = buf /\ dirty' = dirty /\ latest' = latest /\ fresh' = fresh
    BY DEF ixlseek, SeekTo
  <1>2. /\ Base(Now, ch, ofd.bytnum, ofd.fileln, q) /\ Len(ch) \in Nat /\ Stage(Now) /\ Held(Now)
    BY OnIs
  <1>3. ofd \in Ofds
    BY ONLY <1>2, NowIs DEF Stage, Stages
  <1>4. /\ ClusterAt(n) \in 0..Len(ch) /\ clx = IF ClusterAt(n) = 0 THEN 0 ELSE ch[ClusterAt(n)]
    <2>1. n = 0 <=> ClusterAt(n) = 0
      BY PlaceOf
    <2>2. n # 0 => n \in 1..ofd.fileln
      <3>1. ofd.fileln \in Nat
        BY ONLY <1>3 DEF Ofds
      <3> QED
        BY ONLY <1>1, <3>1
    <2>3. n # 0 => ClusterAt(n) \in 1..Len(ch) /\ SeekTo(n) = ch[ClusterAt(n)]
      BY ONLY <2>2, On(Now, ch, i, d, ofd.bytnum, ofd.fileln, q), SeekToIs
    <2> QED
      BY ONLY <1>2, <2>1, <2>3
  <1>5. clx \in Nat
    <2>1. Chain(ch, Now.fat, Now.ofd.strtcl)
      BY ONLY <1>2 DEF Base
    <2>2. \A j \in 1..Len(ch) : ch[j] \in Nat
      BY ONLY <2>1, ChainIs
    <2>3. ClusterAt(n) # 0 => ClusterAt(n) \in 1..Len(ch)
      BY ONLY <1>2, <1>4
    <2> QED
      BY ONLY <1>4, <2>2, <2>3
  <1> HIDE DEF clx
  <1>6. clx * clsiz \in Nat /\ n % clsizb \in Nat
    <2>1. clsiz \in Nat
      BY Sizes
    <2> QED
      BY ONLY <1>5, <2>1, PlaceOf, n \in Nat
  <1>7. /\ o \in Ofds /\ o.strtcl = ofd.strtcl /\ o.curcl = clx /\ o.currec = clx * clsiz
        /\ o.bytnum = n /\ o.curbyt = n % clsizb /\ o.fileln = ofd.fileln
    <2> DEFINE x == clx * clsiz
               y == n % clsizb
    <2>1. o = [ofd EXCEPT !.curcl = clx, !.currec = x, !.bytnum = n, !.curbyt = y]
      OBVIOUS
    <2>2. x \in Nat /\ y \in Nat
      BY ONLY <1>6
    <2> HIDE DEF x, y, o
    <2>3. /\ o \in Ofds /\ o.strtcl = ofd.strtcl /\ o.curcl = clx /\ o.currec = x
          /\ o.bytnum = n /\ o.curbyt = y /\ o.fileln = ofd.fileln
      BY ONLY <1>3, <1>5, <2>1, <2>2, n \in Nat DEF Ofds
    <2> QED
      BY ONLY <2>3 DEF x, y
  <1> HIDE DEF o
  <1>8. /\ u \in Stages /\ u.ofd = o /\ u.fat = fat /\ u.buf = buf /\ u.dirty = dirty
        /\ u.latest = latest /\ u.fresh = fresh /\ u.moved = <<>>
    <2>1. Now \in Stages
      BY ONLY <1>2 DEF Stage
    <2>2. /\ u \in Stages /\ u.ofd = o /\ u.fat = Now.fat /\ u.buf = Now.buf /\ u.dirty = Now.dirty
          /\ u.latest = Now.latest /\ u.fresh = Now.fresh /\ u.moved = Now.moved
      <3> HIDE DEF Now
      <3> QED
        BY ONLY <1>7, <2>1 DEF Stages
    <2> QED
      BY ONLY <2>2, NowIs
  <1> HIDE DEF u
  <1>9. Becomes(u)
    BY ONLY <1>1, <1>8 DEF Becomes
  <1>10. Stage(u) /\ Held(u)
    BY ONLY <1>2, <1>8, NowIs DEF Held, Stage
  <1>11. /\ Chain(ch, u.fat, u.ofd.strtcl) /\ ofd.fileln \in Nat /\ ofd.fileln <= Len(ch) * clsizb
         /\ Len(ch) + Cardinality(Spare(u.fat)) = q
    BY ONLY <1>2, <1>7, <1>8, NowIs DEF Base
  <1>12. Leads(u.moved, ch, n) /\ Len(u.moved) = 0
    BY ONLY <1>8 DEF Leads
  <1>13. u.ofd.fileln = Most(ofd.fileln, u.ofd.bytnum) /\ u.ofd.bytnum = n + Len(u.moved)
    BY ONLY <1>1, <1>7, <1>8, <1>11, <1>12, n \in Nat DEF Most
  <1>14. Base(u, ch, n, ofd.fileln, q)
    BY ONLY <1>10, <1>11, <1>12, <1>13, n \in Nat DEF Base
  <1>15. At(u.ofd, ch, ClusterAt(n))
    BY ONLY <1>4, <1>7, <1>8 DEF At
  <1>16. Behind(u.ofd, ClusterAt(n), ByteAt(n))
    BY ONLY <1>7, <1>8, PlaceOf, n \in Nat DEF Behind
  <1>17. On(u, ch, ClusterAt(n), ByteAt(n), n, ofd.fileln, q)
    BY ONLY <1>14, <1>15, <1>16 DEF On
  <1> QED
    BY ONLY <1>1, <1>7, <1>8, <1>9, <1>17

-----------------------------------------------------------------------------
(* The theorems.                                                            *)

\* a place in the chain is a good position
LEMMA PositionIs ==
  ASSUME NEW ch, NEW i, NEW d, NEW q, On(Now, ch, i, d, ofd.bytnum, ofd.fileln, q)
  PROVE  PositionOK
  <1>1. clsizb \in Nat /\ clsizb > 0
    BY Sizes
  <1>2. /\ Base(Now, ch, ofd.bytnum, ofd.fileln, q) /\ Len(ch) \in Nat /\ At(Now.ofd, ch, i)
        /\ i \in 0..Len(ch) /\ d \in 0..clsizb /\ (i = 0 <=> d = 0)
        /\ Now.ofd.curbyt = d \/ (d = clsizb /\ Now.ofd.curbyt = 0)
        /\ Now.ofd.bytnum = Byte(i, d)
    BY OnIs
  <1>3. /\ ofd.curcl = (IF i = 0 THEN 0 ELSE ch[i]) /\ ofd.currec = ofd.curcl * clsiz
        /\ ofd.curbyt = d \/ (d = clsizb /\ ofd.curbyt = 0)
        /\ ofd.bytnum = Byte(i, d) /\ Chain(ch, fat, ofd.strtcl) /\ i \in Nat
    BY ONLY <1>2, NowIs DEF At, Base
  <1>4. chain = ch
    BY ONLY <1>3, chainIs
  <1>5. /\ (ofd.bytnum + clsizb - 1) \div clsizb = i
        /\ ofd.bytnum % clsizb = (IF i = 0 \/ d = clsizb THEN 0 ELSE d)
    <2> DEFINE n == ofd.bytnum
    <2>1. i \in Nat /\ d \in 0..clsizb /\ (i = 0 <=> d = 0) /\ n = Byte(i, d)
      BY ONLY <1>2, <1>3
    <2> HIDE DEF n
    <2>2. /\ (n + clsizb - 1) \div clsizb = i
          /\ n % clsizb = (IF i = 0 \/ d = clsizb THEN 0 ELSE d)
      BY ONLY <2>1, PlaceIs, Zenon
    <2> QED
      BY ONLY <2>2 DEF n
  <1>6. ofd.curbyt % clsizb = ofd.bytnum % clsizb
    <2>1. CASE i = 0 \/ d = clsizb
      <3>1. ofd.curbyt = 0 \/ ofd.curbyt = clsizb
        BY ONLY <1>2, <1>3, <2>1
      <3>2. 0 = clsizb * 0 + 0 /\ clsizb = clsizb * 1 + 0
        BY ONLY <1>1
      <3>3. 0 = 0 % clsizb
        BY ONLY <1>1, <3>2, Remainder
      <3>4. 0 = clsizb % clsizb
        BY ONLY <1>1, <3>2, Remainder
      <3> QED
        BY ONLY <1>5, <2>1, <3>1, <3>3, <3>4
    <2>2. CASE ~(i = 0 \/ d = clsizb)
      <3>1. ofd.curbyt = d
        BY ONLY <1>3, <2>2
      <3>2. d = clsizb * 0 + d /\ 0 <= d /\ d < clsizb /\ d \in Int
        BY ONLY <1>1, <1>2, <2>2
      <3>3. d = d % clsizb
        BY ONLY <1>1, <3>2, Remainder
      <3> QED
        BY ONLY <1>5, <2>2, <3>1, <3>3
    <2> QED
      BY ONLY <2>1, <2>2
  <1>7. ofd.curbyt \in 0..clsizb
    BY ONLY <1>1, <1>2, <1>3
  <1> DEFINE k == (ofd.bytnum + clsizb - 1) \div clsizb
  <1>8. k = i /\ ofd.curcl = (IF i = 0 THEN 0 ELSE chain[i])
    BY ONLY <1>3, <1>4, <1>5
  <1> HIDE DEF k
  <1>9. ofd.curcl = IF k = 0 THEN 0 ELSE chain[k]
    BY ONLY <1>8
  <1> QED
    BY ONLY <1>3, <1>6, <1>7, <1>9 DEF PositionOK, k

\* The invariant of the proof holds at the start: a closed empty file, and
\* buffers that hold nothing.
LEMMA IOStarts == ASSUME IOInit PROVE IOInv
  <1>1. PICK taken \in Layouts : fat = [c \in Clnums |-> IF c \in taken THEN ENDOFCHAIN ELSE UNUSED]
    BY DEF IOInit
  <1>2. /\ ofd = [strtcl |-> 0, curcl |-> 0, currec |-> 0, curbyt |-> 0, bytnum |-> 0, fileln |-> 0]
        /\ buf = <<NoRecord, NoRecord>> /\ dirty = {} /\ latest = {} /\ fresh = Records
    BY DEF IOInit
  <1>3. fat \in [Clnums -> Links]
    BY <1>1 DEF Links
  <1>4. ofd \in Ofds
    BY ONLY <1>2 DEF Ofds
  <1>5. buf \in Seq(Int) /\ Len(buf) = 2 /\ buf[1] = NoRecord /\ buf[2] = NoRecord /\ 2 > 0
    BY ONLY <1>2 DEF NoRecord
  <1>6. Records \in SUBSET Int
    <2>1. \A r \in Records : r \in Int
      BY RecordsAre
    <2> QED
      BY ONLY <2>1
  <1>7. Now \in Stages
    <2>1. dirty \in SUBSET Int /\ latest \in SUBSET Int /\ fresh \in SUBSET Int /\ <<>> \in Seq(Int)
      BY ONLY <1>2, <1>6
    <2> QED
      BY ONLY <1>3, <1>4, <1>5, <2>1 DEF Now, Stages
  <1>8. Held(Now)
    <2>1. Apart(buf)
      BY ONLY <1>5 DEF Apart
    <2>2. ToSet(buf) \ {NoRecord} = {}
      BY ONLY <1>5 DEF ToSet
    <2>3. Records \ fresh = dirty /\ dirty \subseteq latest /\ latest = ToSet(buf) \ {NoRecord}
      BY ONLY <1>2, <2>2
    <2> QED
      BY ONLY <1>5, <2>1, <2>3, NowIs DEF Held
  <1> DEFINE ch == <<>>
             q == Len(ch) + Cardinality(Spare(fat))
  <1>9. /\ ofd.strtcl = 0 /\ ofd.curcl = 0 /\ ofd.currec = 0 /\ ofd.curbyt = 0
        /\ ofd.bytnum = 0 /\ ofd.fileln = 0
    BY ONLY <1>2
  <1>10. Chain(ch, fat, ofd.strtcl) /\ Len(ch) = 0
    <2>1. ch \in Seq(Clnums) /\ Len(ch) = 0
      OBVIOUS
    <2>2. 1..0 = {}
      OBVIOUS
    <2> HIDE DEF ch
    <2> QED
      BY ONLY <1>9, <2>1, <2>2 DEF Chain
  <1>11. q = Len(ch) + Cardinality(Spare(Now.fat))
    BY NowIs
  <1> HIDE DEF ch, q
  <1>12. clsizb \in Nat /\ clsiz \in Nat /\ 0 * clsiz = 0 /\ 0 * clsizb = 0
    BY Sizes
  <1>13. Base(Now, ch, ofd.bytnum, ofd.fileln, q)
    <2>1. Leads(Now.moved, ch, ofd.bytnum)
      BY ONLY NowIs DEF Leads
    <2>2. ofd.fileln <= Len(ch) * clsizb /\ Now.ofd.fileln = Most(ofd.fileln, Now.ofd.bytnum)
      BY ONLY <1>9, <1>10, <1>12, NowIs DEF Most
    <2>3. Now.ofd.bytnum = ofd.bytnum + Len(Now.moved) /\ ofd.bytnum \in Nat /\ ofd.fileln \in Nat
      BY ONLY <1>9, NowIs
    <2> QED
      BY ONLY <1>7, <1>8, <1>10, <1>11, <2>1, <2>2, <2>3, NowIs DEF Base, Stage
  <1>14. At(Now.ofd, ch, 0)
    BY ONLY <1>9, <1>10, <1>12, NowIs DEF At
  <1>15. Behind(Now.ofd, 0, 0)
    BY ONLY <1>9, <1>12, NowIs DEF Behind, Byte
  <1>16. On(Now, ch, 0, 0, ofd.bytnum, ofd.fileln, q)
    BY ONLY <1>13, <1>14, <1>15 DEF On
  <1> QED
    BY ONLY <1>16 DEF IOInv

\* and every call keeps it
LEMMA IOKeeps == IOInv /\ [IONext]_iovars => IOInv'
  <1> SUFFICES ASSUME IOInv, [IONext]_iovars PROVE IOInv'
    OBVIOUS
  <1>1. PICK ch, i, d, q : On(Now, ch, i, d, ofd.bytnum, ofd.fileln, q)
    BY DEF IOInv
  <1>2. ASSUME NEW u, NEW ch2, NEW i2, NEW d2, NEW b, NEW l, On(u, ch2, i2, d2, b, l, q), Becomes(u)
        PROVE  IOInv'
    <2>1. On(Now', ch2, i2, d2, ofd'.bytnum, ofd'.fileln, q)
      BY ONLY <1>2, CallEnds
    <2> QED
      BY ONLY <2>1 DEF IOInv
  <1>3. ASSUME NEW n, n \in Counts, ixread(n) PROVE IOInv'
    <2>1. n \in Nat
      BY ONLY <1>3, Sizes
    <2>2. PICK u : /\ Becomes(u)
                   /\ Result(u, ch, MIN(n, ofd.fileln - ofd.bytnum), ofd.bytnum, ofd.fileln, q, FALSE)
      BY ONLY <1>1, <1>3, <2>1, ReadKeeps
    <2> QED
      BY ONLY <1>2, <2>2 DEF Result
  <1>4. ASSUME NEW n, n \in Counts, ixwrite(n) PROVE IOInv'
    <2>1. n \in Nat /\ n > 0
      BY ONLY <1>4, Sizes
    <2>2. PICK u : Becomes(u) /\ Result(u, ch, n, ofd.bytnum, ofd.fileln, q, TRUE)
      BY ONLY <1>1, <1>4, <2>1, WriteKeeps
    <2> QED
      BY ONLY <1>2, <2>2 DEF Result
  <1>5. ASSUME NEW n, n \in Places, ixlseek(n) PROVE IOInv'
    <2>1. n \in Nat
      BY ONLY <1>5, Sizes
    <2>2. PICK u : Becomes(u) /\ \E i2, d2 : On(u, ch, i2, d2, n, ofd.fileln, q)
      BY ONLY <1>1, <1>5, <2>1, SeekKeeps
    <2> QED
      BY ONLY <1>2, <2>2
  <1>6. ASSUME ixclose PROVE IOInv'
    <2>1. PICK u : Becomes(u) /\ On(u, ch, i, d, ofd.bytnum, ofd.fileln, q)
      BY ONLY <1>1, <1>6, CloseKeeps
    <2> QED
      BY ONLY <1>2, <2>1
  <1>7. ASSUME UNCHANGED iovars PROVE IOInv'
    <2>1. Now' = Now /\ ofd' = ofd
      BY <1>7 DEF Now, iovars
    <2> QED
      BY ONLY <1>1, <2>1 DEF IOInv
  <1> QED
    BY <1>3, <1>4, <1>5, <1>6, <1>7 DEF IONext

LEMMA IOSound == IOInv => NothingStale
  <1> SUFFICES ASSUME IOInv PROVE NothingStale
    OBVIOUS
  <1>1. PICK ch, i, d, q : On(Now, ch, i, d, ofd.bytnum, ofd.fileln, q)
    BY DEF IOInv
  <1>2. PositionOK
    BY ONLY <1>1, PositionIs
  <1>3. Held(Now)
    BY ONLY <1>1, OnIs
  <1> QED
    BY ONLY <1>2, <1>3, NowIs DEF NothingStale, Held

\* The inductive invariant: between calls the file is a chain of clusters, each
\* once and all its own, as long as its bytes need; the OFD names the cluster
\* and byte of its position in it, at the end of a cluster the one before; and
\* each record is in one buffer at most, whose contents are the latest
\* (the OFD and bufl of bdos/fsfat.c and fsopnclo.c).
THEOREM IOInvariant == IOSpec => []IOInv
  <1>1. IOInit => IOInv
    BY IOStarts
  <1>2. IOInv /\ [IONext]_iovars => IOInv'
    BY IOKeeps
  <1> QED
    BY <1>1, <1>2, PTL DEF IOSpec

\* Whatever the sizes of records and clusters, and however requests have to be
\* broken up: the cluster and offset of the OFD (OFD.curcl, curbyt) are where
\* its position is, and no record is read from a copy that is behind the one
\* in a buffer or on disk (xrw, getrec and
\* usrio of bdos/fsfat.c, ixlseek of bdos/fsopnclo.c).
THEOREM FileSound == IOSpec => []NothingStale
  BY IOInvariant, IOSound, PTL

-----------------------------------------------------------------------------
(* The bytes of the file.                                                   *)

\* bytes of the disk that lead on from byte b are the bytes of the file from b
BytesFrom(b, n) == [k \in 1..n |-> b + k - 1]
LEMMA BytesHere ==
  \A ch, b : /\ Chain(ch, fat, ofd.strtcl) /\ moved \in Seq(Int) /\ Leads(moved, ch, b)
             => FileBytes = BytesFrom(b, Len(moved))
  <1> SUFFICES ASSUME NEW ch, NEW b, Chain(ch, fat, ofd.strtcl), moved \in Seq(Int),
                      Leads(moved, ch, b)
               PROVE  FileBytes = BytesFrom(b, Len(moved))
    OBVIOUS
  <1> DEFINE index(c) == (CHOOSE k \in DOMAIN ch : ch[k] = c) - 1
             byte(a) == IF a \div clsizb \in ToSet(ch)
                        THEN index(a \div clsizb) * clsizb + (a % clsizb) ELSE -1
  <1>1. clsizb \in Nat /\ clsizb > 0
    BY Sizes
  <1>2. chain = ch
    BY chainIs
  <1>3. /\ ch \in Seq(Clnums) /\ Len(ch) \in Nat /\ DOMAIN ch = 1..Len(ch)
        /\ \A j \in 1..Len(ch) : ch[j] \in Nat
    BY ChainIs
  <1>4. \A j, k \in 1..Len(ch) : ch[j] = ch[k] => j = k
    BY DEF Chain
  <1>5. ToSet(ch) = {ch[j] : j \in 1..Len(ch)}
    BY ONLY <1>3 DEF ToSet
  <1>6. FileBytes = [k \in DOMAIN moved |-> byte(moved[k])]
    <2> DEFINE byte2(g, a) == IF a \div clsizb \in ToSet(ch)
                              THEN g[a \div clsizb] * clsizb + (a % clsizb) ELSE -1
               g2 == [c \in ToSet(ch) |-> (CHOOSE k \in DOMAIN ch : ch[k] = c) - 1]
    <2>1. FileBytes = [k \in DOMAIN moved |-> byte2(g2, moved[k])]
      BY ONLY <1>2 DEF FileBytes
    <2>2. ASSUME NEW a PROVE byte2(g2, a) = byte(a)
      <3> DEFINE c == a \div clsizb
      <3>1. c \in ToSet(ch) => g2[c] = index(c)
        <4> HIDE DEF c
        <4> QED
          OBVIOUS
      <3>2. /\ byte2(g2, a) = IF c \in ToSet(ch) THEN g2[c] * clsizb + (a % clsizb) ELSE -1
            /\ byte(a) = IF c \in ToSet(ch) THEN index(c) * clsizb + (a % clsizb) ELSE -1
        BY Zenon
      <3> HIDE DEF byte2, byte, g2, index, c
      <3>3. CASE c \in ToSet(ch)
        <4>1. g2[c] = index(c)
          BY ONLY <3>1, <3>3
        <4>2. byte2(g2, a) = g2[c] * clsizb + (a % clsizb) /\ byte(a) = index(c) * clsizb + (a % clsizb)
          BY ONLY <3>2, <3>3, Zenon
        <4> QED
          BY ONLY <4>1, <4>2, Zenon
      <3>4. CASE c \notin ToSet(ch)
        BY ONLY <3>2, <3>4, Zenon
      <3> QED
        BY ONLY <3>3, <3>4
    <2> HIDE DEF byte2, g2, byte
    <2> QED
      BY ONLY <2>1, <2>2
  <1>7. ASSUME NEW j, j \in 1..Len(ch) PROVE index(ch[j]) = j - 1
    <2>1. \E k \in DOMAIN ch : ch[k] = ch[j]
      BY ONLY <1>3, <1>7
    <2> DEFINE x == CHOOSE k \in DOMAIN ch : ch[k] = ch[j]
    <2>2. x \in DOMAIN ch /\ ch[x] = ch[j]
      BY <2>1, Zenon
    <2> HIDE DEF x
    <2>3. x = j
      BY ONLY <1>3, <1>4, <1>7, <2>2
    <2> QED
      BY ONLY <2>3 DEF x
  <1> HIDE DEF index
  <1>8. ASSUME NEW k, k \in 1..Len(moved) PROVE byte(moved[k]) = b + k - 1
    <2>1. PICK j \in 1..Len(ch), e \in 0..clsizb - 1 :
            moved[k] = ch[j] * clsizb + e /\ b + k - 1 = (j - 1) * clsizb + e
      BY <1>8 DEF Leads
    <2>2. ch[j] \in Nat /\ ch[j] * clsizb = clsizb * ch[j] /\ clsizb * ch[j] \in Nat
      BY ONLY <1>1, <1>3
    <2> DEFINE a == moved[k]
               c == ch[j]
    <2>3. a = clsizb * c + e /\ a \in Int /\ c \in Int /\ e \in Int /\ 0 <= e /\ e < clsizb
      <3>1. e \in Int /\ 0 <= e /\ e < clsizb
        BY ONLY <1>1, e \in 0..clsizb - 1
      <3>2. a = clsizb * c + e
        BY ONLY <2>1, <2>2
      <3>3. a \in Int /\ c \in Int
        BY ONLY <2>2, <3>1, <3>2
      <3> QED
        BY ONLY <3>1, <3>2, <3>3
    <2>4. c \in ToSet(ch) /\ index(c) = j - 1
      BY ONLY <1>5, <1>7, j \in 1..Len(ch)
    <2> HIDE DEF a, c
    <2>5. c = a \div clsizb
      BY ONLY <1>1, <2>3, Quotient
    <2>6. e = a % clsizb
      BY ONLY <1>1, <2>3, Remainder
    <2>7. byte(a) = index(c) * clsizb + e
      BY ONLY <2>4, <2>5, <2>6, Zenon
    <2> HIDE DEF byte
    <2>8. byte(a) = (j - 1) * clsizb + e
      BY ONLY <2>4, <2>7, Zenon
    <2>9. b + k - 1 = (j - 1) * clsizb + e
      BY ONLY <2>1
    <2>10. byte(a) = b + k - 1
      BY ONLY <2>8, <2>9, Zenon
    <2> QED
      BY ONLY <2>10 DEF a
  <1> HIDE DEF byte
  <1>9. DOMAIN moved = 1..Len(moved)
    OBVIOUS
  <1>10. [k \in DOMAIN moved |-> byte(moved[k])] = [k \in 1..Len(moved) |-> b + k - 1]
    BY ONLY <1>8, <1>9
  <1> QED
    BY ONLY <1>6, <1>10 DEF BytesFrom
LEMMA BytesThere ==
  \A ch, b : /\ Chain(ch, fat', ofd'.strtcl) /\ moved' \in Seq(Int) /\ Leads(moved', ch, b)
             => FileBytes' = BytesFrom(b, Len(moved'))
  <1>1. (\A ch, b : /\ Chain(ch, fat, ofd.strtcl) /\ moved \in Seq(Int) /\ Leads(moved, ch, b)
                    => FileBytes = BytesFrom(b, Len(moved)))'
    BY BytesHere, PTL
  <1> QED
    BY <1>1

\* how long the file can get
Room == (Len(chain) + Cardinality(free)) * clsizb
LEMMA RoomHere ==
  \A ch, q : Chain(ch, fat, ofd.strtcl) /\ Len(ch) + Cardinality(Spare(fat)) = q => Room = q * clsizb
  <1> SUFFICES ASSUME NEW ch, NEW q, Chain(ch, fat, ofd.strtcl), Len(ch) + Cardinality(Spare(fat)) = q
               PROVE  Room = q * clsizb
    OBVIOUS
  <1>1. chain = ch
    BY chainIs
  <1>2. free = Spare(fat)
    BY DEF free, Spare
  <1> QED
    BY ONLY <1>1, <1>2, Len(ch) + Cardinality(Spare(fat)) = q DEF Room
LEMMA RoomThere ==
  \A ch, q : Chain(ch, fat', ofd'.strtcl) /\ Len(ch) + Cardinality(Spare(fat')) = q => Room' = q * clsizb
  <1>1. (\A ch, q : Chain(ch, fat, ofd.strtcl) /\ Len(ch) + Cardinality(Spare(fat)) = q => Room = q * clsizb)'
    BY RoomHere, PTL
  <1> QED
    BY <1>1

LEMMA SpareCount ==
  ASSUME NEW f
  PROVE  Cardinality(Spare(f)) \in Nat /\ (Spare(f) = {} => Cardinality(Spare(f)) = 0)
  <1> DEFINE hi == m_numcl - 1
  <1>1. 2 \in Int /\ hi \in Int
    BY Sizes
  <1>2. Spare(f) \subseteq 2..hi
    BY DEF Spare
  <1> HIDE DEF hi
  <1>3. IsFiniteSet(2..hi)
    BY ONLY <1>1, FS_Interval
  <1>4. IsFiniteSet(Spare(f))
    BY ONLY <1>2, <1>3, FS_Subset
  <1> QED
    BY ONLY <1>4, FS_CardinalityType, FS_EmptySet

\* what ByteFile sees of a call that moved n bytes
Seen(n) ==
  /\ n \in Nat /\ ofd.bytnum \in Nat /\ ofd.fileln \in Nat /\ ofd.bytnum <= ofd.fileln
  /\ ofd'.bytnum = ofd.bytnum + n /\ ofd'.fileln = Most(ofd.fileln, ofd.bytnum + n)
  /\ FileBytes' = BytesFrom(ofd.bytnum, n) /\ Room' = Room
  /\ Room \in Nat /\ ofd.fileln <= Room /\ ofd'.bytnum <= Room

LEMMA CallSeen ==
  ASSUME NEW ch, NEW i, NEW d, NEW q, On(Now, ch, i, d, ofd.bytnum, ofd.fileln, q),
         NEW u, NEW ch2, NEW i2, NEW d2, On(u, ch2, i2, d2, ofd.bytnum, ofd.fileln, q), Becomes(u)
  PROVE  /\ Seen(Len(u.moved))
         /\ i2 = Len(ch2) /\ (i2 = 0 \/ d2 = clsizb) => ofd'.bytnum = Len(ch2) * clsizb
         /\ ofd.fileln <= Len(ch2) * clsizb /\ Len(ch2) * clsizb \in Nat
         /\ Spare(u.fat) = {} => Room = Len(ch2) * clsizb
  <1>1. /\ Base(Now, ch, ofd.bytnum, ofd.fileln, q) /\ Len(ch) \in Nat /\ Len(Now.moved) \in Nat
        /\ Now.ofd.bytnum \in Nat
    BY OnIs
  <1>2. /\ Base(u, ch2, ofd.bytnum, ofd.fileln, q) /\ Len(ch2) \in Nat /\ i2 \in 0..Len(ch2)
        /\ d2 \in 0..clsizb /\ u.ofd.bytnum = Byte(i2, d2) /\ Stage(u) /\ Len(u.moved) \in Nat
        /\ u.ofd.bytnum \in Nat /\ (i2 = 0 <=> d2 = 0)
    BY OnIs
  <1>3. /\ Chain(ch, fat, ofd.strtcl) /\ ofd.bytnum \in Nat /\ ofd.fileln \in Nat
        /\ ofd.fileln = Most(ofd.fileln, ofd.bytnum) /\ Len(ch) + Cardinality(Spare(fat)) = q
    BY ONLY <1>1, NowIs DEF Base
  <1>4. /\ Chain(ch2, fat', ofd'.strtcl) /\ ofd.fileln <= Len(ch2) * clsizb
        /\ ofd'.bytnum = ofd.bytnum + Len(u.moved) /\ ofd'.fileln = Most(ofd.fileln, ofd'.bytnum)
        /\ moved' = u.moved /\ Leads(moved', ch2, ofd.bytnum)
        /\ Len(ch2) + Cardinality(Spare(fat')) = q /\ fat' = u.fat /\ ofd' = u.ofd
    BY ONLY <1>2, Becomes(u) DEF Base, Becomes
  <1>5. moved' \in Seq(Int)
    BY ONLY <1>2, <1>4, StageNumbers
  <1>6. FileBytes' = BytesFrom(ofd.bytnum, Len(u.moved))
    BY ONLY <1>4, <1>5, BytesThere
  <1>7. Room = q * clsizb /\ Room' = q * clsizb
    BY ONLY <1>3, <1>4, RoomHere, RoomThere
  <1>8. clsizb \in Nat /\ Cardinality(Spare(u.fat)) \in Nat
        /\ (Spare(u.fat) = {} => Cardinality(Spare(u.fat)) = 0)
    BY Sizes, SpareCount
  <1>9. q \in Nat /\ Len(ch2) <= q /\ (Spare(u.fat) = {} => q = Len(ch2))
    BY ONLY <1>2, <1>4, <1>8
  <1>10. Len(ch2) * clsizb <= q * clsizb /\ q * clsizb \in Nat /\ Len(ch2) * clsizb \in Nat
    BY ONLY <1>2, <1>8, <1>9, Wider
  <1>11. u.ofd.bytnum <= Len(ch2) * clsizb
    <2>1. i2 \in Nat /\ i2 <= Len(ch2)
      BY ONLY <1>2
    <2> QED
      BY ONLY <1>2, <2>1, Reaches
  <1>12. i2 = Len(ch2) /\ (i2 = 0 \/ d2 = clsizb) => ofd'.bytnum = Len(ch2) * clsizb
    <2> SUFFICES ASSUME i2 = Len(ch2), i2 = 0 \/ d2 = clsizb PROVE ofd'.bytnum = Len(ch2) * clsizb
      OBVIOUS
    <2>1. CASE i2 = 0
      <3>1. 0 * clsizb = 0 /\ Byte(i2, d2) = 0
        BY ONLY <1>8, <2>1 DEF Byte
      <3> QED
        BY ONLY <1>2, <1>4, <2>1, <3>1, i2 = Len(ch2)
    <2>2. CASE i2 # 0
      <3>1. i2 - 1 \in Nat /\ (i2 - 1) + 1 = i2 /\ d2 = clsizb
        BY ONLY <1>2, <2>2, i2 = 0 \/ d2 = clsizb
      <3>2. i2 * clsizb = (i2 - 1) * clsizb + clsizb
        BY ONLY <1>8, <3>1, OneMore
      <3>3. Byte(i2, d2) = (i2 - 1) * clsizb + clsizb
        BY ONLY <2>2, <3>1 DEF Byte
      <3> QED
        BY ONLY <1>2, <1>4, <3>2, <3>3, i2 = Len(ch2)
    <2> QED
      BY ONLY <2>1, <2>2
  <1>13. ofd.bytnum <= ofd.fileln
    BY ONLY <1>3 DEF Most
  <1>14. Spare(u.fat) = {} => Room = Len(ch2) * clsizb
    BY ONLY <1>7, <1>9
  <1> DEFINE x == Len(ch2) * clsizb
             y == q * clsizb
  <1>15. x <= y /\ x \in Nat /\ y \in Nat /\ ofd.fileln <= x /\ ofd'.bytnum <= x /\ Room = y
    BY ONLY <1>4, <1>7, <1>10, <1>11
  <1> HIDE DEF x, y
  <1>16. ofd.fileln <= Room /\ ofd'.bytnum <= Room /\ Room \in Nat
    <2>1. ofd'.bytnum \in Nat
      BY ONLY <1>2, <1>4
    <2> QED
      BY ONLY <1>3, <1>15, <2>1
  <1>17. Seen(Len(u.moved))
    <2>1. ofd'.fileln = Most(ofd.fileln, ofd.bytnum + Len(u.moved))
      BY ONLY <1>4
    <2> QED
      BY ONLY <1>2, <1>3, <1>4, <1>6, <1>7, <1>13, <1>16, <2>1 DEF Seen
  <1> QED
    BY ONLY <1>4, <1>10, <1>12, <1>14, <1>17

LEMMA RoomIs == Bytes!byteVars = <<ofd.bytnum, ofd.fileln, Room, FileBytes>>
  BY DEF Bytes!byteVars, Room

LEMMA ReadSeen ==
  ASSUME NEW n, n \in Nat, ofd.bytnum \in Nat, ofd.fileln \in Nat, Seen(MIN(n, ofd.fileln - ofd.bytnum))
  PROVE  Bytes!Read(n)
  <1> DEFINE m == MIN(n, ofd.fileln - ofd.bytnum)
  <1>1. m = Bytes!Least(n, ofd.fileln - ofd.bytnum)
    BY DEF Bytes!Least, MIN
  <1>2. /\ m \in Nat /\ ofd'.bytnum = ofd.bytnum + m /\ FileBytes' = BytesFrom(ofd.bytnum, m)
        /\ ofd'.fileln = Most(ofd.fileln, ofd.bytnum + m) /\ Room' = Room
    BY DEF Seen
  <1>3. m <= ofd.fileln - ofd.bytnum
    BY DEF MIN
  <1> HIDE DEF m
  <1>4. ofd'.fileln = ofd.fileln
    BY ONLY <1>2, <1>3, ofd.bytnum \in Nat, ofd.fileln \in Nat DEF Most
  <1>5. Bytes!Run(m) = BytesFrom(ofd.bytnum, m)
    BY DEF Bytes!Run, BytesFrom
  <1>6. UNCHANGED ((Len(chain) + Cardinality(free)) * clsizb)
    BY ONLY <1>2 DEF Room
  <1> QED
    BY ONLY <1>1, <1>2, <1>4, <1>5, <1>6 DEF Bytes!Read

LEMMA WriteSeen ==
  ASSUME NEW n, n \in Nat, NEW m, Seen(m), m = n \/ (m <= n /\ ofd'.bytnum = Room)
  PROVE  Bytes!Write(n)
  <1>1. /\ m \in Nat /\ ofd'.bytnum = ofd.bytnum + m /\ FileBytes' = BytesFrom(ofd.bytnum, m)
        /\ ofd'.fileln = Most(ofd.fileln, ofd.bytnum + m) /\ Room' = Room /\ ofd.bytnum \in Nat
        /\ Room \in Nat /\ ofd'.bytnum <= Room
    BY DEF Seen
  <1>2. m = IF n < Room - ofd.bytnum THEN n ELSE Room - ofd.bytnum
    BY ONLY <1>1, n \in Nat, m = n \/ (m <= n /\ ofd'.bytnum = Room)
  <1>3. m = Bytes!Least(n, (Len(chain) + Cardinality(free)) * clsizb - ofd.bytnum)
    BY ONLY <1>2 DEF Bytes!Least, Room
  <1>4. Bytes!Run(m) = BytesFrom(ofd.bytnum, m)
    BY DEF Bytes!Run, BytesFrom
  <1>5. UNCHANGED ((Len(chain) + Cardinality(free)) * clsizb)
    BY ONLY <1>1 DEF Room
  <1>6. ofd'.fileln = IF ofd'.bytnum > ofd.fileln THEN ofd'.bytnum ELSE ofd.fileln
    BY ONLY <1>1 DEF Most
  <1> QED
    BY ONLY <1>1, <1>3, <1>4, <1>5, <1>6 DEF Bytes!Write

LEMMA BytesStep == IOInv /\ [IONext]_iovars => [Bytes!ByteNext]_(Bytes!byteVars)
  <1> SUFFICES ASSUME IOInv, [IONext]_iovars PROVE [Bytes!ByteNext]_(Bytes!byteVars)
    OBVIOUS
  <1>1. PICK ch, i, d, q : On(Now, ch, i, d, ofd.bytnum, ofd.fileln, q)
    BY DEF IOInv
  <1>2. ASSUME NEW n, n \in Counts, ixread(n) PROVE Bytes!ByteNext
    <2> DEFINE m == MIN(n, ofd.fileln - ofd.bytnum)
    <2>1. n \in Nat
      BY ONLY <1>2, Sizes
    <2>2. PICK u : Becomes(u) /\ Result(u, ch, m, ofd.bytnum, ofd.fileln, q, FALSE)
      BY ONLY <1>1, <1>2, <2>1, ReadKeeps
    <2> HIDE DEF m
    <2>3. PICK ch2, i2, d2 :
            /\ On(u, ch2, i2, d2, ofd.bytnum, ofd.fileln, q)
            /\ Len(u.moved) = m \/ (Len(u.moved) <= m /\ Ends(u, ch2, i2, d2, FALSE))
      BY ONLY <2>2 DEF Result
    <2>4. /\ Seen(Len(u.moved))
          /\ i2 = Len(ch2) /\ (i2 = 0 \/ d2 = clsizb) => ofd'.bytnum = Len(ch2) * clsizb
          /\ ofd.fileln <= Len(ch2) * clsizb /\ Len(ch2) * clsizb \in Nat
      BY ONLY <1>1, <2>2, <2>3, CallSeen
    <2>5. /\ Len(u.moved) \in Nat /\ ofd.bytnum \in Nat /\ ofd.fileln \in Nat
          /\ ofd.bytnum <= ofd.fileln /\ ofd'.bytnum = ofd.bytnum + Len(u.moved)
      BY ONLY <2>4 DEF Seen
    <2>6. m \in Nat /\ m <= ofd.fileln - ofd.bytnum
      BY ONLY <2>1, <2>5 DEF m, MIN
    <2>7. Len(u.moved) = m
      <3>1. CASE Len(u.moved) <= m /\ Ends(u, ch2, i2, d2, FALSE)
        <4> DEFINE x == Len(ch2) * clsizb
        <4>1. ofd'.bytnum = x /\ ofd.fileln <= x /\ x \in Nat
          BY ONLY <2>4, <3>1 DEF Ends
        <4> HIDE DEF x
        <4> QED
          BY ONLY <2>5, <2>6, <3>1, <4>1
      <3> QED
        BY ONLY <2>3, <3>1
    <2>8. Seen(m)
      BY ONLY <2>4, <2>7
    <2>9. Bytes!Read(n)
      BY ONLY <2>1, <2>5, <2>8, ReadSeen DEF m
    <2> QED
      BY ONLY <1>2, <2>9 DEF Bytes!ByteNext
  <1>3. ASSUME NEW n, n \in Counts, ixwrite(n) PROVE Bytes!ByteNext
    <2>1. n \in Nat /\ n > 0
      BY ONLY <1>3, Sizes
    <2>2. PICK u : Becomes(u) /\ Result(u, ch, n, ofd.bytnum, ofd.fileln, q, TRUE)
      BY ONLY <1>1, <1>3, <2>1, WriteKeeps
    <2>3. PICK ch2, i2, d2 :
            /\ On(u, ch2, i2, d2, ofd.bytnum, ofd.fileln, q)
            /\ Len(u.moved) = n \/ (Len(u.moved) <= n /\ Ends(u, ch2, i2, d2, TRUE))
      BY ONLY <2>2 DEF Result
    <2>4. /\ Seen(Len(u.moved))
          /\ i2 = Len(ch2) /\ (i2 = 0 \/ d2 = clsizb) => ofd'.bytnum = Len(ch2) * clsizb
          /\ Spare(u.fat) = {} => Room = Len(ch2) * clsizb
      BY ONLY <1>1, <2>2, <2>3, CallSeen
    <2>5. Len(u.moved) = n \/ (Len(u.moved) <= n /\ ofd'.bytnum = Room)
      BY ONLY <2>3, <2>4 DEF Ends
    <2>6. Bytes!Write(n)
      BY ONLY <2>1, <2>4, <2>5, WriteSeen
    <2> QED
      BY ONLY <1>3, <2>6 DEF Bytes!ByteNext
  <1>4. ASSUME NEW u, NEW i2, NEW d2, NEW n, On(u, ch, i2, d2, n, ofd.fileln, q), Becomes(u),
               u.moved = <<>>, u.ofd.bytnum = n, n \in 0..ofd.fileln
        PROVE  Bytes!Seek
    <2>1. /\ Base(u, ch, n, ofd.fileln, q) /\ Stage(u)
      BY ONLY <1>4, OnIs
    <2>2. Base(Now, ch, ofd.bytnum, ofd.fileln, q)
      BY ONLY <1>1, OnIs
    <2>3. /\ Chain(ch, fat, ofd.strtcl) /\ Len(ch) + Cardinality(Spare(fat)) = q /\ ofd.fileln \in Nat
      BY ONLY <2>2, NowIs DEF Base
    <2>4. /\ Chain(ch, fat', ofd'.strtcl) /\ Len(ch) + Cardinality(Spare(fat')) = q
          /\ moved' = <<>> /\ ofd'.bytnum = n /\ ofd'.fileln = Most(ofd.fileln, n)
      BY ONLY <1>4, <2>1 DEF Base, Becomes
    <2>5. Room' = Room
      BY ONLY <2>3, <2>4, RoomHere, RoomThere
    <2>6. FileBytes' = BytesFrom(0, 0)
      <3>1. moved' \in Seq(Int) /\ Len(moved') = 0
        BY ONLY <2>4
      <3>2. Leads(moved', ch, 0)
        BY ONLY <3>1 DEF Leads
      <3> QED
        BY ONLY <2>4, <3>1, <3>2, BytesThere
    <2>7. Bytes!Run(0) = BytesFrom(0, 0)
      BY DEF Bytes!Run, BytesFrom
    <2>8. ofd'.fileln = ofd.fileln
      BY ONLY <1>4, <2>3, <2>4 DEF Most
    <2>9. UNCHANGED ((Len(chain) + Cardinality(free)) * clsizb)
      BY ONLY <2>5 DEF Room
    <2> QED
      BY ONLY <1>4, <2>4, <2>6, <2>7, <2>8, <2>9 DEF Bytes!Seek
  <1>5. ASSUME NEW n, n \in Places, ixlseek(n) PROVE Bytes!ByteNext
    <2>1. n \in Nat
      BY ONLY <1>5, Sizes
    <2>2. PICK u : /\ Becomes(u) /\ u.moved = <<>> /\ n \in 0..ofd.fileln /\ u.ofd.bytnum = n
                   /\ \E i2, d2 : On(u, ch, i2, d2, n, ofd.fileln, q)
      BY ONLY <1>1, <1>5, <2>1, SeekKeeps
    <2>3. Bytes!Seek
      BY ONLY <1>4, <2>2
    <2> QED
      BY ONLY <2>3 DEF Bytes!ByteNext
  <1>6. ASSUME ixclose PROVE Bytes!ByteNext
    <2>1. PICK u : Becomes(u) /\ u.ofd = ofd /\ u.moved = <<>> /\ On(u, ch, i, d, ofd.bytnum, ofd.fileln, q)
      BY ONLY <1>1, <1>6, CloseKeeps
    <2>2. ofd.bytnum \in 0..ofd.fileln
      <3>1. Base(Now, ch, ofd.bytnum, ofd.fileln, q)
        BY ONLY <1>1, OnIs
      <3>2. ofd.bytnum \in Nat /\ ofd.fileln \in Nat /\ ofd.fileln = Most(ofd.fileln, ofd.bytnum)
        BY ONLY <3>1, NowIs DEF Base
      <3> QED
        BY ONLY <3>2 DEF Most
    <2>3. u.ofd.bytnum = ofd.bytnum
      BY ONLY <2>1
    <2>4. Bytes!Seek
      BY ONLY <1>4, <2>1, <2>2, <2>3
    <2> QED
      BY ONLY <2>4 DEF Bytes!ByteNext
  <1>7. ASSUME UNCHANGED iovars PROVE UNCHANGED Bytes!byteVars
    <2>1. fat' = fat /\ ofd' = ofd /\ moved' = moved
      BY <1>7 DEF iovars
    <2>2. chain' = chain
      BY ONLY <2>1 DEF chain
    <2>3. free' = free
      BY ONLY <2>1 DEF free
    <2>4. FileBytes' = FileBytes
      BY ONLY <2>1, <2>2 DEF FileBytes
    <2>5. Room' = Room
      BY ONLY <2>2, <2>3 DEF Room
    <2> QED
      BY ONLY <2>1, <2>4, <2>5, RoomIs DEF Bytes!byteVars, Room
  <1> QED
    BY <1>2, <1>3, <1>5, <1>6, <1>7 DEF IONext

LEMMA BytesStart == IOInit => Bytes!ByteInit
  <1> SUFFICES ASSUME IOInit PROVE Bytes!ByteInit
    OBVIOUS
  <1>1. PICK ch, i, d, q : On(Now, ch, i, d, ofd.bytnum, ofd.fileln, q)
    BY IOStarts DEF IOInv
  <1>2. ofd.bytnum = 0 /\ ofd.fileln = 0 /\ moved = <<>>
    BY DEF IOInit
  <1>3. /\ Base(Now, ch, ofd.bytnum, ofd.fileln, q) /\ Len(ch) \in Nat
    BY ONLY <1>1, OnIs
  <1>4. /\ Chain(ch, fat, ofd.strtcl) /\ Len(ch) + Cardinality(Spare(fat)) = q
    BY ONLY <1>3, NowIs DEF Base
  <1>5. Room = q * clsizb
    BY ONLY <1>4, RoomHere
  <1>6. 0 <= q * clsizb
    <2>1. q \in Nat /\ clsizb \in Nat
      BY <1>3, <1>4, SpareCount, Sizes
    <2>2. q * clsizb \in Nat
      BY ONLY <2>1
    <2> QED
      BY ONLY <2>2
  <1>7. FileBytes = BytesFrom(0, 0)
    <2>1. moved \in Seq(Int) /\ Len(moved) = 0
      BY ONLY <1>2
    <2>2. Leads(moved, ch, 0)
      BY ONLY <2>1 DEF Leads
    <2> QED
      BY ONLY <1>4, <2>1, <2>2, BytesHere
  <1>8. Bytes!Run(0) = BytesFrom(0, 0)
    BY DEF Bytes!Run, BytesFrom
  <1> QED
    BY ONLY <1>2, <1>5, <1>6, <1>7, <1>8 DEF Bytes!ByteInit, Room

\* Whatever a request has to be broken into, and whatever the sizes of records
\* and clusters: a call moves the bytes of the file from the position on, in
\* order, always the latest, and as many as the file has or the drive has room
\* for (xrw, usrio and mulio of bdos/fsfat.c).
THEOREM FileMovesBytes == IOSpec => MovesBytes
  <1>1. IOInit => Bytes!ByteInit
    BY BytesStart
  <1>2. IOInv /\ [IONext]_iovars => [Bytes!ByteNext]_(Bytes!byteVars)
    BY BytesStep
  <1> QED
    BY <1>1, <1>2, IOInvariant, PTL DEF IOSpec, MovesBytes, Bytes!ByteSpec
=============================================================================
