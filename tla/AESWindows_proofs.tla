------------------------- MODULE AESWindows_proofs -------------------------
(* Theorems about AESWindows, for any number of windows, any screen, and any *)
(* places the programs choose.                                               *)
EXTENDS AESWindows, FiniteSetTheorems, SequenceTheorems, NaturalsInduction,
        WellFoundedInduction, TLAPS

-----------------------------------------------------------------------------
(* Rectangles and lists of them.                                            *)

Rects == [x : Int, y : Int, w : Nat, h : Nat]
Points == Int \X Int
In(c, r) == r.x <= c[1] /\ c[1] < r.x + r.w /\ r.y <= c[2] /\ c[2] < r.y + r.h
Inside(p, r) ==
  /\ r.x <= p.x /\ p.x + p.w <= r.x + r.w
  /\ r.y <= p.y /\ p.y + p.h <= r.y + r.h

\* the points of a list
Hits(c, l) == \E k \in DOMAIN l : In(c, l[k])
Apart(l) == \A j, k \in DOMAIN l : j # k => ~Overlap(l[j], l[k])
Across(l, m) == \A j \in DOMAIN l, k \in DOMAIN m : ~Overlap(l[j], m[k])

\* a rectangle and its parts
LEMMA RectIs ==
  ASSUME NEW x \in Int, NEW y \in Int, NEW w \in Nat, NEW h \in Nat
  PROVE  /\ Rect(x, y, w, h) \in Rects
         /\ Rect(x, y, w, h).x = x /\ Rect(x, y, w, h).y = y
         /\ Rect(x, y, w, h).w = w /\ Rect(x, y, w, h).h = h
  BY DEF Rect, Rects

\* the parts of a rectangle are numbers
LEMMA RectsAre ==
  ASSUME NEW r \in Rects
  PROVE  r.x \in Int /\ r.y \in Int /\ r.w \in Nat /\ r.h \in Nat
  BY DEF Rects

\* the cells of a rectangle are the points in it
LEMMA CellsAre ==
  ASSUME NEW r \in Rects, NEW c
  PROVE  c \in Cells(r) <=> c \in Points /\ In(c, r)
  BY RectsAre DEF Cells, Points, In

\* what Overlap says, in numbers
LEMMA OverlapIs ==
  ASSUME NEW p \in Rects, NEW q \in Rects
  PROVE  Overlap(p, q) <=> /\ p.x < q.x + q.w /\ q.x < p.x + p.w
                           /\ p.y < q.y + q.h /\ q.y < p.y + p.h
                           /\ p.w > 0 /\ p.h > 0 /\ q.w > 0 /\ q.h > 0
  <1>1. p.x \in Int /\ p.y \in Int /\ p.w \in Nat /\ p.h \in Nat
    BY RectsAre
  <1>2. q.x \in Int /\ q.y \in Int /\ q.w \in Nat /\ q.h \in Nat
    BY RectsAre
  <1> DEFINE i == rc_intersect(p, q)
  <1>3. /\ i.w = WMIN(p.x + p.w, q.x + q.w) - WMAX(p.x, q.x)
        /\ i.h = WMIN(p.y + p.h, q.y + q.h) - WMAX(p.y, q.y)
    BY DEF rc_intersect, Rect
  <1>4. Overlap(p, q) <=> ~(i.w <= 0 \/ i.h <= 0)
    BY DEF Overlap, Empty
  <1> HIDE DEF i
  <1>5. i.w > 0 <=> p.x < q.x + q.w /\ q.x < p.x + p.w /\ p.w > 0 /\ q.w > 0
    BY ONLY <1>1, <1>2, <1>3 DEF WMIN, WMAX
  <1>6. i.h > 0 <=> p.y < q.y + q.h /\ q.y < p.y + p.h /\ p.h > 0 /\ q.h > 0
    BY ONLY <1>1, <1>2, <1>3 DEF WMIN, WMAX
  <1>7. i.w \in Int /\ i.h \in Int
    BY ONLY <1>1, <1>2, <1>3 DEF WMIN, WMAX
  <1> QED
    BY ONLY <1>4, <1>5, <1>6, <1>7

\* what lies within rectangles that are apart is apart
LEMMA InsideApart ==
  ASSUME NEW p \in Rects, NEW q \in Rects, NEW r \in Rects, NEW s \in Rects,
         Inside(p, r), Inside(q, s), ~Overlap(r, s)
  PROVE  ~Overlap(p, q)
  <1>1. /\ p.x \in Int /\ p.y \in Int /\ p.w \in Nat /\ p.h \in Nat
        /\ q.x \in Int /\ q.y \in Int /\ q.w \in Nat /\ q.h \in Nat
        /\ r.x \in Int /\ r.y \in Int /\ r.w \in Nat /\ r.h \in Nat
        /\ s.x \in Int /\ s.y \in Int /\ s.w \in Nat /\ s.h \in Nat
    BY RectsAre
  <1> QED
    BY ONLY <1>1, OverlapIs, p \in Rects, q \in Rects, r \in Rects, s \in Rects,
            Inside(p, r), Inside(q, s), ~Overlap(r, s) DEF Inside

\* two rectangles are apart if and only if no point is in both
LEMMA ApartIs ==
  ASSUME NEW p \in Rects, NEW q \in Rects, NEW c, c \in Points, In(c, p), In(c, q)
  PROVE  Overlap(p, q)
  <1>1. /\ p.x \in Int /\ p.y \in Int /\ p.w \in Nat /\ p.h \in Nat
        /\ q.x \in Int /\ q.y \in Int /\ q.w \in Nat /\ q.h \in Nat
    BY RectsAre
  <1>2. c[1] \in Int /\ c[2] \in Int
    BY DEF Points
  <1> QED
    BY ONLY <1>1, <1>2, OverlapIs, p \in Rects, q \in Rects, In(c, p), In(c, q) DEF In

\* two lists, one after the other: what they hit, and whether they are apart
LEMMA JoinIs ==
  ASSUME NEW l \in Seq(Rects), NEW m \in Seq(Rects)
  PROVE  /\ l \o m \in Seq(Rects)
         /\ \A k \in DOMAIN (l \o m) : \/ \E j \in DOMAIN l : (l \o m)[k] = l[j]
                                       \/ \E j \in DOMAIN m : (l \o m)[k] = m[j]
         /\ \A c : Hits(c, l \o m) <=> Hits(c, l) \/ Hits(c, m)
         /\ Apart(l) /\ Apart(m) /\ Across(l, m) => Apart(l \o m)
  <1> DEFINE n == l \o m
  <1>1. /\ Len(l) \in Nat /\ Len(m) \in Nat /\ n \in Seq(Rects)
        /\ DOMAIN l = 1..Len(l) /\ DOMAIN m = 1..Len(m) /\ DOMAIN n = 1..Len(l) + Len(m)
    OBVIOUS
  <1>2. \A k \in 1..Len(l) : n[k] = l[k]
    OBVIOUS
  <1>3. \A k \in 1..Len(m) : n[Len(l) + k] = m[k]
    OBVIOUS
  <1> HIDE DEF n
  <1>4. ASSUME NEW k \in DOMAIN n
        PROVE  \/ k \in DOMAIN l /\ n[k] = l[k]
               \/ k - Len(l) \in DOMAIN m /\ n[k] = m[k - Len(l)] /\ k > Len(l)
    <2>1. CASE k <= Len(l)
      BY ONLY <1>1, <1>2, <2>1, k \in DOMAIN n
    <2>2. CASE k > Len(l)
      <3>1. k - Len(l) \in 1..Len(m) /\ Len(l) + (k - Len(l)) = k
        BY ONLY <1>1, <2>2, k \in DOMAIN n
      <3> QED
        BY ONLY <1>1, <1>3, <2>2, <3>1
    <2> QED
      BY <1>1, <2>1, <2>2
  <1>5. ASSUME NEW k \in DOMAIN l PROVE k \in DOMAIN n /\ n[k] = l[k]
    BY ONLY <1>1, <1>2, k \in DOMAIN l
  <1>6. ASSUME NEW k \in DOMAIN m PROVE Len(l) + k \in DOMAIN n /\ n[Len(l) + k] = m[k]
    BY ONLY <1>1, <1>3, k \in DOMAIN m
  <1>7. \A c : Hits(c, n) <=> Hits(c, l) \/ Hits(c, m)
    BY ONLY <1>4, <1>5, <1>6 DEF Hits
  <1>8. ASSUME Apart(l), Apart(m), Across(l, m) PROVE Apart(n)
    <2> SUFFICES ASSUME NEW j \in DOMAIN n, NEW k \in DOMAIN n, j # k PROVE ~Overlap(n[j], n[k])
      BY DEF Apart
    <2>1. j \in Int /\ k \in Int /\ Len(l) \in Nat
      BY ONLY <1>1, j \in DOMAIN n, k \in DOMAIN n
    <2>2. \A a \in DOMAIN n, b \in DOMAIN n :
             a \in DOMAIN l /\ n[a] = l[a] /\ b - Len(l) \in DOMAIN m /\ n[b] = m[b - Len(l)]
               => ~Overlap(n[a], n[b]) /\ ~Overlap(n[b], n[a])
      <3> TAKE a \in DOMAIN n, b \in DOMAIN n
      <3> HAVE a \in DOMAIN l /\ n[a] = l[a] /\ b - Len(l) \in DOMAIN m /\ n[b] = m[b - Len(l)]
      <3>1. n[a] \in Rects /\ n[b] \in Rects
        BY ONLY <1>1, a \in DOMAIN n, b \in DOMAIN n
      <3>2. ~Overlap(n[a], n[b])
        BY ONLY <1>8, a \in DOMAIN l, n[a] = l[a], b - Len(l) \in DOMAIN m, n[b] = m[b - Len(l)] DEF Across
      <3>3. Overlap(n[b], n[a]) <=> Overlap(n[a], n[b])
        BY ONLY <3>1, OverlapIs
      <3> QED
        BY ONLY <3>2, <3>3
    <2>3. CASE j \in DOMAIN l /\ n[j] = l[j]
      <3>1. CASE k \in DOMAIN l /\ n[k] = l[k]
        BY ONLY <1>8, <2>3, <3>1, j # k DEF Apart
      <3>2. CASE k - Len(l) \in DOMAIN m /\ n[k] = m[k - Len(l)] /\ k > Len(l)
        BY ONLY <2>2, <2>3, <3>2, j \in DOMAIN n, k \in DOMAIN n
      <3> QED
        BY ONLY <1>4, <3>1, <3>2, k \in DOMAIN n
    <2>4. CASE j - Len(l) \in DOMAIN m /\ n[j] = m[j - Len(l)] /\ j > Len(l)
      <3>1. CASE k \in DOMAIN l /\ n[k] = l[k]
        BY ONLY <2>2, <2>4, <3>1, j \in DOMAIN n, k \in DOMAIN n
      <3>2. CASE k - Len(l) \in DOMAIN m /\ n[k] = m[k - Len(l)] /\ k > Len(l)
        <4>1. j - Len(l) # k - Len(l)
          BY ONLY <2>1, j # k
        <4> QED
          BY ONLY <1>8, <2>4, <3>2, <4>1 DEF Apart
      <3> QED
        BY ONLY <1>4, <3>1, <3>2, k \in DOMAIN n
    <2> QED
      BY ONLY <1>4, <2>3, <2>4, j \in DOMAIN n
  <1> QED
    BY <1>1, <1>4, <1>7, <1>8 DEF n

\* a piece, if there is one
Piece(have, p) == IF have THEN <<p>> ELSE <<>>

\* a piece that brkrct makes or does not make
LEMMA PieceIs ==
  ASSUME NEW have \in BOOLEAN, NEW p, have => p \in Rects
  PROVE  /\ Piece(have, p) \in Seq(Rects) /\ Apart(Piece(have, p))
         /\ \A k \in DOMAIN Piece(have, p) : have /\ Piece(have, p)[k] = p
         /\ \A c : Hits(c, Piece(have, p)) <=> have /\ In(c, p)
  <1>1. CASE have
    <2> DEFINE l == <<p>>
    <2>1. Piece(have, p) = l
      BY <1>1 DEF Piece
    <2>2. l \in Seq(Rects) /\ DOMAIN l = {1} /\ l[1] = p
      BY <1>1
    <2> HIDE DEF l
    <2> QED
      BY ONLY <1>1, <2>1, <2>2 DEF Apart, Hits
  <1>2. CASE ~have
    <2> DEFINE l == <<>>
    <2>1. Piece(have, p) = l
      BY <1>2 DEF Piece
    <2>2. l \in Seq(Rects) /\ DOMAIN l = {}
      OBVIOUS
    <2> HIDE DEF l
    <2> QED
      BY ONLY <1>2, <2>1, <2>2 DEF Apart, Hits
  <1> QED
    BY <1>1, <1>2

\* what is added lies across from what is there
LEMMA AddPiece ==
  ASSUME NEW l \in Seq(Rects), Apart(l), NEW have \in BOOLEAN, NEW p, have => p \in Rects,
         \A k \in DOMAIN l : have => ~Overlap(l[k], p)
  PROVE  /\ l \o Piece(have, p) \in Seq(Rects) /\ Apart(l \o Piece(have, p))
         /\ \A k \in DOMAIN (l \o Piece(have, p)) :
              \/ \E j \in DOMAIN l : (l \o Piece(have, p))[k] = l[j]
              \/ have /\ (l \o Piece(have, p))[k] = p
         /\ \A c : Hits(c, l \o Piece(have, p)) <=> Hits(c, l) \/ (have /\ In(c, p))
  <1> DEFINE m == Piece(have, p)
  <1>1. /\ m \in Seq(Rects) /\ Apart(m) /\ \A k \in DOMAIN m : have /\ m[k] = p
        /\ \A c : Hits(c, m) <=> have /\ In(c, p)
    BY PieceIs
  <1> HIDE DEF m
  <1>2. Across(l, m)
    BY ONLY <1>1, \A k \in DOMAIN l : have => ~Overlap(l[k], p) DEF Across
  <1>3. /\ l \o m \in Seq(Rects)
        /\ \A k \in DOMAIN (l \o m) : \/ \E j \in DOMAIN l : (l \o m)[k] = l[j]
                                      \/ \E j \in DOMAIN m : (l \o m)[k] = m[j]
        /\ \A c : Hits(c, l \o m) <=> Hits(c, l) \/ Hits(c, m)
        /\ Apart(l \o m)
    BY ONLY <1>1, <1>2, JoinIs, l \in Seq(Rects), Apart(l)
  <1>4. \A k \in DOMAIN (l \o m) :
           (\E j \in DOMAIN l : (l \o m)[k] = l[j]) \/ (have /\ (l \o m)[k] = p)
    BY ONLY <1>1, <1>3
  <1>5. \A c : Hits(c, l \o m) <=> Hits(c, l) \/ (have /\ In(c, p))
    BY ONLY <1>1, <1>3
  <1> QED
    BY ONLY <1>3, <1>4, <1>5 DEF m

\* brkrct leaves of r what new does not cover, in pieces
Broken(l, r, new) ==
  /\ l \in Seq(Rects) /\ Apart(l) /\ \A k \in DOMAIN l : Inside(l[k], r)
  /\ \A c \in Points : Hits(c, l) <=> In(c, r) /\ ~In(c, new)

\* brkrct leaves of r exactly what new does not cover, in pieces that are apart
LEMMA BrkrctIs ==
  ASSUME NEW new \in Rects, NEW r \in Rects, Overlap(new, r)
  PROVE  Broken(brkrct(new, r), r, new)
  <1> DEFINE y == WMAX(r.y, new.y)
             h == WMIN(r.y + r.h, new.y + new.h) - y
             a == new.y > r.y
             b == new.x > r.x
             d == new.x + new.w < r.x + r.w
             e == new.y + new.h < r.y + r.h
             T == Rect(r.x, r.y, r.w, new.y - r.y)
             L == Rect(r.x, y, new.x - r.x, h)
             R == Rect(new.x + new.w, y, r.x + r.w - (new.x + new.w), h)
             B == Rect(r.x, new.y + new.h, r.w, r.y + r.h - (new.y + new.h))
  <1>1. /\ new.x \in Int /\ new.y \in Int /\ new.w \in Nat /\ new.h \in Nat
        /\ r.x \in Int /\ r.y \in Int /\ r.w \in Nat /\ r.h \in Nat
    BY RectsAre
  <1>2. /\ new.x < r.x + r.w /\ r.x < new.x + new.w
        /\ new.y < r.y + r.h /\ r.y < new.y + new.h
        /\ new.w > 0 /\ new.h > 0 /\ r.w > 0 /\ r.h > 0
    BY OverlapIs
  <1>3. /\ y \in Int /\ h \in Nat /\ h > 0
        /\ y >= r.y /\ y >= new.y /\ (y = r.y \/ y = new.y)
        /\ y + h <= r.y + r.h /\ y + h <= new.y + new.h
        /\ (y + h = r.y + r.h \/ y + h = new.y + new.h)
    BY ONLY <1>1, <1>2 DEF WMIN, WMAX
  <1> HIDE DEF y, h
  <1>4. a => T \in Rects /\ T.x = r.x /\ T.y = r.y /\ T.w = r.w /\ T.h = new.y - r.y
    <2> SUFFICES ASSUME a PROVE T \in Rects /\ T.x = r.x /\ T.y = r.y /\ T.w = r.w /\ T.h = new.y - r.y
      OBVIOUS
    <2>1. new.y - r.y \in Nat
      BY ONLY <1>1, a
    <2> HIDE DEF a
    <2> QED
      BY ONLY <1>1, <1>3, <2>1 DEF T, Rect, Rects
  <1>5. b => L \in Rects /\ L.x = r.x /\ L.y = y /\ L.w = new.x - r.x /\ L.h = h
    <2> SUFFICES ASSUME b PROVE L \in Rects /\ L.x = r.x /\ L.y = y /\ L.w = new.x - r.x /\ L.h = h
      OBVIOUS
    <2>1. new.x - r.x \in Nat
      BY ONLY <1>1, b
    <2> HIDE DEF b
    <2> QED
      BY ONLY <1>1, <1>3, <2>1 DEF L, Rect, Rects
  <1>6. d => R \in Rects /\ R.x = new.x + new.w /\ R.y = y /\ R.w = r.x + r.w - (new.x + new.w) /\ R.h = h
    <2> SUFFICES ASSUME d
                 PROVE  /\ R \in Rects /\ R.x = new.x + new.w /\ R.y = y
                        /\ R.w = r.x + r.w - (new.x + new.w) /\ R.h = h
      OBVIOUS
    <2>1. r.x + r.w - (new.x + new.w) \in Nat /\ new.x + new.w \in Int
      BY ONLY <1>1, d
    <2> HIDE DEF d
    <2> QED
      BY ONLY <1>1, <1>3, <2>1 DEF R, Rect, Rects
  <1>7. e => B \in Rects /\ B.x = r.x /\ B.y = new.y + new.h /\ B.w = r.w /\ B.h = r.y + r.h - (new.y + new.h)
    <2> SUFFICES ASSUME e
                 PROVE  /\ B \in Rects /\ B.x = r.x /\ B.y = new.y + new.h /\ B.w = r.w
                        /\ B.h = r.y + r.h - (new.y + new.h)
      OBVIOUS
    <2>1. r.y + r.h - (new.y + new.h) \in Nat /\ new.y + new.h \in Int
      BY ONLY <1>1, e
    <2> HIDE DEF e
    <2> QED
      BY ONLY <1>1, <1>3, <2>1 DEF B, Rect, Rects
  <1>8. brkrct(new, r) = Piece(a, T) \o Piece(b, L) \o Piece(d, R) \o Piece(e, B)
    BY DEF brkrct, Piece, y, h
  <1> HIDE DEF T, L, R, B
  \* none meets another, and each is in r
  <1>9. /\ a /\ b => ~Overlap(T, L)
        /\ a /\ d => ~Overlap(T, R)
        /\ a /\ e => ~Overlap(T, B)
        /\ b /\ d => ~Overlap(L, R)
        /\ b /\ e => ~Overlap(L, B)
        /\ d /\ e => ~Overlap(R, B)
    <2>1. a /\ b => ~Overlap(T, L)
      BY ONLY <1>1, <1>2, <1>3, <1>4, <1>5, OverlapIs
    <2>2. a /\ d => ~Overlap(T, R)
      BY ONLY <1>1, <1>2, <1>3, <1>4, <1>6, OverlapIs
    <2>3. a /\ e => ~Overlap(T, B)
      BY ONLY <1>1, <1>2, <1>3, <1>4, <1>7, OverlapIs
    <2>4. b /\ d => ~Overlap(L, R)
      BY ONLY <1>1, <1>2, <1>3, <1>5, <1>6, OverlapIs
    <2>5. b /\ e => ~Overlap(L, B)
      BY ONLY <1>1, <1>2, <1>3, <1>5, <1>7, OverlapIs
    <2>6. d /\ e => ~Overlap(R, B)
      BY ONLY <1>1, <1>2, <1>3, <1>6, <1>7, OverlapIs
    <2> QED
      BY ONLY <2>1, <2>2, <2>3, <2>4, <2>5, <2>6
  <1>10. /\ a => Inside(T, r)
         /\ b => Inside(L, r)
         /\ d => Inside(R, r)
         /\ e => Inside(B, r)
    BY ONLY <1>1, <1>2, <1>3, <1>4, <1>5, <1>6, <1>7 DEF Inside
  \* together they are what new leaves
  <1>11. ASSUME NEW c \in Points
         PROVE  (a /\ In(c, T)) \/ (b /\ In(c, L)) \/ (d /\ In(c, R)) \/ (e /\ In(c, B))
                  <=> In(c, r) /\ ~In(c, new)
    <2>1. c[1] \in Int /\ c[2] \in Int
      BY DEF Points
    <2>2. a /\ In(c, T) <=> a /\ r.x <= c[1] /\ c[1] < r.x + r.w /\ r.y <= c[2] /\ c[2] < new.y
      BY ONLY <1>1, <1>4, <2>1 DEF In
    <2>3. b /\ In(c, L) <=> b /\ r.x <= c[1] /\ c[1] < new.x /\ y <= c[2] /\ c[2] < y + h
      BY ONLY <1>1, <1>5, <2>1 DEF In
    <2>4. d /\ In(c, R) <=> /\ d /\ new.x + new.w <= c[1] /\ c[1] < r.x + r.w
                            /\ y <= c[2] /\ c[2] < y + h
      BY ONLY <1>1, <1>6, <2>1 DEF In
    <2>5. e /\ In(c, B) <=> /\ e /\ r.x <= c[1] /\ c[1] < r.x + r.w
                            /\ new.y + new.h <= c[2] /\ c[2] < r.y + r.h
      BY ONLY <1>1, <1>7, <2>1 DEF In
    <2> QED
      BY ONLY <1>1, <1>2, <1>3, <2>1, <2>2, <2>3, <2>4, <2>5 DEF In
  <1> HIDE DEF a, b, d, e
  <1>12. a \in BOOLEAN /\ b \in BOOLEAN /\ d \in BOOLEAN /\ e \in BOOLEAN
    BY DEF a, b, d, e
  <1> DEFINE l1 == Piece(a, T)
             l2 == l1 \o Piece(b, L)
             l3 == l2 \o Piece(d, R)
             l4 == l3 \o Piece(e, B)
  <1>13. /\ l1 \in Seq(Rects) /\ Apart(l1) /\ \A k \in DOMAIN l1 : a /\ l1[k] = T
         /\ \A c : Hits(c, l1) <=> a /\ In(c, T)
    BY ONLY <1>4, <1>12, PieceIs
  <1> HIDE DEF l1
  <1>14. /\ l2 \in Seq(Rects) /\ Apart(l2)
         /\ \A k \in DOMAIN l2 : (a /\ l2[k] = T) \/ (b /\ l2[k] = L)
         /\ \A c : Hits(c, l2) <=> (a /\ In(c, T)) \/ (b /\ In(c, L))
    <2>1. \A k \in DOMAIN l1 : b => ~Overlap(l1[k], L)
      BY ONLY <1>9, <1>13
    <2>2. /\ l2 \in Seq(Rects) /\ Apart(l2)
          /\ \A k \in DOMAIN l2 : (\E j \in DOMAIN l1 : l2[k] = l1[j]) \/ (b /\ l2[k] = L)
          /\ \A c : Hits(c, l2) <=> Hits(c, l1) \/ (b /\ In(c, L))
      BY ONLY <1>5, <1>12, <1>13, <2>1, AddPiece
    <2> HIDE DEF l2
    <2> QED
      BY ONLY <1>13, <2>2
  <1> HIDE DEF l2
  <1>15. /\ l3 \in Seq(Rects) /\ Apart(l3)
         /\ \A k \in DOMAIN l3 : (a /\ l3[k] = T) \/ (b /\ l3[k] = L) \/ (d /\ l3[k] = R)
         /\ \A c : Hits(c, l3) <=> (a /\ In(c, T)) \/ (b /\ In(c, L)) \/ (d /\ In(c, R))
    <2>1. \A k \in DOMAIN l2 : d => ~Overlap(l2[k], R)
      BY ONLY <1>9, <1>14
    <2>2. /\ l3 \in Seq(Rects) /\ Apart(l3)
          /\ \A k \in DOMAIN l3 : (\E j \in DOMAIN l2 : l3[k] = l2[j]) \/ (d /\ l3[k] = R)
          /\ \A c : Hits(c, l3) <=> Hits(c, l2) \/ (d /\ In(c, R))
      BY ONLY <1>6, <1>12, <1>14, <2>1, AddPiece
    <2> HIDE DEF l3
    <2> QED
      BY ONLY <1>14, <2>2
  <1> HIDE DEF l3
  <1>16. /\ l4 \in Seq(Rects) /\ Apart(l4)
         /\ \A k \in DOMAIN l4 : \/ (a /\ l4[k] = T) \/ (b /\ l4[k] = L)
                                \/ (d /\ l4[k] = R) \/ (e /\ l4[k] = B)
         /\ \A c : Hits(c, l4) <=> \/ (a /\ In(c, T)) \/ (b /\ In(c, L))
                                  \/ (d /\ In(c, R)) \/ (e /\ In(c, B))
    <2>1. \A k \in DOMAIN l3 : e => ~Overlap(l3[k], B)
      BY ONLY <1>9, <1>15
    <2>2. /\ l4 \in Seq(Rects) /\ Apart(l4)
          /\ \A k \in DOMAIN l4 : (\E j \in DOMAIN l3 : l4[k] = l3[j]) \/ (e /\ l4[k] = B)
          /\ \A c : Hits(c, l4) <=> Hits(c, l3) \/ (e /\ In(c, B))
      BY ONLY <1>7, <1>12, <1>15, <2>1, AddPiece
    <2> HIDE DEF l4
    <2> QED
      BY ONLY <1>15, <2>2
  <1>17. brkrct(new, r) = l4
    BY ONLY <1>8 DEF l1, l2, l3, l4
  <1> HIDE DEF l4
  <1>18. \A k \in DOMAIN l4 : Inside(l4[k], r)
    BY ONLY <1>10, <1>16
  <1>19. \A c \in Points : Hits(c, l4) <=> In(c, r) /\ ~In(c, new)
    BY ONLY <1>11, <1>16
  <1> QED
    BY ONLY <1>16, <1>17, <1>18, <1>19 DEF Broken

\* numbers have a least one
LEMMA HasLeast ==
  ASSUME NEW S, S \subseteq Nat, S # {}
  PROVE  \E m \in S : \A j \in S : m <= j
  <1> DEFINE R == {ss \in Nat \X Nat : ss[1] < ss[2]}
  <1>1. IsWellFoundedOn(R, Nat)
    <2>1. IsWellFoundedOn(OpToRel(<, Nat), Nat)
      BY NatLessThanWellFounded
    <2> QED
      BY <2>1 DEF OpToRel
  <1>2. \E i \in S : \A j \in S : ~ (<<j, i>> \in R)
    <2>1. S \in SUBSET Nat
      OBVIOUS
    <2> HIDE DEF R
    <2> QED
      BY <1>1, <2>1, WFMin, Zenon
  <1>3. PICK m \in S : \A j \in S : ~ (<<j, m>> \in R)
    BY <1>2
  <1>4. ASSUME NEW j, j \in S PROVE m <= j
    <2>1. j \in Nat /\ m \in Nat
      BY <1>4
    <2>2. ~(j < m)
      BY <1>3, <1>4, <2>1
    <2> QED
      BY ONLY <2>1, <2>2
  <1> QED
    BY <1>4
\* induction from the first to the last
LEMMA Upward ==
  ASSUME NEW S \in SUBSET Nat, 0 \in S, NEW N \in Nat,
         \A n \in 0..N : n \in S /\ n < N => n + 1 \in S
  PROVE  0..N \subseteq S
  <1> DEFINE Rest == {n \in 0..N : n \notin S}
  <1>1. SUFFICES ASSUME Rest # {} PROVE FALSE
    OBVIOUS
  <1>2. Rest \subseteq Nat
    OBVIOUS
  <1> HIDE DEF Rest
  <1>3. PICK i \in Rest : \A j \in Rest : i <= j
    BY <1>1, <1>2, HasLeast
  <1> USE DEF Rest
  <1>4. i \in 1..N /\ i - 1 \in 0..N /\ ~(i <= i - 1)
    BY <1>3
  <1>5. i - 1 \in S
    BY <1>3, <1>4
  <1>6. (i - 1) + 1 = i /\ i - 1 < N
    BY <1>4
  <1> QED
    BY <1>3, <1>4, <1>5, <1>6

\* the sets FoldLeft goes through
LEMMA UptoIs ==
  ASSUME NEW n \in Nat, NEW k \in 0..n - 1
  PROVE  1..k + 1 \in SUBSET (1..n) /\ (1..k + 1) \ {k + 1} = 1..k /\ 1..k + 1 # {}
  <1>1. k \in Nat /\ k + 1 <= n /\ k + 1 \in 1..k + 1
    OBVIOUS
  <1>2. \A j : j \in 1..k <=> j \in 1..k + 1 /\ j # k + 1
    BY ONLY <1>1
  <1>3. \A j \in 1..k + 1 : j \in 1..n
    BY ONLY <1>1, n \in Nat
  <1> DEFINE A == 1..k + 1
             B == 1..k
  <1> HIDE DEF A, B
  <1>4. A \ {k + 1} = B
    BY ONLY <1>2 DEF A, B
  <1> QED
    BY ONLY <1>1, <1>3, <1>4 DEF A, B
\* the greatest of numbers up to n + 1
LEMMA MaxIs ==
  ASSUME NEW n \in Nat, NEW S \in SUBSET (1..n + 1), n + 1 \in S
  PROVE  Max(S) = n + 1
  <1>1. \A j \in S : n + 1 >= j /\ j \in Int
    OBVIOUS
  <1>2. Max(S) \in S /\ \A j \in S : Max(S) >= j
    BY ONLY <1>1, n + 1 \in S DEF Max
  <1>3. Max(S) \in Int /\ n + 1 >= Max(S) /\ Max(S) >= n + 1 /\ n + 1 \in Int
    BY ONLY <1>1, <1>2, n + 1 \in S
  <1> QED
    BY ONLY <1>3

\* one rectangle of a list that new breaks
Break(a, wh, new, r) ==
  IF Overlap(new, r) THEN Split(a, wh, brkrct(new, r)) ELSE Untouched(a, r)
Begun(s) == [done |-> <<>>, rul |-> s.rul, low |-> s.low, broken |-> s.broken]
Breaks(s, wh, new, q) ==
  FoldLeft(LAMBDA a, r : IF Overlap(new, r) THEN Split(a, wh, brkrct(new, r))
                         ELSE Untouched(a, r),
           [done |-> <<>>, rul |-> s.rul, low |-> s.low, broken |-> s.broken], q)

\* mkrect breaks them one after the other
LEMMA BreaksIs ==
  ASSUME NEW s, NEW wh, NEW new, NEW q, Len(q) \in Nat, DOMAIN q = 1..Len(q)
  PROVE  \E g : /\ Breaks(s, wh, new, q) = g[Len(q)] /\ g[0] = Begun(s)
                /\ \A k \in 0..Len(q) - 1 : g[k + 1] = Break(g[k], wh, new, q[k + 1])
  <1> DEFINE T(x, e) == Break(x, wh, new, e)
             b == Begun(s)
             V(f, U) == IF U = {} THEN b ELSE T(f[U \ {Max(U)}], q[Max(U)])
             D(n) == SUBSET (1..n)
             Upto(n, f) == f = [U \in D(n) |-> V(f, U)]
             S == {n \in Nat : \E f : Upto(n, f)}
  <1> HIDE DEF T, b
  <1>1. 0 \in S
    <2> DEFINE g == [U \in D(0) |-> b]
    <2>1. D(0) = {{}}
      OBVIOUS
    <2>2. \A U \in D(0) : g[U] = V(g, U)
      BY <2>1
    <2>3. g = [U \in D(0) |-> g[U]]
      OBVIOUS
    <2> HIDE DEF g, D, V
    <2>4. g = [U \in D(0) |-> V(g, U)]
      BY ONLY <2>2, <2>3
    <2> QED
      BY <2>4
  <1>2. ASSUME NEW n \in S PROVE n + 1 \in S
    <2>1. PICK f : Upto(n, f)
      OBVIOUS
    <2>2. n \in Nat
      OBVIOUS
    <2> DEFINE m == n + 1
               g == [U \in D(m) |-> IF m \in U THEN T(f[U \ {m}], q[m]) ELSE f[U]]
    <2>3. \A U \in D(n) : f[U] = V(f, U)
      <3> HIDE DEF V, D
      <3> QED
        BY ONLY <2>1
    <2>4. \A U \in D(n) : U \in D(m) /\ m \notin U
      BY ONLY <2>2
    <2>5. \A U \in D(n) : g[U] = f[U]
      <3> HIDE DEF D
      <3> QED
        BY ONLY <2>4 DEF g
    <2>6. ASSUME NEW U \in D(m) PROVE g[U] = V(g, U)
      <3>1. CASE m \in U
        <4>1. Max(U) = m
          BY ONLY <2>2, <3>1, MaxIs
        <4>2. U \ {m} \in D(n)
          BY ONLY <2>2
        <4>3. g[U] = T(f[U \ {m}], q[m])
          BY ONLY <3>1, U \in D(m) DEF g
        <4>4. g[U \ {m}] = f[U \ {m}]
          BY ONLY <2>5, <4>2
        <4> QED
          BY ONLY <3>1, <4>1, <4>3, <4>4 DEF V
      <3>2. CASE m \notin U
        <4>1. U \in D(n)
          BY ONLY <2>2, <3>2, U \in D(m)
        <4>2. U # {} => U \ {Max(U)} \in D(n)
          BY ONLY <4>1
        <4>3. g[U] = f[U]
          BY ONLY <2>5, <4>1
        <4>4. U # {} => g[U \ {Max(U)}] = f[U \ {Max(U)}]
          BY ONLY <2>5, <4>2
        <4>5. f[U] = V(f, U)
          BY ONLY <2>3, <4>1
        <4> HIDE DEF g
        <4> QED
          BY ONLY <4>3, <4>4, <4>5 DEF V
      <3> QED
        BY <3>1, <3>2
    <2>7. g = [U \in D(m) |-> g[U]]
      OBVIOUS
    <2> HIDE DEF g, V, D
    <2>8. g = [U \in D(m) |-> V(g, U)]
      BY ONLY <2>6, <2>7
    <2> QED
      BY ONLY <2>2, <2>8 DEF S, Upto, m
  <1>3. Len(q) \in S
    <2>1. S \in SUBSET Nat /\ \A n \in 0..Len(q) : n \in S /\ n < Len(q) => n + 1 \in S
      BY <1>2
    <2> HIDE DEF S
    <2>2. 0..Len(q) \subseteq S
      BY <1>1, <2>1, Upward
    <2> QED
      BY <2>2
  <1> DEFINE f == CHOOSE f : f = [U \in SUBSET (DOMAIN q) |-> V(f, U)]
  <1>4. f = [U \in D(Len(q)) |-> V(f, U)]
    <2>1. \E h : h = [U \in SUBSET (DOMAIN q) |-> V(h, U)]
      BY <1>3
    <2> HIDE DEF V
    <2> QED
      BY <2>1
  <1>5. Breaks(s, wh, new, q) = f[1..Len(q)]
    <2>1. Breaks(s, wh, new, q) = f[DOMAIN q]
      BY DEF Breaks, Break, Begun, FoldLeft, MapThenFoldSet, T, b
    <2> QED
      BY <2>1
  <1> HIDE DEF f
  <1>6. \A U \in D(Len(q)) : f[U] = V(f, U)
    <2> HIDE DEF V, D
    <2> QED
      BY <1>4
  <1> DEFINE g == [k \in 0..Len(q) |-> f[1..k]]
  <1>7. g[0] = b
    <2>1. 1..0 = {} /\ {} \in D(Len(q))
      OBVIOUS
    <2>2. f[1..0] = b
      BY ONLY <1>6, <2>1 DEF V
    <2> QED
      BY <2>2
  <1>8. ASSUME NEW k \in 0..Len(q) - 1 PROVE g[k + 1] = T(g[k], q[k + 1])
    <2>1. /\ k \in Nat /\ k + 1 <= Len(q) /\ k + 1 \in 1..k + 1
          /\ k \in 0..Len(q) /\ k + 1 \in 0..Len(q)
      BY ONLY Len(q) \in Nat, k \in 0..Len(q) - 1
    <2>b. 1..k + 1 \in D(Len(q))
      BY ONLY UptoIs, Len(q) \in Nat, k \in 0..Len(q) - 1
    <2>a. (1..k + 1) \ {k + 1} = 1..k /\ 1..k + 1 # {}
      BY ONLY UptoIs, Len(q) \in Nat, k \in 0..Len(q) - 1
    <2>2. Max(1..k + 1) = k + 1
      BY ONLY <2>1, MaxIs
    <2>3. f[1..k + 1] = T(f[1..k], q[k + 1])
      BY ONLY <1>6, <2>a, <2>b, <2>2 DEF V
    <2> QED
      BY ONLY <2>1, <2>3 DEF g
  <1>9. Breaks(s, wh, new, q) = g[Len(q)]
    BY <1>5
  <1> HIDE DEF g
  <1> QED
    BY <1>7, <1>8, <1>9 DEF T, b

\* what has become of the first k rectangles of l
Partly(a, l, k, new) ==
  /\ a = [done |-> a.done, rul |-> a.rul, low |-> a.low, broken |-> a.broken]
  /\ a.done \in Seq(Rects) /\ Apart(a.done)
  /\ \A j \in DOMAIN a.done : \E i \in 1..k : Inside(a.done[j], l[i])
  /\ \A c \in Points : Hits(c, a.done) <=> (\E i \in 1..k : In(c, l[i])) /\ ~In(c, new)

\* a rectangle lies within itself
LEMMA InsideSelf == ASSUME NEW r \in Rects PROVE Inside(r, r)
  BY RectsAre DEF Inside

\* what one rectangle of the list becomes
LEMMA BreakDone ==
  ASSUME NEW a, NEW l, NEW k, NEW new, Partly(a, l, k, new), NEW wh, NEW r
  PROVE  LET t == Break(a, wh, new, r) IN
         /\ t = [done |-> t.done, rul |-> t.rul, low |-> t.low, broken |-> t.broken]
         /\ Overlap(new, r) => t.done = a.done \o brkrct(new, r)
         /\ ~Overlap(new, r) => t.done = Append(a.done, r)
  <1>1. a = [done |-> a.done, rul |-> a.rul, low |-> a.low, broken |-> a.broken]
    BY DEF Partly
  <1> QED
    BY ONLY <1>1 DEF Break, Split, Untouched

\* a rectangle is appended as a list of one
LEMMA AppendOne ==
  ASSUME NEW d \in Seq(Rects), NEW r \in Rects
  PROVE  Append(d, r) = d \o <<r>>
  OBVIOUS

\* pieces p of the next rectangle are added
LEMMA PartlyMore ==
  ASSUME NEW a, NEW l \in Seq(Rects), NEW k \in Nat, NEW new \in Rects, Partly(a, l, k, new),
         k + 1 \in DOMAIN l, Apart(l), NEW p, Broken(p, l[k + 1], new),
         NEW t, t = [done |-> t.done, rul |-> t.rul, low |-> t.low, broken |-> t.broken],
         t.done = a.done \o p
  PROVE  Partly(t, l, k + 1, new)
  <1> DEFINE d == a.done
             r == l[k + 1]
  <1>1. /\ d \in Seq(Rects) /\ Apart(d)
        /\ \A j \in DOMAIN d : \E i \in 1..k : Inside(d[j], l[i])
        /\ \A c \in Points : Hits(c, d) <=> (\E i \in 1..k : In(c, l[i])) /\ ~In(c, new)
    BY DEF Partly
  <1>2. /\ p \in Seq(Rects) /\ Apart(p) /\ \A j \in DOMAIN p : Inside(p[j], r)
        /\ \A c \in Points : Hits(c, p) <=> In(c, r) /\ ~In(c, new)
    BY DEF Broken
  <1> HIDE DEF d
  <1>3. /\ r \in Rects /\ \A i \in 1..k : i \in DOMAIN l /\ i # k + 1 /\ l[i] \in Rects
        /\ 1..k + 1 = 1..k \cup {k + 1}
    BY ONLY l \in Seq(Rects), k \in Nat, k + 1 \in DOMAIN l
  <1>4. Across(d, p)
    <2> SUFFICES ASSUME NEW i \in DOMAIN d, NEW j \in DOMAIN p PROVE ~Overlap(d[i], p[j])
      BY DEF Across
    <2>1. PICK m \in 1..k : Inside(d[i], l[m])
      BY ONLY <1>1
    <2>2. ~Overlap(l[m], r)
      BY ONLY <1>3, Apart(l), k + 1 \in DOMAIN l DEF Apart
    <2>3. d[i] \in Rects /\ p[j] \in Rects /\ Inside(p[j], r)
      BY ONLY <1>1, <1>2
    <2> QED
      BY ONLY <1>3, <2>1, <2>2, <2>3, InsideApart
  <1>5. /\ d \o p \in Seq(Rects)
        /\ \A i \in DOMAIN (d \o p) : \/ \E j \in DOMAIN d : (d \o p)[i] = d[j]
                                      \/ \E j \in DOMAIN p : (d \o p)[i] = p[j]
        /\ \A c : Hits(c, d \o p) <=> Hits(c, d) \/ Hits(c, p)
        /\ Apart(d \o p)
    BY ONLY <1>1, <1>2, <1>4, JoinIs
  <1> DEFINE e == t.done
  <1>6. e = d \o p
    BY DEF d
  <1> HIDE DEF e
  <1>7. \A i \in DOMAIN e : \E j \in 1..k + 1 : Inside(e[i], l[j])
    <2> TAKE i \in DOMAIN e
    <2>1. CASE \E j \in DOMAIN d : e[i] = d[j]
      BY ONLY <1>1, <1>3, <2>1
    <2>2. CASE \E j \in DOMAIN p : e[i] = p[j]
      BY ONLY <1>2, <1>3, <2>2
    <2> QED
      BY ONLY <1>5, <1>6, <2>1, <2>2
  <1>8. \A c \in Points : Hits(c, e) <=> (\E i \in 1..k + 1 : In(c, l[i])) /\ ~In(c, new)
    BY ONLY <1>1, <1>2, <1>3, <1>5, <1>6
  <1> QED
    BY ONLY <1>5, <1>6, <1>7, <1>8,
            t = [done |-> t.done, rul |-> t.rul, low |-> t.low, broken |-> t.broken] DEF Partly, e

\* one more rectangle is broken
LEMMA BreakIs ==
  ASSUME NEW a, NEW l \in Seq(Rects), NEW k \in Nat, NEW new \in Rects, Partly(a, l, k, new),
         k + 1 \in DOMAIN l, Apart(l), NEW wh
  PROVE  Partly(Break(a, wh, new, l[k + 1]), l, k + 1, new)
  <1> DEFINE r == l[k + 1]
             t == Break(a, wh, new, r)
  <1>1. r \in Rects
    OBVIOUS
  <1>2. /\ t = [done |-> t.done, rul |-> t.rul, low |-> t.low, broken |-> t.broken]
        /\ Overlap(new, r) => t.done = a.done \o brkrct(new, r)
        /\ ~Overlap(new, r) => t.done = Append(a.done, r)
    <2> HIDE DEF r
    <2> QED
      BY ONLY BreakDone, Partly(a, l, k, new)
  <1> HIDE DEF t
  <1>3. CASE Overlap(new, r)
    <2>1. Broken(brkrct(new, r), r, new)
      BY ONLY <1>1, <1>3, BrkrctIs, new \in Rects
    <2> QED
      BY <1>2, <1>3, <2>1, PartlyMore DEF t
  <1>4. CASE ~Overlap(new, r)
    <2> DEFINE p == <<r>>
    <2>1. p \in Seq(Rects) /\ DOMAIN p = {1} /\ p[1] = r
      BY <1>1
    <2>2. t.done = a.done \o p
      <3>1. a.done \in Seq(Rects)
        BY DEF Partly
      <3> QED
        BY ONLY <1>1, <1>2, <1>4, <3>1, AppendOne
    <2> HIDE DEF p
    <2>3. \A c \in Points : In(c, r) => ~In(c, new)
      BY ONLY <1>1, <1>4, ApartIs, new \in Rects
    <2>4. Broken(p, r, new)
      BY ONLY <1>1, <2>1, <2>3, InsideSelf DEF Broken, Apart, Hits
    <2> QED
      BY <1>2, <2>2, <2>4, PartlyMore DEF t
  <1> QED
    BY <1>3, <1>4

\* the list m is what new leaves of the list l
Leaves(m, l, new) ==
  /\ m \in Seq(Rects) /\ Apart(m)
  /\ \A c \in Points : Hits(c, m) <=> Hits(c, l) /\ ~In(c, new)

\* all of them are
LEMMA AllBroken ==
  ASSUME NEW s, NEW wh, NEW new \in Rects, NEW l \in Seq(Rects), Apart(l)
  PROVE  Leaves(Breaks(s, wh, new, l).done, l, new)
  <1>1. Len(l) \in Nat /\ DOMAIN l = 1..Len(l)
    OBVIOUS
  <1>2. PICK g : /\ Breaks(s, wh, new, l) = g[Len(l)] /\ g[0] = Begun(s)
                 /\ \A k \in 0..Len(l) - 1 : g[k + 1] = Break(g[k], wh, new, l[k + 1])
    BY <1>1, BreaksIs
  <1> DEFINE S == {k \in Nat : Partly(g[k], l, k, new)}
  <1>3. 0 \in S
    <2> DEFINE b == Begun(s)
    <2>1. b = [done |-> b.done, rul |-> b.rul, low |-> b.low, broken |-> b.broken] /\ b.done = <<>>
      BY DEF Begun
    <2>2. b.done \in Seq(Rects) /\ DOMAIN b.done = {}
      BY <2>1
    <2> HIDE DEF b
    <2>3. 1..0 = {}
      OBVIOUS
    <2>4. Partly(b, l, 0, new)
      BY ONLY <2>1, <2>2, <2>3 DEF Partly, Apart, Hits
    <2> QED
      BY <1>2, <2>4 DEF b
  <1>4. \A k \in 0..Len(l) : k \in S /\ k < Len(l) => k + 1 \in S
    <2> TAKE k \in 0..Len(l)
    <2> HAVE k \in S /\ k < Len(l)
    <2>1. k \in Nat /\ k + 1 \in Nat /\ k + 1 \in DOMAIN l /\ k \in 0..Len(l) - 1
      BY <1>1
    <2>2. Partly(g[k], l, k, new)
      OBVIOUS
    <2>3. Partly(Break(g[k], wh, new, l[k + 1]), l, k + 1, new)
      BY ONLY <2>1, <2>2, BreakIs, l \in Seq(Rects), new \in Rects, Apart(l)
    <2> QED
      BY ONLY <1>2, <2>1, <2>3
  <1>5. Len(l) \in S
    <2>1. S \in SUBSET Nat
      OBVIOUS
    <2> HIDE DEF S
    <2>2. 0..Len(l) \subseteq S
      BY ONLY <1>1, <1>3, <1>4, <2>1, Upward
    <2> QED
      BY ONLY <1>1, <2>2
  <1> QED
    BY <1>1, <1>2, <1>5 DEF Partly, Leaves, Hits

-----------------------------------------------------------------------------
(* What a call threads through its operators.                               *)

Shape(s) ==
  s = [tree |-> s.tree, curr |-> s.curr, work |-> s.work, rlist |-> s.rlist,
       broken |-> s.broken, rul |-> s.rul, low |-> s.low, top |-> s.top,
       ctrl |-> s.ctrl, looks |-> s.looks, screen |-> s.screen, pipe |-> s.pipe]
\* only lists have been changed, and what is known of them
Listed(t, s) ==
  /\ Shape(t) /\ t.tree = s.tree /\ t.curr = s.curr /\ t.work = s.work
  /\ t.top = s.top /\ t.ctrl = s.ctrl /\ t.looks = s.looks /\ t.screen = s.screen
  /\ t.pipe = s.pipe /\ DOMAIN t.rlist = DOMAIN s.rlist
\* only what is drawn or asked for
Drawn(t, s) ==
  /\ Shape(t) /\ t.tree = s.tree /\ t.curr = s.curr /\ t.work = s.work
  /\ t.top = s.top /\ t.ctrl = s.ctrl /\ t.rlist = s.rlist

\* mkrect takes new out of the list of wh, and leaves the other lists alone
LEMMA MkrectIs ==
  ASSUME NEW s, Shape(s), NEW wh \in DOMAIN s.rlist, NEW new \in Rects,
         s.rlist[wh] \in Seq(Rects), Apart(s.rlist[wh]), NEW t, t = mkrect(s, wh, new)
  PROVE  /\ Listed(t, s) /\ Leaves(t.rlist[wh], s.rlist[wh], new)
         /\ \A w \in DOMAIN s.rlist : w # wh => t.rlist[w] = s.rlist[w]
  <1> DEFINE all == Breaks(s, wh, new, s.rlist[wh])
  <1>1. Leaves(all.done, s.rlist[wh], new)
    BY AllBroken
  <1>2. t = WithList(s, wh, all)
    BY DEF mkrect, Breaks
  <1> HIDE DEF all
  <1>3. Listed(t, s) /\ t.rlist = [s.rlist EXCEPT ![wh] = all.done]
    BY ONLY <1>2, Shape(s) DEF Shape, Listed, WithList
  <1> QED
    BY ONLY <1>1, <1>3, wh \in DOMAIN s.rlist

\* the windows q are broken by r, one after the other
Cuts(s, r, q) == FoldLeft(LAMBDA v, w : mkrect(v, w, r), s, q)

\* newrect's loop
LEMMA CutsAre ==
  ASSUME NEW s, NEW r, NEW q, Len(q) \in Nat, DOMAIN q = 1..Len(q)
  PROVE  \E g : /\ Cuts(s, r, q) = g[Len(q)] /\ g[0] = s
                /\ \A k \in 0..Len(q) - 1 : g[k + 1] = mkrect(g[k], q[k + 1], r)
  <1> DEFINE T(x, e) == mkrect(x, e, r)
             b == s
             V(f, U) == IF U = {} THEN b ELSE T(f[U \ {Max(U)}], q[Max(U)])
             D(n) == SUBSET (1..n)
             Upto(n, f) == f = [U \in D(n) |-> V(f, U)]
             S == {n \in Nat : \E f : Upto(n, f)}
  <1> HIDE DEF T, b
  <1>1. 0 \in S
    <2> DEFINE g == [U \in D(0) |-> b]
    <2>1. D(0) = {{}}
      OBVIOUS
    <2>2. \A U \in D(0) : g[U] = V(g, U)
      BY <2>1
    <2>3. g = [U \in D(0) |-> g[U]]
      OBVIOUS
    <2> HIDE DEF g, D, V
    <2>4. g = [U \in D(0) |-> V(g, U)]
      BY ONLY <2>2, <2>3
    <2> QED
      BY <2>4
  <1>2. ASSUME NEW n \in S PROVE n + 1 \in S
    <2>1. PICK f : Upto(n, f)
      OBVIOUS
    <2>2. n \in Nat
      OBVIOUS
    <2> DEFINE m == n + 1
               g == [U \in D(m) |-> IF m \in U THEN T(f[U \ {m}], q[m]) ELSE f[U]]
    <2>3. \A U \in D(n) : f[U] = V(f, U)
      <3> HIDE DEF V, D
      <3> QED
        BY ONLY <2>1
    <2>4. \A U \in D(n) : U \in D(m) /\ m \notin U
      BY ONLY <2>2
    <2>5. \A U \in D(n) : g[U] = f[U]
      <3> HIDE DEF D
      <3> QED
        BY ONLY <2>4 DEF g
    <2>6. ASSUME NEW U \in D(m) PROVE g[U] = V(g, U)
      <3>1. CASE m \in U
        <4>1. Max(U) = m
          BY ONLY <2>2, <3>1, MaxIs
        <4>2. U \ {m} \in D(n)
          BY ONLY <2>2
        <4>3. g[U] = T(f[U \ {m}], q[m])
          BY ONLY <3>1, U \in D(m) DEF g
        <4>4. g[U \ {m}] = f[U \ {m}]
          BY ONLY <2>5, <4>2
        <4> QED
          BY ONLY <3>1, <4>1, <4>3, <4>4 DEF V
      <3>2. CASE m \notin U
        <4>1. U \in D(n)
          BY ONLY <2>2, <3>2, U \in D(m)
        <4>2. U # {} => U \ {Max(U)} \in D(n)
          BY ONLY <4>1
        <4>3. g[U] = f[U]
          BY ONLY <2>5, <4>1
        <4>4. U # {} => g[U \ {Max(U)}] = f[U \ {Max(U)}]
          BY ONLY <2>5, <4>2
        <4>5. f[U] = V(f, U)
          BY ONLY <2>3, <4>1
        <4> HIDE DEF g
        <4> QED
          BY ONLY <4>3, <4>4, <4>5 DEF V
      <3> QED
        BY <3>1, <3>2
    <2>7. g = [U \in D(m) |-> g[U]]
      OBVIOUS
    <2> HIDE DEF g, V, D
    <2>8. g = [U \in D(m) |-> V(g, U)]
      BY ONLY <2>6, <2>7
    <2> QED
      BY ONLY <2>2, <2>8 DEF S, Upto, m
  <1>3. Len(q) \in S
    <2>1. S \in SUBSET Nat /\ \A n \in 0..Len(q) : n \in S /\ n < Len(q) => n + 1 \in S
      BY <1>2
    <2> HIDE DEF S
    <2>2. 0..Len(q) \subseteq S
      BY <1>1, <2>1, Upward
    <2> QED
      BY <2>2
  <1> DEFINE f == CHOOSE f : f = [U \in SUBSET (DOMAIN q) |-> V(f, U)]
  <1>4. f = [U \in D(Len(q)) |-> V(f, U)]
    <2>1. \E h : h = [U \in SUBSET (DOMAIN q) |-> V(h, U)]
      BY <1>3
    <2> HIDE DEF V
    <2> QED
      BY <2>1
  <1>5. Cuts(s, r, q) = f[1..Len(q)]
    <2>1. Cuts(s, r, q) = f[DOMAIN q]
      BY DEF Cuts, FoldLeft, MapThenFoldSet, T, b
    <2> QED
      BY <2>1
  <1> HIDE DEF f
  <1>6. \A U \in D(Len(q)) : f[U] = V(f, U)
    <2> HIDE DEF V, D
    <2> QED
      BY <1>4
  <1> DEFINE g == [k \in 0..Len(q) |-> f[1..k]]
  <1>7. g[0] = b
    <2>1. 1..0 = {} /\ {} \in D(Len(q))
      OBVIOUS
    <2>2. f[1..0] = b
      BY ONLY <1>6, <2>1 DEF V
    <2> QED
      BY <2>2
  <1>8. ASSUME NEW k \in 0..Len(q) - 1 PROVE g[k + 1] = T(g[k], q[k + 1])
    <2>1. /\ k \in Nat /\ k + 1 <= Len(q) /\ k + 1 \in 1..k + 1
          /\ k \in 0..Len(q) /\ k + 1 \in 0..Len(q)
      BY ONLY Len(q) \in Nat, k \in 0..Len(q) - 1
    <2>b. 1..k + 1 \in D(Len(q))
      BY ONLY UptoIs, Len(q) \in Nat, k \in 0..Len(q) - 1
    <2>a. (1..k + 1) \ {k + 1} = 1..k /\ 1..k + 1 # {}
      BY ONLY UptoIs, Len(q) \in Nat, k \in 0..Len(q) - 1
    <2>2. Max(1..k + 1) = k + 1
      BY ONLY <2>1, MaxIs
    <2>3. f[1..k + 1] = T(f[1..k], q[k + 1])
      BY ONLY <1>6, <2>a, <2>b, <2>2 DEF V
    <2> QED
      BY ONLY <2>1, <2>3 DEF g
  <1>9. Cuts(s, r, q) = g[Len(q)]
    BY <1>5
  <1> HIDE DEF g
  <1> QED
    BY <1>7, <1>8, <1>9 DEF T, b

Once(q) == \A i, j \in DOMAIN q : q[i] = q[j] => i = j
\* the lists of the first k windows of q have been broken by r
CutUpto(t, s, r, q, k) ==
  /\ Listed(t, s)
  /\ \A i \in 1..k : Leaves(t.rlist[q[i]], s.rlist[q[i]], r)
  /\ \A w \in DOMAIN s.rlist : (\A i \in 1..k : q[i] # w) => t.rlist[w] = s.rlist[w]

\* one more list is cut
LEMMA CutMore ==
  ASSUME NEW t, NEW s, NEW r \in Rects, NEW q, NEW k \in Nat, CutUpto(t, s, r, q, k),
         q \in Seq(DOMAIN s.rlist), Once(q), k + 1 \in DOMAIN q,
         s.rlist[q[k + 1]] \in Seq(Rects), Apart(s.rlist[q[k + 1]])
  PROVE  CutUpto(mkrect(t, q[k + 1], r), s, r, q, k + 1)
  <1> DEFINE u == mkrect(t, q[k + 1], r)
             w == q[k + 1]
  <1>1. /\ Listed(t, s) /\ Shape(t) /\ DOMAIN t.rlist = DOMAIN s.rlist
        /\ \A i \in 1..k : Leaves(t.rlist[q[i]], s.rlist[q[i]], r)
        /\ \A v \in DOMAIN s.rlist : (\A i \in 1..k : q[i] # v) => t.rlist[v] = s.rlist[v]
    BY DEF CutUpto, Listed
  <1>2. /\ w \in DOMAIN s.rlist
        /\ \A i \in 1..k : i \in DOMAIN q /\ i # k + 1 /\ q[i] \in DOMAIN s.rlist
        /\ 1..k + 1 = 1..k \cup {k + 1}
    BY q \in Seq(DOMAIN s.rlist)
  <1>3. \A i \in 1..k : q[i] # w
    BY ONLY <1>2, Once(q), k + 1 \in DOMAIN q DEF Once
  <1> HIDE DEF w
  <1>4. t.rlist[w] = s.rlist[w]
    BY ONLY <1>1, <1>2, <1>3
  <1>5. s.rlist[w] \in Seq(Rects) /\ Apart(s.rlist[w]) /\ u = mkrect(t, w, r)
    BY DEF w
  <1> HIDE DEF u
  <1>6. /\ Listed(u, t) /\ Leaves(u.rlist[w], t.rlist[w], r)
        /\ \A v \in DOMAIN t.rlist : v # w => u.rlist[v] = t.rlist[v]
    BY ONLY <1>1, <1>2, <1>4, <1>5, r \in Rects, MkrectIs
  <1>7. Listed(u, s)
    BY ONLY <1>1, <1>6 DEF Listed
  <1>8. \A i \in 1..k + 1 : Leaves(u.rlist[q[i]], s.rlist[q[i]], r)
    <2>1. \A i \in 1..k : u.rlist[q[i]] = t.rlist[q[i]]
      BY ONLY <1>1, <1>2, <1>3, <1>6
    <2>2. q[k + 1] = w
      BY DEF w
    <2> QED
      BY ONLY <1>1, <1>2, <1>4, <1>6, <2>1, <2>2
  <1>9. \A v \in DOMAIN s.rlist : (\A i \in 1..k + 1 : q[i] # v) => u.rlist[v] = s.rlist[v]
    <2>1. q[k + 1] = w
      BY DEF w
    <2> QED
      BY ONLY <1>1, <1>2, <1>6, <2>1
  <1> QED
    BY ONLY <1>7, <1>8, <1>9 DEF CutUpto, u, w

\* a list that nothing is taken from
LEMMA LeavesAll ==
  ASSUME NEW l \in Seq(Rects), Apart(l), NEW r \in Rects, r.w = 0 \/ r.h = 0
  PROVE  Leaves(l, l, r)
  <1>1. \A c \in Points : ~In(c, r)
    BY RectsAre DEF In, Points
  <1> QED
    BY <1>1 DEF Leaves

\* after the walk all lists are cut
LEMMA CutsCut ==
  ASSUME NEW s, Shape(s), NEW r \in Rects, NEW q \in Seq(DOMAIN s.rlist), Once(q),
         \A i \in DOMAIN q : s.rlist[q[i]] \in Seq(Rects) /\ Apart(s.rlist[q[i]])
  PROVE  CutUpto(Cuts(s, r, q), s, r, q, Len(q))
  <1>1. Len(q) \in Nat /\ DOMAIN q = 1..Len(q)
    OBVIOUS
  <1>2. PICK g : /\ Cuts(s, r, q) = g[Len(q)] /\ g[0] = s
                 /\ \A k \in 0..Len(q) - 1 : g[k + 1] = mkrect(g[k], q[k + 1], r)
    BY <1>1, CutsAre
  <1> DEFINE S == {k \in Nat : CutUpto(g[k], s, r, q, k)}
  <1>3. 0 \in S
    <2>1. 1..0 = {}
      OBVIOUS
    <2>2. CutUpto(s, s, r, q, 0)
      BY ONLY <2>1, Shape(s) DEF CutUpto, Listed
    <2> QED
      BY <1>2, <2>2
  <1>4. \A k \in 0..Len(q) : k \in S /\ k < Len(q) => k + 1 \in S
    <2> TAKE k \in 0..Len(q)
    <2> HAVE k \in S /\ k < Len(q)
    <2>1. k \in Nat /\ k + 1 \in Nat /\ k + 1 \in DOMAIN q /\ k \in 0..Len(q) - 1
      BY <1>1
    <2>2. CutUpto(g[k], s, r, q, k)
      OBVIOUS
    <2>3. s.rlist[q[k + 1]] \in Seq(Rects) /\ Apart(s.rlist[q[k + 1]])
      BY <2>1
    <2>4. CutUpto(mkrect(g[k], q[k + 1], r), s, r, q, k + 1)
      BY ONLY <2>1, <2>2, <2>3, CutMore, q \in Seq(DOMAIN s.rlist), r \in Rects, Once(q)
    <2> QED
      BY ONLY <1>2, <2>1, <2>4
  <1>5. Len(q) \in S
    <2>1. S \in SUBSET Nat
      OBVIOUS
    <2> HIDE DEF S
    <2>2. 0..Len(q) \subseteq S
      BY ONLY <1>1, <1>3, <1>4, <2>1, Upward
    <2> QED
      BY ONLY <1>1, <2>2
  <1> QED
    BY <1>2, <1>5

\* a window with its shadow is a rectangle
LEMMA TrueIs ==
  ASSUME NEW r \in Rects
  PROVE  True(r) \in Rects
  BY RectsAre, WindowAssumption DEF True, Dropped, Rect, Rects

\* the list of a window that nothing covers
Lone(l, r) ==
  /\ l \in Seq(Rects) /\ Apart(l) /\ \A c \in Points : Hits(c, l) <=> In(c, r)

\* r alone, or nothing if it is empty
LEMMA LoneIs ==
  ASSUME NEW r \in Rects
  PROVE  /\ Lone(<<r>>, r)
         /\ r.w = 0 \/ r.h = 0 => Lone(<<>>, r)
  <1>1. Lone(<<r>>, r)
    <2> DEFINE p == <<r>>
    <2>1. p \in Seq(Rects) /\ DOMAIN p = {1} /\ p[1] = r
      OBVIOUS
    <2> HIDE DEF p
    <2>2. Lone(p, r)
      BY ONLY <2>1 DEF Lone, Apart, Hits
    <2> QED
      BY <2>2 DEF p
  <1>2. ASSUME r.w = 0 \/ r.h = 0 PROVE Lone(<<>>, r)
    <2> DEFINE p == <<>>
    <2>1. p \in Seq(Rects) /\ DOMAIN p = {}
      OBVIOUS
    <2> HIDE DEF p
    <2>2. \A c \in Points : ~In(c, r)
      BY <1>2, RectsAre DEF In, Points
    <2>3. Lone(p, r)
      BY ONLY <2>1, <2>2 DEF Lone, Apart, Hits
    <2> QED
      BY <2>3 DEF p
  <1> QED
    BY <1>1, <1>2

\* newrect gives wh the rectangle r and takes it from the windows q
LEMMA NewrectIs ==
  ASSUME NEW s, Shape(s), NEW wh \in DOMAIN s.rlist, s.curr[wh] \in Rects,
         NEW q \in Seq(DOMAIN s.rlist), Once(q), \A i \in DOMAIN q : q[i] # wh,
         \A i \in DOMAIN q : s.rlist[q[i]] \in Seq(Rects) /\ Apart(s.rlist[q[i]]),
         NEW t, t = newrect(s, wh, q), NEW r, r = True(s.curr[wh])
  PROVE  /\ Listed(t, s) /\ Lone(t.rlist[wh], r)
         /\ \A i \in DOMAIN q : Leaves(t.rlist[q[i]], s.rlist[q[i]], r)
  <1>1. r \in Rects
    BY TrueIs
  <1> DEFINE u == NoList(s, wh)
  <1>a. u = NoList(s, wh)
    OBVIOUS
  <1> HIDE DEF u
  <1>2. Listed(u, s) /\ Shape(u) /\ u.rlist = [s.rlist EXCEPT ![wh] = <<>>]
    BY ONLY <1>a, Shape(s) DEF NoList, Shape, Listed
  <1>3. /\ DOMAIN u.rlist = DOMAIN s.rlist /\ u.rlist[wh] = <<>> /\ u.curr = s.curr
        /\ \A w \in DOMAIN s.rlist : w # wh => u.rlist[w] = s.rlist[w]
    BY ONLY <1>2, wh \in DOMAIN s.rlist DEF Listed
  <1>4. t = NewList(u, wh, r, q)
    BY DEF newrect, u
  <1>5. \A i \in DOMAIN q : q[i] \in DOMAIN s.rlist /\ u.rlist[q[i]] = s.rlist[q[i]]
    BY ONLY <1>3, q \in Seq(DOMAIN s.rlist), \A i \in DOMAIN q : q[i] # wh
  <1>6. Len(q) \in Nat /\ DOMAIN q = 1..Len(q)
    OBVIOUS
  <1>7. CASE r.w = 0 \/ r.h = 0
    <2>1. t = u
      BY ONLY <1>4, <1>7 DEF NewList
    <2>2. Lone(t.rlist[wh], r)
      BY ONLY <1>1, <1>3, <1>7, <2>1, LoneIs
    <2>3. \A i \in DOMAIN q : Leaves(t.rlist[q[i]], s.rlist[q[i]], r)
      BY ONLY <1>1, <1>5, <1>7, <2>1, LeavesAll,
              \A i \in DOMAIN q : s.rlist[q[i]] \in Seq(Rects) /\ Apart(s.rlist[q[i]])
    <2> QED
      BY ONLY <1>2, <2>1, <2>2, <2>3
  <1>8. CASE ~(r.w = 0 \/ r.h = 0)
    <2> DEFINE v == Cuts(u, r, q)
    <2>1. CutUpto(v, u, r, q, Len(q))
      BY ONLY <1>1, <1>2, <1>3, <1>5, CutsCut, q \in Seq(DOMAIN s.rlist), Once(q),
              \A i \in DOMAIN q : s.rlist[q[i]] \in Seq(Rects) /\ Apart(s.rlist[q[i]])
    <2>2. t = Whole(v, wh, r)
      BY ONLY <1>4, <1>8 DEF NewList, Cuts
    <2> HIDE DEF v
    <2>3. /\ Listed(v, u) /\ Shape(v) /\ DOMAIN v.rlist = DOMAIN s.rlist
          /\ \A i \in 1..Len(q) : Leaves(v.rlist[q[i]], u.rlist[q[i]], r)
      BY ONLY <1>3, <2>1 DEF CutUpto, Listed
    <2>4. Listed(t, v) /\ t.rlist = [v.rlist EXCEPT ![wh] = <<r>>]
      BY ONLY <2>2, <2>3 DEF Whole, Shape, Listed
    <2>5. Listed(t, s)
      BY ONLY <1>2, <2>3, <2>4 DEF Listed
    <2>6. t.rlist[wh] = <<r>> /\ \A i \in DOMAIN q : t.rlist[q[i]] = v.rlist[q[i]]
      BY ONLY <1>5, <2>3, <2>4, wh \in DOMAIN s.rlist, \A i \in DOMAIN q : q[i] # wh
    <2>7. Lone(t.rlist[wh], r)
      BY ONLY <1>1, <2>6, LoneIs
    <2> QED
      BY ONLY <1>5, <1>6, <2>3, <2>5, <2>6, <2>7
  <1> QED
    BY ONLY <1>7, <1>8

\* newrects' loop
ListsOver(s, all, q) ==
  FoldLeft(LAMBDA t, k : newrect(t, all[k], SubSeq(all, 1, k - 1)), s, q)


\* newrects gives the windows their lists one after the other
LEMMA ListsFold ==
  ASSUME NEW s, NEW all, NEW q, Len(q) \in Nat, DOMAIN q = 1..Len(q)
  PROVE  \E g : /\ ListsOver(s, all, q) = g[Len(q)] /\ g[0] = s
                /\ \A k \in 0..Len(q) - 1 :
                      g[k + 1] = newrect(g[k], all[q[k + 1]], SubSeq(all, 1, q[k + 1] - 1))
  <1> DEFINE T(x, e) == newrect(x, all[e], SubSeq(all, 1, e - 1))
             b == s
             V(f, U) == IF U = {} THEN b ELSE T(f[U \ {Max(U)}], q[Max(U)])
             D(n) == SUBSET (1..n)
             Upto(n, f) == f = [U \in D(n) |-> V(f, U)]
             S == {n \in Nat : \E f : Upto(n, f)}
  <1> HIDE DEF T, b
  <1>1. 0 \in S
    <2> DEFINE g == [U \in D(0) |-> b]
    <2>1. D(0) = {{}}
      OBVIOUS
    <2>2. \A U \in D(0) : g[U] = V(g, U)
      BY <2>1
    <2>3. g = [U \in D(0) |-> g[U]]
      OBVIOUS
    <2> HIDE DEF g, D, V
    <2>4. g = [U \in D(0) |-> V(g, U)]
      BY ONLY <2>2, <2>3
    <2> QED
      BY <2>4
  <1>2. ASSUME NEW n \in S PROVE n + 1 \in S
    <2>1. PICK f : Upto(n, f)
      OBVIOUS
    <2>2. n \in Nat
      OBVIOUS
    <2> DEFINE m == n + 1
               g == [U \in D(m) |-> IF m \in U THEN T(f[U \ {m}], q[m]) ELSE f[U]]
    <2>3. \A U \in D(n) : f[U] = V(f, U)
      <3> HIDE DEF V, D
      <3> QED
        BY ONLY <2>1
    <2>4. \A U \in D(n) : U \in D(m) /\ m \notin U
      BY ONLY <2>2
    <2>5. \A U \in D(n) : g[U] = f[U]
      <3> HIDE DEF D
      <3> QED
        BY ONLY <2>4 DEF g
    <2>6. ASSUME NEW U \in D(m) PROVE g[U] = V(g, U)
      <3>1. CASE m \in U
        <4>1. Max(U) = m
          BY ONLY <2>2, <3>1, MaxIs
        <4>2. U \ {m} \in D(n)
          BY ONLY <2>2
        <4>3. g[U] = T(f[U \ {m}], q[m])
          BY ONLY <3>1, U \in D(m) DEF g
        <4>4. g[U \ {m}] = f[U \ {m}]
          BY ONLY <2>5, <4>2
        <4> QED
          BY ONLY <3>1, <4>1, <4>3, <4>4 DEF V
      <3>2. CASE m \notin U
        <4>1. U \in D(n)
          BY ONLY <2>2, <3>2, U \in D(m)
        <4>2. U # {} => U \ {Max(U)} \in D(n)
          BY ONLY <4>1
        <4>3. g[U] = f[U]
          BY ONLY <2>5, <4>1
        <4>4. U # {} => g[U \ {Max(U)}] = f[U \ {Max(U)}]
          BY ONLY <2>5, <4>2
        <4>5. f[U] = V(f, U)
          BY ONLY <2>3, <4>1
        <4> HIDE DEF g
        <4> QED
          BY ONLY <4>3, <4>4, <4>5 DEF V
      <3> QED
        BY <3>1, <3>2
    <2>7. g = [U \in D(m) |-> g[U]]
      OBVIOUS
    <2> HIDE DEF g, V, D
    <2>8. g = [U \in D(m) |-> V(g, U)]
      BY ONLY <2>6, <2>7
    <2> QED
      BY ONLY <2>2, <2>8 DEF S, Upto, m
  <1>3. Len(q) \in S
    <2>1. S \in SUBSET Nat /\ \A n \in 0..Len(q) : n \in S /\ n < Len(q) => n + 1 \in S
      BY <1>2
    <2> HIDE DEF S
    <2>2. 0..Len(q) \subseteq S
      BY <1>1, <2>1, Upward
    <2> QED
      BY <2>2
  <1> DEFINE f == CHOOSE f : f = [U \in SUBSET (DOMAIN q) |-> V(f, U)]
  <1>4. f = [U \in D(Len(q)) |-> V(f, U)]
    <2>1. \E h : h = [U \in SUBSET (DOMAIN q) |-> V(h, U)]
      BY <1>3
    <2> HIDE DEF V
    <2> QED
      BY <2>1
  <1>5. ListsOver(s, all, q) = f[1..Len(q)]
    <2>1. ListsOver(s, all, q) = f[DOMAIN q]
      BY DEF ListsOver, FoldLeft, MapThenFoldSet, T, b
    <2> QED
      BY <2>1
  <1> HIDE DEF f
  <1>6. \A U \in D(Len(q)) : f[U] = V(f, U)
    <2> HIDE DEF V, D
    <2> QED
      BY <1>4
  <1> DEFINE g == [k \in 0..Len(q) |-> f[1..k]]
  <1>7. g[0] = b
    <2>1. 1..0 = {} /\ {} \in D(Len(q))
      OBVIOUS
    <2>2. f[1..0] = b
      BY ONLY <1>6, <2>1 DEF V
    <2> QED
      BY <2>2
  <1>8. ASSUME NEW k \in 0..Len(q) - 1 PROVE g[k + 1] = T(g[k], q[k + 1])
    <2>1. /\ k \in Nat /\ k + 1 <= Len(q) /\ k + 1 \in 1..k + 1
          /\ k \in 0..Len(q) /\ k + 1 \in 0..Len(q)
      BY ONLY Len(q) \in Nat, k \in 0..Len(q) - 1
    <2>b. 1..k + 1 \in D(Len(q))
      BY ONLY UptoIs, Len(q) \in Nat, k \in 0..Len(q) - 1
    <2>a. (1..k + 1) \ {k + 1} = 1..k /\ 1..k + 1 # {}
      BY ONLY UptoIs, Len(q) \in Nat, k \in 0..Len(q) - 1
    <2>2. Max(1..k + 1) = k + 1
      BY ONLY <2>1, MaxIs
    <2>3. f[1..k + 1] = T(f[1..k], q[k + 1])
      BY ONLY <1>6, <2>a, <2>b, <2>2 DEF V
    <2> QED
      BY ONLY <2>1, <2>3 DEF g
  <1>9. ListsOver(s, all, q) = g[Len(q)]
    BY <1>5
  <1> HIDE DEF g
  <1> QED
    BY <1>7, <1>8, <1>9 DEF T, b

\* the list l of the i-th of all has what no later one, up to the k-th, covers
Share(l, cur, all, i, k) ==
  /\ l \in Seq(Rects) /\ Apart(l)
  /\ \A c \in Points :
       Hits(c, l) <=> /\ In(c, True(cur[all[i]]))
                      /\ \A j \in i + 1..k : ~In(c, True(cur[all[j]]))
Shared(t, s, all, k) ==
  Listed(t, s) /\ \A i \in 1..k : Share(t.rlist[all[i]], s.curr, all, i, k)

\* the next window gets its area, and those below it keep the rest
LEMMA ShareMore ==
  ASSUME NEW t, NEW s, Shape(s), NEW all \in Seq(DOMAIN s.rlist), Once(all), NEW k \in Nat,
         \A i \in DOMAIN all : s.curr[all[i]] \in Rects,
         Shared(t, s, all, k), k + 1 \in DOMAIN all
  PROVE  Shared(newrect(t, all[k + 1], SubSeq(all, 1, k)), s, all, k + 1)
  <1> DEFINE w == all[k + 1]
             q == SubSeq(all, 1, k)
             u == newrect(t, w, q)
             r == True(s.curr[w])
  <1>1. /\ Listed(t, s) /\ Shape(t) /\ DOMAIN t.rlist = DOMAIN s.rlist /\ t.curr = s.curr
        /\ \A i \in 1..k : Share(t.rlist[all[i]], s.curr, all, i, k)
    BY DEF Shared, Listed
  <1>2. /\ w \in DOMAIN s.rlist /\ \A i \in 1..k : i \in DOMAIN all /\ i # k + 1
        /\ q \in Seq(DOMAIN s.rlist) /\ DOMAIN q = 1..k /\ \A i \in 1..k : q[i] = all[i]
    <2>1. /\ Len(all) \in Nat /\ DOMAIN all = 1..Len(all) /\ k + 1 \in 1..Len(all)
          /\ \A i \in 1..Len(all) : all[i] \in DOMAIN s.rlist
      OBVIOUS
    <2>2. k <= Len(all) /\ \A i \in 1..k : i \in 1..Len(all) /\ i # k + 1
      BY ONLY <2>1, k \in Nat
    <2>3. q = [i \in 1..k |-> all[i]]
      BY ONLY <2>1, k \in Nat DEF SubSeq
    <2>4. \A i \in 1..k : all[i] \in DOMAIN s.rlist
      BY ONLY <2>1, <2>2
    <2>5. q \in Seq(DOMAIN s.rlist) /\ DOMAIN q = 1..k
      <3> HIDE DEF q
      <3> QED
        BY ONLY <2>3, <2>4, k \in Nat
    <2> QED
      BY <2>1, <2>2, <2>3, <2>5
  <1> HIDE DEF q
  <1>3. s.curr[w] \in Rects
    OBVIOUS
  <1>4. Once(q) /\ \A i \in DOMAIN q : q[i] # w
    BY ONLY <1>2, Once(all), k + 1 \in DOMAIN all DEF Once
  <1>5. \A i \in DOMAIN q : t.rlist[q[i]] \in Seq(Rects) /\ Apart(t.rlist[q[i]])
    BY ONLY <1>1, <1>2 DEF Share
  <1>6. all[k + 1] = w
    OBVIOUS
  <1> HIDE DEF w
  <1>7. u = newrect(t, w, q) /\ r = True(t.curr[w])
    BY ONLY <1>1
  <1> HIDE DEF u, r
  <1>8. /\ Listed(u, t) /\ Lone(u.rlist[w], r)
        /\ \A i \in DOMAIN q : Leaves(u.rlist[q[i]], t.rlist[q[i]], r)
    BY ONLY <1>1, <1>2, <1>3, <1>4, <1>5, <1>7, NewrectIs
  <1>9. Listed(u, s)
    BY ONLY <1>1, <1>8 DEF Listed
  <1>10. r = True(s.curr[all[k + 1]])
    BY <1>6 DEF r
  <1>11. ASSUME NEW i \in 1..k PROVE Share(u.rlist[all[i]], s.curr, all, i, k + 1)
    <2>1. Share(t.rlist[all[i]], s.curr, all, i, k)
      BY ONLY <1>1
    <2>2. Leaves(u.rlist[all[i]], t.rlist[all[i]], r)
      BY ONLY <1>2, <1>8
    <2>3. \A j : j \in i + 1..k + 1 <=> j \in i + 1..k \/ j = k + 1
      BY ONLY k \in Nat, i \in 1..k
    <2> QED
      BY ONLY <1>10, <2>1, <2>2, <2>3 DEF Share, Leaves
  <1>12. Share(u.rlist[all[k + 1]], s.curr, all, k + 1, k + 1)
    <2>1. (k + 1) + 1..k + 1 = {}
      BY ONLY k \in Nat
    <2> QED
      BY ONLY <1>6, <1>8, <1>10, <2>1 DEF Share, Lone
  <1>13. \A i \in 1..k + 1 : i \in 1..k \/ i = k + 1
    BY ONLY k \in Nat
  <1>14. \A i \in 1..k + 1 : Share(u.rlist[all[i]], s.curr, all, i, k + 1)
    BY ONLY <1>11, <1>12, <1>13
  <1> QED
    BY ONLY <1>9, <1>14 DEF Shared, u, w, q

\* after newrects each window has what no later one covers
LEMMA ListsShare ==
  ASSUME NEW s, Shape(s), NEW all \in Seq(DOMAIN s.rlist), Once(all),
         \A i \in DOMAIN all : s.curr[all[i]] \in Rects
  PROVE  Shared(Lists(s, all), s, all, Len(all))
  <1> DEFINE q == [k \in DOMAIN all |-> k]
  <1>1. /\ Len(q) = Len(all) /\ Len(q) \in Nat /\ DOMAIN q = 1..Len(q)
        /\ DOMAIN all = 1..Len(q) /\ \A k \in 1..Len(q) : q[k] = k
    <2>1. Len(all) \in Nat /\ DOMAIN all = 1..Len(all)
      OBVIOUS
    <2>2. q \in Seq(Nat) /\ Len(q) = Len(all)
      BY <2>1
    <2> QED
      BY <2>1, <2>2
  <1>2. PICK g : /\ ListsOver(s, all, q) = g[Len(q)] /\ g[0] = s
                 /\ \A k \in 0..Len(q) - 1 :
                      g[k + 1] = newrect(g[k], all[q[k + 1]], SubSeq(all, 1, q[k + 1] - 1))
    <2> HIDE DEF q
    <2> QED
      BY ONLY <1>1, ListsFold
  <1>0. Lists(s, all) = ListsOver(s, all, q)
    BY DEF Lists, ListsOver
  <1> HIDE DEF q
  <1> DEFINE S == {k \in Nat : Shared(g[k], s, all, k)}
  <1>3. 0 \in S
    <2>1. Shared(s, s, all, 0)
      BY ONLY Shape(s), 1..0 = {} DEF Shared, Listed
    <2> QED
      BY <1>2, <2>1
  <1>4. \A k \in 0..Len(q) : k \in S /\ k < Len(q) => k + 1 \in S
    <2> TAKE k \in 0..Len(q)
    <2> HAVE k \in S /\ k < Len(q)
    <2>1. /\ k \in Nat /\ k + 1 \in Nat /\ k + 1 \in DOMAIN all /\ k \in 0..Len(q) - 1
          /\ q[k + 1] = k + 1 /\ (k + 1) - 1 = k
      BY <1>1
    <2>2. Shared(g[k], s, all, k)
      OBVIOUS
    <2>3. Shared(newrect(g[k], all[k + 1], SubSeq(all, 1, k)), s, all, k + 1)
      BY ONLY <2>1, <2>2, ShareMore, Shape(s), all \in Seq(DOMAIN s.rlist), Once(all),
              \A i \in DOMAIN all : s.curr[all[i]] \in Rects
    <2> QED
      BY ONLY <1>2, <2>1, <2>3
  <1>5. Len(q) \in S
    <2>1. S \in SUBSET Nat
      OBVIOUS
    <2> HIDE DEF S
    <2>2. 0..Len(q) \subseteq S
      BY ONLY <1>1, <1>3, <1>4, <2>1, Upward
    <2> QED
      BY ONLY <1>1, <2>2
  <1> QED
    BY <1>0, <1>1, <1>2, <1>5

-----------------------------------------------------------------------------
(* What draws and asks for redraws leaves the windows and lists alone.      *)

\* Drawing changes the screen and what is asked for, never the windows.
LEMMA DrawnSelf == ASSUME NEW s, Shape(s) PROVE Drawn(s, s)
  BY DEF Drawn
LEMMA DrawnOn ==
  ASSUME NEW s, NEW t, NEW u, Drawn(u, t), Drawn(t, s) PROVE Drawn(u, s)
  BY DEF Drawn

LEMMA DrawKeeps == ASSUME NEW s, Shape(s), NEW wh, NEW S PROVE Drawn(Draw(s, wh, S), s)
  <1> DEFINE f == [c \in Screen |-> IF c \in S THEN Picture(s, wh, c) ELSE s.screen[c]]
  <1>1. Draw(s, wh, S) = [s EXCEPT !.screen = f]
    BY DEF Draw
  <1> HIDE DEF f
  <1> QED
    BY ONLY <1>1, Shape(s) DEF Shape, Drawn
LEMMA WalkKeeps ==
  ASSUME NEW s, Shape(s), NEW wh, NEW obj, NEW clip
  PROVE  Drawn(do_walk(s, wh, obj, clip), s)
  BY DrawKeeps DEF do_walk
LEMMA DeskKeeps ==
  ASSUME NEW s, Shape(s), NEW dirty PROVE Drawn(w_drawdesk(s, dirty), s)
  BY DrawKeeps DEF w_drawdesk
LEMMA CpwalkKeeps ==
  ASSUME NEW s, Shape(s), NEW wh, NEW obj PROVE Drawn(w_cpwalk(s, wh, obj), s)
  BY WalkKeeps DEF w_cpwalk
LEMMA DoqKeeps == ASSUME NEW s, Shape(s), NEW wh, NEW r PROVE Drawn(doq(s, wh, r), s)
  <1> DEFINE f == [s.pipe EXCEPT ![wh] = IF s.pipe[wh] = NoRedraw THEN r
                                         ELSE rc_union(r, s.pipe[wh])]
  <1>1. doq(s, wh, r) = [s EXCEPT !.pipe = f]
    BY DEF doq
  <1> HIDE DEF f
  <1> QED
    BY ONLY <1>1, Shape(s) DEF Shape, Drawn
LEMMA RedrawKeeps ==
  ASSUME NEW s, Shape(s), NEW wh, NEW dirty PROVE Drawn(w_redraw(s, wh, dirty), s)
  BY DoqKeeps, DrawnSelf DEF w_redraw, Ask

FramesOf(s, q, clip, moved, top) ==
  FoldLeft(LAMBDA t, w : IF moved /\ w = top THEN t
                         ELSE w_redraw(do_walk(t, w, "W_BOX", Dropped(clip)), w, clip),
           s, q)

\* w_update's loop
LEMMA FramesAre ==
  ASSUME NEW s, NEW q, NEW clip, NEW moved, NEW top, Len(q) \in Nat, DOMAIN q = 1..Len(q)
  PROVE  \E g : /\ FramesOf(s, q, clip, moved, top) = g[Len(q)] /\ g[0] = s
                /\ \A k \in 0..Len(q) - 1 :
                      g[k + 1] = (IF moved /\ q[k + 1] = top THEN g[k]
                                  ELSE w_redraw(do_walk(g[k], q[k + 1], "W_BOX", Dropped(clip)),
                                                q[k + 1], clip))
  <1> DEFINE T(x, e) == (IF moved /\ e = top THEN x
                         ELSE w_redraw(do_walk(x, e, "W_BOX", Dropped(clip)), e, clip))
             b == s
             V(f, U) == IF U = {} THEN b ELSE T(f[U \ {Max(U)}], q[Max(U)])
             D(n) == SUBSET (1..n)
             Upto(n, f) == f = [U \in D(n) |-> V(f, U)]
             S == {n \in Nat : \E f : Upto(n, f)}
  <1> HIDE DEF T, b
  <1>1. 0 \in S
    <2> DEFINE g == [U \in D(0) |-> b]
    <2>1. D(0) = {{}}
      OBVIOUS
    <2>2. \A U \in D(0) : g[U] = V(g, U)
      BY <2>1
    <2>3. g = [U \in D(0) |-> g[U]]
      OBVIOUS
    <2> HIDE DEF g, D, V
    <2>4. g = [U \in D(0) |-> V(g, U)]
      BY ONLY <2>2, <2>3
    <2> QED
      BY <2>4
  <1>2. ASSUME NEW n \in S PROVE n + 1 \in S
    <2>1. PICK f : Upto(n, f)
      OBVIOUS
    <2>2. n \in Nat
      OBVIOUS
    <2> DEFINE m == n + 1
               g == [U \in D(m) |-> IF m \in U THEN T(f[U \ {m}], q[m]) ELSE f[U]]
    <2>3. \A U \in D(n) : f[U] = V(f, U)
      <3> HIDE DEF V, D
      <3> QED
        BY ONLY <2>1
    <2>4. \A U \in D(n) : U \in D(m) /\ m \notin U
      BY ONLY <2>2
    <2>5. \A U \in D(n) : g[U] = f[U]
      <3> HIDE DEF D
      <3> QED
        BY ONLY <2>4 DEF g
    <2>6. ASSUME NEW U \in D(m) PROVE g[U] = V(g, U)
      <3>1. CASE m \in U
        <4>1. Max(U) = m
          BY ONLY <2>2, <3>1, MaxIs
        <4>2. U \ {m} \in D(n)
          BY ONLY <2>2
        <4>3. g[U] = T(f[U \ {m}], q[m])
          BY ONLY <3>1, U \in D(m) DEF g
        <4>4. g[U \ {m}] = f[U \ {m}]
          BY ONLY <2>5, <4>2
        <4> QED
          BY ONLY <3>1, <4>1, <4>3, <4>4 DEF V
      <3>2. CASE m \notin U
        <4>1. U \in D(n)
          BY ONLY <2>2, <3>2, U \in D(m)
        <4>2. U # {} => U \ {Max(U)} \in D(n)
          BY ONLY <4>1
        <4>3. g[U] = f[U]
          BY ONLY <2>5, <4>1
        <4>4. U # {} => g[U \ {Max(U)}] = f[U \ {Max(U)}]
          BY ONLY <2>5, <4>2
        <4>5. f[U] = V(f, U)
          BY ONLY <2>3, <4>1
        <4> HIDE DEF g
        <4> QED
          BY ONLY <4>3, <4>4, <4>5 DEF V
      <3> QED
        BY <3>1, <3>2
    <2>7. g = [U \in D(m) |-> g[U]]
      OBVIOUS
    <2> HIDE DEF g, V, D
    <2>8. g = [U \in D(m) |-> V(g, U)]
      BY ONLY <2>6, <2>7
    <2> QED
      BY ONLY <2>2, <2>8 DEF S, Upto, m
  <1>3. Len(q) \in S
    <2>1. S \in SUBSET Nat /\ \A n \in 0..Len(q) : n \in S /\ n < Len(q) => n + 1 \in S
      BY <1>2
    <2> HIDE DEF S
    <2>2. 0..Len(q) \subseteq S
      BY <1>1, <2>1, Upward
    <2> QED
      BY <2>2
  <1> DEFINE f == CHOOSE f : f = [U \in SUBSET (DOMAIN q) |-> V(f, U)]
  <1>4. f = [U \in D(Len(q)) |-> V(f, U)]
    <2>1. \E h : h = [U \in SUBSET (DOMAIN q) |-> V(h, U)]
      BY <1>3
    <2> HIDE DEF V
    <2> QED
      BY <2>1
  <1>5. FramesOf(s, q, clip, moved, top) = f[1..Len(q)]
    <2>1. FramesOf(s, q, clip, moved, top) = f[DOMAIN q]
      BY DEF FramesOf, FoldLeft, MapThenFoldSet, T, b
    <2> QED
      BY <2>1
  <1> HIDE DEF f
  <1>6. \A U \in D(Len(q)) : f[U] = V(f, U)
    <2> HIDE DEF V, D
    <2> QED
      BY <1>4
  <1> DEFINE g == [k \in 0..Len(q) |-> f[1..k]]
  <1>7. g[0] = b
    <2>1. 1..0 = {} /\ {} \in D(Len(q))
      OBVIOUS
    <2>2. f[1..0] = b
      BY ONLY <1>6, <2>1 DEF V
    <2> QED
      BY <2>2
  <1>8. ASSUME NEW k \in 0..Len(q) - 1 PROVE g[k + 1] = T(g[k], q[k + 1])
    <2>1. /\ k \in Nat /\ k + 1 <= Len(q) /\ k + 1 \in 1..k + 1
          /\ k \in 0..Len(q) /\ k + 1 \in 0..Len(q)
      BY ONLY Len(q) \in Nat, k \in 0..Len(q) - 1
    <2>b. 1..k + 1 \in D(Len(q))
      BY ONLY UptoIs, Len(q) \in Nat, k \in 0..Len(q) - 1
    <2>a. (1..k + 1) \ {k + 1} = 1..k /\ 1..k + 1 # {}
      BY ONLY UptoIs, Len(q) \in Nat, k \in 0..Len(q) - 1
    <2>2. Max(1..k + 1) = k + 1
      BY ONLY <2>1, MaxIs
    <2>3. f[1..k + 1] = T(f[1..k], q[k + 1])
      BY ONLY <1>6, <2>a, <2>b, <2>2 DEF V
    <2> QED
      BY ONLY <2>1, <2>3 DEF g
  <1>9. FramesOf(s, q, clip, moved, top) = g[Len(q)]
    BY <1>5
  <1> HIDE DEF g
  <1> QED
    BY <1>7, <1>8, <1>9 DEF T, b

\* so do the frames of several windows
LEMMA FramesKeep ==
  ASSUME NEW s, Shape(s), NEW q, Len(q) \in Nat, DOMAIN q = 1..Len(q), NEW clip, NEW moved
  PROVE  Drawn(Frames(s, q, clip, moved), s)
  <1> DEFINE top == s.top
  <1>0. Frames(s, q, clip, moved) = FramesOf(s, q, clip, moved, top)
    BY DEF Frames, FramesOf
  <1> HIDE DEF top
  <1>1. PICK g : /\ FramesOf(s, q, clip, moved, top) = g[Len(q)] /\ g[0] = s
                 /\ \A k \in 0..Len(q) - 1 : g[k + 1] =
                      (IF moved /\ q[k + 1] = top THEN g[k]
                       ELSE w_redraw(do_walk(g[k], q[k + 1], "W_BOX", Dropped(clip)), q[k + 1], clip))
    BY FramesAre
  <1> DEFINE S == {k \in Nat : Drawn(g[k], s)}
  <1>2. 0 \in S
    BY <1>1, DrawnSelf
  <1>3. \A k \in 0..Len(q) : k \in S /\ k < Len(q) => k + 1 \in S
    <2> TAKE k \in 0..Len(q)
    <2> HAVE k \in S /\ k < Len(q)
    <2> DEFINE t == g[k]
               w == q[k + 1]
               u == do_walk(t, w, "W_BOX", Dropped(clip))
               v == w_redraw(u, w, clip)
    <2>1. k \in 0..Len(q) - 1 /\ k + 1 \in Nat
      OBVIOUS
    <2>2. Drawn(t, s)
      OBVIOUS
    <2>3. Shape(t)
      BY <2>2 DEF Drawn
    <2>4. g[k + 1] = IF moved /\ w = top THEN t ELSE v
      BY <1>1, <2>1
    <2> HIDE DEF t, w
    <2>5. Drawn(u, t)
      BY ONLY <2>3, WalkKeeps
    <2>6. Shape(u)
      BY ONLY <2>5 DEF Drawn
    <2> HIDE DEF u
    <2>7. Drawn(v, u)
      BY ONLY <2>6, RedrawKeeps
    <2> HIDE DEF v
    <2>8. Drawn(g[k + 1], s)
      BY ONLY <2>2, <2>4, <2>5, <2>7, DrawnOn
    <2> QED
      BY ONLY <2>1, <2>8
  <1>4. Len(q) \in S
    <2>1. S \in SUBSET Nat
      OBVIOUS
    <2> HIDE DEF S
    <2>2. 0..Len(q) \subseteq S
      BY ONLY Len(q) \in Nat, <1>2, <1>3, <2>1, Upward
    <2> QED
      BY ONLY Len(q) \in Nat, <2>2
  <1> QED
    BY <1>0, <1>1, <1>4

-----------------------------------------------------------------------------
(* The tree of windows.                                                     *)

\* the windows k, from bottom to top, are linked as children of the root
Links(t, k) ==
  /\ t = [next |-> t.next, head |-> t.head, tail |-> t.tail]
  /\ t.next \in [Windows -> Int]
  /\ k \in Seq(Apps) /\ Once(k)
  /\ k = <<>> => t.head = NIL /\ t.tail = NIL
  /\ k # <<>> => /\ t.head = k[1] /\ t.tail = k[Len(k)]
                 /\ t.next[k[Len(k)]] = DESK
  /\ \A i \in 1..Len(k) - 1 : t.next[k[i]] = k[i + 1]

\* handles of windows are neither the desktop nor NIL
LEMMA AppsAre == \A w \in Apps : w \in Windows /\ w \in Int /\ w # DESK /\ w # NIL /\ w >= 1
  BY WindowAssumption DEF Apps, Windows, DESK, NIL

\* there is a handle for each
LEMMA NotMore ==
  ASSUME NEW k \in Seq(Apps), Once(k) PROVE Len(k) <= NUM_WIN - 1 /\ Len(k) \in Nat
  <1> DEFINE n == Len(k)
  <1>1. n \in Nat /\ DOMAIN k = 1..n /\ k \in [1..n -> Apps]
    OBVIOUS
  <1>2. NUM_WIN \in Nat /\ NUM_WIN >= 1
    BY WindowAssumption
  <1>3. Apps = 1..NUM_WIN - 1
    BY <1>2 DEF Apps, Windows, DESK
  <1> HIDE DEF n
  <1>4. k \in Injection(1..n, 1..NUM_WIN - 1)
    BY ONLY <1>1, <1>3, Once(k) DEF Once, Injection, IsInjective
  <1>5. /\ IsFiniteSet(1..NUM_WIN - 1) /\ IsFiniteSet(1..n)
        /\ Cardinality(1..NUM_WIN - 1) = NUM_WIN - 1 /\ Cardinality(1..n) = n
    BY <1>1, <1>2, FS_Interval
  <1>6. Cardinality(1..n) <= Cardinality(1..NUM_WIN - 1)
    BY ONLY <1>4, <1>5, FS_Injection
  <1> QED
    BY <1>1, <1>5, <1>6 DEF n

\* the first of a sequence
LEMMA FirstOf == ASSUME NEW S, NEW k \in Seq(S), Len(k) >= 1 PROVE SubSeq(k, 1, 1) = <<k[1]>>
  <1> DEFINE u == SubSeq(k, 1, 1)
             v == <<k[1]>>
  <1>1. u \in Seq(S) /\ Len(u) = 1 /\ u[1] = k[1]
    OBVIOUS
  <1>2. v \in Seq(S) /\ Len(v) = 1 /\ v[1] = k[1]
    OBVIOUS
  <1> HIDE DEF u, v
  <1>3. u = v
    BY <1>1, <1>2, SeqEqual
  <1> QED
    BY <1>3 DEF u, v

\* Kids meets them in this order
LEMMA KidsAre ==
  ASSUME NEW t, NEW k, Links(t, k) PROVE Kids(t) = k
  <1> DEFINE N == NUM_WIN
             Next(w) == IF w = <<>> THEN w
                        ELSE IF t.next[Last(w)] = DESK \/ Last(w) = DESK THEN w
                        ELSE Append(w, t.next[Last(w)])
             First == IF t.head = NIL THEN <<>> ELSE <<t.head>>
             Eqn(f) == f = [n \in 0..N |-> IF n = 0 THEN First ELSE Next(f[n - 1])]
             upto(n) == IF n + 1 <= Len(k) THEN SubSeq(k, 1, n + 1) ELSE k
             g == [n \in 0..N |-> upto(n)]
  <1>1. /\ k \in Seq(Apps) /\ Len(k) \in Nat /\ DOMAIN k = 1..Len(k)
        /\ Len(k) <= N - 1 /\ N \in Nat
    BY NotMore, WindowAssumption DEF Links
  <1>0. k # <<>> => t.head = k[1] /\ t.next[k[Len(k)]] = DESK
    BY ONLY Links(t, k) DEF Links
  <1>2. First = upto(0)
    <2>1. CASE k = <<>>
      BY <1>1, <2>1 DEF Links, NIL
    <2>2. CASE k # <<>>
      <3>1. Len(k) >= 1 /\ k[1] \in Apps
        <4>1. Len(k) # 0
          BY ONLY <2>2, <1>1
        <4> QED
          BY ONLY <1>1, <4>1
      <3>2. SubSeq(k, 1, 0 + 1) = <<k[1]>>
        BY ONLY <1>1, <3>1, FirstOf
      <3> QED
        BY <2>2, <3>1, <3>2, AppsAre DEF Links
    <2> QED
      BY <2>1, <2>2
  <1>3. ASSUME NEW n \in 1..N PROVE upto(n) = Next(upto(n - 1))
    <2> DEFINE w == upto(n - 1)
    <2>1. CASE k = <<>>
      BY <1>1, <2>1
    <2>2. CASE k # <<>> /\ n <= Len(k)
      <3>1. w = SubSeq(k, 1, n)
        BY <1>1, <2>2
      <3>2. w \in Seq(Apps) /\ Len(w) = n /\ w # <<>> /\ w[n] = k[n]
        BY <1>1, <2>2, <3>1
      <3> HIDE DEF w
      <3>3. Last(w) = k[n] /\ k[n] \in Apps
        BY <1>1, <2>2, <3>2 DEF Last
      <3>4. CASE n = Len(k)
        <4>1. t.next[k[n]] = DESK
          BY ONLY <1>0, <2>2, <3>4
        <4>2. upto(n) = k /\ w = k
          <5>1. ~(n + 1 <= Len(k))
            BY <1>1, <3>4
          <5> QED
            BY ONLY <1>1, <3>1, <3>4, <5>1, SubSeqFull DEF upto
        <4> QED
          BY ONLY <3>2, <3>3, <4>1, <4>2 DEF w
      <3>5. CASE n < Len(k)
        <4>1. t.next[k[n]] = k[n + 1] /\ k[n + 1] \in Apps
          BY <1>1, <3>5 DEF Links
        <4>2. upto(n) = SubSeq(k, 1, n + 1)
          BY <1>1, <3>5
        <4>3. SubSeq(k, 1, n + 1) = Append(SubSeq(k, 1, n), k[n + 1])
          BY <1>1, <3>5
        <4> QED
          BY ONLY <3>1, <3>2, <3>3, <4>1, <4>2, <4>3, AppsAre DEF w
      <3> HIDE DEF upto, Next, First, Eqn, g, N
      <3>6. n = Len(k) \/ n < Len(k)
        <4>1. n <= Len(k)
          BY ONLY <2>2
        <4>2. Len(k) \in Int
          BY ONLY <1>1
        <4>3. n \in Int
          BY ONLY n \in 1..N
        <4> QED
          BY ONLY <4>1, <4>2, <4>3
      <3> QED
        BY ONLY <3>4, <3>5, <3>6
    <2>3. CASE k # <<>> /\ n > Len(k)
      <3>1. upto(n) = k /\ w = k
        <4>1. ~(n + 1 <= Len(k)) /\ ~((n - 1) + 1 <= Len(k))
          BY ONLY <1>1, <2>3, n \in 1..N
        <4> QED
          BY ONLY <4>1 DEF upto
      <3>2. Last(k) = k[Len(k)] /\ t.next[Last(k)] = DESK
        BY ONLY <1>0, <2>3 DEF Last
      <3>3. Next(k) = k
        BY ONLY <2>3, <3>2
      <3>4. upto(n) = Next(w)
        BY ONLY <3>1, <3>3
      <3> QED
        BY ONLY <3>4 DEF w
    <2>4. n <= Len(k) \/ n > Len(k)
      BY ONLY <1>1, n \in 1..N
    <2> HIDE DEF upto, Next
    <2> QED
      BY ONLY <2>1, <2>2, <2>3, <2>4
  <1>4. \A n \in 0..N : g[n] = upto(n)
    OBVIOUS
  <1> HIDE DEF upto
  <1>5. \A n \in 0..N : g[n] = IF n = 0 THEN First ELSE Next(g[n - 1])
    <2> TAKE n \in 0..N
    <2>1. CASE n = 0
      BY <1>2, <1>4, <2>1
    <2>2. CASE n # 0
      <3>1. n \in 1..N /\ n - 1 \in 0..N
        BY ONLY <1>1, <2>2, n \in 0..N
      <3>2. g[n] = upto(n) /\ g[n - 1] = upto(n - 1)
        BY ONLY <1>4, <3>1
      <3>3. upto(n) = Next(upto(n - 1))
        BY ONLY <1>3, <3>1
      <3> HIDE DEF g, Next
      <3> QED
        BY ONLY <2>2, <3>2, <3>3
    <2> QED
      BY <2>1, <2>2
  <1>6. g = [n \in 0..N |-> g[n]]
    OBVIOUS
  <1> HIDE DEF g, Next, First, N
  <1>7. Eqn(g)
    BY ONLY <1>5, <1>6
  <1> DEFINE f == CHOOSE h : Eqn(h)
  <1>8. Eqn(f)
    <2> HIDE DEF Eqn
    <2> QED
      BY ONLY <1>7
  <1> HIDE DEF f
  <1>9. f[N] = g[N]
    <2> DEFINE S == {n \in Nat : f[n] = g[n]}
    <2>1. \A n \in 0..N : f[n] = IF n = 0 THEN First ELSE Next(f[n - 1])
      BY ONLY <1>8
    <2>2. 0 \in S
      BY ONLY <1>1, <1>5, <2>1
    <2>3. \A n \in 0..N : n \in S /\ n < N => n + 1 \in S
      <3> TAKE n \in 0..N
      <3> HAVE n \in S /\ n < N
      <3>1. n + 1 \in 0..N /\ n + 1 # 0 /\ (n + 1) - 1 = n /\ n + 1 \in Nat
        BY <1>1
      <3>2. f[n + 1] = Next(f[n]) /\ g[n + 1] = Next(g[n])
        BY ONLY <1>5, <2>1, <3>1
      <3> QED
        BY ONLY <3>1, <3>2, n \in S
    <2>4. S \in SUBSET Nat
      OBVIOUS
    <2> HIDE DEF S
    <2>5. 0..N \subseteq S
      BY ONLY <1>1, <2>2, <2>3, <2>4, Upward
    <2>6. N \in S
      BY ONLY <1>1, <2>5
    <2> QED
      BY <2>6 DEF S
  <1>10. Kids(t) = f[N]
    BY ONLY TRUE DEF Kids, f, N, Next, First
  <1>11. g[N] = k
    <2>1. N \in 0..N /\ ~(N + 1 <= Len(k))
      BY ONLY <1>1
    <2> QED
      BY ONLY <1>4, <2>1 DEF upto
  <1> QED
    BY ONLY <1>9, <1>10, <1>11

\* the windows k without the i-th
Without(k, i) == [j \in 1..Len(k) - 1 |-> IF j < i THEN k[j] ELSE k[j + 1]]

\* what Links says, in numbers
LEMMA LinksAre ==
  ASSUME NEW t, NEW k, Links(t, k)
  PROVE  /\ t = [next |-> t.next, head |-> t.head, tail |-> t.tail]
         /\ t.next \in [Windows -> Int]
         /\ k \in Seq(Apps) /\ Len(k) \in Nat /\ DOMAIN k = 1..Len(k)
         /\ \A i \in 1..Len(k) : k[i] \in Apps /\ k[i] # NIL /\ k[i] # DESK
         /\ \A i, j \in 1..Len(k) : k[i] = k[j] => i = j
         /\ Len(k) = 0 => t.head = NIL /\ t.tail = NIL /\ k = <<>>
         /\ Len(k) > 0 => /\ t.head = k[1] /\ t.tail = k[Len(k)] /\ t.next[k[Len(k)]] = DESK
                           /\ k # <<>>
         /\ \A i \in 1..Len(k) - 1 : t.next[k[i]] = k[i + 1]
  <1>1. k \in Seq(Apps)
    BY DEF Links
  <1>2. Len(k) \in Nat /\ DOMAIN k = 1..Len(k) /\ (Len(k) = 0 <=> k = <<>>)
        /\ \A i \in 1..Len(k) : k[i] \in Apps
    BY ONLY <1>1
  <1> HIDE DEF Windows, Apps
  <1>3. /\ t = [next |-> t.next, head |-> t.head, tail |-> t.tail]
        /\ t.next \in [Windows -> Int] /\ Once(k)
        /\ k = <<>> => t.head = NIL /\ t.tail = NIL
        /\ k # <<>> => t.head = k[1] /\ t.tail = k[Len(k)] /\ t.next[k[Len(k)]] = DESK
        /\ \A i \in 1..Len(k) - 1 : t.next[k[i]] = k[i + 1]
    BY DEF Links
  <1>4. \A i \in 1..Len(k) : k[i] # NIL /\ k[i] # DESK
    BY ONLY <1>2, AppsAre
  <1>5. Len(k) > 0 <=> Len(k) # 0
    BY ONLY <1>2
  <1>6. \A i, j \in 1..Len(k) : k[i] = k[j] => i = j
    BY ONLY <1>2, <1>3 DEF Once
  <1> QED
    BY ONLY <1>1, <1>2, <1>3, <1>4, <1>5, <1>6

\* and what is enough
LEMMA AreLinks ==
  ASSUME NEW t, NEW k \in Seq(Apps), t = [next |-> t.next, head |-> t.head, tail |-> t.tail],
         t.next \in [Windows -> Int],
         \A i, j \in 1..Len(k) : k[i] = k[j] => i = j,
         Len(k) = 0 => t.head = NIL /\ t.tail = NIL,
         Len(k) > 0 => t.head = k[1] /\ t.tail = k[Len(k)] /\ t.next[k[Len(k)]] = DESK,
         \A i \in 1..Len(k) - 1 : t.next[k[i]] = k[i + 1]
  PROVE  Links(t, k)
  <1>1. Len(k) \in Nat /\ DOMAIN k = 1..Len(k) /\ (Len(k) = 0 <=> k = <<>>)
    OBVIOUS
  <1>2. Len(k) > 0 <=> Len(k) # 0
    BY ONLY <1>1
  <1> QED
    BY <1>1, <1>2 DEF Links, Once

\* w_obadd puts wh at the end
LEMMA AddLinks ==
  ASSUME NEW t, NEW k, Links(t, k), NEW wh \in Apps, \A i \in DOMAIN k : k[i] # wh
  PROVE  Links(w_obadd(t, wh), Append(k, wh))
  <1> DEFINE n == Len(k)
             u == Append(k, wh)
             v == w_obadd(t, wh)
  <1>1. /\ t = [next |-> t.next, head |-> t.head, tail |-> t.tail]
        /\ t.next \in [Windows -> Int]
        /\ k \in Seq(Apps) /\ n \in Nat /\ DOMAIN k = 1..n
        /\ \A i \in 1..n : k[i] \in Apps /\ k[i] # NIL /\ k[i] # DESK
        /\ \A i, j \in 1..n : k[i] = k[j] => i = j
        /\ n = 0 => t.head = NIL /\ t.tail = NIL /\ k = <<>>
        /\ n > 0 => /\ t.head = k[1] /\ t.tail = k[n] /\ t.next[k[n]] = DESK
                     /\ k # <<>>
        /\ \A i \in 1..n - 1 : t.next[k[i]] = k[i + 1]
    BY LinksAre
  <1>2. u \in Seq(Apps) /\ Len(u) = n + 1 /\ u[n + 1] = wh /\ \A i \in 1..n : u[i] = k[i]
    BY ONLY <1>1, wh \in Apps
  <1>3. \A i \in 1..n : k[i] # wh
    BY <1>1
  <1>4. wh \in Windows /\ DESK \in Int /\ wh \in Int /\ \A w \in Apps : w \in Windows /\ w \in Int
    BY AppsAre DEF DESK
  <1>5. /\ v = [next |-> v.next, head |-> v.head, tail |-> v.tail]
        /\ v.tail = wh /\ v.head = IF t.tail = NIL THEN wh ELSE t.head
        /\ v.next = IF t.tail = NIL THEN [t.next EXCEPT ![wh] = DESK]
                    ELSE [t.next EXCEPT ![wh] = DESK, ![t.tail] = wh]
    BY DEF w_obadd
  <1> HIDE DEF u, v, n
  <1>6. CASE n = 0
    <2>1. /\ v.next = [t.next EXCEPT ![wh] = DESK] /\ v.head = wh
          /\ v.next \in [Windows -> Int] /\ v.next[wh] = DESK
      BY ONLY <1>1, <1>4, <1>5, <1>6
    <2>2. Len(u) = 1 /\ u[1] = wh
      BY ONLY <1>2, <1>6
    <2>3. /\ \A i, j \in 1..Len(u) : u[i] = u[j] => i = j
          /\ \A i \in 1..Len(u) - 1 : v.next[u[i]] = u[i + 1]
      BY ONLY <2>2
    <2>20. Len(u) = 0 => v.head = NIL /\ v.tail = NIL
      BY ONLY <1>2, <1>5, <2>1, <2>2, <2>3
    <2>22. Len(u) > 0 => v.head = u[1] /\ v.tail = u[Len(u)] /\ v.next[u[Len(u)]] = DESK
      BY ONLY <1>2, <1>5, <2>1, <2>2, <2>3
    <2>23. v.next \in [Windows -> Int]
      BY ONLY <1>2, <1>5, <2>1, <2>2, <2>3
    <2>24. \A j \in 1..Len(u) - 1 : v.next[u[j]] = u[j + 1]
      BY ONLY <1>2, <1>5, <2>1, <2>2, <2>3
    <2>21. Links(v, u)
      BY ONLY <1>2, <1>5, <2>1, <2>2, <2>3, <2>20, <2>22, <2>23, <2>24, AreLinks
    <2> QED
      BY ONLY <2>21 DEF u, v
  <1>7. CASE n > 0
    <2>1. n \in 1..n /\ k[n] \in Apps /\ t.tail = k[n] /\ t.tail # NIL /\ t.tail # wh
      BY ONLY <1>1, <1>3, <1>7
    <2>2. /\ v.next = [t.next EXCEPT ![wh] = DESK, ![k[n]] = wh] /\ v.head = k[1]
      BY ONLY <1>1, <1>5, <1>7, <2>1
    <2>3. /\ v.next \in [Windows -> Int] /\ v.next[wh] = DESK /\ v.next[k[n]] = wh
          /\ \A w \in Windows : w # wh /\ w # k[n] => v.next[w] = t.next[w]
      BY ONLY <1>1, <1>4, <2>1, <2>2
    <2>4. \A i \in 1..n + 1 : i \in 1..n \/ i = n + 1
      BY ONLY <1>1
    <2>5. \A i, j \in 1..Len(u) : u[i] = u[j] => i = j
      BY ONLY <1>1, <1>2, <1>3, <2>4
    <2>6. Len(u) > 0 /\ u[1] = k[1] /\ u[Len(u)] = wh
      BY ONLY <1>1, <1>2, <1>7
    <2>7. \A i \in 1..Len(u) - 1 : v.next[u[i]] = u[i + 1]
      <3> TAKE i \in 1..Len(u) - 1
      <3>1. i \in 1..n
        BY ONLY <1>1, <1>2, i \in 1..Len(u) - 1
      <3>2. CASE i = n
        BY ONLY <1>2, <2>1, <2>3, <3>2
      <3>3. CASE i # n
        <4>1. i \in 1..n - 1 /\ i + 1 \in 1..n
          BY ONLY <1>1, <3>1, <3>3
        <4>2. k[i] # k[n] /\ k[i] # wh /\ k[i] \in Windows
          BY ONLY <1>1, <1>3, <1>4, <2>1, <3>1, <3>3
        <4> QED
          BY ONLY <1>1, <1>2, <2>3, <3>1, <4>1, <4>2
      <3> QED
        BY <3>2, <3>3
    <2>20. Len(u) = 0 => v.head = NIL /\ v.tail = NIL
      BY ONLY <1>2, <1>5, <1>7, <2>2, <2>3, <2>5, <2>6, <2>7, <1>1
    <2>22. Len(u) > 0 => v.head = u[1] /\ v.tail = u[Len(u)] /\ v.next[u[Len(u)]] = DESK
      BY ONLY <1>2, <1>5, <1>7, <2>2, <2>3, <2>5, <2>6, <2>7, <1>1
    <2>23. v.next \in [Windows -> Int]
      BY ONLY <1>2, <1>5, <1>7, <2>2, <2>3, <2>5, <2>6, <2>7, <1>1
    <2>24. \A j \in 1..Len(u) - 1 : v.next[u[j]] = u[j + 1]
      BY ONLY <1>2, <1>5, <1>7, <2>2, <2>3, <2>5, <2>6, <2>7, <1>1
    <2>21. Links(v, u)
      BY ONLY <1>2, <1>5, <1>7, <2>2, <2>3, <2>5, <2>6, <2>7, <1>1, <2>20, <2>22, <2>23, <2>24, AreLinks
    <2> QED
      BY ONLY <2>21 DEF u, v
  <1> QED
    BY ONLY <1>1, <1>6, <1>7 DEF u, v

\* what is left when one window is taken out
Lacks(u, k, i) ==
  /\ u \in Seq(Apps) /\ Len(u) = Len(k) - 1 /\ Len(k) \in Nat
  /\ \A j \in 1..Len(k) - 1 : u[j] = IF j < i THEN k[j] ELSE k[j + 1]
  /\ \A j, m \in 1..Len(u) : u[j] = u[m] => j = m
  /\ \A j \in 1..Len(u) : u[j] # k[i] /\ \E m \in 1..Len(k) : u[j] = k[m]
  /\ \A j \in 1..Len(k) : j # i => \E m \in 1..Len(u) : u[m] = k[j]

LEMMA WithoutIs ==
  ASSUME NEW k \in Seq(Apps), \A i, j \in 1..Len(k) : k[i] = k[j] => i = j, NEW i \in 1..Len(k)
  PROVE  Lacks(Without(k, i), k, i)
  <1> DEFINE u == Without(k, i)
             n == Len(k)
  <1>1. n \in Nat /\ n >= 1 /\ i \in Int /\ 1 <= i /\ i <= n /\ \A j \in 1..n : k[j] \in Apps
    OBVIOUS
  <1> HIDE DEF n
  <1>2. u = [j \in 1..n - 1 |-> IF j < i THEN k[j] ELSE k[j + 1]]
    BY DEF Without, n
  <1> HIDE DEF u
  <1>3. \A j \in 1..n - 1 : j \in 1..n /\ j + 1 \in 1..n
    BY ONLY <1>1
  <1>4. \A j \in 1..n - 1 : u[j] \in Apps /\ u[j] = IF j < i THEN k[j] ELSE k[j + 1]
    BY ONLY <1>1, <1>2, <1>3
  <1>5. u \in Seq(Apps) /\ Len(u) = n - 1
    <2>1. u = [j \in 1..n - 1 |-> u[j]] /\ n - 1 \in Nat
      BY ONLY <1>1, <1>2
    <2> QED
      BY ONLY <1>4, <2>1
  <1>6. \A a, b \in 1..n : k[a] = k[b] => a = b
    BY DEF n
  <1>7. \A j, m \in 1..n - 1 : u[j] = u[m] => j = m
    <2> TAKE j, m \in 1..n - 1
    <2> HAVE u[j] = u[m]
    <2>1. /\ u[j] = IF j < i THEN k[j] ELSE k[j + 1]
          /\ u[m] = IF m < i THEN k[m] ELSE k[m + 1]
      BY ONLY <1>4, j \in 1..n - 1, m \in 1..n - 1
    <2>2. /\ j \in 1..n /\ j + 1 \in 1..n /\ m \in 1..n /\ m + 1 \in 1..n
      BY ONLY <1>3, j \in 1..n - 1, m \in 1..n - 1
    <2>3. (IF j < i THEN j ELSE j + 1) = (IF m < i THEN m ELSE m + 1)
      BY ONLY <1>6, <2>1, <2>2, u[j] = u[m]
    <2> QED
      BY ONLY <1>1, <2>2, <2>3
  <1>8. \A j \in 1..n - 1 : u[j] # k[i] /\ \E m \in 1..n : u[j] = k[m]
    <2> TAKE j \in 1..n - 1
    <2>1. (IF j < i THEN j ELSE j + 1) \in 1..n /\ (IF j < i THEN j ELSE j + 1) # i /\ i \in 1..n
      BY ONLY <1>1, j \in 1..n - 1
    <2>2. u[j] = k[IF j < i THEN j ELSE j + 1]
      BY ONLY <1>4, j \in 1..n - 1
    <2> QED
      BY ONLY <1>6, <2>1, <2>2
  <1>9. \A j \in 1..n : j # i => \E m \in 1..n - 1 : u[m] = k[j]
    <2> TAKE j \in 1..n
    <2> HAVE j # i
    <2>1. CASE j < i
      <3>1. j \in 1..n - 1
        BY ONLY <1>1, <2>1, j \in 1..n
      <3> QED
        BY ONLY <1>4, <2>1, <3>1
    <2>2. CASE j > i
      <3>1. j - 1 \in 1..n - 1 /\ ~(j - 1 < i) /\ (j - 1) + 1 = j
        BY ONLY <1>1, <2>2, j \in 1..n
      <3> QED
        BY ONLY <1>4, <3>1
    <2> QED
      BY ONLY <1>1, <2>1, <2>2, j \in 1..n, j # i
  <1>10. Lacks(u, k, i)
    BY ONLY <1>1, <1>4, <1>5, <1>7, <1>8, <1>9 DEF Lacks, n
  <1> QED
    BY ONLY <1>10 DEF u

\* ob_delete takes the i-th out
LEMMA DeleteLinks ==
  ASSUME NEW t, NEW k, Links(t, k), NEW i \in DOMAIN k
  PROVE  Links(ob_delete(t, k[i]), Without(k, i))
  <1> DEFINE n == Len(k)
             u == Without(k, i)
             wh == k[i]
             v == ob_delete(t, wh)
  <1>1. /\ t = [next |-> t.next, head |-> t.head, tail |-> t.tail]
        /\ t.next \in [Windows -> Int]
        /\ k \in Seq(Apps) /\ n \in Nat /\ DOMAIN k = 1..n
        /\ \A j \in 1..n : k[j] \in Apps /\ k[j] # NIL /\ k[j] # DESK
        /\ \A j, m \in 1..n : k[j] = k[m] => j = m
        /\ n > 0 => t.head = k[1] /\ t.tail = k[n] /\ t.next[k[n]] = DESK
        /\ \A j \in 1..n - 1 : t.next[k[j]] = k[j + 1]
    BY LinksAre
  <1>2. /\ i \in 1..n /\ 1 \in 1..n /\ n \in 1..n /\ i \in Int /\ 1 <= i /\ i <= n
        /\ t.head = k[1] /\ t.tail = k[n] /\ t.next[k[n]] = DESK
    BY <1>1
  <1>3. /\ u \in Seq(Apps) /\ Len(u) = n - 1
        /\ \A j \in 1..n - 1 : u[j] = IF j < i THEN k[j] ELSE k[j + 1]
        /\ \A j, m \in 1..Len(u) : u[j] = u[m] => j = m
    <2>1. k \in Seq(Apps) /\ i \in 1..Len(k) /\ \A j, m \in 1..Len(k) : k[j] = k[m] => j = m
      BY <1>1, <1>2
    <2>2. Lacks(Without(k, i), k, i)
      BY ONLY <2>1, WithoutIs
    <2>3. Lacks(u, k, i)
      BY <2>2
    <2> HIDE DEF u
    <2> QED
      BY ONLY <2>3 DEF Lacks
  <1>4. \A w \in Apps : w \in Windows /\ w \in Int
    BY AppsAre
  <1>5. wh \in Apps /\ DESK \in Int
    BY <1>1, <1>2 DEF DESK
  <1>6. Kids(t) = k
    BY KidsAre
  <1>7. v = IF t.head = wh
            THEN IF t.tail = wh THEN [t EXCEPT !.head = NIL, !.tail = NIL]
                 ELSE [t EXCEPT !.head = t.next[wh]]
            ELSE [t EXCEPT !.next[get_prev(t, wh)] = t.next[wh],
                           !.tail = IF t.tail = wh THEN get_prev(t, wh) ELSE @]
    BY DEF ob_delete
  <1>8. wh = k[i]
    OBVIOUS
  <1> HIDE DEF n, u, wh, v
  <1>9. CASE n = 1
    <2>1. t.head = wh /\ t.tail = wh /\ Len(u) = 0
      BY ONLY <1>2, <1>3, <1>8, <1>9
    <2>2. v = [t EXCEPT !.head = NIL, !.tail = NIL]
      BY ONLY <1>7, <2>1
    <2>3. /\ v = [next |-> v.next, head |-> v.head, tail |-> v.tail] /\ v.next = t.next
          /\ v.head = NIL /\ v.tail = NIL
      BY ONLY <1>1, <2>2
    <2>4. \A j \in 1..Len(u) - 1 : v.next[u[j]] = u[j + 1]
      BY ONLY <2>1
    <2>20. Len(u) = 0 => v.head = NIL /\ v.tail = NIL
      BY ONLY <1>1, <1>3, <2>1, <2>3, <2>4
    <2>22. Len(u) > 0 => v.head = u[1] /\ v.tail = u[Len(u)] /\ v.next[u[Len(u)]] = DESK
      BY ONLY <1>1, <1>3, <2>1, <2>3, <2>4
    <2>23. v.next \in [Windows -> Int]
      BY ONLY <1>1, <1>3, <2>1, <2>3, <2>4
    <2>24. \A j \in 1..Len(u) - 1 : v.next[u[j]] = u[j + 1]
      BY ONLY <1>1, <1>3, <2>1, <2>3, <2>4
    <2>21. Links(v, u)
      BY ONLY <1>1, <1>3, <2>1, <2>3, <2>4, <2>20, <2>22, <2>23, <2>24, AreLinks
    <2> QED
      BY ONLY <2>21 DEF u, v, wh
  <1>10. CASE i = 1 /\ n # 1
    <2>1. t.head = wh /\ t.tail # wh /\ n > 1 /\ 1 \in 1..n - 1
      BY ONLY <1>1, <1>2, <1>8, <1>10
    <2>2. v = [t EXCEPT !.head = t.next[wh]] /\ t.next[wh] = k[2]
      BY ONLY <1>1, <1>7, <1>8, <1>10, <2>1
    <2>3. /\ v = [next |-> v.next, head |-> v.head, tail |-> v.tail] /\ v.next = t.next
          /\ v.head = k[2] /\ v.tail = k[n]
      BY ONLY <1>1, <1>2, <2>2
    <2>4. \A j \in 1..n - 1 : u[j] = k[j + 1]
      BY ONLY <1>3, <1>10
    <2>5. Len(u) > 0 /\ u[1] = k[2] /\ u[Len(u)] = k[n]
      <3>1. n - 1 \in 1..n - 1 /\ (n - 1) + 1 = n /\ 1 + 1 = 2 /\ n - 1 > 0
        BY ONLY <1>1, <2>1
      <3> QED
        BY ONLY <1>3, <2>1, <2>4, <3>1
    <2>6. \A j \in 1..Len(u) - 1 : v.next[u[j]] = u[j + 1]
      <3> TAKE j \in 1..Len(u) - 1
      <3>1. j \in 1..n - 1 /\ j + 1 \in 1..n - 1
        BY ONLY <1>1, <1>3, j \in 1..Len(u) - 1
      <3> QED
        BY ONLY <1>1, <2>3, <2>4, <3>1
    <2>20. Len(u) = 0 => v.head = NIL /\ v.tail = NIL
      BY ONLY <1>1, <1>2, <1>3, <2>3, <2>5, <2>6
    <2>22. Len(u) > 0 => v.head = u[1] /\ v.tail = u[Len(u)] /\ v.next[u[Len(u)]] = DESK
      BY ONLY <1>1, <1>2, <1>3, <2>3, <2>5, <2>6
    <2>23. v.next \in [Windows -> Int]
      BY ONLY <1>1, <1>2, <1>3, <2>3, <2>5, <2>6
    <2>24. \A j \in 1..Len(u) - 1 : v.next[u[j]] = u[j + 1]
      BY ONLY <1>1, <1>2, <1>3, <2>3, <2>5, <2>6
    <2>21. Links(v, u)
      BY ONLY <1>1, <1>2, <1>3, <2>3, <2>5, <2>6, <2>20, <2>22, <2>23, <2>24, AreLinks
    <2> QED
      BY ONLY <2>21 DEF u, v, wh
  <1>11. CASE i > 1
    <2> DEFINE p == k[i - 1]
    <2>1. /\ i - 1 \in 1..n /\ i - 1 \in 1..n - 1 /\ (i - 1) + 1 = i /\ i - 1 # i /\ n > 1
          /\ n - 1 > 0
      BY ONLY <1>1, <1>2, <1>11
    <2>2. p \in Apps /\ p \in Windows /\ t.next[p] = wh
      BY ONLY <1>1, <1>4, <1>8, <2>1
    <2>3. get_prev(t, wh) = p
      <3>1. p \in ToSet(k)
        BY ONLY <1>1, <2>1 DEF ToSet
      <3>2. ASSUME NEW q \in ToSet(k), t.next[q] = wh PROVE q = p
        <4>1. PICK j \in 1..n : q = k[j]
          BY ONLY <1>1, q \in ToSet(k) DEF ToSet
        <4>2. j # n
          BY ONLY <1>1, <1>2, <1>8, <3>2, <4>1
        <4>3. j \in 1..n - 1 /\ j + 1 \in 1..n /\ j \in Int
          BY ONLY <1>1, <4>2, j \in 1..n
        <4>4. k[j + 1] = k[i]
          BY ONLY <1>1, <1>8, <3>2, <4>1, <4>3
        <4>5. j + 1 = i
          BY ONLY <1>1, <1>2, <4>3, <4>4
        <4>6. j = i - 1
          BY ONLY <1>2, <4>3, <4>5
        <4> QED
          BY ONLY <4>1, <4>6
      <3> HIDE DEF p
      <3> QED
        BY ONLY <1>6, <2>2, <3>1, <3>2 DEF get_prev
    <2>4. t.head # wh
      BY ONLY <1>1, <1>2, <1>8, <1>11
    <2>5. v = [t EXCEPT !.next[p] = t.next[wh], !.tail = IF t.tail = wh THEN p ELSE @]
      <3> HIDE DEF p
      <3> QED
        BY ONLY <1>7, <2>3, <2>4
    <2>6. t.next[wh] = (IF i = n THEN DESK ELSE k[i + 1]) /\ t.next[wh] \in Int
      <3>1. CASE i = n
        BY ONLY <1>2, <1>5, <1>8, <3>1
      <3>2. CASE i # n
        <4>1. i \in 1..n - 1 /\ i + 1 \in 1..n
          BY ONLY <1>1, <1>2, <3>2
        <4> QED
          BY ONLY <1>1, <1>4, <1>8, <3>2, <4>1
      <3> QED
        BY <3>1, <3>2
    <2>7. t.tail = wh <=> i = n
      BY ONLY <1>1, <1>2, <1>8
    <2> DEFINE nx == [t.next EXCEPT ![p] = t.next[wh]]
    <2>8. /\ v = [next |-> v.next, head |-> v.head, tail |-> v.tail] /\ v.next = nx
          /\ v.head = k[1] /\ v.tail = IF i = n THEN p ELSE k[n]
      <3> HIDE DEF p
      <3> QED
        BY ONLY <1>1, <1>2, <2>5, <2>7
    <2> HIDE DEF p
    <2>9. /\ nx \in [Windows -> Int] /\ nx[p] = t.next[wh]
          /\ \A w \in Windows : w # p => nx[w] = t.next[w]
      BY ONLY <1>1, <2>2, <2>6
    <2> HIDE DEF nx
    <2>10. Len(u) > 0 /\ u[1] = k[1] /\ u[n - 1] = IF i = n THEN p ELSE k[n]
      <3>1. 1 \in 1..n - 1 /\ n - 1 \in 1..n - 1 /\ (n - 1) + 1 = n
        BY ONLY <1>1, <2>1
      <3>2. u[1] = k[1]
        BY ONLY <1>3, <1>11, <3>1
      <3>3. i = n => n - 1 < i /\ p = k[n - 1]
        BY ONLY <1>1, <2>1 DEF p
      <3>4. i # n => ~(n - 1 < i)
        BY ONLY <1>1, <1>2
      <3> QED
        BY ONLY <1>3, <2>1, <3>1, <3>2, <3>3, <3>4
    <2>11. nx[u[n - 1]] = DESK
      <3>1. CASE i = n
        BY ONLY <2>6, <2>9, <2>10, <3>1
      <3>2. CASE i # n
        <4>1. k[n] # p
          BY ONLY <1>1, <1>2, <2>1 DEF p
        <4> QED
          BY ONLY <1>1, <1>2, <1>4, <2>9, <2>10, <3>2, <4>1
      <3> QED
        BY <3>1, <3>2
    <2>12. \A j \in 1..Len(u) - 1 : nx[u[j]] = u[j + 1]
      <3> TAKE j \in 1..Len(u) - 1
      <3>1. j \in 1..n - 1 /\ j + 1 \in 1..n - 1 /\ j \in Int /\ j \in 1..n /\ j + 1 \in 1..n
            /\ (j + 1) + 1 \in 1..n
        BY ONLY <1>1, <1>3, j \in 1..Len(u) - 1
      <3>2. /\ u[j] = IF j < i THEN k[j] ELSE k[j + 1]
            /\ u[j + 1] = IF j + 1 < i THEN k[j + 1] ELSE k[(j + 1) + 1]
        BY ONLY <1>3, <3>1
      <3>3. CASE j + 1 < i
        <4>1. u[j] = k[j] /\ u[j + 1] = k[j + 1] /\ j # i - 1
          BY ONLY <1>2, <3>1, <3>2, <3>3
        <4>2. k[j] # p /\ k[j] \in Windows
          BY ONLY <1>1, <1>4, <2>1, <3>1, <4>1 DEF p
        <4> QED
          BY ONLY <1>1, <2>9, <3>1, <4>1, <4>2
      <3>4. CASE j + 1 = i
        <4>1. u[j] = k[j] /\ u[j + 1] = k[(j + 1) + 1] /\ j = i - 1 /\ i # n
          BY ONLY <1>1, <1>2, <3>1, <3>2, <3>4
        <4>2. u[j] = p
          BY ONLY <4>1 DEF p
        <4> QED
          BY ONLY <2>6, <2>9, <3>4, <4>1, <4>2
      <3>5. CASE j + 1 > i
        <4>1. u[j] = k[j + 1] /\ u[j + 1] = k[(j + 1) + 1] /\ j + 1 # i - 1
          BY ONLY <1>2, <3>1, <3>2, <3>5
        <4>2. k[j + 1] # p /\ k[j + 1] \in Windows
          BY ONLY <1>1, <1>4, <2>1, <3>1, <4>1 DEF p
        <4>3. t.next[k[j + 1]] = k[(j + 1) + 1]
          BY ONLY <1>1, <3>1
        <4> QED
          BY ONLY <2>9, <4>1, <4>2, <4>3
      <3> QED
        BY ONLY <1>2, <3>1, <3>3, <3>4, <3>5
    <2>13. u[Len(u)] = v.tail /\ v.next[u[Len(u)]] = DESK
      BY ONLY <1>3, <2>8, <2>10, <2>11
    <2>20. Len(u) = 0 => v.head = NIL /\ v.tail = NIL
      BY ONLY <1>3, <2>8, <2>9, <2>10, <2>12, <2>13
    <2>22. Len(u) > 0 => v.head = u[1] /\ v.tail = u[Len(u)] /\ v.next[u[Len(u)]] = DESK
      BY ONLY <1>3, <2>8, <2>9, <2>10, <2>12, <2>13
    <2>23. v.next \in [Windows -> Int]
      BY ONLY <1>3, <2>8, <2>9, <2>10, <2>12, <2>13
    <2>24. \A j \in 1..Len(u) - 1 : v.next[u[j]] = u[j + 1]
      BY ONLY <1>3, <2>8, <2>9, <2>10, <2>12, <2>13
    <2>21. Links(v, u)
      BY ONLY <1>3, <2>8, <2>9, <2>10, <2>12, <2>13, <2>20, <2>22, <2>23, <2>24, AreLinks
    <2> QED
      BY ONLY <2>21 DEF u, v, wh
  <1> QED
    BY ONLY <1>2, <1>9, <1>10, <1>11 DEF u, v, wh

\* ob_order makes the i-th the last
LEMMA OrderLinks ==
  ASSUME NEW t, NEW k, Links(t, k), NEW i \in DOMAIN k, k[i] # t.tail
  PROVE  Links(ob_order(t, k[i]), Append(Without(k, i), k[i]))
  <1> DEFINE u == Without(k, i)
             wh == k[i]
             d == ob_delete(t, wh)
  <1>1. /\ k \in Seq(Apps) /\ Len(k) \in Nat /\ i \in 1..Len(k) /\ wh \in Apps
        /\ \A j, m \in 1..Len(k) : k[j] = k[m] => j = m
        /\ Len(k) > 0 => t.tail = k[Len(k)]
    BY LinksAre
  <1>2. /\ u \in Seq(Apps) /\ Len(u) = Len(k) - 1
        /\ \A j \in 1..Len(u) : u[j] # wh
    <2>1. k \in Seq(Apps) /\ i \in 1..Len(k) /\ \A j, m \in 1..Len(k) : k[j] = k[m] => j = m
      BY ONLY <1>1
    <2>2. Lacks(Without(k, i), k, i)
      BY ONLY <2>1, WithoutIs
    <2>3. Lacks(u, k, i) /\ wh = k[i]
      BY <2>2
    <2> HIDE DEF u, wh
    <2> QED
      BY ONLY <2>3 DEF Lacks
  <1>3. Len(u) > 0
    BY <1>1, <1>2
  <1>4. Links(d, u)
    BY DeleteLinks
  <1>5. ob_order(t, wh) = [d EXCEPT !.next = [@ EXCEPT ![wh] = d.next[d.tail], ![d.tail] = wh],
                                    !.tail = wh]
    BY DEF ob_order
  <1> HIDE DEF u, d, wh
  <1>6. /\ d = [next |-> d.next, head |-> d.head, tail |-> d.tail]
        /\ d.tail # NIL /\ d.next[d.tail] = DESK
        /\ DOMAIN u = 1..Len(u)
    <2>1. Len(u) \in 1..Len(u)
      BY ONLY <1>1, <1>2, <1>3
    <2> QED
      BY ONLY <1>3, <1>4, <2>1, LinksAre
  <1>7. ob_order(t, wh) = w_obadd(d, wh)
    BY ONLY <1>5, <1>6 DEF w_obadd
  <1>8. Links(w_obadd(d, wh), Append(u, wh))
    BY ONLY <1>1, <1>2, <1>4, <1>6, AddLinks
  <1> QED
    BY ONLY <1>7, <1>8 DEF u, wh

\* the desktop or an open window
At(w, k) == w = DESK \/ \E i \in DOMAIN k : k[i] = w

\* w_update walks over a sequence
LEMMA BetweenIs ==
  ASSUME NEW k \in Seq(Apps), NEW bottom, NEW top, At(bottom, k), At(top, k)
  PROVE  Len(Between(k, bottom, top)) \in Nat
  <1> DEFINE at(w) == CHOOSE i \in DOMAIN k : k[i] = w
             a == IF bottom = DESK THEN 1 ELSE at(bottom)
             b == IF top = DESK THEN Len(k) ELSE at(top)
  <1>1. Len(k) \in Nat /\ DOMAIN k = 1..Len(k)
    OBVIOUS
  <1>2. ASSUME NEW w, At(w, k), w # DESK PROVE at(w) \in DOMAIN k
    <2>1. \E i \in DOMAIN k : k[i] = w
      BY ONLY <1>2 DEF At
    <2> QED
      BY ONLY <2>1
  <1> HIDE DEF at
  <1>3. a \in Int /\ b \in Int
    BY <1>1, <1>2
  <1>4. Between(k, bottom, top) = SubSeq(k, a, b)
    BY DEF Between, at
  <1> HIDE DEF a, b
  <1>5. SubSeq(k, a, b) = [i \in 1..1 + b - a |-> k[i + a - 1]]
    BY ONLY <1>3 DEF SubSeq
  <1>6. CASE a <= b
    <2> DEFINE m == 1 + b - a
               f == [i \in 1..m |-> k[i + a - 1]]
    <2>1. m \in Nat
      BY <1>3, <1>6
    <2>2. SubSeq(k, a, b) = f
      BY <1>5
    <2> HIDE DEF m
    <2>3. Len(f) = m
      BY <2>1
    <2> HIDE DEF f
    <2> QED
      BY ONLY <1>4, <2>1, <2>2, <2>3
  <1>7. CASE b < a
    <2>1. SubSeq(k, a, b) = <<>>
      BY ONLY <1>3, <1>7, SubSeqEmpty
    <2> QED
      BY ONLY <1>4, <2>1
  <1> QED
    BY ONLY <1>3, <1>6, <1>7

\* no part of draw_change touches what Sound speaks of
LEMMA UpdateKeeps ==
  ASSUME NEW s, Shape(s), NEW k, Links(s.tree, k), NEW bottom, NEW top, At(bottom, k), At(top, k),
         NEW dirty, NEW moved
  PROVE  Drawn(w_update(s, bottom, dirty, top, moved), s)
  <1> DEFINE q == Between(k, bottom, top)
             clip == rc_intersect(gl_rfull, dirty)
  <1>1. Kids(s.tree) = k /\ k \in Seq(Apps)
    BY KidsAre DEF Links
  <1>2. Len(q) \in Nat
    BY <1>1, BetweenIs
  <1>3. w_update(s, bottom, dirty, top, moved) =
          IF k = <<>> THEN s ELSE Frames(s, Reverse(q), clip, moved)
    BY <1>1 DEF w_update
  <1> HIDE DEF q, clip
  <1> DEFINE r == Reverse(q)
  <1>4. Len(r) = Len(q) /\ DOMAIN r = 1..Len(r)
    <2>1. r = [i \in 1..Len(q) |-> q[(Len(q) - i) + 1]]
      BY DEF Reverse
    <2> QED
      BY ONLY <1>2, <2>1
  <1> HIDE DEF r
  <1>5. Drawn(Frames(s, r, clip, moved), s)
    BY ONLY <1>2, <1>4, Shape(s), FramesKeep
  <1> QED
    BY ONLY <1>3, <1>5, Shape(s), DrawnSelf DEF r

LEMMA BlitKeeps ==
  ASSUME NEW s, Shape(s), NEW from, NEW to PROVE Drawn(bb_screen(s, from, to), s)
  <1> DEFINE f == [c \in Screen |->
                    IF c \in Cells(Rect(to.x, to.y, from.w, from.h)) \cap Screen
                    THEN s.screen[<<c[1] - to.x + from.x, c[2] - to.y + from.y>>]
                    ELSE s.screen[c]]
  <1>1. bb_screen(s, from, to) = [s EXCEPT !.screen = f]
    BY DEF bb_screen
  <1> HIDE DEF f
  <1> QED
    BY ONLY <1>1, Shape(s) DEF Shape, Drawn

LEMMA MoveKeeps ==
  ASSUME NEW s, Shape(s), NEW wh, NEW pc PROVE Drawn(w_move(s, wh, pc).s, s)
  <1>1. ASSUME NEW ps, NEW pd, NEW s1, NEW dest PROVE Drawn(Blit(s, ps, pd, s1, dest).s, s)
    <2> DEFINE b == bb_screen(s, s1, dest)
               clip == Dropped(Rect(dest.x - 1, dest.y, 1, dest.h))
    <2>1. Drawn(b, s)
      BY BlitKeeps
    <2>2. Shape(b)
      BY <2>1 DEF Drawn
    <2>3. Blit(s, ps, pd, s1, dest).s =
            IF ps.x = -1 /\ pd.x # -1 THEN do_walk(b, s.top, "box alone", clip) ELSE b
      BY DEF Blit
    <2> HIDE DEF b, clip
    <2>4. Drawn(do_walk(b, s.top, "box alone", clip), b)
      BY <2>2, WalkKeeps
    <2> QED
      BY ONLY <2>1, <2>3, <2>4, DrawnOn
  <1>2. ASSUME NEW ps, NEW pd PROVE Drawn(FromTo(s, ps, pd).s, s)
    <2>1. CASE Uncovers(ps, pd)
      <3>1. FromTo(s, ps, pd).s = s
        BY <2>1 DEF FromTo
      <3> QED
        BY <3>1, DrawnSelf
    <2>2. CASE ~Uncovers(ps, pd)
      BY <1>1, <2>2 DEF FromTo, MoveTo
    <2> QED
      BY <2>1, <2>2
  <1> QED
    BY <1>2 DEF w_move

\* what is left to be drawn lies between open windows
Planned(p, s, k) ==
  /\ p = Plan(p.s, p.start, p.stop, p.pc, p.moved)
  /\ Drawn(p.s, s) /\ At(p.start, k) /\ At(p.stop, k)

LEMMA PlanIs ==
  ASSUME NEW t, NEW start, NEW stop, NEW pc, NEW moved, NEW s, NEW k,
         Drawn(t, s), At(start, k), At(stop, k)
  PROVE  Planned(Plan(t, start, stop, pc, moved), s, k)
  BY DEF Plan, Planned

LEMMA ResizedPlans ==
  ASSUME NEW s, Shape(s), NEW wh, NEW k, At(wh, k), NEW pt, NEW pc
  PROVE  Planned(Resized(s, wh, pt, pc), s, k)
  <1> DEFINE within == pt.w <= pc.w /\ pt.h <= pc.h
             shrinks == pt.w < pc.w \/ pt.h < pc.h
             t == IF within THEN w_cpwalk(s, s.top, "W_BOX") ELSE s
             r == [pc EXCEPT !.w = WMAX(pt.w, pc.w) + DROP_SIZE, !.h = WMAX(pt.h, pc.h) + DROP_SIZE]
             start == IF shrinks THEN DESK ELSE wh
             stop == IF within THEN wh ELSE DESK
  <1>1. Resized(s, wh, pt, pc) = Plan(t, start, stop, r, within)
    BY DEF Resized
  <1>2. Drawn(t, s)
    BY CpwalkKeeps, DrawnSelf
  <1>3. At(start, k) /\ At(stop, k)
    BY DEF At
  <1> HIDE DEF within, t, r, start, stop
  <1> QED
    BY ONLY <1>1, <1>2, <1>3, PlanIs

\* a window that is being closed
Leaves0(pt, pc) == pt.w = 0 /\ pc.w # 0 /\ ~Grows(pt, pc) /\ pt.y # pc.y
LEMMA MovedPlans ==
  ASSUME NEW s, Shape(s), NEW wh, NEW k, NEW pt, NEW pc, At(wh, k) \/ Leaves0(pt, pc)
  PROVE  Planned(Moved(s, wh, pt, pc), s, k)
  <1>0. At(DESK, k) /\ Drawn(s, s)
    BY DrawnSelf DEF At
  <1>1. CASE Grows(pt, pc)
    <2>1. Moved(s, wh, pt, pc) = Plan(s, wh, DESK, pt, FALSE)
      BY <1>1 DEF Moved
    <2>2. At(wh, k)
      BY <1>1 DEF Leaves0
    <2> QED
      BY ONLY <1>0, <2>1, <2>2, PlanIs
  <1>2. CASE ~Grows(pt, pc) /\ pt.w = pc.w /\ pt.h = pc.h /\ s.top = wh
    <2> DEFINE m == w_move(s, wh, pc)
               stop == IF m.moved THEN wh ELSE DESK
    <2>1. Moved(s, wh, pt, pc) = Plan(m.s, DESK, stop, m.pc, m.moved)
      BY <1>2 DEF Moved, Behind
    <2>2. At(wh, k)
      BY <1>2 DEF Leaves0
    <2>3. Drawn(m.s, s)
      BY MoveKeeps
    <2>4. At(stop, k)
      BY <1>0, <2>2
    <2> HIDE DEF m, stop
    <2> QED
      BY ONLY <1>0, <2>1, <2>3, <2>4, PlanIs
  <1>3. CASE /\ ~Grows(pt, pc) /\ ~(pt.w = pc.w /\ pt.h = pc.h /\ s.top = wh)
             /\ pt.w = 0 \/ pt.h = 0
    <2>1. Moved(s, wh, pt, pc) = Plan(s, DESK, DESK, pc, FALSE)
      BY <1>3 DEF Moved
    <2> QED
      BY ONLY <1>0, <2>1, PlanIs
  <1>4. CASE /\ ~Grows(pt, pc) /\ ~(pt.w = pc.w /\ pt.h = pc.h /\ s.top = wh)
             /\ ~(pt.w = 0 \/ pt.h = 0)
    <2> DEFINE both == rc_union(pt, pc)
               start == IF both = pt THEN wh ELSE DESK
    <2>1. Moved(s, wh, pt, pc) = Plan(s, start, DESK, both, FALSE)
      BY <1>4 DEF Moved, Both
    <2>2. At(wh, k)
      BY <1>4 DEF Leaves0
    <2>3. At(start, k)
      BY <1>0, <2>2
    <2> HIDE DEF start, both
    <2> QED
      BY ONLY <1>0, <2>1, <2>3, PlanIs
  <1> QED
    BY <1>1, <1>2, <1>3, <1>4

LEMMA UpdatePlan ==
  ASSUME NEW s, NEW k, Links(s.tree, k), NEW p, Planned(p, s, k), NEW pc
  PROVE  Drawn(Update(p, pc), s)
  <1>1. Drawn(p.s, s) /\ Shape(p.s) /\ p.s.tree = s.tree /\ At(p.start, k) /\ At(p.stop, k)
    BY DEF Planned, Drawn
  <1>2. At(DESK, k)
    BY DEF At
  <1>3. CASE p.start = DESK
    <2> DEFINE d == w_drawdesk(p.s, pc)
    <2>1. Drawn(d, p.s)
      BY <1>1, DeskKeeps
    <2>2. Shape(d) /\ d.tree = s.tree
      BY <1>1, <2>1 DEF Drawn
    <2>3. Update(p, pc) = w_update(d, DESK, Dropped(pc), p.stop, p.moved)
      BY <1>3 DEF Update
    <2> HIDE DEF d
    <2>4. Drawn(w_update(d, DESK, Dropped(pc), p.stop, p.moved), d)
      BY <1>1, <1>2, <2>2, UpdateKeeps
    <2> QED
      BY ONLY <1>1, <2>1, <2>3, <2>4, DrawnOn
  <1>4. CASE p.start # DESK
    <2>1. Update(p, pc) = w_update(p.s, p.start, pc, p.stop, p.moved)
      BY <1>4 DEF Update
    <2>2. Drawn(w_update(p.s, p.start, pc, p.stop, p.moved), p.s)
      BY <1>1, UpdateKeeps
    <2> QED
      BY ONLY <1>1, <2>1, <2>2, DrawnOn
  <1> QED
    BY <1>3, <1>4

LEMMA FinishPlan ==
  ASSUME NEW s, NEW k, Links(s.tree, k), NEW p, Planned(p, s, k), NEW wh, NEW oldtop
  PROVE  Drawn(Finish(p, wh, oldtop), s)
  <1> DEFINE t == IF oldtop # NIL /\ oldtop # wh THEN w_cpwalk(p.s, oldtop, "W_BOX") ELSE p.s
             q == [p EXCEPT !.s = t]
             r == rc_union(p.s.curr[p.s.top], p.pc)
  <1>1. /\ p = Plan(p.s, p.start, p.stop, p.pc, p.moved)
        /\ Drawn(p.s, s) /\ Shape(p.s) /\ At(p.start, k) /\ At(p.stop, k)
    BY DEF Planned, Drawn
  <1>2. Drawn(t, p.s)
    BY <1>1, CpwalkKeeps, DrawnSelf
  <1>3. Finish(p, wh, oldtop) = IF oldtop # p.s.tree.tail /\ p.s.top # NIL THEN Update(q, r)
                                ELSE Update(p, p.pc)
    BY DEF Finish
  <1> HIDE DEF t, r
  <1>4. Drawn(t, s)
    BY ONLY <1>1, <1>2, DrawnOn
  <1>5. q = Plan(t, p.start, p.stop, p.pc, p.moved)
    BY ONLY <1>1 DEF Plan
  <1> HIDE DEF q
  <1>6. Planned(q, s, k)
    BY ONLY <1>1, <1>4, <1>5, PlanIs
  <1>7. Drawn(Update(q, r), s)
    BY <1>6, UpdatePlan
  <1>8. Drawn(Update(p, p.pc), s)
    BY UpdatePlan
  <1> QED
    BY ONLY <1>3, <1>7, <1>8

LEMMA CoveredKeeps ==
  ASSUME NEW s, Shape(s), NEW oldtop PROVE Drawn(Covered(s, oldtop), s)
  BY CpwalkKeeps, DrawnSelf DEF Covered

LEMMA ToppedKeeps ==
  ASSUME NEW s, Shape(s), NEW k, Links(s.tree, k), NEW wh, At(wh, k), NEW pc, NEW oldtop, NEW wasclr
  PROVE  Drawn(Topped(s, wh, pc, oldtop, wasclr), s)
  <1> DEFINE c == Covered(s, oldtop)
             p == Plan(c, wh, DESK, pc, FALSE)
             u == w_cpwalk(c, s.top, "W_BOX")
             v == Finish(p, wh, oldtop)
  <1>1. Drawn(c, s) /\ Shape(c)
    BY CoveredKeeps DEF Drawn
  <1>2. Drawn(u, c)
    BY <1>1, CpwalkKeeps
  <1>3. At(DESK, k)
    BY DEF At
  <1>4. Topped(s, wh, pc, oldtop, wasclr) =
          IF wh # s.tree.tail \/ wh = oldtop THEN s
          ELSE IF wasclr /\ (oldtop = NIL \/ oldtop \notin s.broken) THEN u ELSE v
    BY DEF Topped
  <1> HIDE DEF c
  <1>5. Planned(p, s, k)
    BY <1>1, <1>3, PlanIs
  <1> HIDE DEF p
  <1>6. Drawn(v, s)
    BY <1>5, FinishPlan
  <1> HIDE DEF u, v
  <1> QED
    BY ONLY <1>1, <1>2, <1>4, <1>6, Shape(s), DrawnSelf, DrawnOn

LEMMA ChangedKeeps ==
  ASSUME NEW s, Shape(s), NEW k, Links(s.tree, k), NEW wh, NEW pt, NEW pc,
         At(wh, k) \/ Leaves0(pt, pc), NEW oldtop, NEW wasclr
  PROVE  Drawn(Changed(s, wh, pt, pc, oldtop, wasclr), s)
  <1>1. CASE pt = pc
    <2>1. At(wh, k)
      BY <1>1 DEF Leaves0
    <2>2. Changed(s, wh, pt, pc, oldtop, wasclr) = Topped(s, wh, pc, oldtop, wasclr)
      BY <1>1 DEF Changed
    <2> QED
      BY ONLY <2>1, <2>2, Shape(s), Links(s.tree, k), ToppedKeeps
  <1>2. CASE pt # pc /\ pt.x = pc.x /\ pt.y = pc.y
    <2> DEFINE p == Resized(s, wh, pt, pc)
    <2>1. At(wh, k)
      BY <1>2 DEF Leaves0
    <2>2. Changed(s, wh, pt, pc, oldtop, wasclr) = Finish(p, wh, oldtop)
      BY <1>2 DEF Changed
    <2>3. Planned(p, s, k)
      BY <2>1, ResizedPlans
    <2> HIDE DEF p
    <2> QED
      BY <2>2, <2>3, FinishPlan
  <1>3. CASE pt # pc /\ ~(pt.x = pc.x /\ pt.y = pc.y)
    <2> DEFINE p == Moved(s, wh, pt, pc)
    <2>2. Changed(s, wh, pt, pc, oldtop, wasclr) = Finish(p, wh, oldtop)
      BY <1>3 DEF Changed
    <2>3. Planned(p, s, k)
      BY MovedPlans
    <2> HIDE DEF p
    <2> QED
      BY <2>2, <2>3, FinishPlan
  <1> QED
    BY <1>1, <1>2, <1>3

-----------------------------------------------------------------------------
(* What holds between two calls.                                            *)

\* the places programs choose
Put == {r \in Rects : r.w > 0 /\ r.h > 0 /\ r.y >= gl_hbox}
\* on the screen, the list l of the i-th of all is what no later one covers
Owns(l, cur, all, i) ==
  /\ l \in Seq(Rects) /\ Apart(l)
  /\ \A c \in Screen :
       Hits(c, l) <=> /\ In(c, True(cur[all[i]]))
                      /\ \A j \in i + 1..Len(all) : ~In(c, True(cur[all[j]]))
All(k) == <<DESK>> \o k

Typed(s, k, used) ==
  /\ Links(s.tree, k)
  /\ used \subseteq Windows /\ DESK \in used /\ \A i \in DOMAIN k : k[i] \in used
  /\ s.curr \in [Windows -> Rects] /\ s.curr[DESK] = gl_rscreen
  /\ DOMAIN s.work = Windows /\ DOMAIN s.rlist = Windows
Placed(s, k) ==
  \A i \in DOMAIN k : /\ s.curr[k[i]] \in Put
                      /\ s.work[k[i]] = wm_calc(Kinds[k[i]], s.curr[k[i]])
Divided(s, k) == \A i \in DOMAIN All(k) : Owns(s.rlist[All(k)[i]], s.curr, All(k), i)
Activated(s) ==
  LET wh == IF s.top = NIL THEN DESK ELSE s.top
  IN  s.top = s.tree.tail /\ s.ctrl = [owner |-> wh, rect |-> s.work[wh]]
Sound(s, k, used) == Typed(s, k, used) /\ Placed(s, k) /\ Divided(s, k) /\ Activated(s)

WinInv == \E k : Sound(Now, k, inuse)

\* Sound does not depend on what is drawn
LEMMA SoundSame ==
  ASSUME NEW s, NEW k, NEW used, Sound(s, k, used), NEW t,
         t.tree = s.tree, t.curr = s.curr, t.work = s.work, t.rlist = s.rlist,
         t.top = s.top, t.ctrl = s.ctrl
  PROVE  Sound(t, k, used)
  BY DEF Sound, Typed, Placed, Divided, Activated
LEMMA SoundDrawn ==
  ASSUME NEW s, NEW k, NEW used, Sound(s, k, used), NEW t, Drawn(t, s)
  PROVE  Sound(t, k, used)
  BY SoundSame DEF Drawn

\* the desktop and the windows on it
LEMMA AllIs ==
  ASSUME NEW k \in Seq(Apps), Once(k)
  PROVE  /\ All(k) \in Seq(Windows) /\ Len(All(k)) = Len(k) + 1 /\ Len(k) \in Nat
         /\ DOMAIN k = 1..Len(k) /\ DOMAIN All(k) = 1..Len(k) + 1
         /\ All(k)[1] = DESK /\ \A i \in 1..Len(k) : All(k)[i + 1] = k[i] /\ k[i] \in Apps
         /\ \A i \in 1..Len(k) + 1 : i = 1 \/ (i > 1 /\ i - 1 \in 1..Len(k) /\ All(k)[i] = k[i - 1])
         /\ Once(All(k))
  <1> DEFINE d == <<DESK>>
             n == Len(k)
             a == d \o k
  <1>0. DESK \in Windows /\ \A w \in Apps : w \in Windows /\ w # DESK
    BY WindowAssumption, AppsAre DEF DESK, Windows
  <1>1. n \in Nat /\ DOMAIN k = 1..n /\ k \in Seq(Windows) /\ \A i \in 1..n : k[i] \in Apps
    <2>1. n \in Nat /\ DOMAIN k = 1..n /\ \A i \in 1..n : k[i] \in Apps
      OBVIOUS
    <2>2. k = [i \in 1..n |-> k[i]]
      OBVIOUS
    <2> HIDE DEF n, Apps, Windows
    <2>3. k \in Seq(Windows)
      BY ONLY <1>0, <2>1, <2>2
    <2> QED
      BY ONLY <2>1, <2>3
  <1>2. d \in Seq(Windows) /\ Len(d) = 1 /\ d[1] = DESK
    BY <1>0
  <1> HIDE DEF d
  <1>3. a \in Seq(Windows) /\ Len(a) = n + 1 /\ DOMAIN a = 1..n + 1
    <2>1. a \in Seq(Windows) /\ Len(a) = 1 + n
      BY ONLY <1>1, <1>2, ConcatProperties
    <2> HIDE DEF a
    <2> QED
      BY ONLY <1>1, <2>1
  <1>4. a[1] = DESK /\ \A i \in 1..n : a[i + 1] = k[i]
    <2>1. \A i \in 1..1 + n : a[i] = IF i <= 1 THEN d[i] ELSE k[i - 1]
      <3>1. \A i \in 1..Len(d) + Len(k) :
               (d \o k)[i] = IF i <= Len(d) THEN d[i] ELSE k[i - Len(d)]
        BY ONLY <1>1, <1>2, ConcatProperties
      <3> DEFINE b == d \o k
      <3>2. a = b
        OBVIOUS
      <3> HIDE DEF a, b
      <3> QED
        BY ONLY <1>2, <3>1, <3>2 DEF b
    <2>2. \A i \in 1..n : i + 1 \in 1..1 + n /\ ~(i + 1 <= 1) /\ (i + 1) - 1 = i
      BY ONLY <1>1
    <2>3. 1 \in 1..1 + n
      BY ONLY <1>1
    <2> HIDE DEF a
    <2> QED
      BY ONLY <1>2, <2>1, <2>2, <2>3
  <1>5. All(k) = a
    BY DEF All, d
  <1> HIDE DEF a, n
  <1>6. ASSUME NEW i \in 1..n + 1
        PROVE  i = 1 \/ (i > 1 /\ i - 1 \in 1..n /\ a[i] = k[i - 1])
    <2>1. CASE i # 1
      <3>1. i - 1 \in 1..n /\ (i - 1) + 1 = i /\ i > 1
        BY ONLY <1>1, <2>1, i \in 1..n + 1
      <3> QED
        BY ONLY <1>4, <3>1
    <2> QED
      BY <2>1
  <1>7. \A i, j \in 1..n : k[i] = k[j] => i = j
    BY <1>1 DEF Once
  <1>8. ASSUME NEW i \in 1..n + 1, NEW j \in 1..n + 1, a[i] = a[j] PROVE i = j
    <2>0. i \in Int /\ j \in Int
      OBVIOUS
    <2>1. CASE i = 1
      BY ONLY <1>0, <1>1, <1>4, <1>6, <1>8, <2>1, j \in 1..n + 1
    <2>2. CASE j = 1
      BY ONLY <1>0, <1>1, <1>4, <1>6, <1>8, <2>2, i \in 1..n + 1
    <2>3. CASE i # 1 /\ j # 1
      <3>1. i - 1 = j - 1
        BY ONLY <1>6, <1>7, <1>8, <2>3, i \in 1..n + 1, j \in 1..n + 1
      <3> QED
        BY ONLY <2>0, <3>1
    <2> QED
      BY <2>1, <2>2, <2>3
  <1>9. Once(a)
    BY ONLY <1>3, <1>8 DEF Once
  <1> QED
    BY ONLY <1>1, <1>3, <1>4, <1>5, <1>6, <1>9 DEF n

\* the cells of the screen are points
LEMMA ScreenIs == Screen \subseteq Points /\ gl_rfull \in Rects /\ gl_rscreen \in Rects
  <1>1. gl_rfull \in Rects /\ gl_rscreen \in Rects
    <2>1. /\ gl_hbox \in Int /\ gl_width \in Nat /\ gl_height - gl_hbox \in Nat /\ 0 \in Int
          /\ gl_height \in Nat
      BY WindowAssumption
    <2> QED
      BY ONLY <2>1, RectIs DEF gl_rfull, gl_rscreen
  <1> HIDE DEF gl_rfull
  <1>2. ASSUME NEW c \in Screen PROVE c \in Points
    BY <1>1, CellsAre DEF Screen
  <1> QED
    BY <1>1, <1>2

\* newrects divides the screen
LEMMA NewrectsDivide ==
  ASSUME NEW s, Shape(s), NEW k, NEW used, Typed(s, k, used), NEW t, t = newrects(s)
  PROVE  Listed(t, s) /\ Divided(t, k)
  <1> DEFINE a == All(k)
             n == Len(k)
  <1>1. k \in Seq(Apps) /\ Once(k) /\ Kids(s.tree) = k
    BY KidsAre DEF Typed, Links
  <1>2. /\ a \in Seq(Windows) /\ Len(a) = n + 1 /\ DOMAIN a = 1..n + 1 /\ Once(a) /\ n \in Nat
    BY ONLY <1>1, AllIs
  <1>3. /\ s.curr \in [Windows -> Rects] /\ DOMAIN s.rlist = Windows
    BY DEF Typed
  <1>4. t = Lists(s, a)
    BY <1>1 DEF newrects, All
  <1> HIDE DEF a, n, Windows
  <1>5. \A i \in DOMAIN a : s.curr[a[i]] \in Rects
    BY ONLY <1>2, <1>3
  <1>6. Shared(t, s, a, Len(a))
    BY ONLY <1>2, <1>3, <1>4, <1>5, Shape(s), ListsShare
  <1>7. Listed(t, s) /\ t.curr = s.curr
    BY ONLY <1>6 DEF Shared, Listed
  <1>8. ASSUME NEW i \in DOMAIN a PROVE Owns(t.rlist[a[i]], t.curr, a, i)
    <2>1. Share(t.rlist[a[i]], s.curr, a, i, Len(a))
      BY ONLY <1>2, <1>6, i \in DOMAIN a DEF Shared
    <2> QED
      BY ONLY <1>7, <2>1, ScreenIs DEF Share, Owns
  <1> QED
    BY <1>7, <1>8 DEF Divided, a

\* a call that changes the tree or a window
LEMMA ChangeSound ==
  ASSUME NEW s, Shape(s), NEW k, NEW used, Typed(s, k, used), NEW wh \in Apps, NEW pt \in Rects,
         NEW wasclr,
         \A i \in DOMAIN k : k[i] # wh => /\ s.curr[k[i]] \in Put
                                         /\ s.work[k[i]] = wm_calc(Kinds[k[i]], s.curr[k[i]]),
         \/ At(wh, k) /\ pt \in Put
         \/ Leaves0(pt, s.curr[wh]) /\ \A i \in DOMAIN k : k[i] # wh
  PROVE  Sound(draw_change(s, wh, pt, wasclr), k, used)
  <1> DEFINE a == Resize(s, wh, pt)
             b == newrects(a)
             c == Active(b)
             d == Changed(c, wh, pt, s.curr[wh], s.top, wasclr)
  <1>0. draw_change(s, wh, pt, wasclr) = d
    BY DEF draw_change
  <1>1. /\ Shape(a) /\ a.tree = s.tree /\ a.curr = [s.curr EXCEPT ![wh] = pt]
        /\ a.work = [s.work EXCEPT ![wh] = wm_calc(Kinds[wh], pt)] /\ a.rlist = s.rlist
    <2> DEFINE f == [s.curr EXCEPT ![wh] = pt]
               g == [s.work EXCEPT ![wh] = wm_calc(Kinds[wh], pt)]
    <2>1. a = [s EXCEPT !.curr = f, !.work = g, !.low = s.rul]
      BY DEF Resize
    <2> HIDE DEF f, g, a
    <2>2. Shape(a) /\ a.tree = s.tree /\ a.curr = f /\ a.work = g /\ a.rlist = s.rlist
      BY ONLY <2>1, Shape(s) DEF Shape
    <2> QED
      BY ONLY <2>2 DEF f, g
  <1> HIDE DEF a
  <1>2. wh \in Windows /\ wh # DESK
    BY AppsAre
  <1>3. /\ Links(s.tree, k) /\ k \in Seq(Apps)
        /\ used \subseteq Windows /\ DESK \in used /\ \A i \in DOMAIN k : k[i] \in used
        /\ s.curr \in [Windows -> Rects] /\ s.curr[DESK] = gl_rscreen
        /\ DOMAIN s.work = Windows /\ DOMAIN s.rlist = Windows
    BY DEF Typed, Links
  <1>4. Typed(a, k, used)
    BY ONLY <1>1, <1>2, <1>3, pt \in Rects DEF Typed
  <1>5. Listed(b, a) /\ Divided(b, k)
    BY ONLY <1>1, <1>4, NewrectsDivide
  <1> HIDE DEF b
  <1>6. /\ Shape(c) /\ c.tree = b.tree /\ c.curr = b.curr /\ c.work = b.work
        /\ c.rlist = b.rlist /\ Activated(c)
    <2>1. Shape(b)
      BY ONLY <1>5 DEF Listed
    <2> DEFINE wh0 == IF b.tree.tail = NIL THEN DESK ELSE b.tree.tail
               e == [owner |-> wh0, rect |-> b.work[wh0]]
    <2>2. c = [b EXCEPT !.top = b.tree.tail, !.ctrl = e]
      BY DEF Active
    <2> HIDE DEF e, c
    <2>3. /\ Shape(c) /\ c.tree = b.tree /\ c.curr = b.curr /\ c.work = b.work
          /\ c.rlist = b.rlist /\ c.top = b.tree.tail /\ c.ctrl = e
      BY ONLY <2>1, <2>2 DEF Shape
    <2> QED
      BY ONLY <2>3 DEF Activated, e
  <1> HIDE DEF c
  <1>7. c.tree = s.tree /\ c.curr = a.curr /\ c.work = a.work /\ DOMAIN c.rlist = Windows
    BY ONLY <1>1, <1>3, <1>5, <1>6 DEF Listed
  <1>8. Typed(c, k, used)
    BY ONLY <1>4, <1>1, <1>7 DEF Typed
  <1>9. Placed(c, k)
    <2> SUFFICES ASSUME NEW i \in DOMAIN k
                 PROVE  /\ c.curr[k[i]] \in Put
                        /\ c.work[k[i]] = wm_calc(Kinds[k[i]], c.curr[k[i]])
      BY DEF Placed
    <2>1. k[i] \in Windows
      BY <1>3, AppsAre
    <2>2. CASE k[i] = wh
      <3>1. pt \in Put
        BY <2>2
      <3>2. c.curr[wh] = pt /\ c.work[wh] = wm_calc(Kinds[wh], pt)
        BY ONLY <1>1, <1>2, <1>3, <1>7
      <3> QED
        BY ONLY <2>2, <3>1, <3>2
    <2>3. CASE k[i] # wh
      <3>1. c.curr[k[i]] = s.curr[k[i]] /\ c.work[k[i]] = s.work[k[i]]
        BY ONLY <1>1, <1>3, <1>7, <2>1, <2>3
      <3> QED
        BY <2>3, <3>1
    <2> QED
      BY <2>2, <2>3
  <1>10. Divided(c, k)
    BY ONLY <1>5, <1>6 DEF Divided
  <1>11. Sound(c, k, used)
    BY ONLY <1>6, <1>8, <1>9, <1>10 DEF Sound
  <1>12. Drawn(d, c)
    <2>1. Links(c.tree, k)
      BY ONLY <1>3, <1>7
    <2> QED
      BY ONLY <1>6, <2>1, ChangedKeeps,
              \/ At(wh, k) /\ pt \in Put
              \/ Leaves0(pt, s.curr[wh]) /\ \A i \in DOMAIN k : k[i] # wh
  <1> HIDE DEF d
  <1> QED
    BY ONLY <1>0, <1>11, <1>12, SoundDrawn

\* the state as draw_change gets it
LEMMA NowIs ==
  /\ Shape(Now) /\ Now.tree = W_TREE /\ Now.curr = curr /\ Now.work = work
  /\ Now.rlist = hidden.rlist /\ Now.top = gl_wtop /\ Now.ctrl = gl_ctrl
  BY DEF Now, Shape
\* the open windows are those of the tree
LEMMA OpenIs ==
  ASSUME NEW k, Links(W_TREE, k)
  PROVE  \A w : w \in Open <=> \E i \in DOMAIN k : k[i] = w
  BY KidsAre DEF Open, ToSet
\* programs put windows below the menu bar
LEMMA PlacesPut == \A wh \in Apps : \A pt \in Places[wh] : pt \in Put
  <1> SUFFICES ASSUME NEW wh \in Apps, NEW pt \in Places[wh] PROVE pt \in Put
    OBVIOUS
  <1>1. pt \in [x : Int, y : Int, w : Nat \ {0}, h : Nat \ {0}] /\ pt.y >= gl_hbox
    BY WindowAssumption
  <1>2. pt \in Rects /\ pt.w > 0 /\ pt.h > 0
    BY ONLY <1>1 DEF Rects
  <1> QED
    BY ONLY <1>1, <1>2 DEF Put
LEMMA ZeroIs == gl_rzero \in Rects /\ gl_rzero.w = 0 /\ gl_rzero.h = 0 /\ gl_rzero.x = 0 /\ gl_rzero.y = 0
  BY DEF gl_rzero, Rect, Rects

\* a call that leaves s sound keeps the invariant
LEMMA BecomesSound ==
  ASSUME NEW t, NEW k, Becomes(t), Sound(t, k, inuse') PROVE WinInv'
  <1>1. /\ (Now').tree = t.tree /\ (Now').curr = t.curr /\ (Now').work = t.work
        /\ (Now').rlist = t.rlist /\ (Now').top = t.top /\ (Now').ctrl = t.ctrl
    <2>1. /\ W_TREE' = t.tree /\ curr' = t.curr /\ work' = t.work
          /\ hidden' = [rlist |-> t.rlist, broken |-> t.broken]
          /\ gl_wtop' = t.top /\ gl_ctrl' = t.ctrl
      BY DEF Becomes
    <2>2. (hidden').rlist = t.rlist
      BY ONLY <2>1
    <2> QED
      BY ONLY <2>1, <2>2 DEF Now
  <1>2. Sound(Now', k, inuse')
    BY ONLY <1>1, Sound(t, k, inuse'), SoundSame
  <1> QED
    BY ONLY <1>2 DEF WinInv

\* The invariant holds at first, and each call keeps it.
LEMMA InitSound == ASSUME WinInit PROVE WinInv
  <1> DEFINE k == <<>>
  <1>1. k \in Seq(Apps) /\ Len(k) = 0 /\ DOMAIN k = {}
    OBVIOUS
  <1>2. /\ inuse = {DESK}
        /\ W_TREE = [next |-> [w \in Windows |-> NIL], head |-> NIL, tail |-> NIL]
        /\ curr = [w \in Windows |-> IF w = DESK THEN gl_rscreen ELSE gl_rzero]
        /\ work = [w \in Windows |-> IF w = DESK THEN gl_rfull ELSE gl_rzero]
        /\ hidden.rlist = [w \in Windows |-> IF w = DESK THEN <<gl_rfull>> ELSE <<>>]
        /\ gl_wtop = NIL /\ gl_ctrl = [owner |-> DESK, rect |-> gl_rfull]
    BY DEF WinInit
  <1>3. DESK \in Windows /\ NIL \in Int
    BY WindowAssumption DEF Windows, DESK, NIL
  <1> HIDE DEF k
  <1>4. Links(W_TREE, k)
    <2>1. /\ W_TREE = [next |-> W_TREE.next, head |-> W_TREE.head, tail |-> W_TREE.tail]
          /\ W_TREE.head = NIL /\ W_TREE.tail = NIL /\ W_TREE.next = [w \in Windows |-> NIL]
      BY ONLY <1>2
    <2>2. W_TREE.next \in [Windows -> Int]
      BY ONLY <1>3, <2>1
    <2>3. /\ \A i, j \in 1..Len(k) : k[i] = k[j] => i = j
          /\ \A i \in 1..Len(k) - 1 : W_TREE.next[k[i]] = k[i + 1]
      BY ONLY <1>1
    <2>4. /\ Len(k) = 0 => W_TREE.head = NIL /\ W_TREE.tail = NIL
          /\ Len(k) > 0 => /\ W_TREE.head = k[1] /\ W_TREE.tail = k[Len(k)]
                            /\ W_TREE.next[k[Len(k)]] = DESK
      BY ONLY <1>1, <2>1
    <2> QED
      BY ONLY <1>1, <2>1, <2>2, <2>3, <2>4, AreLinks
  <1>5. Typed(Now, k, inuse)
    <2>1. curr \in [Windows -> Rects] /\ curr[DESK] = gl_rscreen
      BY ONLY <1>2, <1>3, ZeroIs, ScreenIs
    <2>2. DOMAIN work = Windows /\ DOMAIN hidden.rlist = Windows
      BY ONLY <1>2
    <2> QED
      BY ONLY <1>1, <1>2, <1>3, <1>4, <2>1, <2>2, NowIs DEF Typed
  <1>6. Placed(Now, k)
    BY <1>1 DEF Placed
  <1>7. Divided(Now, k)
    <2> DEFINE a == All(k)
               l == <<gl_rfull>>
    <2>1. Len(a) = 1 /\ DOMAIN a = 1..1 /\ a[1] = DESK
      <3>1. Once(k)
        BY <1>4 DEF Links
      <3> QED
        <4>1. /\ Len(All(k)) = Len(k) + 1 /\ DOMAIN All(k) = 1..Len(k) + 1 /\ All(k)[1] = DESK
          BY ONLY <1>1, <3>1, AllIs
        <4>2. Len(k) + 1 = 1
          BY ONLY <1>1
        <4> QED
          BY ONLY <4>1, <4>2
    <2>2. l \in Seq(Rects) /\ DOMAIN l = {1} /\ l[1] = gl_rfull
      BY ScreenIs
    <2>3. hidden.rlist[DESK] = l /\ curr[DESK] = gl_rscreen
      BY ONLY <1>2, <1>3
    <2> HIDE DEF l, a
    <2>4. ASSUME NEW c \in Screen PROVE In(c, gl_rfull) /\ In(c, True(gl_rscreen))
      <3>1. In(c, gl_rfull) /\ c \in Points
        BY ScreenIs, CellsAre DEF Screen
      <3>2. /\ gl_hbox \in Nat /\ gl_width \in Nat /\ gl_height \in Nat /\ DROP_SIZE \in Nat
        BY WindowAssumption
      <3>3. c[1] \in Int /\ c[2] \in Int
        BY <3>1 DEF Points
      <3> QED
        BY ONLY <3>1, <3>2, <3>3 DEF In, gl_rfull, gl_rscreen, True, Dropped, Rect
    <2>5. Owns(l, curr, a, 1)
      <3>1. a[1] = DESK /\ 1 + 1..Len(a) = {}
        BY ONLY <2>1
      <3>2. \A c \in Screen : Hits(c, l)
        BY ONLY <2>2, <2>4 DEF Hits
      <3>3. Apart(l)
        BY ONLY <2>2 DEF Apart
      <3> QED
        BY ONLY <2>2, <2>3, <2>4, <3>1, <3>2, <3>3 DEF Owns
    <2>6. \A i \in DOMAIN a : i = 1
      BY ONLY <2>1
    <2> QED
      BY ONLY <2>1, <2>3, <2>5, <2>6, NowIs DEF Divided, a
  <1>8. Activated(Now)
    <2>1. work[DESK] = gl_rfull /\ W_TREE.tail = NIL
      BY ONLY <1>2, <1>3
    <2> QED
      BY ONLY <1>2, <2>1, NowIs DEF Activated
  <1> QED
    BY ONLY <1>5, <1>6, <1>7, <1>8 DEF WinInv, Sound

\* the windows before a call that changes their tree
OnTree(t) == [Now EXCEPT !.tree = t]
LEMMA TreeSound ==
  ASSUME NEW k, Sound(Now, k, inuse), NEW t, NEW m, Links(t, m), NEW wh \in inuse,
         \A i \in DOMAIN m : m[i] = wh \/ \E j \in DOMAIN k : m[i] = k[j],
         NEW s, s = OnTree(t)
  PROVE  /\ Shape(s) /\ Typed(s, m, inuse) /\ s.curr = curr /\ s.tree = t
         /\ \A i \in DOMAIN m : m[i] # wh => /\ s.curr[m[i]] \in Put
                                            /\ s.work[m[i]] = wm_calc(Kinds[m[i]], s.curr[m[i]])
  <1>1. /\ Shape(s) /\ s.tree = t /\ s.curr = curr /\ s.work = work /\ s.rlist = hidden.rlist
    BY ONLY NowIs, s = OnTree(t) DEF Shape, OnTree
  <1>2. /\ inuse \subseteq Windows /\ DESK \in inuse /\ \A i \in DOMAIN k : k[i] \in inuse
        /\ curr \in [Windows -> Rects] /\ curr[DESK] = gl_rscreen
        /\ DOMAIN work = Windows /\ DOMAIN hidden.rlist = Windows
    BY ONLY NowIs, Sound(Now, k, inuse) DEF Sound, Typed
  <1>3. \A i \in DOMAIN k : curr[k[i]] \in Put /\ work[k[i]] = wm_calc(Kinds[k[i]], curr[k[i]])
    BY ONLY NowIs, Sound(Now, k, inuse) DEF Sound, Placed
  <1>4. Typed(s, m, inuse)
    BY ONLY <1>1, <1>2, Links(t, m), wh \in inuse,
            \A i \in DOMAIN m : m[i] = wh \/ \E j \in DOMAIN k : m[i] = k[j] DEF Typed
  <1>5. \A i \in DOMAIN m : m[i] # wh => /\ s.curr[m[i]] \in Put
                                         /\ s.work[m[i]] = wm_calc(Kinds[m[i]], s.curr[m[i]])
    BY ONLY <1>1, <1>3, \A i \in DOMAIN m : m[i] = wh \/ \E j \in DOMAIN k : m[i] = k[j]
  <1> QED
    BY ONLY <1>1, <1>4, <1>5

LEMMA SoundIs ==
  ASSUME NEW k, Sound(Now, k, inuse)
  PROVE  /\ Links(W_TREE, k) /\ k \in Seq(Apps) /\ Once(k) /\ \A i \in DOMAIN k : k[i] \in inuse
         /\ curr \in [Windows -> Rects] /\ inuse \subseteq Windows
         /\ \A i \in DOMAIN k : curr[k[i]] \in Put
         /\ gl_wtop = W_TREE.tail
  BY NowIs DEF Sound, Typed, Placed, Activated, Links

LEMMA OpenSound ==
  ASSUME WinInv, NEW wh \in Apps, NEW pt \in Places[wh], wm_open(wh, pt) PROVE WinInv'
  <1>1. PICK k : Sound(Now, k, inuse)
    BY DEF WinInv
  <1>2. /\ Links(W_TREE, k) /\ k \in Seq(Apps) /\ \A i \in DOMAIN k : k[i] \in inuse
    BY <1>1, SoundIs
  <1> DEFINE t == w_obadd(W_TREE, wh)
             m == Append(k, wh)
             s == [Now EXCEPT !.tree = t]
  <1>3. /\ wh \in inuse /\ wh \notin Open /\ inuse' = inuse
        /\ Becomes(draw_change(s, wh, pt, FALSE))
    BY NowIs DEF wm_open
  <1>4. \A i \in DOMAIN k : k[i] # wh
    BY ONLY <1>2, <1>3, OpenIs
  <1>5. Links(t, m)
    BY ONLY <1>2, <1>4, wh \in Apps, AddLinks
  <1>6. \A i \in DOMAIN m : m[i] = wh \/ \E j \in DOMAIN k : m[i] = k[j]
    BY <1>2
  <1>7. At(wh, m)
    <2>1. Len(k) + 1 \in DOMAIN m /\ m[Len(k) + 1] = wh
      BY <1>2
    <2> HIDE DEF m
    <2> QED
      BY <2>1 DEF At
  <1> HIDE DEF t, m
  <1>s. s = OnTree(t)
    BY DEF OnTree
  <1> HIDE DEF s
  <1>8. /\ Shape(s) /\ Typed(s, m, inuse)
        /\ \A i \in DOMAIN m : m[i] # wh => /\ s.curr[m[i]] \in Put
                                           /\ s.work[m[i]] = wm_calc(Kinds[m[i]], s.curr[m[i]])
    BY ONLY <1>1, <1>3, <1>5, <1>6, <1>s, TreeSound
  <1>9. pt \in Put /\ pt \in Rects
    BY PlacesPut DEF Put
  <1>10. Sound(draw_change(s, wh, pt, FALSE), m, inuse')
    BY ONLY <1>3, <1>7, <1>8, <1>9, wh \in Apps, ChangeSound
  <1> QED
    BY ONLY <1>3, <1>10, BecomesSound

LEMMA CloseSound == ASSUME WinInv, NEW wh \in Apps, wm_close(wh) PROVE WinInv'
  <1>1. PICK k : Sound(Now, k, inuse)
    BY DEF WinInv
  <1>2. /\ Links(W_TREE, k) /\ k \in Seq(Apps) /\ \A i \in DOMAIN k : k[i] \in inuse /\ curr[k[i]] \in Put
        /\ DOMAIN k = 1..Len(k) /\ \A i, j \in 1..Len(k) : k[i] = k[j] => i = j
    BY <1>1, SoundIs, LinksAre
  <1>3. /\ wh \in Open /\ inuse' = inuse
        /\ Becomes(draw_change([Now EXCEPT !.tree = ob_delete(W_TREE, wh)], wh, gl_rzero, FALSE))
    BY NowIs DEF wm_close
  <1>4. PICK i \in DOMAIN k : k[i] = wh
    BY ONLY <1>2, <1>3, OpenIs
  <1> DEFINE t == ob_delete(W_TREE, wh)
             m == Without(k, i)
             s == [Now EXCEPT !.tree = t]
  <1>5. Links(t, m)
    BY ONLY <1>2, <1>4, DeleteLinks
  <1>6. \A j \in DOMAIN m : m[j] # wh /\ \E l \in DOMAIN k : m[j] = k[l]
    <2>1. i \in 1..Len(k)
      BY ONLY <1>2, i \in DOMAIN k
    <2>2. DOMAIN m = 1..Len(m)
      BY ONLY <1>5, LinksAre
    <2>3. \A j \in 1..Len(Without(k, i)) : /\ Without(k, i)[j] # k[i]
                                          /\ \E l \in 1..Len(k) : Without(k, i)[j] = k[l]
      <3>1. Lacks(Without(k, i), k, i)
        BY ONLY <1>2, <2>1, WithoutIs
      <3> QED
        BY ONLY <3>1 DEF Lacks
    <2> QED
      BY ONLY <1>2, <1>4, <2>2, <2>3
  <1> HIDE DEF t, m
  <1>s. s = OnTree(t)
    BY DEF OnTree
  <1> HIDE DEF s
  <1>7. wh \in inuse /\ curr[wh] \in Put
    BY ONLY <1>2, <1>4
  <1>8. /\ Shape(s) /\ Typed(s, m, inuse) /\ s.curr = curr
        /\ \A j \in DOMAIN m : m[j] # wh => /\ s.curr[m[j]] \in Put
                                           /\ s.work[m[j]] = wm_calc(Kinds[m[j]], s.curr[m[j]])
    BY ONLY <1>1, <1>5, <1>6, <1>7, <1>s, TreeSound
  <1>9. Leaves0(gl_rzero, curr[wh])
    <2> DEFINE pc == curr[wh]
    <2>1. /\ pc.w \in Nat /\ pc.h \in Nat /\ pc.y \in Int /\ pc.w > 0 /\ pc.h > 0 /\ pc.y >= gl_hbox
          /\ gl_hbox \in Nat /\ gl_hbox > 0
      BY <1>7, WindowAssumption, RectsAre DEF Put
    <2> HIDE DEF pc
    <2> QED
      BY ONLY <2>1, ZeroIs DEF Leaves0, Grows, pc
  <1>10. Sound(draw_change(s, wh, gl_rzero, FALSE), m, inuse')
    BY ONLY <1>3, <1>6, <1>8, <1>9, wh \in Apps, ZeroIs, ChangeSound
  <1> QED
    BY ONLY <1>3, <1>10, BecomesSound DEF s, t

LEMMA TopSound == ASSUME WinInv, NEW wh \in Apps, SetTop(wh) PROVE WinInv'
  <1>1. PICK k : Sound(Now, k, inuse)
    BY DEF WinInv
  <1>2. /\ Links(W_TREE, k) /\ k \in Seq(Apps) /\ \A i \in DOMAIN k : k[i] \in inuse /\ curr[k[i]] \in Put
        /\ DOMAIN k = 1..Len(k) /\ \A i, j \in 1..Len(k) : k[i] = k[j] => i = j
        /\ gl_wtop = W_TREE.tail
    BY <1>1, SoundIs, LinksAre
  <1> DEFINE clr == wh \notin hidden.broken
  <1>3. /\ wh \in Open /\ inuse' = inuse /\ wh # gl_wtop
        /\ Becomes(draw_change([Now EXCEPT !.tree = ob_order(W_TREE, wh)], wh, curr[wh], clr))
    BY NowIs DEF SetTop
  <1> HIDE DEF clr
  <1>4. PICK i \in DOMAIN k : k[i] = wh
    BY ONLY <1>2, <1>3, OpenIs
  <1> DEFINE t == ob_order(W_TREE, wh)
             u == Without(k, i)
             m == Append(u, wh)
             s == [Now EXCEPT !.tree = t]
  <1>5. Links(t, m)
    BY ONLY <1>2, <1>3, <1>4, OrderLinks
  <1>6. u \in Seq(Apps) /\ wh \in Apps /\ \A j \in 1..Len(u) : \E l \in 1..Len(k) : u[j] = k[l]
    <2>1. i \in 1..Len(k)
      BY ONLY <1>2, i \in DOMAIN k
    <2>2. /\ Without(k, i) \in Seq(Apps)
          /\ \A j \in 1..Len(Without(k, i)) : /\ Without(k, i)[j] # k[i]
                                             /\ \E l \in 1..Len(k) : Without(k, i)[j] = k[l]
      <3>1. Lacks(Without(k, i), k, i)
        BY ONLY <1>2, <2>1, WithoutIs
      <3> QED
        BY ONLY <3>1 DEF Lacks
    <2> QED
      BY ONLY <2>2, wh \in Apps
  <1> HIDE DEF u
  <1>7. \A j \in DOMAIN m : m[j] = wh \/ \E l \in DOMAIN k : m[j] = k[l]
    <2>1. /\ Len(u) \in Nat /\ DOMAIN m = 1..Len(u) + 1 /\ m[Len(u) + 1] = wh
          /\ \A j \in 1..Len(u) : m[j] = u[j]
      BY ONLY <1>6
    <2>2. \A j \in 1..Len(u) + 1 : j \in 1..Len(u) \/ j = Len(u) + 1
      BY ONLY <2>1
    <2> HIDE DEF m
    <2> QED
      BY ONLY <1>2, <1>6, <2>1, <2>2
  <1>8. At(wh, m)
    <2>1. Len(u) + 1 \in DOMAIN m /\ m[Len(u) + 1] = wh
      BY ONLY <1>6
    <2> HIDE DEF m
    <2> QED
      BY <2>1 DEF At
  <1> HIDE DEF t, m
  <1>s. s = OnTree(t)
    BY DEF OnTree
  <1> HIDE DEF s
  <1>9. wh \in inuse /\ curr[wh] \in Put
    BY ONLY <1>2, <1>4
  <1>10. /\ Shape(s) /\ Typed(s, m, inuse)
         /\ \A j \in DOMAIN m : m[j] # wh => /\ s.curr[m[j]] \in Put
                                            /\ s.work[m[j]] = wm_calc(Kinds[m[j]], s.curr[m[j]])
    BY ONLY <1>1, <1>5, <1>7, <1>9, <1>s, TreeSound
  <1>11. curr[wh] \in Rects
    BY <1>9 DEF Put
  <1>12. Sound(draw_change(s, wh, curr[wh], clr), m, inuse')
    BY ONLY <1>3, <1>8, <1>9, <1>10, <1>11, wh \in Apps, ChangeSound
  <1> QED
    BY ONLY <1>3, <1>12, BecomesSound DEF s, t

LEMMA CurrSound ==
  ASSUME WinInv, NEW wh \in Apps, NEW pt \in Places[wh], SetCurr(wh, pt) PROVE WinInv'
  <1>1. PICK k : Sound(Now, k, inuse)
    BY DEF WinInv
  <1>2. /\ wh \in Open /\ inuse' = inuse /\ Becomes(draw_change(Now, wh, pt, FALSE))
    BY DEF SetCurr
  <1>3. At(wh, k)
    BY <1>1, <1>2, SoundIs, OpenIs DEF At
  <1>4. /\ Typed(Now, k, inuse) /\ Shape(Now)
        /\ \A i \in DOMAIN k : /\ Now.curr[k[i]] \in Put
                               /\ Now.work[k[i]] = wm_calc(Kinds[k[i]], Now.curr[k[i]])
    BY <1>1, NowIs DEF Sound, Placed
  <1>5. pt \in Put /\ pt \in Rects
    BY PlacesPut DEF Put
  <1>6. Sound(draw_change(Now, wh, pt, FALSE), k, inuse')
    BY ONLY <1>2, <1>3, <1>4, <1>5, wh \in Apps, ChangeSound
  <1> QED
    BY ONLY <1>2, <1>6, BecomesSound

LEMMA SoundNow ==
  ASSUME WinInv, NEW t, Drawn(t, Now), Becomes(t), inuse' = inuse PROVE WinInv'
  <1>1. PICK k : Sound(Now, k, inuse)
    BY DEF WinInv
  <1>2. Sound(t, k, inuse')
    BY ONLY <1>1, Drawn(t, Now), inuse' = inuse, SoundDrawn
  <1> QED
    BY ONLY <1>2, Becomes(t), BecomesSound

LEMMA SameSound ==
  ASSUME NEW k, Sound(Now, k, inuse'),
         UNCHANGED <<W_TREE, curr, work, hidden, gl_wtop, gl_ctrl>>
  PROVE  WinInv'
  <1>1. /\ (Now').tree = Now.tree /\ (Now').curr = Now.curr /\ (Now').work = Now.work
        /\ (Now').rlist = Now.rlist /\ (Now').top = Now.top /\ (Now').ctrl = Now.ctrl
    BY DEF Now
  <1>2. Sound(Now', k, inuse')
    BY ONLY <1>1, Sound(Now, k, inuse'), SoundSame
  <1> QED
    BY ONLY <1>2 DEF WinInv

LEMMA CreateSound == ASSUME WinInv, wm_create PROVE WinInv'
  <1>1. PICK k : Sound(Now, k, inuse)
    BY DEF WinInv
  <1>2. PICK wh \in Windows \ inuse : /\ inuse' = inuse \cup {wh}
                                     /\ curr' = [curr EXCEPT ![wh] = gl_rzero]
    BY DEF wm_create
  <1>3. UNCHANGED <<W_TREE, work, hidden, gl_wtop, gl_ctrl>>
    BY DEF wm_create
  <1>4. /\ Links(W_TREE, k) /\ k \in Seq(Apps) /\ Once(k) /\ \A i \in DOMAIN k : k[i] \in inuse
        /\ curr \in [Windows -> Rects] /\ inuse \subseteq Windows /\ DESK \in inuse
        /\ curr[DESK] = gl_rscreen /\ DOMAIN work = Windows /\ DOMAIN hidden.rlist = Windows
    BY ONLY <1>1, NowIs, SoundIs DEF Sound, Typed
  <1> DEFINE a == All(k)
  <1>5. /\ DOMAIN k = 1..Len(k) /\ Len(k) \in Nat /\ DOMAIN a = 1..Len(k) + 1
        /\ Len(a) = Len(k) + 1 /\ a[1] = DESK
        /\ \A i \in 1..Len(k) + 1 : i = 1 \/ (i - 1 \in 1..Len(k) /\ a[i] = k[i - 1])
    BY ONLY <1>4, AllIs
  <1> HIDE DEF a
  <1>6. \A w \in inuse : curr'[w] = curr[w]
    BY ONLY <1>2, <1>4
  <1>7. \A i \in DOMAIN a : a[i] \in inuse /\ curr'[a[i]] = curr[a[i]]
    BY ONLY <1>4, <1>5, <1>6
  <1>8. curr' \in [Windows -> Rects] /\ inuse' \subseteq Windows
    BY ONLY <1>2, <1>4, ZeroIs
  <1> DEFINE s == [Now EXCEPT !.curr = curr']
  <1>9. /\ s.tree = W_TREE /\ s.curr = curr' /\ s.work = work /\ s.rlist = hidden.rlist
        /\ s.top = gl_wtop /\ s.ctrl = gl_ctrl
    BY ONLY NowIs DEF Shape
  <1> HIDE DEF s
  <1>10. Typed(s, k, inuse')
    BY ONLY <1>2, <1>4, <1>6, <1>8, <1>9 DEF Typed
  <1>11. Placed(s, k)
    BY ONLY <1>1, <1>4, <1>6, <1>9, NowIs DEF Placed, Sound
  <1>12. Divided(s, k)
    <2> SUFFICES ASSUME NEW i \in DOMAIN a PROVE Owns(s.rlist[a[i]], s.curr, a, i)
      BY DEF Divided, a
    <2>1. Owns(hidden.rlist[a[i]], curr, a, i)
      BY ONLY <1>1, NowIs, i \in DOMAIN a DEF Sound, Divided, a
    <2>2. \A j \in i + 1..Len(a) : j \in DOMAIN a
      BY ONLY <1>5, i \in DOMAIN a
    <2> QED
      BY ONLY <1>7, <1>9, <2>1, <2>2, i \in DOMAIN a DEF Owns
  <1>13. Activated(s)
    BY ONLY <1>1, <1>9, NowIs DEF Sound, Activated
  <1>14. Sound(s, k, inuse')
    BY ONLY <1>10, <1>11, <1>12, <1>13 DEF Sound
  <1>15. /\ (Now').tree = s.tree /\ (Now').curr = s.curr /\ (Now').work = s.work
         /\ (Now').rlist = s.rlist /\ (Now').top = s.top /\ (Now').ctrl = s.ctrl
    BY ONLY <1>3, <1>9 DEF Now
  <1>16. Sound(Now', k, inuse')
    BY ONLY <1>14, <1>15, SoundSame
  <1> QED
    BY ONLY <1>16 DEF WinInv

LEMMA DeleteSound == ASSUME WinInv, NEW wh \in Apps, wm_delete(wh) PROVE WinInv'
  <1>1. PICK k : Sound(Now, k, inuse)
    BY DEF WinInv
  <1>2. /\ wh \notin Open /\ inuse' = inuse \ {wh}
        /\ UNCHANGED <<W_TREE, curr, work, hidden, gl_wtop, gl_ctrl>>
    BY DEF wm_delete
  <1>3. Links(W_TREE, k)
    BY <1>1, SoundIs
  <1>4. \A i \in DOMAIN k : k[i] # wh
    BY ONLY <1>2, <1>3, OpenIs
  <1>5. wh # DESK
    BY AppsAre
  <1>6. Typed(Now, k, inuse')
    BY ONLY <1>1, <1>2, <1>4, <1>5 DEF Sound, Typed
  <1>7. Sound(Now, k, inuse')
    BY ONLY <1>1, <1>6 DEF Sound
  <1> QED
    BY ONLY <1>2, <1>7, SameSound

LEMMA LooksDrawn == ASSUME NEW f PROVE Drawn([Now EXCEPT !.looks = f], Now)
  BY NowIs DEF Shape, Drawn
LEMMA PipeDrawn ==
  ASSUME NEW t, Drawn(t, Now), NEW f PROVE Drawn([t EXCEPT !.pipe = f], Now)
  BY DEF Shape, Drawn
LEMMA ScreenDrawn == ASSUME NEW f PROVE Drawn([Now EXCEPT !.screen = f], Now)
  BY NowIs DEF Shape, Drawn

LEMMA NameSound == ASSUME WinInv, NEW wh, NEW name, SetName(wh, name) PROVE WinInv'
  <1> DEFINE f == [Now.looks EXCEPT ![wh].name = name]
             s == [Now EXCEPT !.looks = f]
             t == w_cpwalk(s, wh, "W_NAME")
  <1>1. Becomes(t) /\ inuse' = inuse
    BY DEF SetName
  <1> HIDE DEF f
  <1>2. Drawn(s, Now)
    BY LooksDrawn
  <1> HIDE DEF s
  <1>3. Shape(s)
    BY <1>2 DEF Drawn
  <1>4. Drawn(t, s)
    BY <1>3, CpwalkKeeps
  <1> HIDE DEF t
  <1> QED
    BY ONLY WinInv, <1>1, <1>2, <1>4, DrawnOn, SoundNow

LEMMA SlideSound == ASSUME WinInv, NEW wh, NEW n, SetSlide(wh, n) PROVE WinInv'
  <1> DEFINE f == [Now.looks EXCEPT ![wh].vslide = n]
             s == [Now EXCEPT !.looks = f]
             t == IF wh = gl_wtop THEN w_cpwalk(s, wh, "W_VSLIDE") ELSE s
  <1>1. Becomes(t) /\ inuse' = inuse
    BY DEF SetSlide
  <1> HIDE DEF f
  <1>2. Drawn(s, Now)
    BY LooksDrawn
  <1> HIDE DEF s
  <1>3. Shape(s)
    BY <1>2 DEF Drawn
  <1>4. Drawn(t, s)
    BY <1>3, CpwalkKeeps, DrawnSelf
  <1> HIDE DEF t
  <1> QED
    BY ONLY WinInv, <1>1, <1>2, <1>4, DrawnOn, SoundNow

LEMMA RedrawSound == ASSUME WinInv, NEW wh, Redraw(wh) PROVE WinInv'
  <1> DEFINE s == Draw(Now, wh, w_owns(Now, wh, pipe[wh]))
             f == [s.pipe EXCEPT ![wh] = NoRedraw]
             t == [s EXCEPT !.pipe = f]
  <1>1. Becomes(t) /\ inuse' = inuse
    BY DEF Redraw
  <1>2. Drawn(s, Now)
    BY NowIs, DrawKeeps
  <1> HIDE DEF f, s
  <1>3. Drawn(t, Now)
    BY <1>2, PipeDrawn
  <1> HIDE DEF t
  <1> QED
    BY ONLY WinInv, <1>1, <1>3, SoundNow

LEMMA DialSound == ASSUME WinInv, NEW pt, fm_dial(pt) PROVE WinInv'
  <1> DEFINE f == [c \in Screen |-> IF c \in Cells(pt) THEN <<"dialog">> ELSE Now.screen[c]]
             s == [Now EXCEPT !.screen = f]
             d == w_drawdesk(s, pt)
             t == w_update(d, DESK, Dropped(pt), DESK, FALSE)
  <1>1. Becomes(t) /\ inuse' = inuse
    BY DEF fm_dial
  <1> HIDE DEF f
  <1>2. Drawn(s, Now)
    BY ScreenDrawn
  <1> HIDE DEF s
  <1>3. Shape(s)
    BY <1>2 DEF Drawn
  <1>4. Drawn(d, s)
    BY <1>3, DeskKeeps
  <1> HIDE DEF d
  <1>5. Drawn(d, Now)
    BY ONLY <1>2, <1>4, DrawnOn
  <1>6. Shape(d) /\ d.tree = W_TREE
    BY ONLY <1>5, NowIs DEF Drawn
  <1>7. PICK k : Links(W_TREE, k)
    BY SoundIs DEF WinInv
  <1>8. At(DESK, k)
    BY DEF At
  <1>9. Drawn(t, d)
    BY ONLY <1>6, <1>7, <1>8, UpdateKeeps
  <1> HIDE DEF t
  <1> QED
    BY ONLY WinInv, <1>1, <1>5, <1>9, DrawnOn, SoundNow

\* Between two calls the links of the tree lead through the open windows in their
\* order, each list is what no window above covers, in rectangles that are apart,
\* and the window at the end is the active one (WinInv): what wm_open, wm_close and
\* wm_set do to tree, lists and active window belongs together.
THEOREM WindowsInvariant == WinSpec => []WinInv
  <1>1. WinInit => WinInv
    BY InitSound
  <1>2. WinInv /\ [WinNext]_winvars => WinInv'
    <2> SUFFICES ASSUME WinInv, [WinNext]_winvars PROVE WinInv'
      OBVIOUS
    <2>1. CASE wm_create
      BY <2>1, CreateSound
    <2>2. ASSUME NEW wh \in Apps, wm_delete(wh) PROVE WinInv'
      BY <2>2, DeleteSound
    <2>3. ASSUME NEW wh \in Apps, wm_close(wh) PROVE WinInv'
      BY <2>3, CloseSound
    <2>4. ASSUME NEW wh \in Apps, SetTop(wh) PROVE WinInv'
      BY <2>4, TopSound
    <2>5. ASSUME NEW wh \in Apps, Redraw(wh) PROVE WinInv'
      BY <2>5, RedrawSound
    <2>6. ASSUME NEW wh \in Apps, NEW pt \in Places[wh], wm_open(wh, pt) PROVE WinInv'
      BY <2>6, OpenSound
    <2>7. ASSUME NEW wh \in Apps, NEW pt \in Places[wh], SetCurr(wh, pt) PROVE WinInv'
      BY <2>7, CurrSound
    <2>8. ASSUME NEW wh \in Apps, NEW name \in Names, SetName(wh, name) PROVE WinInv'
      BY <2>8, NameSound
    <2>9. ASSUME NEW wh \in Apps, NEW n \in Lengths, SetSlide(wh, n) PROVE WinInv'
      BY <2>9, SlideSound
    <2>10. ASSUME NEW pt \in Dialogs, fm_dial(pt) PROVE WinInv'
      BY <2>10, DialSound
    <2>11. CASE UNCHANGED winvars
      <3>1. PICK k : Sound(Now, k, inuse)
        BY DEF WinInv
      <3>2. /\ inuse' = inuse /\ UNCHANGED <<W_TREE, curr, work, hidden, gl_wtop, gl_ctrl>>
        BY <2>11 DEF winvars
      <3>3. Sound(Now, k, inuse')
        BY <3>1, <3>2
      <3> QED
        BY ONLY <3>2, <3>3, SameSound
    <2> QED
      BY <2>1, <2>2, <2>3, <2>4, <2>5, <2>6, <2>7, <2>8, <2>9, <2>10, <2>11 DEF WinNext
  <1> QED
    BY <1>1, <1>2, PTL DEF WinSpec

-----------------------------------------------------------------------------
(* Who owns a cell.                                                         *)

\* the desktop is everywhere on the screen
LEMMA DeskCovers == \A c \in Screen : In(c, True(gl_rscreen))
  <1> SUFFICES ASSUME NEW c \in Screen PROVE In(c, True(gl_rscreen))
    OBVIOUS
  <1>1. In(c, gl_rfull) /\ c \in Points
    BY ScreenIs, CellsAre DEF Screen
  <1>2. /\ gl_hbox \in Nat /\ gl_width \in Nat /\ gl_height \in Nat /\ DROP_SIZE \in Nat
    BY WindowAssumption
  <1>3. c[1] \in Int /\ c[2] \in Int
    BY <1>1 DEF Points
  <1> QED
    BY ONLY <1>1, <1>2, <1>3 DEF In, gl_rfull, gl_rscreen, True, Dropped, Rect

\* the owner is the last one there
Topmost(c, k, i) ==
  /\ i \in DOMAIN All(k) /\ Owners(Now)[c] = All(k)[i] /\ In(c, True(curr[All(k)[i]]))
  /\ \A j \in i + 1..Len(All(k)) : ~In(c, True(curr[All(k)[j]]))

\* Owners finds it
LEMMA OwnerIs ==
  ASSUME NEW k, Sound(Now, k, inuse), NEW c \in Screen
  PROVE  \E i : Topmost(c, k, i)
  <1> DEFINE n == Len(k)
             kids == Reverse(k)
             ar == [j \in DOMAIN kids |-> Cells(True(curr[kids[j]]))]
             area == ar \o <<Screen>>
             all == kids \o <<DESK>>
             a == All(k)
             P(j) == c \in area[j] /\ \A l \in 1..j - 1 : c \notin area[l]
             S == {j \in DOMAIN all : c \in area[j]}
  <1>1. /\ Links(W_TREE, k) /\ k \in Seq(Apps) /\ Once(k) /\ curr \in [Windows -> Rects]
        /\ curr[DESK] = gl_rscreen
    BY SoundIs, NowIs DEF Sound, Typed
  <1>2. /\ n \in Nat /\ DOMAIN a = 1..n + 1 /\ Len(a) = n + 1 /\ a[1] = DESK
        /\ \A i \in 1..n : a[i + 1] = k[i] /\ k[i] \in Apps
    BY ONLY <1>1, AllIs
  <1>3. Kids(Now.tree) = k /\ Now.curr = curr
    BY ONLY <1>1, NowIs, KidsAre
  <1>4. Owners(Now)[c] = all[CHOOSE j \in DOMAIN all : P(j)]
    BY <1>3 DEF Owners
  <1>5. /\ kids \in Seq(Apps) /\ Len(kids) = n /\ DOMAIN kids = 1..n
        /\ \A j \in 1..n : kids[j] = k[(n - j) + 1]
    <2>1. kids = [j \in 1..n |-> k[(n - j) + 1]]
      BY DEF Reverse
    <2>2. \A j \in 1..n : (n - j) + 1 \in 1..n
      BY ONLY <1>2
    <2> HIDE DEF kids
    <2>3. \A j \in 1..n : k[(n - j) + 1] \in Apps
      BY ONLY <1>2, <2>2
    <2> HIDE DEF n
    <2>4. kids \in Seq(Apps) /\ Len(kids) = n /\ DOMAIN kids = 1..n
      BY ONLY <1>2, <2>1, <2>3
    <2> QED
      BY ONLY <2>1, <2>4
  <1> HIDE DEF a, n, kids
  <1>6. \A j \in 1..n : True(curr[kids[j]]) \in Rects
    <2>1. \A w \in Apps : w \in Windows
      BY AppsAre
    <2>2. \A j \in 1..n : curr[kids[j]] \in Rects
      BY ONLY <1>1, <1>5, <2>1
    <2> QED
      BY ONLY <2>2, TrueIs
  <1>7. \A j \in 1..n : (c \in Cells(True(curr[kids[j]])) <=> In(c, True(curr[kids[j]])))
    BY ONLY <1>6, CellsAre, ScreenIs, c \in Screen
  <1>8. DOMAIN all = 1..n + 1 /\ all[n + 1] = DESK /\ \A j \in 1..n : all[j] = kids[j]
    <2> DEFINE d == <<DESK>>
    <2>1. d \in Seq(Int) /\ Len(d) = 1 /\ d[1] = DESK
      BY DEF DESK
    <2>2. kids \in Seq(Int)
      <3>1. kids = [j \in 1..n |-> kids[j]] /\ \A j \in 1..n : kids[j] \in Int
        BY ONLY <1>5, AppsAre
      <3> QED
        BY ONLY <1>2, <3>1
    <2>3. all = kids \o d
      OBVIOUS
    <2>4. \A j \in 1..n + 1 : all[j] = IF j <= n THEN kids[j] ELSE d[j - n]
      <3>1. \A j \in 1..Len(kids) + Len(d) :
               (kids \o d)[j] = IF j <= Len(kids) THEN kids[j] ELSE d[j - Len(kids)]
        BY ONLY <2>1, <2>2, ConcatProperties
      <3> HIDE DEF d, all
      <3> DEFINE b == kids \o d
      <3> HIDE DEF b
      <3>2. all = b /\ \A j \in 1..n + 1 : b[j] = IF j <= n THEN kids[j] ELSE d[j - n]
        BY ONLY <1>5, <2>1, <2>3, <3>1 DEF b
      <3> QED
        BY ONLY <3>2
    <2>5. all \in Seq(Int) /\ Len(all) = n + 1
      <3>1. kids \o d \in Seq(Int) /\ Len(kids \o d) = Len(kids) + Len(d)
        BY ONLY <2>1, <2>2, ConcatProperties
      <3> QED
        BY ONLY <1>5, <2>1, <2>3, <3>1
    <2> HIDE DEF d, all
    <2>6. DOMAIN all = 1..n + 1
      BY ONLY <2>5
    <2>7. all[n + 1] = DESK
      <3>1. n + 1 \in 1..n + 1 /\ ~(n + 1 <= n) /\ (n + 1) - n = 1
        BY ONLY <1>2
      <3> QED
        BY ONLY <2>1, <2>4, <3>1
    <2>8. \A j \in 1..n : all[j] = kids[j]
      <3>1. \A j \in 1..n : j \in 1..n + 1 /\ j <= n
        BY ONLY <1>2
      <3> QED
        BY ONLY <2>4, <3>1
    <2> QED
      BY ONLY <2>6, <2>7, <2>8
  <1>9. area[n + 1] = Screen /\ \A j \in 1..n : area[j] = Cells(True(curr[kids[j]]))
    <2> DEFINE d == <<Screen>>
               T == {Screen} \cup {ar[j] : j \in 1..n}
    <2>1. d \in Seq(T) /\ Len(d) = 1 /\ d[1] = Screen
      OBVIOUS
    <2>2. ar \in Seq(T) /\ Len(ar) = n /\ \A j \in 1..n : ar[j] = Cells(True(curr[kids[j]]))
      <3>1. ar = [j \in 1..n |-> ar[j]] /\ DOMAIN ar = 1..n
            /\ \A j \in 1..n : ar[j] = Cells(True(curr[kids[j]]))
        BY ONLY <1>5
      <3> HIDE DEF ar
      <3>2. \A j \in 1..n : ar[j] \in T
        OBVIOUS
      <3> HIDE DEF T
      <3> QED
        BY ONLY <1>2, <3>1, <3>2
    <2>3. area = ar \o d
      OBVIOUS
    <2>4. \A j \in 1..Len(ar) + Len(d) :
             (ar \o d)[j] = IF j <= Len(ar) THEN ar[j] ELSE d[j - Len(ar)]
      <3> HIDE DEF d, ar, T
      <3> QED
        BY ONLY <2>1, <2>2, ConcatProperties
    <2> DEFINE b == ar \o d
    <2> HIDE DEF d, area, ar, T, b
    <2>5. area = b /\ \A j \in 1..n + 1 : b[j] = IF j <= n THEN ar[j] ELSE d[j - n]
      BY ONLY <2>1, <2>2, <2>3, <2>4 DEF b
    <2>6. \A j \in 1..n : j \in 1..n + 1 /\ j <= n
      BY ONLY <1>2
    <2>7. n + 1 \in 1..n + 1 /\ ~(n + 1 <= n) /\ (n + 1) - n = 1
      BY ONLY <1>2
    <2> QED
      BY ONLY <2>1, <2>2, <2>5, <2>6, <2>7
  <1> HIDE DEF all, area, ar
  <1>10. \E j \in DOMAIN all : P(j)
    <2>1. n + 1 \in S /\ S \subseteq Nat
      BY <1>2, <1>8, <1>9
    <2>2. PICK m \in S : \A j \in S : m <= j
      <3> HIDE DEF S
      <3> QED
        BY ONLY <2>1, HasLeast
    <2>3. m \in DOMAIN all /\ c \in area[m] /\ m \in 1..n + 1
      BY <1>8
    <2>4. ASSUME NEW l \in 1..m - 1 PROVE c \notin area[l]
      <3>1. l \in DOMAIN all /\ ~(m <= l)
        BY ONLY <1>2, <1>8, <2>3, l \in 1..m - 1
      <3> QED
        BY <2>2, <3>1
    <2> QED
      BY <2>3, <2>4
  <1> DEFINE j0 == CHOOSE j \in DOMAIN all : P(j)
             i == (n + 2) - j0
  <1>11. j0 \in DOMAIN all /\ P(j0)
    <2> HIDE DEF P
    <2> QED
      BY ONLY <1>10
  <1>12. Owners(Now)[c] = all[j0]
    BY <1>4
  <1> HIDE DEF j0, S
  <1>13. /\ j0 \in Int /\ 1 <= j0 /\ j0 <= n + 1 /\ i \in 1..n + 1
    BY ONLY <1>2, <1>8, <1>11
  <1>14. \A j \in 1..n : kids[j] = a[(n + 2) - j]
    <2> TAKE j \in 1..n
    <2>1. (n - j) + 1 \in 1..n /\ ((n - j) + 1) + 1 = (n + 2) - j
      BY ONLY <1>2, j \in 1..n
    <2> QED
      BY ONLY <1>2, <1>5, <2>1
  <1>15. Owners(Now)[c] = a[i] /\ In(c, True(curr[a[i]]))
    <2>1. CASE j0 = n + 1
      <3>1. i = 1
        BY ONLY <1>2, <1>13, <2>1
      <3> QED
        BY ONLY <1>1, <1>2, <1>8, <1>12, <2>1, <3>1, DeskCovers, c \in Screen
    <2>2. CASE j0 # n + 1
      <3>1. j0 \in 1..n
        BY ONLY <1>2, <1>13, <2>2
      <3>2. c \in area[j0]
        BY <1>11
      <3> QED
        BY ONLY <1>7, <1>8, <1>9, <1>12, <1>14, <3>1, <3>2
    <2> QED
      BY <2>1, <2>2
  <1>16. \A j \in i + 1..Len(a) : ~In(c, True(curr[a[j]]))
    <2> TAKE j \in i + 1..Len(a)
    <2> DEFINE l == (n + 2) - j
    <2>1. l \in 1..n /\ l \in 1..j0 - 1 /\ (n + 2) - l = j
      BY ONLY <1>2, <1>13, j \in i + 1..Len(a)
    <2> HIDE DEF l
    <2>2. c \notin area[l]
      BY ONLY <1>11, <2>1
    <2> QED
      BY ONLY <1>7, <1>9, <1>14, <2>1, <2>2
  <1> HIDE DEF i
  <1>17. Topmost(c, k, i)
    BY ONLY <1>2, <1>13, <1>15, <1>16 DEF Topmost, a
  <1> QED
    BY <1>17

\* what follows from the invariant
LEMMA ListsDivide == ASSUME WinInv PROVE RectsDivide
  <1>1. PICK k : Sound(Now, k, inuse)
    BY DEF WinInv
  <1>2. /\ Links(W_TREE, k) /\ k \in Seq(Apps) /\ Once(k) /\ curr \in [Windows -> Rects]
        /\ Divided(Now, k)
    BY <1>1, SoundIs DEF Sound
  <1> DEFINE a == All(k)
             n == Len(k)
  <1>3. /\ DOMAIN a = 1..n + 1 /\ n \in Nat /\ a[1] = DESK /\ Once(a)
        /\ \A i \in 1..n : a[i + 1] = k[i] /\ k[i] \in Apps
        /\ DOMAIN k = 1..n
    BY ONLY <1>2, AllIs
  <1>4. Now.rlist = hidden.rlist /\ Now.curr = curr
    BY NowIs
  <1> HIDE DEF a, n
  <1>5. ASSUME NEW w \in Open \cup {DESK} PROVE \E i \in DOMAIN a : a[i] = w
    <2>1. CASE w = DESK
      <3>1. 1 \in DOMAIN a
        BY ONLY <1>3
      <3> QED
        BY ONLY <1>3, <2>1, <3>1
    <2>2. CASE w \in Open
      <3>1. PICK i \in DOMAIN k : k[i] = w
        BY ONLY <1>2, <2>2, OpenIs
      <3>2. i + 1 \in DOMAIN a /\ a[i + 1] = w
        BY ONLY <1>3, <3>1, i \in DOMAIN k
      <3> QED
        BY ONLY <3>2
    <2> QED
      BY <2>1, <2>2
  <1> SUFFICES ASSUME NEW w \in Open \cup {DESK}
               PROVE  LET list == hidden.rlist[w] IN
                      /\ \A j \in DOMAIN list : \A c \in Cells(list[j]) \cap Screen :
                           Owners(Now)[c] = w
                      /\ \A c \in Screen : Owners(Now)[c] = w =>
                           \E j \in DOMAIN list : c \in Cells(list[j])
                      /\ \A i, j \in DOMAIN list : i # j => ~Overlap(list[i], list[j])
    BY DEF RectsDivide
  <1>6. PICK i0 \in DOMAIN a : a[i0] = w
    BY <1>5
  <1> DEFINE l == hidden.rlist[w]
  <1>7. /\ l \in Seq(Rects) /\ Apart(l)
        /\ \A c \in Screen :
             Hits(c, l) <=> /\ In(c, True(curr[a[i0]]))
                            /\ \A j \in i0 + 1..Len(a) : ~In(c, True(curr[a[j]]))
    <2>1. Owns(l, curr, a, i0)
      BY <1>2, <1>4, <1>6 DEF Divided, a
    <2> QED
      BY ONLY <2>1 DEF Owns
  <1> HIDE DEF l
  <1>8. \A j \in DOMAIN l : l[j] \in Rects
    BY ONLY <1>7
  <1>9. \A c \in Screen, j \in DOMAIN l : c \in Cells(l[j]) <=> In(c, l[j])
    BY ONLY <1>8, CellsAre, ScreenIs
  <1>10. Len(a) = n + 1
    BY ONLY <1>2, AllIs DEF a, n
  <1>11. ASSUME NEW c \in Screen PROVE Hits(c, l) <=> Owners(Now)[c] = w
    <2>1. PICK i : Topmost(c, k, i)
      BY <1>1, OwnerIs
    <2>2. /\ i \in DOMAIN a /\ Owners(Now)[c] = a[i] /\ In(c, True(curr[a[i]]))
          /\ \A j \in i + 1..Len(a) : ~In(c, True(curr[a[j]]))
      BY ONLY <2>1 DEF Topmost, a
    <2>3. ASSUME Hits(c, l) PROVE Owners(Now)[c] = w
      <3>1. In(c, True(curr[a[i0]])) /\ \A j \in i0 + 1..Len(a) : ~In(c, True(curr[a[j]]))
        BY ONLY <1>7, <2>3, c \in Screen
      <3>2. ~(i < i0) /\ ~(i0 < i)
        <4>1. i < i0 => i0 \in i + 1..Len(a)
          BY ONLY <1>3, <1>10, <2>2, i0 \in DOMAIN a
        <4>2. i0 < i => i \in i0 + 1..Len(a)
          BY ONLY <1>3, <1>10, <2>2, i0 \in DOMAIN a
        <4> QED
          BY ONLY <2>2, <3>1, <4>1, <4>2
      <3>3. i = i0
        BY ONLY <1>3, <2>2, <3>2, i0 \in DOMAIN a
      <3> QED
        BY ONLY <1>6, <2>2, <3>3
    <2>4. ASSUME Owners(Now)[c] = w PROVE Hits(c, l)
      <3>1. i = i0
        BY ONLY <1>3, <1>6, <2>2, <2>4, i0 \in DOMAIN a DEF Once
      <3> QED
        BY ONLY <1>7, <2>2, <3>1, c \in Screen
    <2> QED
      BY ONLY <2>3, <2>4
  <1>12. ASSUME NEW j \in DOMAIN l, NEW c \in Cells(l[j]) \cap Screen PROVE Owners(Now)[c] = w
    <2>1. Hits(c, l)
      BY ONLY <1>9, j \in DOMAIN l, c \in Cells(l[j]) \cap Screen DEF Hits
    <2> QED
      BY ONLY <1>11, <2>1, c \in Cells(l[j]) \cap Screen
  <1>13. ASSUME NEW c \in Screen, Owners(Now)[c] = w
         PROVE  \E j \in DOMAIN l : c \in Cells(l[j])
    <2>1. Hits(c, l)
      BY ONLY <1>11, <1>13, c \in Screen
    <2> QED
      BY ONLY <1>9, <2>1, c \in Screen DEF Hits
  <1>14. \A i, j \in DOMAIN l : i # j => ~Overlap(l[i], l[j])
    BY ONLY <1>7 DEF Apart
  <1>15. /\ \A j \in DOMAIN l : \A c \in Cells(l[j]) \cap Screen : Owners(Now)[c] = w
         /\ \A c \in Screen : Owners(Now)[c] = w => \E j \in DOMAIN l : c \in Cells(l[j])
         /\ \A i, j \in DOMAIN l : i # j => ~Overlap(l[i], l[j])
    BY ONLY <1>12, <1>13, <1>14
  <1> QED
    BY <1>15 DEF l

LEMMA TreeKept == ASSUME WinInv PROVE TreeOK
  <1>1. PICK k : Sound(Now, k, inuse)
    BY DEF WinInv
  <1>2. /\ Links(W_TREE, k) /\ \A i \in DOMAIN k : k[i] \in inuse
        /\ gl_wtop = W_TREE.tail
    BY <1>1, SoundIs
  <1>3. Kids(W_TREE) = k
    BY ONLY <1>2, KidsAre
  <1>4. /\ k \in Seq(Apps) /\ Len(k) \in Nat /\ DOMAIN k = 1..Len(k)
        /\ \A i \in 1..Len(k) : k[i] \in Apps /\ k[i] # NIL /\ k[i] # DESK
        /\ \A i, j \in 1..Len(k) : k[i] = k[j] => i = j
        /\ Len(k) = 0 => W_TREE.tail = NIL /\ k = <<>>
        /\ Len(k) > 0 => /\ W_TREE.tail = k[Len(k)] /\ W_TREE.next[k[Len(k)]] = DESK
                         /\ k # <<>>
    BY ONLY <1>2, LinksAre
  <1>5. IsInjective(k)
    BY ONLY <1>4 DEF IsInjective
  <1>6. ToSet(k) \subseteq inuse \ {DESK}
    BY ONLY <1>2, <1>4 DEF ToSet
  <1>7. k = <<>> => W_TREE.tail = NIL
    BY ONLY <1>4
  <1>8. k # <<>> => W_TREE.tail = Last(k) /\ W_TREE.next[Last(k)] = DESK
    BY ONLY <1>4 DEF Last
  <1>9. LET wh == IF gl_wtop = NIL THEN DESK ELSE gl_wtop
        IN  gl_ctrl = [owner |-> wh, rect |-> work[wh]]
    BY <1>1, NowIs DEF Sound, Activated
  <1> QED
    BY ONLY <1>2, <1>3, <1>5, <1>6, <1>7, <1>8, <1>9 DEF TreeOK

\* the work area of a window lies within it
LEMMA WorkWithin ==
  ASSUME NEW r \in Rects, NEW kind, NEW c, c \in Cells(wm_calc(kind, r))
  PROVE  c \in Cells(r)
  <1> DEFINE N == Cardinality({"NAME", "INFO"} \cap kind)
             tb == 1 + N * (gl_hbox - 1)
             rb == IF {"VSLIDE", "SIZER"} \cap kind # {} THEN gl_wbox ELSE 1
             bb == IF {"HSLIDE", "SIZER"} \cap kind # {} THEN gl_hbox ELSE 1
             q == Rect(r.x + 1, r.y + tb, r.w - 1 - rb, r.h - tb - bb)
  <1>1. gl_wbox \in Nat \ {0} /\ gl_hbox \in Nat \ {0}
    BY WindowAssumption
  <1>2. N \in Nat
    <2> DEFINE S == {"NAME", "INFO"} \cap kind
    <2>1. IsFiniteSet({"NAME", "INFO"})
      <3>1. IsFiniteSet({} \cup {"NAME"})
        BY ONLY FS_EmptySet, FS_AddElement
      <3>2. IsFiniteSet(({} \cup {"NAME"}) \cup {"INFO"})
        BY ONLY <3>1, FS_AddElement
      <3>3. {"NAME", "INFO"} = ({} \cup {"NAME"}) \cup {"INFO"}
        OBVIOUS
      <3> QED
        BY ONLY <3>2, <3>3
    <2>2. IsFiniteSet(S)
      BY <2>1, FS_Intersection
    <2> QED
      BY ONLY <2>2, FS_CardinalityType
  <1> HIDE DEF N
  <1>3. tb \in Nat /\ tb >= 1
    <2> DEFINE M == gl_hbox - 1
    <2>1. M \in Nat
      BY ONLY <1>1
    <2> HIDE DEF M
    <2>2. N * M \in Nat
      BY ONLY <1>2, <2>1
    <2> QED
      BY ONLY <2>2 DEF M
  <1>4. rb \in Nat /\ rb >= 1 /\ bb \in Nat /\ bb >= 1
    BY ONLY <1>1
  <1>5. c \in Cells(q)
    BY DEF wm_calc, N
  <1> HIDE DEF tb, rb, bb
  <1>6. r.x \in Int /\ r.y \in Int /\ r.w \in Nat /\ r.h \in Nat
    BY RectsAre
  <1>7. /\ c \in (r.x + 1..(r.x + 1) + (r.w - 1 - rb) - 1)
                 \X (r.y + tb..(r.y + tb) + (r.h - tb - bb) - 1)
    BY ONLY <1>5 DEF Cells, Rect
  <1> QED
    BY ONLY <1>3, <1>4, <1>6, <1>7 DEF Cells

\* the search for a window ends where the last one is
LEMMA LastThere ==
  ASSUME NEW S, NEW i \in Int, i \in S, \A j \in S : j \in Int /\ j <= i
  PROVE  Max(S) = i /\ S # {}
  <1>1. \A j \in S : i >= j
    OBVIOUS
  <1>2. Max(S) \in S /\ \A j \in S : Max(S) >= j
    BY ONLY <1>1, i \in S DEF Max
  <1>3. Max(S) \in Int /\ Max(S) <= i /\ Max(S) >= i
    BY <1>2
  <1> QED
    BY ONLY <1>3, i \in S, i \in Int

LEMMA ClicksFind == ASSUME WinInv, ScreenShows PROVE FindsShown
  <1>1. PICK k : Sound(Now, k, inuse)
    BY DEF WinInv
  <1>2. /\ Links(W_TREE, k) /\ k \in Seq(Apps) /\ Once(k) /\ curr \in [Windows -> Rects]
        /\ \A i \in DOMAIN k : curr[k[i]] \in Put
    BY <1>1, SoundIs
  <1>3. /\ Kids(W_TREE) = k /\ Now.curr = curr /\ Now.work = work
        /\ \A i \in DOMAIN k : work[k[i]] = wm_calc(Kinds[k[i]], curr[k[i]])
    BY ONLY <1>1, <1>2, KidsAre, NowIs DEF Sound, Placed
  <1> DEFINE a == All(k)
             n == Len(k)
  <1>4. /\ DOMAIN a = 1..n + 1 /\ Len(a) = n + 1 /\ n \in Nat /\ a[1] = DESK
        /\ \A i \in 1..n : a[i + 1] = k[i] /\ k[i] \in Apps
        /\ \A i \in 1..n + 1 : i = 1 \/ (i > 1 /\ i - 1 \in 1..n /\ a[i] = k[i - 1])
        /\ DOMAIN k = 1..n
    BY ONLY <1>2, AllIs
  <1> HIDE DEF a, n
  <1>5. ASSUME NEW c \in Screen \ Undrawn(Now)
        PROVE  \/ screen[c] = <<"shadow">>
               \/ IF wm_find(c) = DESK THEN screen[c] = <<"desk", c>>
                  ELSE screen[c][1] \in {"frame", "work"} /\ screen[c][2] = wm_find(c)
    <2> DEFINE there == {j \in DOMAIN k : c \in Cells(curr[k[j]])}
    <2>1. wm_find(c) = IF there = {} THEN DESK ELSE k[Max(there)]
      BY <1>3 DEF wm_find
    <2>2. screen[c] = Picture(Now, Owners(Now)[c], c)
      BY DEF ScreenShows
    <2>3. PICK i : Topmost(c, k, i)
      BY <1>1, OwnerIs
    <2>4. /\ i \in 1..n + 1 /\ Owners(Now)[c] = a[i]
          /\ \A j \in i + 1..n + 1 : ~In(c, True(curr[a[j]]))
      BY ONLY <1>4, <2>3 DEF Topmost, a
    \* what lies higher has neither the cell nor a shadow there
    <2>5. ASSUME NEW j \in there PROVE j \in 1..n /\ j + 1 <= i
      <3>1. j \in 1..n /\ c \in Cells(curr[k[j]]) /\ curr[k[j]] \in Rects
        BY <1>2, <1>4 DEF Put
      <3>2. In(c, curr[k[j]]) /\ c \in Points
        BY ONLY <3>1, CellsAre
      <3>3. In(c, True(curr[k[j]]))
        <4> DEFINE r == curr[k[j]]
        <4>1. /\ r.x \in Int /\ r.y \in Int /\ r.w \in Nat /\ r.h \in Nat
              /\ c[1] \in Int /\ c[2] \in Int /\ DROP_SIZE \in Nat
          BY ONLY <3>1, <3>2, RectsAre, WindowAssumption DEF Points
        <4>2. In(c, r)
          BY ONLY <3>2
        <4> HIDE DEF r
        <4>3. In(c, True(r))
          BY ONLY <4>1, <4>2 DEF In, True, Dropped, Rect
        <4> QED
          BY ONLY <4>3 DEF r
      <3>4. ~(j + 1 > i)
        <4>1. ASSUME j + 1 > i PROVE j + 1 \in i + 1..n + 1
          BY ONLY <1>4, <2>4, <3>1, <4>1
        <4> QED
          BY ONLY <1>4, <2>4, <3>1, <3>3, <4>1
      <3> QED
        BY ONLY <2>4, <3>1, <3>4
    <2>6. CASE i = 1
      <3>1. there = {}
        <4>1. \A j \in there : FALSE
          BY ONLY <2>5, <2>6
        <4> QED
          BY ONLY <4>1
      <3>2. Owners(Now)[c] = DESK
        BY ONLY <1>4, <2>4, <2>6
      <3>3. screen[c] = <<"desk", c>>
        BY ONLY <2>2, <3>2 DEF Picture
      <3> QED
        BY ONLY <2>1, <3>1, <3>3
    <2>7. CASE i # 1
      <3> DEFINE w == k[i - 1]
                 r == curr[w]
      <3>1. i - 1 \in 1..n /\ Owners(Now)[c] = w /\ w # DESK
        BY ONLY <1>4, <2>4, <2>7, AppsAre
      <3>2. r \in Rects /\ work[w] = wm_calc(Kinds[w], r)
        BY ONLY <1>2, <1>3, <1>4, <3>1 DEF Put
      <3>3. ASSUME c \in Cells(r) PROVE wm_find(c) = w
        <4>1. i - 1 \in there
          BY ONLY <1>4, <3>1, <3>3
        <4>2. \A j \in there : j \in Int /\ j <= i - 1
          BY ONLY <2>4, <2>5
        <4> HIDE DEF there
        <4>3. Max(there) = i - 1 /\ there # {}
          BY ONLY <3>1, <4>1, <4>2, LastThere
        <4> QED
          BY ONLY <2>1, <4>3
      <3>4. CASE c \in Cells(work[w])
        <4>1. c \in Cells(r)
          BY ONLY <3>2, <3>4, WorkWithin
        <4>2. screen[c] = <<"work", w, c[1] - work[w].x, c[2] - work[w].y>>
          BY ONLY <1>3, <2>2, <3>1, <3>4 DEF Picture
        <4> QED
          BY ONLY <3>1, <3>3, <4>1, <4>2
      <3>5. CASE c \notin Cells(work[w]) /\ c \in Cells(r)
        <4> DEFINE e7 == IF "NAME" \in Kinds[w] /\ c[2] < r.y + gl_hbox
                         THEN Now.looks[w].name ELSE NIL
                   e8 == IF c \in Object(Now, w, "W_VSLIDE")
                         THEN Now.looks[w].vslide ELSE NIL
                   e6 == (Now.top = w)
        <4>1. screen[c] = <<"frame", w, c[1] - r.x, c[2] - r.y, r.w, r.h, e6, e7, e8>>
          BY ONLY <1>3, <2>2, <3>1, <3>5 DEF Picture
        <4> HIDE DEF e6, e7, e8
        <4>2. screen[c][1] = "frame" /\ screen[c][2] = w
          BY ONLY <4>1
        <4> QED
          BY ONLY <3>1, <3>3, <3>5, <4>2
      <3>6. CASE c \notin Cells(work[w]) /\ c \notin Cells(r)
        BY ONLY <1>3, <2>2, <3>1, <3>6 DEF Picture
      <3> QED
        BY ONLY <3>4, <3>5, <3>6
    <2> QED
      BY ONLY <2>6, <2>7
  <1>6. TreeOK
    BY TreeKept
  <1> QED
    BY ONLY <1>5, <1>6 DEF FindsShown

\* RectsDivide for any number of windows, of any size, wherever they are put: the
\* lists newrect and brkrct make divide the screen (newrect and brkrct, gemwrect.c).
THEOREM ListsDivideScreen == WinSpec => []RectsDivide
  BY WindowsInvariant, ListsDivide, PTL

\* TreeOK: the tree stays sound while windows are added, deleted and put on top, and
\* the window at its end is the one ct_chgown was told of (w_setactive,
\* gemwmlib.c:634-644).
THEOREM TreeAndActive == WinSpec => []TreeOK
  BY WindowsInvariant, TreeKept, PTL

\* FindsShown wherever the screen shows what it should: the window that wm_find
\* names is the one the user sees (gemwmlib.c:1837-1848).
THEOREM ClicksFindShown == WinSpec => [](ScreenShows => FindsShown)
  <1>1. WinInv => (ScreenShows => FindsShown)
    BY ClicksFind
  <1> QED
    BY WindowsInvariant, <1>1, PTL

=============================================================================
