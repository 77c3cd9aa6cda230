------------------------------- MODULE FileIO -------------------------------
(* Reading, writing and seeking in an open file: how xrw of bdos/fsfat.c   *)
(* breaks a request into bytes through the buffers of bufl[BI_DATA] and    *)
(* whole records moved by usrio, and how ixlseek of bdos/fsopnclo.c finds  *)
(* the cluster of a position.  A call is one action; what it does to the   *)
(* OFD, the FAT and the buffers is threaded through the operators below as *)
(* a record s.  Bytes are not modelled by their value: what counts is      *)
(* which byte is moved where, and whether its copy is the latest.          *)
EXTENDS Integers, Sequences, FiniteSets, SequencesExt

CONSTANTS
  recsiz,     \* bytes of a record
  clsiz,      \* records of a cluster
  m_numcl,    \* clusters of the drive, 2..m_numcl + 1
  Layouts,    \* sets of clusters that belong to other files
  Counts,     \* how much is read and written at a time
  Places,     \* where the program seeks
  MaxLen      \* bounds the length of the file

clsizb == recsiz * clsiz
UNUSED == 0
ENDOFCHAIN == -1
Clnums == 2..m_numcl + 1
MIN(a, b) == IF a < b THEN a ELSE b

ASSUME IOAssumption ==
  /\ Places \subseteq Nat
  /\ recsiz \in Nat \ {0} /\ clsiz \in Nat \ {0} /\ m_numcl \in Nat /\ MaxLen \in Nat
  /\ Counts \subseteq Nat \ {0}

VARIABLES
  fat,      \* for each cluster the next one of its chain
  ofd,      \* the OFD: strtcl, curcl, currec, curbyt, bytnum, fileln
  buf,      \* bufl[BI_DATA]: the records in the buffers, most recent first
  dirty,    \* the records whose buffers are dirty
  latest,   \* the records whose buffers have their latest contents
  fresh,    \* the records whose latest contents are on disk
  moved     \* the last call: for each byte of the caller's memory the byte of
            \* the disk, or -1 if that was not the latest contents

iovars == <<fat, ofd, buf, dirty, latest, fresh, moved>>

Records == {c * clsiz + k : c \in Clnums, k \in 0..clsiz - 1}
NoRecord == -1
\* what is threaded through a call
Now == [fat |-> fat, ofd |-> ofd, buf |-> buf, dirty |-> dirty,
        latest |-> latest, fresh |-> fresh, moved |-> <<>>]
Becomes(s) ==
  /\ fat' = s.fat /\ ofd' = s.ofd /\ buf' = s.buf /\ dirty' = s.dirty
  /\ latest' = s.latest /\ fresh' = s.fresh /\ moved' = s.moved

-----------------------------------------------------------------------------
(* Records *)

\* flushbcb of the buffer of record r writes all that is dirty
flushbcb(s, r) ==
  IF r \notin s.dirty THEN s
  ELSE [s EXCEPT !.fresh = (@ \ s.dirty) \cup (s.dirty \cap s.latest),
                 !.dirty = {}]

\* Getrec puts record r at the head of the list
Getrec(s, r, wrt) ==
  LET last(S) == CHOOSE k \in S : \A j \in S : j <= k
      at == {k \in DOMAIN s.buf : s.buf[k] = r}
      empty == {k \in DOMAIN s.buf : s.buf[k] = NoRecord}
      k == IF at # {} THEN last(at)
           ELSE IF empty # {} THEN last(empty) ELSE Len(s.buf)
      t == IF at # {} THEN s
           ELSE LET f == flushbcb(s, s.buf[k]) IN
                [f EXCEPT !.latest = (@ \ {r, s.buf[k]}) \cup ({r} \cap f.fresh)]
  IN  [t EXCEPT
         !.buf = <<r>> \o SubSeq(@, 1, k - 1) \o SubSeq(@, k + 1, Len(@)),
         !.dirty = IF wrt THEN @ \cup {r} ELSE @,
         !.fresh = IF wrt THEN @ \ {r} ELSE @]

\* n bytes from byte a of the disk on, to or from the caller
Moves(s, a, n, good) ==
  [s EXCEPT !.moved = @ \o [k \in 1..n |-> IF good THEN a + k - 1 ELSE -1]]

\* mutant of usrio: buffers are dropped without being written
usrio_unwritten(s, wrt, count, r) ==
  LET range == r..r + count - 1
      t == [s EXCEPT
              !.buf = SubSeq([k \in DOMAIN @ |-> IF @[k] \in range THEN NoRecord ELSE @[k]],
                             1, Len(@)),
              !.latest = @ \ range, !.dirty = @ \ range]
      v == Moves(t, r * recsiz, count * recsiz, wrt \/ range \subseteq t.fresh)
  IN  IF wrt THEN [v EXCEPT !.fresh = @ \cup range] ELSE v

\* usrio: the records themselves, after what the buffers have of them is
\* written and dropped
usrio(s, wrt, count, r) ==
  LET range == r..r + count - 1
      held == range \cap ToSet(s.buf)
      f == IF held \cap s.dirty = {} THEN s
           ELSE flushbcb(s, CHOOSE x \in held \cap s.dirty : TRUE)
      t == [f EXCEPT
              !.buf = SubSeq([k \in DOMAIN @ |-> IF @[k] \in range THEN NoRecord ELSE @[k]],
                             1, Len(@)),
              !.latest = @ \ range]
      v == Moves(t, r * recsiz, count * recsiz, wrt \/ range \subseteq t.fresh)
  IN  IF wrt THEN [v EXCEPT !.fresh = @ \cup range] ELSE v

\* bytes of one record through its buffer
Through(s, wrt, r, at, n) ==
  LET t == Getrec(s, r, wrt)
  IN  Moves(t, r * recsiz + at, n, r \in t.latest)

-----------------------------------------------------------------------------
(* Clusters *)

addit(s, n, flg) ==
  LET b == s.ofd.bytnum + n
  IN  [s EXCEPT !.ofd.bytnum = b,
                !.ofd.curbyt = IF flg THEN @ + n ELSE @,
                !.ofd.fileln = IF b > @ THEN b ELSE @]

\* the cluster nextcl gives a file whose last one is cl, 0 if there is none
Rover(f, cl) ==
  LET first == IF cl < 2 THEN 2 ELSE cl
      after == {c \in first..m_numcl - 1 : f[c] = UNUSED}
      wrapped == {c \in 2..m_numcl - 1 : f[c] = UNUSED}
      least(S) == CHOOSE c \in S : \A x \in S : c <= x
  IN  IF after # {} THEN least(after)
      ELSE IF wrapped # {} THEN least(wrapped) ELSE 0

\* nextcl: [s, ok]
nextcl(s, wrt) ==
  LET cl == s.ofd.curcl
      follows == IF cl # 0 THEN s.fat[cl]
                 ELSE IF s.ofd.strtcl # 0 THEN s.ofd.strtcl ELSE ENDOFCHAIN
      new == IF wrt /\ follows = ENDOFCHAIN THEN Rover(s.fat, cl) ELSE 0
      c == IF follows # ENDOFCHAIN THEN follows ELSE new
      linked == IF new = 0 THEN s
                ELSE IF cl # 0 THEN [s EXCEPT !.fat[cl] = new, !.fat[new] = ENDOFCHAIN]
                ELSE [s EXCEPT !.ofd.strtcl = new, !.fat[new] = ENDOFCHAIN]
  IN  IF c = 0 THEN [s |-> s, ok |-> FALSE]
      ELSE [s |-> [linked EXCEPT !.ofd.curcl = c, !.ofd.currec = c * clsiz,
                                 !.ofd.curbyt = 0],
            ok |-> TRUE]

-----------------------------------------------------------------------------
(* xrw, in its five parts.  t.eof: the request ends early. *)

Header(s, wrt, len) ==
  LET bytn == s.ofd.curbyt % recsiz
      recn == s.ofd.curbyt \div recsiz + s.ofd.currec
      n == MIN(len, recsiz - bytn)
  IN  IF bytn = 0 THEN [s |-> s, len |-> len]
      ELSE [s |-> addit(Through(s, wrt, recn, bytn, n), n, TRUE), len |-> len - n]

\* records up to the end of the cluster
HeaderRecords(s, wrt, lenmid) ==
  LET recn == s.ofd.curbyt \div recsiz + s.ofd.currec
      hdrrec == recn % clsiz
      midrec == MIN(lenmid \div recsiz, clsiz - hdrrec)
  IN  IF hdrrec = 0 THEN [s |-> s, len |-> lenmid]
      ELSE [s |-> addit(usrio(s, wrt, midrec, recn), midrec * recsiz, TRUE),
            len |-> lenmid - midrec * recsiz]

\* mutant of mulio: the next run is taken to follow on disk
mulio_follows(t, wrt, ok) ==
  LET moves == IF t.nrecs = 0 THEN t.s ELSE usrio(t.s, wrt, t.nrecs, t.last)
      s == addit(moves, t.nrecs * recsiz, FALSE)
  IN  IF ~ok THEN [t EXCEPT !.s = s, !.eof = TRUE]
      ELSE [s |-> s, nrecs |-> clsiz, eof |-> FALSE,
            last |-> IF t.nrecs = 0 THEN s.ofd.currec ELSE t.last + t.nrecs]

\* the pending clusters are moved, and the current one is pending
mulio(t, wrt, ok) ==
  LET moves == IF t.nrecs = 0 THEN t.s ELSE usrio(t.s, wrt, t.nrecs, t.last)
      s == addit(moves, t.nrecs * recsiz, FALSE)
  IN  IF ~ok THEN [t EXCEPT !.s = s, !.eof = TRUE]
      ELSE [s |-> s, last |-> s.ofd.currec, nrecs |-> clsiz, eof |-> FALSE]

\* the next of the whole clusters; neighbours on disk are moved together
Cluster(t, wrt, left) ==
  LET n == nextcl(t.s, wrt)
      u == [t EXCEPT !.s = n.s]
      goes == IF n.ok /\ n.s.ofd.currec = t.last + t.nrecs
              THEN [u EXCEPT !.nrecs = @ + clsiz]
              ELSE mulio(u, wrt, n.ok)
  IN  IF t.eof THEN t
      ELSE IF left = 0 /\ n.ok THEN mulio(goes, wrt, TRUE) ELSE goes
WholeClusters(s, wrt, num) ==
  LET after[k \in 0..num] ==
        IF k = 0 THEN [s |-> s, last |-> 0, nrecs |-> 0, eof |-> FALSE]
        ELSE Cluster(after[k - 1], wrt, num - k)
  IN  after[num]

TailRecords(t, wrt, tailrec) ==
  LET n == nextcl(t.s, wrt) IN
  IF t.eof \/ tailrec = 0 THEN t
  ELSE IF ~n.ok THEN [t EXCEPT !.eof = TRUE]
  ELSE [t EXCEPT !.s = usrio(addit(n.s, tailrec * recsiz, TRUE), wrt, tailrec,
                             n.s.ofd.currec)]

Tail0(t, wrt, lentail) ==
  LET recn == t.s.ofd.curbyt \div recsiz
      edge == recn = 0 \/ recn = clsiz
      n == IF edge THEN nextcl(t.s, wrt) ELSE [s |-> t.s, ok |-> TRUE]
      r == n.s.ofd.currec + (IF edge THEN 0 ELSE recn)
  IN  IF t.eof \/ lentail = 0 \/ ~n.ok THEN t.s
      ELSE addit(Through(n.s, wrt, r, 0, lentail), lentail, TRUE)

xrw(s, wrt, len) ==
  LET h == Header(s, wrt, len)
      lentail == h.len % recsiz
      m == IF h.len = lentail THEN [s |-> h.s, len |-> 0]
           ELSE HeaderRecords(h.s, wrt, h.len - lentail)
      c == WholeClusters(m.s, wrt, m.len \div clsizb)
      r == TailRecords(c, wrt, (m.len \div recsiz) % clsiz)
  IN  Tail0(r, wrt, lentail)

-----------------------------------------------------------------------------
(* The calls *)

ixread(len) ==
  LET n == MIN(len, ofd.fileln - ofd.bytnum)
  IN  Becomes(IF n > 0 THEN xrw(Now, FALSE, n) ELSE Now)

\* a bound: files stay short
ixwrite(len) == ofd.bytnum + len <= MaxLen /\ Becomes(xrw(Now, TRUE, len))

\* n clusters on from cl
Walk(cl, n) ==
  LET at[k \in 0..n] == IF k = 0 THEN cl ELSE fat[at[k - 1]] IN at[n]

ixlseek(n) ==
  /\ n \in 0..ofd.fileln
  /\ LET curflg == IF ofd.curbyt # 0 /\ ofd.curbyt # clsizb THEN 0 ELSE 1
         onward == ofd.curcl # 0 /\ n >= ofd.bytnum
         clnum == IF onward THEN n \div clsizb - ofd.bytnum \div clsizb + curflg
                  ELSE n \div clsizb
         start == IF onward THEN ofd.curcl ELSE ofd.strtcl
         curbyt == n % clsizb
         clx == IF n = 0 THEN 0
                ELSE Walk(start, (IF clnum > 0 THEN clnum - 1 ELSE 0)
                                  + IF curbyt # 0 /\ clnum # 0 THEN 1 ELSE 0)
     IN  ofd' = [ofd EXCEPT !.curcl = clx, !.currec = clx * clsiz,
                            !.bytnum = n, !.curbyt = curbyt]
  /\ moved' = <<>>
  /\ UNCHANGED <<fat, buf, dirty, latest, fresh>>

\* ixclose writes the buffers
ixclose ==
  \E r \in dirty : Becomes(flushbcb(Now, r))

IOInit ==
  /\ \E taken \in Layouts : fat = [c \in Clnums |-> IF c \in taken THEN ENDOFCHAIN ELSE UNUSED]
  /\ ofd = [strtcl |-> 0, curcl |-> 0, currec |-> 0, curbyt |-> 0,
            bytnum |-> 0, fileln |-> 0]
  /\ buf = <<NoRecord, NoRecord>> /\ dirty = {} /\ latest = {} /\ fresh = Records
  /\ moved = <<>>

IONext ==
  \/ \E n \in Counts : ixread(n) \/ ixwrite(n)
  \/ \E n \in Places : ixlseek(n)
  \/ ixclose

IOSpec == IOInit /\ [][IONext]_iovars

-----------------------------------------------------------------------------

\* the clusters of the file
chain ==
  LET at[k \in 0..m_numcl] ==
        IF k = 0 THEN IF ofd.strtcl = 0 THEN ENDOFCHAIN ELSE ofd.strtcl
        ELSE IF at[k - 1] = ENDOFCHAIN THEN ENDOFCHAIN ELSE fat[at[k - 1]]
  IN  [k \in 1..Cardinality({j \in 1..m_numcl : at[j - 1] # ENDOFCHAIN}) |-> at[k - 1]]

\* The OFD's cluster and offset name the byte its position says; at the end of
\* a cluster that is the cluster before, with an offset of 0 or of all its
\* bytes (fsfat.c:1146, fsopnclo.c:866).
PositionOK ==
  LET k == (ofd.bytnum + clsizb - 1) \div clsizb
  IN  /\ ofd.curcl = IF k = 0 THEN 0 ELSE chain[k]
      /\ ofd.currec = ofd.curcl * clsiz
      /\ ofd.curbyt % clsizb = ofd.bytnum % clsizb
      /\ ofd.curbyt \in 0..clsizb

\* The latest contents of a record are on disk or in a buffer that will be
\* written, and no record is read from one that is behind (fsfat.c:406).
NothingStale ==
  /\ PositionOK
  /\ Records \ fresh = dirty
  /\ dirty \subseteq latest /\ latest = ToSet(buf) \ {NoRecord}

free == {c \in 2..m_numcl - 1 : fat[c] = UNUSED}
\* the bytes of the disk that were moved, as bytes of the file
FileBytes ==
  LET ch == chain
      index == [c \in ToSet(ch) |-> (CHOOSE k \in DOMAIN ch : ch[k] = c) - 1]
      byte(a) == IF a \div clsizb \in ToSet(ch)
                 THEN index[a \div clsizb] * clsizb + (a % clsizb) ELSE -1
  IN  [k \in DOMAIN moved |-> byte(moved[k])]

Bytes == INSTANCE ByteFile
  WITH pos <- ofd.bytnum, len <- ofd.fileln,
       room <- (Len(chain) + Cardinality(free)) * clsizb, moved <- FileBytes
\* Calls move the bytes ByteFile says, whatever the request has to be broken
\* into.
MovesBytes == Bytes!ByteSpec
=============================================================================
