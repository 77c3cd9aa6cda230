------------------------------ MODULE FatCache ------------------------------
(* The FAT of one drive as bdos/fsfat.c keeps it: two copies on disk, the  *)
(* FAT buffers of bufl[BI_FAT] (shared with the root directory), the       *)
(* record getdirrec remembers in dirrec, and the operations that walk,     *)
(* extend and free chains of clusters: nextcl as Fread and Fwrite use it,  *)
(* the deletion of a file, Dfree and the flush of Fclose.                  *)
(*                                                                         *)
(* The FAT is an array of half bytes: an entry is 3 or 4 of them, lowest   *)
(* first, and a 12-bit entry may lie in two records.  A call into GEMDOS   *)
(* is taken apart into its accesses to buffers, since any of them may meet *)
(* a disk error.  No other call runs in between.                           *)
EXTENDS Integers, Sequences, FiniteSets, SequencesExt

CONSTANTS
  Bufs,     \* the buffers of bufl[BI_FAT]
  NULL,
  Files,    \* open files of the drive
  numcl,    \* m_numcl, the clusters of the drive
  Geoms,    \* drives: [w |-> 3 or 4, rs |-> half bytes of a record,
            \* may |-> whether Mediach may answer MEDIAMAYCHANGE]
  Chains,   \* what files may own at first: Files -> sequences of clusters
  MaxErrs   \* bounds the number of disk errors; after them files are only
            \* sought in, deleted and closed

Clusters == 2..numcl + 1
FREE == 0
EOC == -1           \* ENDOFCHAIN, all bits set
ROOT == -1          \* the record of the root directory that may be cached
NoRec == -2         \* b_bufdrv = -1: the buffer is not valid

ASSUME FatAssumption ==
  /\ IsFiniteSet(Bufs) /\ Cardinality(Bufs) >= 2
  /\ numcl \in Nat \ {0} /\ MaxErrs \in Nat
  /\ \A g \in Geoms : g \in [w : {3, 4}, rs : Nat \ {0}, may : BOOLEAN]
  /\ \A g \in Geoms : numcl + 1 < IF g.w = 3 THEN 4095 ELSE 65535
  /\ \A ch \in Chains :
       /\ ch \in [Files -> Seq(Clusters)]
       /\ \A f, g \in Files : \A j \in DOMAIN ch[f], k \in DOMAIN ch[g] :
            ch[f][j] = ch[g][k] => f = g /\ j = k

VARIABLES
  w, rs, may,                \* m_16 and m_recsiz of the drive; see Geoms
  disk1, disk2,              \* the two copies of the FAT
  lru,                       \* bufl[BI_FAT], most recent first
  b_bufrec, b_dirty, b_data, \* the buffers
  dirlock, dirrec, rrecno, rwrtflg,   \* what getdirrec has left
  o_strtcl, o_curcl,         \* of each file
  pc, fd, wrtflg, cl, cl2, rover, i,  \* the call in progress
  half, buf2,                \* lower half of an entry in two records
  errs, lag                  \* history: disk errors; records whose first copy
                             \* was not written when the second was

disks == <<disk1, disk2>>
bufs == <<lru, b_bufrec, b_dirty, b_data>>
pointer == <<dirlock, dirrec, rrecno, rwrtflg>>
files == <<o_strtcl, o_curcl>>
call == <<pc, fd, wrtflg, cl, cl2, rover, i>>
vars == <<w, rs, may, disks, bufs, pointer, files, call, half, buf2, errs, lag>>

-----------------------------------------------------------------------------
(* The format *)

Cells == 0..w * (numcl + 2) - 1
CellsOf(r) == IF r < 0 THEN {} ELSE {c \in Cells : c \div rs = r}
Entry(c) == w * c .. w * c + w - 1
LoRec(c) == (w * c) \div rs
HiRec(c) == (w * c + w - 1) \div rs
Spans(c) == HiRec(c) # LoRec(c)

\* the k-th half byte of a link
Weight(k) == <<1, 16, 256, 4096>>[k + 1]
Digit(v, k) == IF v = EOC THEN 15 ELSE (v \div Weight(k)) % 16
\* the link whose half bytes are d[0], d[1] ...
Value(d) ==
  IF \A k \in DOMAIN d : d[k] = 15 THEN EOC
  ELSE d[0] + 16 * d[1] + 256 * d[2] + (IF 3 \in DOMAIN d THEN 4096 * d[3] ELSE 0)
Links == {FREE, EOC} \cup Clusters

\* the FAT as the buffers have it
Cached(r) == {b \in Bufs : b_bufrec[b] = r}
CellNow(c) ==
  IF \E b \in Bufs : b_bufrec[b] = c \div rs
  THEN b_data[CHOOSE b \in Bufs : b_bufrec[b] = c \div rs][c] ELSE disk2[c]
Logical == [c \in Cells |-> CellNow(c)]
LinkOf(c) == Value([k \in 0..w - 1 |-> CellNow(w * c + k)])

-----------------------------------------------------------------------------
(* Buffers *)

\* a call ends; what its local variables held is forgotten
Return ==
  /\ pc' = "idle" /\ fd' = NULL /\ wrtflg' = FALSE
  /\ cl' = 0 /\ cl2' = 0 /\ rover' = 0 /\ i' = 0
\* dirlock is set; nothing looks at dirrec, rrecno and rwrtflg before
\* getdirrec sets them again
Lock == dirlock' = TRUE /\ dirrec' = NULL /\ rrecno' = NoRec /\ rwrtflg' = FALSE

Typ(r) == IF r = ROOT THEN "ROOT" ELSE "FAT"

Orders == {s \in [1..Cardinality(Bufs) -> Bufs] : \A b \in Bufs : \E k \in DOMAIN s : s[k] = b}
Place(b) == CHOOSE k \in DOMAIN lru : lru[k] = b

Dirty(t) == {b \in Bufs : b_bufrec[b] # NoRec /\ b_dirty[b] /\ Typ(b_bufrec[b]) = t}
\* what flushbcb(b) writes, in the order of the list
ToFlush(b) ==
  IF b_bufrec[b] = NoRec \/ ~b_dirty[b] THEN {} ELSE Dirty(Typ(b_bufrec[b]))
\* the first ones of S, up to some place in the list
Starts(S) ==
  {P \in SUBSET S : \A x \in P, y \in S : Place(y) < Place(x) => y \in P}

Written(disk, S) == [c \in Cells |->
  IF \E b \in S : c \in CellsOf(b_bufrec[b])
  THEN b_data[CHOOSE b \in S : c \in CellsOf(b_bufrec[b])][c] ELSE disk[c]]
RecsOf(S) == {b_bufrec[b] : b \in S}

\* mutant of Write: only the second copy is written
Write_once(second, first) ==
  /\ disk2' = Written(disk2, second)
  /\ lag' = (lag \ RecsOf(first)) \cup RecsOf(second \ first)
  /\ UNCHANGED disk1

\* the buffers of second have reached the second copy of the FAT, those of
\* first the first copy too
Write(second, first) ==
  /\ disk2' = Written(disk2, second)
  /\ disk1' = Written(disk1, first)
  /\ lag' = (lag \ RecsOf(first)) \cup RecsOf(second \ first)

WriteAll(todo) == Write(todo, todo)

\* a disk error after some of todo has been written; osif2 invalidates all
\* buffers of the drive, and the call ends
Broken(todo) ==
  /\ errs < MaxErrs /\ errs' = errs + 1
  /\ \E second \in Starts(todo) : \E first \in Starts(second) :
       Cardinality(second \ first) <= 1 /\ Write(second, first)
  /\ b_bufrec' = [b \in Bufs |-> NoRec]
  /\ b_dirty' = [b \in Bufs |-> FALSE]
  /\ b_data' = [b \in Bufs |-> <<>>]
  /\ Return /\ half' = <<>> /\ buf2' = NULL /\ UNCHANGED lru

OnDisk(r) == [c \in CellsOf(r) |-> disk2'[c]]
ToFront(b) == [k \in DOMAIN lru |->
  IF k = 1 THEN b ELSE IF k <= Place(b) THEN lru[k - 1] ELSE lru[k]]

\* the last invalid buffer, or the least recently used one
Victim(b) ==
  /\ (\E x \in Bufs : b_bufrec[x] = NoRec) => b_bufrec[b] = NoRec
  /\ \A x \in Bufs : Place(x) > Place(b) => b_bufrec[b] = NoRec /\ b_bufrec[x] # NoRec

\* getrec(r, dm, wrt): b is the buffer it returns
Found(b, r, wrt) ==
  /\ b_bufrec[b] = r
  /\ b_dirty' = [b_dirty EXCEPT ![b] = @ \/ wrt]
  /\ UNCHANGED <<disks, lag, b_bufrec, b_data>>
\* mutant of Load: the buffer is taken without being written
Load_drops(b, r, wrt) ==
  /\ WriteAll({})
  /\ b_bufrec' = [b_bufrec EXCEPT ![b] = r]
  /\ b_dirty' = [b_dirty EXCEPT ![b] = wrt]
  /\ b_data' = [b_data EXCEPT ![b] = OnDisk(r)]

Load(b, r, wrt) ==
  /\ WriteAll(ToFlush(b))
  /\ b_bufrec' = [b_bufrec EXCEPT ![b] = r]
  /\ b_dirty' = [x \in Bufs |->
       IF x = b THEN wrt ELSE b_dirty[x] /\ x \notin ToFlush(b)]
  /\ b_data' = [b_data EXCEPT ![b] = OnDisk(r)]
Reads(b, r) ==
  IF Cached(r) = {} THEN Victim(b) ELSE may /\ b \in Cached(r)

getrec(b, r, wrt) ==
  /\ Found(b, r, wrt) \/ (Reads(b, r) /\ Load(b, r, wrt))
  /\ lru' = ToFront(b)
  /\ UNCHANGED errs
getrecFails(r) == \E b \in Bufs : Reads(b, r) /\ Broken(ToFlush(b))

\* getdirrec(r, dm, wrt)
getdirrec(b, r, wrt) ==
  /\ getrec(b, r, wrt)
  /\ dirlock' = FALSE /\ dirrec' = b /\ rrecno' = r /\ rwrtflg' = wrt
getdirrecFails(r) ==
  /\ getrecFails(r)
  /\ Lock

\* getcl and clfix may use the record at dirrec as it is
Hit(r, wrt) == ~dirlock /\ rrecno = r /\ (wrt => rwrtflg)

-----------------------------------------------------------------------------
(* Entries *)

\* the record getcl or clfix needs next of entry c
Need(c) == IF half = <<>> THEN LoRec(c) ELSE HiRec(c)
Has(c, wrt) == Hit(Need(c), wrt)
Last2(c) == Spans(c) => half # <<>>    \* the record needed is the last one
Part(c) == [x \in Entry(c) \cap CellsOf(rrecno) |-> b_data[dirrec][x]]

\* the access to entry c does not find its record at dirrec
Fetch(c, wrt) ==
  /\ ~Has(c, wrt)
  /\ \/ /\ \E b \in Bufs : getdirrec(b, Need(c), wrt)
        /\ UNCHANGED <<call, half, buf2>>
     \/ getdirrecFails(Need(c))
  /\ UNCHANGED <<w, rs, may, files>>

\* the first of two records is at hand: getcl takes its part of the entry,
\* clfix keeps the buffer
Halfway(c, wrt) ==
  /\ Has(c, wrt) /\ ~Last2(c)
  /\ half' = Part(c) /\ buf2' = dirrec
  /\ UNCHANGED <<w, rs, may, disks, bufs, pointer, files, call, errs, lag>>

\* getcl(c) returns Got(c)
Got(c) == Value([k \in 0..w - 1 |->
  IF w * c + k \in DOMAIN half THEN half[w * c + k] ELSE b_data[dirrec][w * c + k]])
Gets(c) ==
  /\ Has(c, FALSE) /\ Last2(c)
  /\ half' = <<>> /\ buf2' = NULL
  /\ UNCHANGED <<w, rs, may, disks, bufs, errs, lag>>

\* clfix(c, link): both parts are stored
Stored(f, c, link) == [x \in DOMAIN f |->
  IF x \in Entry(c) THEN Digit(link, x - w * c) ELSE f[x]]
Fixes(c, link) ==
  /\ Has(c, TRUE) /\ Last2(c)
  /\ b_data' = [b \in Bufs |->
       IF b = dirrec \/ (Spans(c) /\ b = buf2)
       THEN Stored(b_data[b], c, link) ELSE b_data[b]]
  /\ half' = <<>> /\ buf2' = NULL
  /\ UNCHANGED <<w, rs, may, disks, lru, b_bufrec, b_dirty, pointer, errs, lag>>

Access(c, wrt) == Fetch(c, wrt) \/ Halfway(c, wrt)

-----------------------------------------------------------------------------
(* Reading and writing: nextcl called by xrw *)

OnlyCall == UNCHANGED <<w, rs, may, disks, bufs, half, buf2, errs, lag>>
Goto(p) == pc' = p

\* xrw of file f has whole clusters to do
Xrw(f, wrt) ==
  /\ pc = "idle" /\ Goto("next") /\ Lock
  /\ errs = 0 \/ errs < MaxErrs
  /\ fd' = f /\ wrtflg' = wrt
  /\ UNCHANGED <<files, cl, cl2, rover, i>> /\ OnlyCall
XrwMore ==
  /\ pc = "xrw" /\ Goto("next")
  /\ UNCHANGED <<pointer, files, fd, wrtflg, cl, cl2, rover, i>> /\ OnlyCall
XrwEnds ==
  /\ pc = "xrw" /\ Return /\ Lock /\ UNCHANGED files /\ OnlyCall
\* usrio meets a disk error: dirlock is left as it is
XrwFails ==
  /\ pc = "xrw" /\ Broken({})
  /\ UNCHANGED <<w, rs, may, pointer, files>>

\* A link leads out of the drive.  That takes a disk error, and the model does
\* not follow it.
Astray == Return /\ Lock /\ UNCHANGED files

\* nextcl has found v, the cluster after the current one
Arrive(v) ==
  /\ Goto("xrw") /\ o_curcl' = [o_curcl EXCEPT ![fd] = v]
  /\ cl' = 0 /\ cl2' = 0 /\ rover' = 0 /\ i' = 0
  /\ UNCHANGED <<fd, wrtflg, o_strtcl>>
\* nextcl returns -1 and xrw ends
NoNext == Return /\ Lock /\ UNCHANGED files

Scan(c) ==
  /\ Goto(IF c = 0 /\ w = 4 THEN "xgscan16" ELSE "scan")
  /\ rover' = IF c < 2 THEN 2 ELSE c
  /\ i' = 2 /\ cl' = c
  /\ UNCHANGED <<fd, wrtflg, cl2, files, pointer>>

\* what nextcl does with the entry of the current cluster c
Beyond(c, v) ==
  \/ v \in Links \ {EOC} /\ Arrive(v) /\ UNCHANGED pointer
  \/ v \notin Links /\ Astray
  \/ v = EOC /\ wrtflg /\ Scan(c)
  \/ v = EOC /\ ~wrtflg /\ NoNext

NextFirst ==
  /\ pc = "next" /\ o_curcl[fd] = 0
  /\ Beyond(0, IF o_strtcl[fd] # 0 THEN o_strtcl[fd] ELSE EOC)
  /\ OnlyCall
NextFollow ==
  /\ pc = "next" /\ o_curcl[fd] # 0
  /\ \/ Access(o_curcl[fd], FALSE)
     \/ Gets(o_curcl[fd]) /\ Beyond(o_curcl[fd], Got(o_curcl[fd]))

\* a free cluster c is there: the file gets it
Grow(c) ==
  /\ cl2' = c /\ rover' = 0 /\ i' = 0
  /\ IF cl # 0 THEN Goto("link") /\ UNCHANGED o_strtcl
     ELSE Goto("end") /\ o_strtcl' = [o_strtcl EXCEPT ![fd] = c]
  /\ UNCHANGED <<fd, wrtflg, cl, o_curcl, pointer>>

NextScan ==
  /\ pc = "scan" /\ i < numcl
  /\ \/ Access(rover, FALSE)
     \/ Gets(rover) /\ Got(rover) = FREE /\ Grow(rover)
     \/ /\ Gets(rover) /\ Got(rover) # FREE
        /\ LET r == (rover + 1) % numcl IN rover' = IF r < 2 THEN 2 ELSE r
        /\ i' = i + 1
        /\ UNCHANGED <<pc, fd, wrtflg, cl, cl2, pointer, files>>

\* mutant of NextFull: the scan gives up one cluster early
NextFull_early ==
  /\ pc \in {"scan", "xgscan16"} /\ (IF pc = "scan" THEN i ELSE rover) >= numcl - 1
  /\ NoNext /\ OnlyCall

NextFull ==
  /\ pc \in {"scan", "xgscan16"} /\ (IF pc = "scan" THEN i ELSE rover) >= numcl
  /\ NoNext /\ OnlyCall

\* xgscan16 takes a record at a time and never looks at dirrec
xgscan16 ==
  /\ pc = "xgscan16" /\ rover < numcl
  /\ \/ /\ \E b \in Bufs :
             /\ getdirrec(b, LoRec(rover), FALSE)
             /\ LET inrec == {c \in rover..numcl - 1 : LoRec(c) = LoRec(rover)}
                    link(c) == Value([k \in 0..w - 1 |-> b_data'[b][w * c + k]])
                    free == {c \in inrec : link(c) = FREE}
                IN  \/ \E c \in free :
                         /\ \A x \in free : c <= x
                         /\ cl2' = c /\ Goto("end")
                         /\ o_strtcl' = [o_strtcl EXCEPT ![fd] = c]
                         /\ rover' = 0 /\ i' = 0
                    \/ /\ free = {} /\ rover' = rover + Cardinality(inrec)
                       /\ UNCHANGED <<cl2, pc, i, o_strtcl>>
        /\ UNCHANGED <<fd, wrtflg, cl, half, buf2>>
     \/ getdirrecFails(LoRec(rover)) /\ UNCHANGED o_strtcl
  /\ UNCHANGED <<w, rs, may, o_curcl>>

NextLink ==
  /\ pc = "link"
  /\ \/ Access(cl, TRUE)
     \/ /\ Fixes(cl, cl2) /\ Goto("end")
        /\ UNCHANGED <<files, fd, wrtflg, cl, cl2, rover, i>>

\* mutant of NextEnd: the new cluster is not marked as the last
NextEnd_unset ==
  /\ pc = "end" /\ Arrive(cl2) /\ UNCHANGED pointer /\ OnlyCall

NextEnd ==
  /\ pc = "end"
  /\ \/ Access(cl2, TRUE)
     \/ Fixes(cl2, EOC) /\ Arrive(cl2)

-----------------------------------------------------------------------------
(* Seeking, deleting, closing; the root directory *)

\* mutant of Seek: dirlock is not set
Seek_trusts(f) ==
  /\ pc = "idle" /\ o_strtcl[f] # 0
  /\ Goto("seek") /\ fd' = f /\ cl' = o_strtcl[f]
  /\ UNCHANGED <<pointer, files, wrtflg, cl2, rover, i>> /\ OnlyCall

\* ixlseek to a place in the chain; how far it walks depends on the place.
\* A link that is no cluster ends the walk; unless it ends the chain, that
\* takes a disk error, and the model does not follow it.
Seek(f) ==
  /\ pc = "idle" /\ o_strtcl[f] # 0
  /\ Goto("seek") /\ Lock /\ fd' = f /\ cl' = o_strtcl[f]
  /\ UNCHANGED <<files, wrtflg, cl2, rover, i>> /\ OnlyCall
SeekStart(f) ==
  /\ pc = "idle" /\ o_curcl[f] # 0 /\ o_curcl' = [o_curcl EXCEPT ![f] = 0]
  /\ UNCHANGED <<call, o_strtcl, pointer>> /\ OnlyCall
SeekWalk ==
  /\ pc = "seek"
  /\ \/ Access(cl, FALSE)
     \/ /\ Gets(cl)
        /\ IF Got(cl) \in Clusters
           THEN /\ cl' = Got(cl)
                /\ UNCHANGED <<pc, fd, wrtflg, cl2, rover, i, pointer>>
           ELSE Return /\ Lock
        /\ UNCHANGED files
SeekEnds ==
  /\ pc = "seek" /\ half = <<>> /\ Return /\ Lock
  /\ o_curcl' = [o_curcl EXCEPT ![fd] = cl]
  /\ UNCHANGED o_strtcl /\ OnlyCall

\* ixdel frees the chain of f; the name may then be used for a new file
Delete(f) ==
  /\ pc = "idle" /\ o_strtcl[f] # 0
  /\ Goto("del") /\ Lock /\ fd' = f /\ cl' = o_strtcl[f]
  /\ UNCHANGED <<files, wrtflg, cl2, rover, i>> /\ OnlyCall
Deleted ==
  /\ Return /\ Lock
  /\ o_strtcl' = [o_strtcl EXCEPT ![fd] = 0]
  /\ o_curcl' = [o_curcl EXCEPT ![fd] = 0]
DeleteGet ==
  /\ pc = "del"
  /\ \/ cl # EOC /\ Access(cl, FALSE)
     \/ /\ cl # EOC /\ Gets(cl) /\ Got(cl) \in Links \ {FREE}
        /\ cl2' = Got(cl) /\ Goto("unlink")
        /\ UNCHANGED <<files, pointer, fd, wrtflg, cl, rover, i>>
     \/ cl # EOC /\ Gets(cl) /\ Got(cl) = FREE /\ Deleted
     \/ cl # EOC /\ Gets(cl) /\ Got(cl) \notin Links /\ Astray
     \/ cl = EOC /\ Deleted /\ OnlyCall
DeleteFix ==
  /\ pc = "unlink"
  /\ \/ Access(cl, TRUE)
     \/ /\ Fixes(cl, FREE) /\ cl' = cl2 /\ cl2' = 0 /\ Goto("del")
        /\ UNCHANGED <<files, fd, wrtflg, rover, i>>

\* ixclose writes what is dirty, a type of buffer at a time
Close ==
  /\ pc = "idle"
  /\ \/ /\ WriteAll(Dirty("FAT") \cup Dirty("ROOT"))
        /\ b_dirty' = [b \in Bufs |-> FALSE]
        /\ UNCHANGED <<lru, b_bufrec, b_data, call, half, buf2, errs>>
     \/ Dirty("FAT") # {} /\ Broken(Dirty("FAT"))
     \/ Dirty("ROOT") # {} /\ Broken({})
  /\ UNCHANGED <<w, rs, may, pointer, files>>

\* xrw on the root directory, whose record shares the buffers
Root(wrt) ==
  /\ pc = "idle"
  /\ \/ /\ \E b \in Bufs : getrec(b, ROOT, wrt)
        /\ Lock /\ UNCHANGED <<call, half, buf2>>
     \/ getrecFails(ROOT) /\ UNCHANGED pointer
  /\ UNCHANGED <<w, rs, may, files>>

-----------------------------------------------------------------------------

FatOf(ch) ==
  LET next(c) ==
        IF \E f \in Files : c \in ToSet(ch[f])
        THEN LET s == ch[CHOOSE f \in Files : c \in ToSet(ch[f])]
                 k == CHOOSE k \in DOMAIN s : s[k] = c
             IN  IF k = Len(s) THEN EOC ELSE s[k + 1]
        ELSE FREE
  IN  [x \in Cells |-> IF x < 2 * w THEN 15 ELSE Digit(next(x \div w), x % w)]

Init ==
  /\ \E g \in Geoms : w = g.w /\ rs = g.rs /\ may = g.may
  /\ \E ch \in Chains :
       /\ disk2 = FatOf(ch)
       /\ o_strtcl = [f \in Files |-> IF ch[f] = <<>> THEN 0 ELSE Head(ch[f])]
  /\ disk1 = disk2
  /\ lru \in Orders /\ b_bufrec = [b \in Bufs |-> NoRec]
  /\ b_dirty = [b \in Bufs |-> FALSE] /\ b_data = [b \in Bufs |-> <<>>]
  /\ dirlock = FALSE /\ dirrec = NULL /\ rrecno = NoRec /\ rwrtflg = FALSE
  /\ o_curcl = [f \in Files |-> 0]
  /\ pc = "idle" /\ fd = NULL /\ wrtflg = FALSE
  /\ cl = 0 /\ cl2 = 0 /\ rover = 0 /\ i = 0
  /\ half = <<>> /\ buf2 = NULL /\ errs = 0 /\ lag = {}

Step ==
  \/ XrwMore \/ XrwEnds \/ XrwFails
  \/ NextFirst \/ NextFollow \/ NextScan \/ NextFull \/ xgscan16
  \/ NextLink \/ NextEnd
  \/ SeekWalk \/ SeekEnds \/ DeleteGet \/ DeleteFix
Next ==
  \/ Step
  \/ \E f \in Files :
       (\E wrt \in BOOLEAN : Xrw(f, wrt)) \/ Seek(f) \/ SeekStart(f) \/ Delete(f)
  \/ Close
  \/ \E wrt \in BOOLEAN : Root(wrt)

Spec == Init /\ [][Next]_vars

-----------------------------------------------------------------------------

PointerHolds == pc # "idle" /\ pc # "xgscan16" /\ ~dirlock =>
  /\ dirrec \in Bufs
  /\ b_bufrec[dirrec] = rrecno /\ (rwrtflg => b_dirty[dirrec])

CleanMatches == \A b \in Bufs :
  ~b_dirty[b] => \A c \in CellsOf(b_bufrec[b]) : b_data[b][c] = disk2[c]

\* While a call may use the record at dirrec without asking getrec, that
\* buffer still holds it, and is dirty if clfix may write to it
\* (fsfat.c:643); and a buffer that is not dirty can be dropped, because the
\* disk has the same: no entry of the FAT is read or stored elsewhere than
\* where it is, however getrec, errors and other calls reuse the buffers.
BuffersHold == PointerHolds /\ CleanMatches

\* The copies of the FAT differ only in records of which the second copy was
\* written and the write to the first met an error (fsfat.c:379-387).
CopiesAgree == \A c \in Cells : c \div rs \notin lag => disk1[c] = disk2[c]

\* As long as there was no disk error and no call is in progress, the chains
\* of the files are apart, each ends, and every other cluster is free.
ChainFrom(c) ==
  LET walk[n \in 0..numcl] ==
        IF n = 0 THEN <<c>>
        ELSE LET s == walk[n - 1] IN
             IF Last(s) \in Clusters THEN Append(s, LinkOf(Last(s))) ELSE s
  IN  walk[numcl]
ChainsOK == errs = 0 /\ pc = "idle" =>
  LET used == {f \in Files : o_strtcl[f] # 0}
      chain == [f \in used |-> ChainFrom(o_strtcl[f])]
      owned(f) == ToSet(chain[f]) \ {EOC}
  IN  /\ \A f \in used : Last(chain[f]) = EOC /\ owned(f) \subseteq Clusters
      /\ \A f \in used : o_curcl[f] \in owned(f) \cup {0}
      /\ \A f, g \in used : f # g => owned(f) \cap owned(g) = {}
      /\ \A c \in Clusters : LinkOf(c) = FREE <=> \A f \in used : c \notin owned(f)

\* A write is cut short for want of room only when Dfree would count no free
\* cluster (fsfat.c:816, 1263).  A chain that has one of the last two
\* clusters, which nextcl never gives out, may make the scan start there and
\* fall one or two short.
FullWhenFull ==
  [][NextFull => \/ \A c \in 2..numcl - 1 : LinkOf(c) # FREE
                 \/ cl >= numcl]_vars

\* The buffers keep the promise of FatMap.
Fat == INSTANCE FatMap WITH fat <- Logical, disk <- disk2
KeepsFat == Fat!MapSpec

\* clfix replaces the entry and nothing else changes the FAT, unless a disk
\* error loses what was not written yet (fsfat.c:610).
OnlyClfix ==
  [][\A c \in Clusters : LinkOf(c)' # LinkOf(c) =>
       \/ pc \in {"link", "unlink"} /\ c = cl
       \/ pc = "end" /\ c = cl2
       \/ errs' # errs]_vars
=============================================================================
