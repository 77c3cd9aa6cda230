--------------------------- MODULE FatCache_proofs ---------------------------
(* Proofs about the FAT buffers, for any number of buffers, clusters,      *)
(* files and disk errors.                                                  *)
EXTENDS FatCache, FiniteSetTheorems, SequenceTheorems, WellFoundedInduction,
        NaturalsInduction, TLAPS

-----------------------------------------------------------------------------
(* The inductive invariants.                                               *)

OneDrive == \E g \in Geoms : w = g.w /\ rs = g.rs /\ may = g.may

Records == {NoRec, ROOT} \cup Nat

\* no two buffers hold the same record
Buffers ==
  /\ b_bufrec \in [Bufs -> Records]
  /\ b_dirty \in [Bufs -> BOOLEAN]
  /\ DOMAIN b_data = Bufs
  /\ \A b \in Bufs : DOMAIN b_data[b] = CellsOf(b_bufrec[b])
  /\ DOMAIN disk1 = Cells /\ DOMAIN disk2 = Cells
  /\ \A a, b \in Bufs : b_bufrec[a] = b_bufrec[b] => a = b \/ b_bufrec[a] = NoRec

\* the clusters a call works with are clusters of the drive
Calls ==
  /\ o_strtcl \in [Files -> Clusters \cup {0}]
  /\ o_curcl \in [Files -> Clusters \cup {0}]
  /\ pc # "idle" => fd \in Files
  /\ pc = "scan" => rover \in Clusters /\ i \in Nat /\ i >= 2 /\ cl \in Clusters \cup {0}
  /\ pc = "xgscan16" => rover \in Nat /\ rover >= 2 /\ cl = 0
  /\ pc \in {"link", "seek", "unlink"} => cl \in Clusters
  /\ pc \in {"link", "end"} => cl2 \in Clusters
  /\ pc = "unlink" => cl2 \in Clusters \cup {EOC}
  /\ pc = "del" => cl \in Clusters \cup {EOC}

Sound == OneDrive /\ Buffers /\ Calls /\ PointerHolds /\ CopiesAgree

\* no entry of the FAT lies in two records
NoneSpans ==
  \A g \in Geoms : \A c \in 0..numcl + 1 : \A x \in g.w * c .. g.w * c + g.w - 1 :
    x \div g.rs = (g.w * c) \div g.rs

-----------------------------------------------------------------------------
(* What a step does to the buffers.                                        *)

Quiet == UNCHANGED <<disks, b_bufrec, b_dirty, b_data, errs, lag>>
Finds == \E b \in Bufs, wrt \in BOOLEAN : Found(b, b_bufrec[b], wrt) /\ UNCHANGED errs
Loads == \E b \in Bufs, r \in {ROOT} \cup Nat, wrt \in BOOLEAN :
  Reads(b, r) /\ Load(b, r, wrt) /\ UNCHANGED errs
Breaks == \E todo \in SUBSET Bufs : Broken(todo)
Target == IF pc = "end" THEN cl2 ELSE cl
Stores == pc \in {"link", "unlink", "end"} /\ \E link : Fixes(Target, link)
Cleans ==
  /\ WriteAll(Dirty("FAT") \cup Dirty("ROOT"))
  /\ b_dirty' = [b \in Bufs |-> FALSE]
  /\ UNCHANGED <<b_bufrec, b_data, errs>>
BufferStep ==
  /\ UNCHANGED <<w, rs, may>>
  /\ Quiet \/ Finds \/ Loads \/ Breaks \/ Stores \/ Cleans

\* the numbers of records
LEMMA RecNat ==
  ASSUME OneDrive, NEW c \in Nat
  PROVE  /\ w \in {3, 4} /\ rs \in Nat \ {0} /\ c \div rs \in Nat
         /\ LoRec(c) \in Nat /\ HiRec(c) \in Nat
  <1>1. w \in {3, 4} /\ rs \in Nat \ {0}
    BY FatAssumption DEF OneDrive
  <1>2. \A x \in Nat : x \div rs \in Nat
    BY <1>1
  <1>3. w * c \in Nat /\ w * c + w - 1 \in Nat
    BY <1>1
  <1> QED
    BY <1>1, <1>2, <1>3 DEF LoRec, HiRec

\* a cell lies in one record
LEMMA CellRec ==
  ASSUME OneDrive, NEW c \in Cells
  PROVE  /\ c \div rs \in Nat
         /\ \A r \in Records : c \in CellsOf(r) <=> r = c \div rs
  <1>1. w \in {3, 4} /\ rs \in Nat \ {0}
    BY FatAssumption DEF OneDrive
  <1>2. c \in Nat
    BY <1>1, FatAssumption DEF Cells
  <1>3. c \div rs \in Nat
    BY <1>2, RecNat
  <1> QED
    BY <1>3 DEF CellsOf, Records, ROOT, NoRec

\* one step for each of the ways the buffers change
LEMMA NextBuffers ==
  ASSUME OneDrive, Calls, Next
  PROVE  BufferStep
  <1>1. \A c \in Clusters : Need(c) \in Nat
    <2>1. Clusters \subseteq Nat
      BY FatAssumption DEF Clusters
    <2>2. \A c \in Clusters : LoRec(c) \in Nat /\ HiRec(c) \in Nat
      BY <2>1, RecNat
    <2> QED
      BY <2>2 DEF Need
  <1>2. ASSUME NEW b \in Bufs, NEW r \in {ROOT} \cup Nat, NEW wrt \in BOOLEAN, getrec(b, r, wrt)
        PROVE  Finds \/ Loads
    BY <1>2 DEF getrec, Finds, Loads, Found
  <1>3. \A r : getrecFails(r) => Breaks
    BY DEF getrecFails, Breaks, ToFlush, Dirty
  <1>4. ASSUME NEW c \in Clusters, NEW wrt \in BOOLEAN, Access(c, wrt)
        PROVE  UNCHANGED <<w, rs, may>> /\ (Quiet \/ Finds \/ Loads \/ Breaks)
    <2>1. CASE Fetch(c, wrt)
      BY <1>1, <1>2, <1>3, <2>1 DEF Fetch, getdirrec, getdirrecFails
    <2>2. CASE Halfway(c, wrt)
      BY <2>2 DEF Halfway, Quiet, bufs
    <2> QED
      BY <1>4, <2>1, <2>2 DEF Access
  <1>5. OnlyCall => UNCHANGED <<w, rs, may>> /\ Quiet
    BY DEF OnlyCall, Quiet, bufs
  <1>6. \A c : Gets(c) => UNCHANGED <<w, rs, may>> /\ Quiet
    BY DEF Gets, Quiet, bufs
  <1>7. CASE XrwMore \/ XrwEnds \/ XrwFails \/ NextFirst \/ NextFull
    BY <1>5, <1>7 DEF XrwMore, XrwEnds, XrwFails, NextFirst, NextFull, Breaks, BufferStep
  <1>8. CASE NextFollow
    <2>1. o_curcl[fd] \in Clusters
      BY <1>8 DEF NextFollow, Calls
    <2> QED
      BY <1>4, <1>6, <1>8, <2>1 DEF NextFollow, BufferStep
  <1>9. CASE NextScan
    BY <1>4, <1>6, <1>9 DEF NextScan, Calls, BufferStep
  <1>10. CASE xgscan16
    <2>1. LoRec(rover) \in Nat
      BY <1>10, RecNat DEF xgscan16, Calls
    <2> QED
      BY <1>2, <1>3, <1>10, <2>1 DEF xgscan16, getdirrec, getdirrecFails, BufferStep
  <1>11. CASE NextLink
    <2>1. CASE Access(cl, TRUE)
      BY <1>4, <1>11, <2>1 DEF NextLink, Calls, BufferStep
    <2>2. CASE Fixes(cl, cl2)
      BY <1>11, <2>2 DEF NextLink, Stores, Target, Fixes, BufferStep
    <2> QED
      BY <1>11, <2>1, <2>2 DEF NextLink
  <1>12. CASE NextEnd
    <2>1. CASE Access(cl2, TRUE)
      BY <1>4, <1>12, <2>1 DEF NextEnd, Calls, BufferStep
    <2>2. CASE Fixes(cl2, EOC)
      BY <1>12, <2>2 DEF NextEnd, Stores, Target, Fixes, BufferStep
    <2> QED
      BY <1>12, <2>1, <2>2 DEF NextEnd
  <1>13. CASE SeekWalk \/ SeekEnds
    BY <1>4, <1>5, <1>6, <1>13 DEF SeekWalk, SeekEnds, Calls, BufferStep
  <1>14. CASE DeleteGet
    BY <1>4, <1>5, <1>6, <1>14 DEF DeleteGet, Calls, BufferStep
  <1>15. CASE DeleteFix
    <2>1. CASE Access(cl, TRUE)
      BY <1>4, <1>15, <2>1 DEF DeleteFix, Calls, BufferStep
    <2>2. CASE Fixes(cl, FREE)
      BY <1>15, <2>2 DEF DeleteFix, Stores, Target, Fixes, BufferStep
    <2> QED
      BY <1>15, <2>1, <2>2 DEF DeleteFix
  <1>16. CASE \E f \in Files :
            (\E wrt \in BOOLEAN : Xrw(f, wrt)) \/ Seek(f) \/ SeekStart(f) \/ Delete(f)
    BY <1>5, <1>16 DEF Xrw, Seek, SeekStart, Delete, BufferStep
  <1>17. CASE Close
    BY <1>17 DEF Close, Cleans, Breaks, Dirty, BufferStep
  <1>18. CASE \E wrt \in BOOLEAN : Root(wrt)
    BY <1>2, <1>3, <1>18 DEF Root, BufferStep
  <1> QED
    BY <1>7, <1>8, <1>9, <1>10, <1>11, <1>12, <1>13, <1>14, <1>15, <1>16, <1>17, <1>18
    DEF Next, Step

-----------------------------------------------------------------------------
(* Buffers and the disk.                                                   *)

\* what is written to cell c when the buffers of S are
LEMMA WrittenAt ==
  ASSUME OneDrive, Buffers, NEW S \in SUBSET Bufs, NEW c \in Cells, NEW d
  PROVE  /\ \A b \in S : b_bufrec[b] = c \div rs => Written(d, S)[c] = b_data[b][c]
         /\ (\A b \in S : b_bufrec[b] # c \div rs) => Written(d, S)[c] = d[c]
  <1>1. \A b \in S : c \in CellsOf(b_bufrec[b]) <=> b_bufrec[b] = c \div rs
    BY CellRec DEF Buffers
  <1>2. NoRec # c \div rs
    BY CellRec DEF NoRec
  <1>3. \A a, b \in S : b_bufrec[a] = c \div rs /\ b_bufrec[b] = c \div rs => a = b
    BY <1>2 DEF Buffers
  <1>4. ASSUME NEW b \in S, b_bufrec[b] = c \div rs
        PROVE  Written(d, S)[c] = b_data[b][c]
    <2>1. b = CHOOSE x \in S : c \in CellsOf(b_bufrec[x])
      BY <1>1, <1>3, <1>4
    <2>2. \E x \in S : c \in CellsOf(b_bufrec[x])
      BY <1>1, <1>4
    <2> QED
      BY <2>1, <2>2 DEF Written
  <1>5. ASSUME \A b \in S : b_bufrec[b] # c \div rs
        PROVE  Written(d, S)[c] = d[c]
    BY <1>1, <1>5 DEF Written
  <1> QED
    BY <1>4, <1>5

\* a cell of the FAT, for those who ask the buffers
LEMMA CellNowIs ==
  ASSUME OneDrive, Buffers, NEW c \in Cells
  PROVE  /\ \A b \in Bufs : b_bufrec[b] = c \div rs => CellNow(c) = b_data[b][c]
         /\ (\A b \in Bufs : b_bufrec[b] # c \div rs) => CellNow(c) = disk2[c]
  <1>1. NoRec # c \div rs
    BY CellRec DEF NoRec
  <1>2. \A a, b \in Bufs : b_bufrec[a] = c \div rs /\ b_bufrec[b] = c \div rs => a = b
    BY <1>1 DEF Buffers
  <1>3. ASSUME NEW b \in Bufs, b_bufrec[b] = c \div rs
        PROVE  CellNow(c) = b_data[b][c]
    <2>1. b = CHOOSE x \in Bufs : b_bufrec[x] = c \div rs
      BY <1>2, <1>3
    <2> QED
      BY <1>3, <2>1 DEF CellNow
  <1> QED
    BY <1>3 DEF CellNow

\* no record comes to be in two buffers
LEMMA BuffersStep ==
  ASSUME OneDrive, Buffers, BufferStep
  PROVE  OneDrive' /\ Buffers'
  <1>1. OneDrive'
    BY DEF OneDrive, BufferStep
  <1>2. rs' = rs /\ Cells' = Cells
    BY DEF BufferStep, Cells
  <1>3. CellsOf(NoRec) = {}
    BY DEF CellsOf, NoRec
  <1>4. CASE Quiet
    BY <1>1, <1>2, <1>4 DEF Quiet, disks, Buffers, CellsOf
  <1>5. CASE Finds
    BY <1>1, <1>2, <1>5 DEF Finds, Found, disks, Buffers, CellsOf
  <1>6. \A d, S : DOMAIN Written(d, S) = Cells
    BY DEF Written
  <1>7. CASE Loads
    <2>1. PICK b \in Bufs, r \in {ROOT} \cup Nat, wrt \in BOOLEAN :
            Reads(b, r) /\ Load(b, r, wrt) /\ UNCHANGED errs
      BY <1>7 DEF Loads
    <2>2. /\ b_bufrec' = [b_bufrec EXCEPT ![b] = r]
          /\ b_dirty' = [x \in Bufs |->
               IF x = b THEN wrt ELSE b_dirty[x] /\ x \notin ToFlush(b)]
          /\ b_data' = [b_data EXCEPT ![b] = OnDisk(r)]
      BY <2>1 DEF Load
    <2>3. DOMAIN disk1' = Cells' /\ DOMAIN disk2' = Cells'
      BY <1>2, <1>6, <2>1 DEF Load, WriteAll, Write
    <2>4. b_bufrec' \in [Bufs -> Records] /\ b_dirty' \in [Bufs -> BOOLEAN]
      BY <2>2 DEF Buffers, Records
    <2>5. \A x \in Bufs \ {b} : b_bufrec[x] # r
      BY <2>1 DEF Reads, Cached, Buffers, ROOT, NoRec
    <2>6. DOMAIN OnDisk(r) = CellsOf(r)
      BY DEF OnDisk
    <2>7. (DOMAIN b_data = Bufs /\ \A x \in Bufs : DOMAIN b_data[x] = CellsOf(b_bufrec[x]))'
      BY <1>2, <2>2, <2>6 DEF Buffers, CellsOf
    <2>8. \A x, y \in Bufs : b_bufrec'[x] = b_bufrec'[y] => x = y \/ b_bufrec'[x] = NoRec
      BY <2>2, <2>5 DEF Buffers
    <2> QED
      BY <1>1, <2>3, <2>4, <2>7, <2>8 DEF Buffers
  <1>8. CASE Breaks
    BY <1>1, <1>2, <1>3, <1>6, <1>8 DEF Breaks, Broken, Write, Buffers, Records, CellsOf
  <1>9. CASE Stores
    <2>1. PICK link : Fixes(Target, link)
      BY <1>9 DEF Stores
    <2>2. /\ UNCHANGED <<disks, b_bufrec, b_dirty>> /\ DOMAIN b_data' = Bufs
          /\ \A b \in Bufs : DOMAIN b_data'[b] = DOMAIN b_data[b]
      BY <2>1 DEF Fixes, Stored
    <2> QED
      BY <1>1, <1>2, <2>2 DEF Buffers, disks, CellsOf
  <1>10. CASE Cleans
    BY <1>1, <1>2, <1>6, <1>10 DEF Cleans, WriteAll, Write, Buffers, CellsOf
  <1> QED
    BY <1>1, <1>4, <1>5, <1>7, <1>8, <1>9, <1>10 DEF BufferStep

\* the second copy is ahead of the first only in lag
LEMMA CopiesWritten ==
  ASSUME OneDrive, Buffers, CopiesAgree, UNCHANGED <<w, rs>>,
         NEW second \in SUBSET Bufs, NEW first \in SUBSET second, Write(second, first)
  PROVE  CopiesAgree'
  <1> SUFFICES ASSUME NEW c \in Cells, c \div rs \notin lag'
               PROVE  disk1'[c] = disk2'[c]
    BY DEF CopiesAgree, Cells
  <1>1. /\ disk1'[c] = Written(disk1, first)[c] /\ disk2'[c] = Written(disk2, second)[c]
        /\ lag' = (lag \ RecsOf(first)) \cup RecsOf(second \ first)
    BY DEF Write
  <1>2. CASE \E b \in first : b_bufrec[b] = c \div rs
    <2>1. PICK b \in first : b_bufrec[b] = c \div rs
      BY <1>2
    <2>2. first \in SUBSET Bufs
      OBVIOUS
    <2>3. Written(disk1, first)[c] = b_data[b][c]
      BY <2>1, <2>2, WrittenAt
    <2>4. Written(disk2, second)[c] = b_data[b][c]
      BY <2>1, WrittenAt
    <2> QED
      BY <1>1, <2>3, <2>4
  <1>3. CASE \A b \in first : b_bufrec[b] # c \div rs
    <2>1. \A b \in second : b_bufrec[b] # c \div rs
      BY <1>1, <1>3 DEF RecsOf
    <2>2. c \div rs \notin lag
      BY <1>1, <1>3 DEF RecsOf
    <2> QED
      BY <1>1, <1>3, <2>1, <2>2, WrittenAt DEF CopiesAgree
  <1> QED
    BY <1>2, <1>3

LEMMA CopiesStep ==
  ASSUME OneDrive, Buffers, CopiesAgree, BufferStep
  PROVE  CopiesAgree'
  <1>1. ASSUME NEW S \in SUBSET Bufs, WriteAll(S)
        PROVE  CopiesAgree'
    BY <1>1, CopiesWritten DEF WriteAll, BufferStep
  <1>2. CASE UNCHANGED <<disks, lag>>
    BY <1>2 DEF BufferStep, CopiesAgree, Cells, disks
  <1>3. CASE Loads
    BY <1>1, <1>3 DEF Loads, Load, ToFlush, Dirty
  <1>4. CASE Breaks
    <2>1. PICK todo \in SUBSET Bufs : Broken(todo)
      BY <1>4 DEF Breaks
    <2>2. PICK second \in Starts(todo) : \E first \in Starts(second) : Write(second, first)
      BY <2>1 DEF Broken
    <2>4. PICK first \in Starts(second) : Write(second, first)
      BY <2>2
    <2>3. second \in SUBSET Bufs /\ first \in SUBSET second
      BY DEF Starts
    <2> QED
      BY <2>3, <2>4, CopiesWritten DEF BufferStep
  <1>5. CASE Cleans
    BY <1>1, <1>5 DEF Cleans, Dirty
  <1>6. Quiet \/ Finds \/ Stores => UNCHANGED <<disks, lag>>
    BY DEF Quiet, Finds, Found, Stores, Fixes
  <1> QED
    BY <1>2, <1>3, <1>4, <1>5, <1>6 DEF BufferStep

-----------------------------------------------------------------------------
(* The call in progress.                                                   *)

\* an access to an entry leaves the call where it is, or ends it
LEMMA AccessCall ==
  ASSUME NEW c, NEW wrt, Access(c, wrt)
  PROVE  UNCHANGED files /\ (UNCHANGED call \/ pc' = "idle")
  BY DEF Access, Fetch, Halfway, getdirrecFails, getrecFails, Broken, Return

LEMMA CallsStep ==
  ASSUME Calls, [Next]_vars
  PROVE  Calls'
  <1>1. Clusters \subseteq Nat \ {0} /\ 2 \in Clusters /\ numcl \in Nat
    BY FatAssumption DEF Clusters
  <1>2. CASE UNCHANGED files /\ (UNCHANGED call \/ pc' = "idle")
    BY <1>2 DEF Calls, files, call
  <1>3. \A c, wrt : Access(c, wrt) => Calls'
    BY <1>2, AccessCall
  <1>4. CASE XrwMore \/ XrwEnds \/ XrwFails
    BY <1>4 DEF XrwMore, XrwEnds, XrwFails, Broken, Return, Calls, Goto, files, OnlyCall
  <1>5. ASSUME pc = "next", NEW c \in Clusters \cup {0}, NEW v, Beyond(c, v)
        PROVE  Calls'
    BY <1>1, <1>5 DEF Beyond, Arrive, Astray, Scan, NoNext, Return, Links, FREE, Goto, Calls, files
  <1>6. CASE NextFirst
    BY <1>1, <1>5, <1>6 DEF NextFirst
  <1>7. CASE NextFollow
    BY <1>3, <1>5, <1>7 DEF NextFollow, Calls
  <1>8. CASE NextScan
    <2>1. CASE Got(rover) = FREE /\ Grow(rover)
      BY <1>1, <1>8, <2>1 DEF NextScan, Grow, Goto, Calls
    <2>2. CASE Got(rover) # FREE /\ UNCHANGED <<pc, fd, wrtflg, cl, cl2, pointer, files>>
               /\ (LET r == (rover + 1) % numcl IN rover' = IF r < 2 THEN 2 ELSE r)
               /\ i' = i + 1
      <3>1. rover \in Nat /\ i \in Nat
        BY <1>1, <1>8 DEF NextScan, Calls
      <3>2. (rover + 1) % numcl \in 0..numcl - 1
        BY <3>1, FatAssumption
      <3>3. rover' \in Clusters
        BY <2>2, <3>2, <1>1 DEF Clusters
      <3> QED
        BY <1>8, <2>2, <3>1, <3>3 DEF NextScan, Calls, files
    <2> QED
      BY <1>3, <1>8, <2>1, <2>2 DEF NextScan
  <1>9. CASE NextFull
    BY <1>9 DEF NextFull, NoNext, Return, Calls, files
  <1>10. CASE xgscan16
    <2>1. CASE getdirrecFails(LoRec(rover)) /\ UNCHANGED <<o_strtcl, o_curcl>>
      BY <2>1 DEF getdirrecFails, getrecFails, Broken, Return, Calls
    <2> DEFINE inrec == {c \in rover..numcl - 1 : LoRec(c) = LoRec(rover)}
    <2>2. pc = "xgscan16" /\ fd \in Files /\ rover \in Nat /\ rover >= 2 /\ cl = 0
      BY <1>10 DEF xgscan16, Calls
    <2>3. CASE /\ cl2' \in inrec /\ pc' = "end"
               /\ o_strtcl' = [o_strtcl EXCEPT ![fd] = cl2']
               /\ UNCHANGED <<fd, cl, o_curcl>>
      BY <2>2, <2>3, <1>1 DEF Calls, Clusters
    <2>4. CASE /\ rover' = rover + Cardinality(inrec)
               /\ UNCHANGED <<cl2, pc, i, o_strtcl, fd, cl, o_curcl>>
      <3>1. Cardinality(inrec) \in Nat
        <4>1. IsFiniteSet(rover..numcl - 1)
          BY <2>2, <1>1, FS_Interval
        <4> QED
          BY <4>1, FS_Subset, FS_CardinalityType
      <3> QED
        BY <2>2, <2>4, <3>1 DEF Calls
    <2> QED
      BY <1>10, <2>1, <2>3, <2>4 DEF xgscan16, Goto
  <1>11. CASE NextLink
    BY <1>3, <1>11 DEF NextLink, Goto, Calls, files
  <1>12. CASE NextEnd
    BY <1>3, <1>12 DEF NextEnd, Arrive, Goto, Calls
  <1>13. CASE SeekWalk \/ SeekEnds
    BY <1>3, <1>13 DEF SeekWalk, SeekEnds, Return, Calls, files
  <1>14. CASE DeleteGet
    BY <1>3, <1>14 DEF DeleteGet, Deleted, Astray, Return, Links, Goto, Calls, files
  <1>15. CASE DeleteFix
    BY <1>3, <1>15 DEF DeleteFix, Goto, Calls, files
  <1>16. CASE \E f \in Files :
            (\E wrt \in BOOLEAN : Xrw(f, wrt)) \/ Seek(f) \/ SeekStart(f) \/ Delete(f)
    BY <1>16 DEF Xrw, Seek, SeekStart, Delete, Goto, Calls, files, call
  <1>17. CASE Close
    BY <1>2, <1>17 DEF Close, Broken, Return, files
  <1>18. CASE \E wrt \in BOOLEAN : Root(wrt)
    BY <1>2, <1>18 DEF Root, getrecFails, Broken, Return
  <1>19. CASE UNCHANGED vars
    BY <1>2, <1>19 DEF vars
  <1> QED
    BY <1>4, <1>6, <1>7, <1>8, <1>9, <1>10, <1>11, <1>12, <1>13, <1>14, <1>15, <1>16, <1>17,
       <1>18, <1>19 DEF Next, Step

\* getdirrec leaves dirrec with the buffer it got
LEMMA GetdirrecHolds ==
  ASSUME Buffers, NEW b \in Bufs, NEW r, NEW wrt \in BOOLEAN, getdirrec(b, r, wrt)
  PROVE  PointerHolds'
  BY DEF getdirrec, getrec, Found, Load, PointerHolds, Buffers

LEMMA PointerStep ==
  ASSUME Buffers, PointerHolds, [Next]_vars
  PROVE  PointerHolds'
  <1>1. CASE dirlock' \/ pc' \in {"idle", "xgscan16"}
    BY <1>1 DEF PointerHolds
  <1>2. CASE pc \notin {"idle", "xgscan16"} /\ UNCHANGED <<b_bufrec, b_dirty, pointer>>
    BY <1>2 DEF PointerHolds, pointer
  <1>3. ASSUME pc \notin {"idle", "xgscan16"},
               NEW c, NEW wrt \in BOOLEAN, Access(c, wrt)
        PROVE  PointerHolds'
    BY <1>1, <1>2, <1>3, GetdirrecHolds DEF Access, Fetch, Halfway, bufs, getdirrecFails, Lock
  <1>4. OnlyCall => UNCHANGED <<b_bufrec, b_dirty>>
    BY DEF OnlyCall, bufs
  <1>5. \A c : Gets(c) => UNCHANGED <<b_bufrec, b_dirty>>
    BY DEF Gets, bufs
  <1>6. \A c, link : Fixes(c, link) => UNCHANGED <<b_bufrec, b_dirty, pointer>>
    BY DEF Fixes
  <1>7. CASE XrwMore \/ XrwEnds \/ XrwFails
    BY <1>1, <1>2, <1>4, <1>7 DEF XrwMore, XrwEnds, XrwFails, Lock, Broken, Return
  <1>8. ASSUME pc = "next", UNCHANGED <<b_bufrec, b_dirty>>, NEW c, NEW v, Beyond(c, v)
        PROVE  PointerHolds'
    BY <1>1, <1>2, <1>8 DEF Beyond, Astray, NoNext, Lock, Scan
  <1>9. CASE NextFirst \/ NextFollow
    BY <1>3, <1>4, <1>5, <1>8, <1>9 DEF NextFirst, NextFollow
  <1>10. CASE NextScan
    BY <1>2, <1>3, <1>5, <1>10 DEF NextScan, Grow
  <1>11. CASE NextFull
    BY <1>1, <1>11 DEF NextFull, NoNext, Lock
  <1>12. CASE xgscan16
    BY <1>1, <1>12, GetdirrecHolds DEF xgscan16, getdirrecFails, Lock
  <1>13. CASE NextLink \/ NextEnd
    BY <1>2, <1>3, <1>6, <1>13 DEF NextLink, NextEnd
  <1>14. CASE SeekWalk \/ SeekEnds
    BY <1>1, <1>2, <1>3, <1>5, <1>14 DEF SeekWalk, SeekEnds, Lock
  <1>15. CASE DeleteGet \/ DeleteFix
    BY <1>1, <1>2, <1>3, <1>5, <1>6, <1>15 DEF DeleteGet, DeleteFix, Deleted, Astray, Lock
  <1>16. CASE \E f \in Files :
            (\E wrt \in BOOLEAN : Xrw(f, wrt)) \/ Seek(f) \/ SeekStart(f) \/ Delete(f)
    BY <1>1, <1>16 DEF Xrw, Seek, SeekStart, Delete, Lock, call
  <1>17. CASE Close
    BY <1>1, <1>17 DEF Close, Broken, Return, call
  <1>18. CASE \E wrt \in BOOLEAN : Root(wrt)
    BY <1>1, <1>18 DEF Root, getrecFails, Broken, Return, call
  <1>19. CASE UNCHANGED vars
    BY <1>19 DEF vars, bufs, call, pointer, PointerHolds
  <1> QED
    BY <1>7, <1>9, <1>10, <1>11, <1>12, <1>13, <1>14, <1>15, <1>16, <1>17, <1>18, <1>19
    DEF Next, Step

-----------------------------------------------------------------------------
(* Clean buffers, and what a step does to the FAT as the buffers have it.  *)

\* where no entry lies in two records, each is in the record of its first cell
LEMMA EntryAt ==
  ASSUME OneDrive, NoneSpans, NEW c \in Clusters
  PROVE  /\ ~Spans(c)
         /\ \A x \in Entry(c) : x \in Cells /\ x \div rs = LoRec(c)
  <1>1. c \in 0..numcl + 1 /\ numcl \in Nat
    BY FatAssumption DEF Clusters
  <1>2. w \in {3, 4}
    BY FatAssumption DEF OneDrive
  <1>3. \A x \in Entry(c) : x \div rs = LoRec(c)
    BY <1>1 DEF OneDrive, NoneSpans, Entry, LoRec
  <1>4. w * c + w - 1 \in Entry(c)
    BY <1>1, <1>2 DEF Entry
  <1>5. Entry(c) \subseteq Cells
    BY <1>1, <1>2 DEF Entry, Cells
  <1> QED
    BY <1>3, <1>4, <1>5 DEF Spans, HiRec

\* then clfix and getcl never need a second record
LEMMA HalfStep ==
  ASSUME OneDrive, NoneSpans, Calls, half = <<>>, [Next]_vars
  PROVE  half' = <<>>
  <1>1. ASSUME NEW c \in Clusters, NEW wrt, Access(c, wrt)
        PROVE  half' = <<>>
    BY <1>1, EntryAt DEF Access, Fetch, Halfway, Last2, getdirrecFails, getrecFails, Broken
  <1>2. OnlyCall => half' = <<>>
    BY DEF OnlyCall
  <1>3. \A c : Gets(c) => half' = <<>>
    BY DEF Gets
  <1>4. \A c, link : Fixes(c, link) => half' = <<>>
    BY DEF Fixes
  <1>5. CASE XrwMore \/ XrwEnds \/ XrwFails \/ NextFirst \/ NextFull
    BY <1>2, <1>5 DEF XrwMore, XrwEnds, XrwFails, Broken, NextFirst, NextFull
  <1>6. CASE NextFollow \/ NextScan
    BY <1>1, <1>3, <1>6 DEF NextFollow, NextScan, Calls
  <1>7. CASE xgscan16
    BY <1>7 DEF xgscan16, getdirrecFails, getrecFails, Broken
  <1>8. CASE NextLink \/ NextEnd \/ DeleteFix
    BY <1>1, <1>4, <1>8 DEF NextLink, NextEnd, DeleteFix, Calls
  <1>9. CASE SeekWalk \/ SeekEnds \/ DeleteGet
    BY <1>1, <1>2, <1>3, <1>9 DEF SeekWalk, SeekEnds, DeleteGet, Calls
  <1>10. CASE \E f \in Files :
            (\E wrt \in BOOLEAN : Xrw(f, wrt)) \/ Seek(f) \/ SeekStart(f) \/ Delete(f)
    BY <1>2, <1>10 DEF Xrw, Seek, SeekStart, Delete
  <1>11. CASE Close \/ \E wrt \in BOOLEAN : Root(wrt)
    BY <1>11 DEF Close, Root, getrecFails, Broken
  <1> QED
    BY <1>5, <1>6, <1>7, <1>8, <1>9, <1>10, <1>11 DEF Next, Step, vars

\* clfix stores into one buffer, a dirty one that holds the entry
LEMMA StoresAt ==
  ASSUME OneDrive, NoneSpans, Calls, Buffers, PointerHolds, half = <<>>,
         pc \in {"link", "unlink", "end"}, NEW link, Fixes(Target, link)
  PROVE  /\ Target \in Clusters /\ dirrec \in Bufs /\ b_dirty[dirrec]
         /\ b_data' = [b \in Bufs |-> IF b = dirrec THEN Stored(b_data[b], Target, link)
                                      ELSE b_data[b]]
         /\ UNCHANGED <<w, rs, may, disks, b_bufrec, b_dirty, errs, lag>>
  <1>1. Target \in Clusters
    BY DEF Target, Calls
  <1>2. ~dirlock /\ rwrtflg
    BY DEF Fixes, Has, Hit
  <1>3. dirrec \in Bufs /\ b_dirty[dirrec]
    BY <1>2 DEF PointerHolds
  <1>4. ~Spans(Target)
    BY <1>1, EntryAt
  <1> QED
    BY <1>1, <1>3, <1>4 DEF Fixes

\* what is not dirty may be dropped
LEMMA CleanStep ==
  ASSUME OneDrive, NoneSpans, Calls, Buffers, PointerHolds, CleanMatches, half = <<>>, BufferStep
  PROVE  CleanMatches'
  <1>1. rs' = rs /\ Cells' = Cells
    BY DEF BufferStep, Cells
  <1>2. \A b \in Bufs : \A c \in CellsOf(b_bufrec[b]) : c \in Cells /\ b_bufrec[b] = c \div rs
    BY DEF CellsOf
  <1>3. ASSUME NEW S \in SUBSET Bufs, NEW x \in Bufs \ S, NEW c \in CellsOf(b_bufrec[x])
        PROVE  Written(disk2, S)[c] = disk2[c]
    <2>1. c \in Cells /\ b_bufrec[x] = c \div rs /\ b_bufrec[x] # NoRec
      BY <1>2, CellRec DEF NoRec
    <2>2. \A b \in S : b_bufrec[b] # c \div rs
      BY <2>1 DEF Buffers
    <2> QED
      BY <2>1, <2>2, WrittenAt
  <1>4. ASSUME NEW S \in SUBSET Bufs, NEW x \in S, NEW c \in CellsOf(b_bufrec[x])
        PROVE  Written(disk2, S)[c] = b_data[x][c]
    BY <1>2, WrittenAt
  <1>5. ASSUME NEW S \in SUBSET Bufs, disk2' = Written(disk2, S),
               NEW x \in Bufs, ~b_dirty[x] \/ x \in S
        PROVE  \A c \in CellsOf(b_bufrec[x]) : b_data[x][c] = disk2'[c]
    BY <1>3, <1>4, <1>5 DEF CleanMatches
  <1>6. CASE Quiet \/ Finds
    <2>1. /\ UNCHANGED <<disk2, b_bufrec, b_data>>
          /\ \A b \in Bufs : ~b_dirty'[b] => ~b_dirty[b]
      BY <1>6 DEF Quiet, Finds, Found, disks, Buffers
    <2> QED
      BY <1>1, <2>1 DEF CleanMatches, CellsOf
  <1>7. CASE Loads
    <2>1. PICK b \in Bufs, r \in {ROOT} \cup Nat, wrt \in BOOLEAN :
            Reads(b, r) /\ Load(b, r, wrt) /\ UNCHANGED errs
      BY <1>7 DEF Loads
    <2>2. /\ b_bufrec' = [b_bufrec EXCEPT ![b] = r]
          /\ b_dirty' = [x \in Bufs |->
               IF x = b THEN wrt ELSE b_dirty[x] /\ x \notin ToFlush(b)]
          /\ b_data' = [b_data EXCEPT ![b] = OnDisk(r)]
          /\ disk2' = Written(disk2, ToFlush(b))
      BY <2>1 DEF Load, WriteAll, Write
    <2>3. ToFlush(b) \in SUBSET Bufs
      BY DEF ToFlush, Dirty
    <2>4. ASSUME NEW x \in Bufs, ~b_dirty'[x], x # b
          PROVE  \A c \in CellsOf(b_bufrec[x]) : b_data[x][c] = disk2'[c]
      BY <1>5, <2>2, <2>3, <2>4
    <2>5. \A c \in CellsOf(r) : OnDisk(r)[c] = disk2'[c]
      BY DEF OnDisk
    <2> QED
      BY <1>1, <2>2, <2>4, <2>5 DEF CleanMatches, CellsOf, Buffers
  <1>8. CASE Breaks
    BY <1>8 DEF Breaks, Broken, CleanMatches, CellsOf, NoRec
  <1>9. CASE Stores
    <2>1. PICK link : Fixes(Target, link)
      BY <1>9 DEF Stores
    <2>2. \A b \in Bufs : ~b_dirty'[b] => ~b_dirty[b] /\ b_data'[b] = b_data[b]
      BY <1>9, <2>1, StoresAt DEF Stores
    <2>3. UNCHANGED <<disk2, b_bufrec>>
      BY <1>9, <2>1, StoresAt DEF Stores, disks
    <2> QED
      BY <1>1, <2>2, <2>3 DEF CleanMatches, CellsOf
  <1>10. CASE Cleans
    <2> DEFINE S == Dirty("FAT") \cup Dirty("ROOT")
    <2>1. S \in SUBSET Bufs
      BY DEF Dirty
    <2>2. disk2' = Written(disk2, S) /\ UNCHANGED <<b_bufrec, b_data>>
      BY <1>10 DEF Cleans, WriteAll, Write
    <2>3. \A x \in Bufs : ~b_dirty[x] \/ x \in S \/ b_bufrec[x] = NoRec
      BY DEF Dirty, Typ
    <2>4. CellsOf(NoRec) = {}
      BY DEF CellsOf, NoRec
    <2>5. \A x \in Bufs : \A c \in CellsOf(b_bufrec[x]) : b_data[x][c] = disk2'[c]
      BY <1>5, <2>1, <2>2, <2>3, <2>4
    <2> QED
      BY <1>1, <2>2, <2>5 DEF CleanMatches, CellsOf
  <1> QED
    BY <1>6, <1>7, <1>8, <1>9, <1>10 DEF BufferStep

\* CellNowIs for the state after a step
LEMMA CellNextIs ==
  ASSUME OneDrive, Buffers', UNCHANGED <<w, rs>>, NEW c \in Cells
  PROVE  /\ \A b \in Bufs : b_bufrec'[b] = c \div rs => CellNow(c)' = b_data'[b][c]
         /\ (\A b \in Bufs : b_bufrec'[b] # c \div rs) => CellNow(c)' = disk2'[c]
  <1>1. NoRec # c \div rs
    BY CellRec DEF NoRec
  <1>2. \A a, b \in Bufs : b_bufrec'[a] = c \div rs /\ b_bufrec'[b] = c \div rs => a = b
    BY <1>1 DEF Buffers
  <1>3. ASSUME NEW b \in Bufs, b_bufrec'[b] = c \div rs
        PROVE  CellNow(c)' = b_data'[b][c]
    <2>1. b = CHOOSE x \in Bufs : b_bufrec'[x] = c \div rs
      BY <1>2, <1>3
    <2> QED
      BY <1>3, <2>1 DEF CellNow
  <1> QED
    BY <1>3 DEF CellNow

\* what is written to the disk is what the buffers have
LEMMA WrittenIsNow ==
  ASSUME OneDrive, Buffers, NEW S \in SUBSET Bufs, NEW c \in Cells
  PROVE  Written(disk2, S)[c] \in {disk2[c], CellNow(c)}
  <1>1. CASE \E b \in S : b_bufrec[b] = c \div rs
    BY <1>1, WrittenAt, CellNowIs
  <1>2. CASE \A b \in S : b_bufrec[b] # c \div rs
    BY <1>2, WrittenAt
  <1> QED
    BY <1>1, <1>2

\* the buffers are as good as the FAT itself: only clfix changes it
LEMMA LogicalKept ==
  ASSUME OneDrive, Buffers, Buffers', CleanMatches, BufferStep, ~Breaks, ~Stores,
         NEW c \in Cells
  PROVE  /\ CellNow(c)' = CellNow(c) /\ disk2'[c] \in {disk2[c], CellNow(c)}
         /\ errs' = errs
  <1>1. UNCHANGED <<w, rs>>
    BY DEF BufferStep
  <1>2. \A x \in Bufs : b_bufrec[x] = c \div rs /\ ~b_dirty[x] => b_data[x][c] = disk2[c]
    BY CellRec DEF CleanMatches, Buffers
  <1>3. CASE Quiet \/ Finds
    BY <1>1, <1>3, CellNowIs, CellNextIs DEF Quiet, Finds, Found, disks
  <1>4. CASE Loads
    <2>1. PICK b \in Bufs, r \in {ROOT} \cup Nat, wrt \in BOOLEAN :
            Reads(b, r) /\ Load(b, r, wrt) /\ UNCHANGED errs
      BY <1>4 DEF Loads
    <2>2. /\ b_bufrec' = [b_bufrec EXCEPT ![b] = r]
          /\ b_data' = [b_data EXCEPT ![b] = OnDisk(r)]
          /\ disk2' = Written(disk2, ToFlush(b))
      BY <2>1 DEF Load, WriteAll, Write
    <2>3. ToFlush(b) \in SUBSET Bufs
      BY DEF ToFlush, Dirty
    <2>4. disk2'[c] \in {disk2[c], CellNow(c)}
      BY <2>2, <2>3, WrittenIsNow
    <2>5. b_bufrec[b] = c \div rs => disk2'[c] = CellNow(c)
      <3> SUFFICES ASSUME b_bufrec[b] = c \div rs
                   PROVE  disk2'[c] = CellNow(c)
        OBVIOUS
      <3>1. CellNow(c) = b_data[b][c] /\ b_bufrec[b] # NoRec
        BY CellNowIs, CellRec DEF NoRec
      <3>2. CASE b_dirty[b]
        <4>1. b \in ToFlush(b)
          BY <3>1, <3>2 DEF ToFlush, Dirty
        <4> QED
          BY <2>2, <2>3, <3>1, <4>1, WrittenAt
      <3>3. CASE ~b_dirty[b]
        BY <1>2, <2>4, <3>1, <3>3
      <3> QED
        BY <3>2, <3>3
    <2>6. (\A x \in Bufs : b_bufrec[x] # c \div rs) => disk2'[c] = CellNow(c)
      BY <2>2, <2>3, WrittenAt, CellNowIs
    <2>7. CASE r = c \div rs
      <3>1. CellNow(c)' = disk2'[c]
        <4>1. b_bufrec'[b] = c \div rs
          BY <2>2, <2>7 DEF Buffers
        <4>2. CellNow(c)' = b_data'[b][c]
          BY <1>1, <4>1, CellNextIs
        <4>3. c \in CellsOf(r)
          BY <2>7, CellRec DEF Records
        <4> QED
          BY <2>2, <4>2, <4>3 DEF OnDisk, Buffers
      <3>2. b_bufrec[b] = c \div rs \/ \A x \in Bufs : b_bufrec[x] # c \div rs
        BY <2>1, <2>7 DEF Reads, Cached
      <3> QED
        BY <2>1, <2>4, <2>5, <2>6, <3>1, <3>2
    <2>8. CASE r # c \div rs
      <3>1. CASE \E x \in Bufs \ {b} : b_bufrec[x] = c \div rs
        <4>1. PICK x \in Bufs \ {b} : b_bufrec[x] = c \div rs
          BY <3>1
        <4>2. b_bufrec'[x] = c \div rs /\ b_data'[x] = b_data[x]
          BY <2>2, <4>1 DEF Buffers
        <4> QED
          BY <1>1, <2>1, <2>4, <4>1, <4>2, CellNowIs, CellNextIs
      <3>2. CASE \A x \in Bufs \ {b} : b_bufrec[x] # c \div rs
        <4>1. \A x \in Bufs : b_bufrec'[x] # c \div rs
          BY <2>2, <2>8, <3>2 DEF Buffers
        <4>2. CellNow(c)' = disk2'[c]
          BY <1>1, <4>1, CellNextIs
        <4> QED
          BY <2>1, <2>4, <2>5, <2>6, <3>2, <4>2
      <3> QED
        BY <3>1, <3>2
    <2> QED
      BY <2>7, <2>8
  <1>5. CASE Cleans
    <2> DEFINE S == Dirty("FAT") \cup Dirty("ROOT")
    <2>1. S \in SUBSET Bufs
      BY DEF Dirty
    <2>2. disk2' = Written(disk2, S) /\ UNCHANGED <<b_bufrec, b_data, errs>>
      BY <1>5 DEF Cleans, WriteAll, Write
    <2>3. disk2'[c] \in {disk2[c], CellNow(c)}
      BY <2>1, <2>2, WrittenIsNow
    <2>4. CASE \E x \in Bufs : b_bufrec[x] = c \div rs
      BY <1>1, <2>2, <2>3, <2>4, CellNowIs, CellNextIs
    <2>5. CASE \A x \in Bufs : b_bufrec[x] # c \div rs
      <3>1. disk2'[c] = disk2[c]
        BY <2>1, <2>2, <2>5, WrittenAt
      <3>2. CellNow(c) = disk2[c]
        BY <2>5, CellNowIs
      <3>3. CellNow(c)' = disk2'[c]
        BY <1>1, <2>2, <2>5, CellNextIs
      <3> QED
        BY <2>2, <3>1, <3>2, <3>3
    <2> QED
      BY <2>4, <2>5
  <1> QED
    BY <1>3, <1>4, <1>5 DEF BufferStep

\* a disk error leaves what the disk has
LEMMA LogicalLost ==
  ASSUME OneDrive, Buffers, Buffers', UNCHANGED <<w, rs>>, Breaks, NEW c \in Cells
  PROVE  /\ CellNow(c)' = disk2'[c] /\ disk2'[c] \in {disk2[c], CellNow(c)}
         /\ errs' = errs + 1
  <1>1. PICK todo \in SUBSET Bufs : Broken(todo)
    BY DEF Breaks
  <1>2. PICK second \in Starts(todo) : disk2' = Written(disk2, second)
    BY <1>1 DEF Broken, Write
  <1>3. second \in SUBSET Bufs
    BY DEF Starts
  <1>4. disk2'[c] \in {disk2[c], CellNow(c)}
    BY <1>2, <1>3, WrittenIsNow
  <1>5. \A b \in Bufs : b_bufrec'[b] # c \div rs
    BY <1>1, CellRec DEF Broken, NoRec
  <1> QED
    BY <1>1, <1>4, <1>5, CellNextIs DEF Broken

\* clfix changes one entry
LEMMA LogicalStored ==
  ASSUME OneDrive, NoneSpans, Calls, Buffers, Buffers', PointerHolds, half = <<>>, Stores,
         NEW c \in Cells \ Entry(Target)
  PROVE  Target \in Clusters /\ CellNow(c)' = CellNow(c) /\ UNCHANGED <<disk2, errs>>
  <1>1. PICK link : Fixes(Target, link)
    BY DEF Stores
  <1>2. /\ Target \in Clusters /\ dirrec \in Bufs
        /\ b_data' = [b \in Bufs |-> IF b = dirrec THEN Stored(b_data[b], Target, link)
                                     ELSE b_data[b]]
        /\ UNCHANGED <<w, rs, disk2, b_bufrec, errs>>
    BY <1>1, StoresAt DEF Stores, disks
  <1>3. ASSUME NEW b \in Bufs, b_bufrec[b] = c \div rs
        PROVE  CellNow(c)' = CellNow(c)
    <2>1. c \in DOMAIN b_data[b]
      BY <1>3, CellRec DEF Buffers
    <2>2. b_data'[b][c] = b_data[b][c]
      BY <1>2, <2>1 DEF Stored
    <2> QED
      BY <1>2, <1>3, <2>2, CellNowIs, CellNextIs
  <1> QED
    BY <1>2, <1>3, CellNowIs, CellNextIs

-----------------------------------------------------------------------------
(* The theorems.                                                           *)

LEMMA StepBuffers ==
  ASSUME OneDrive, Calls, [Next]_vars
  PROVE  BufferStep
  <1>1. CASE UNCHANGED vars
    BY <1>1 DEF vars, bufs, BufferStep, Quiet
  <1> QED
    BY <1>1, NextBuffers

LEMMA SoundInit ==
  ASSUME Init
  PROVE  Sound
  <1>1. PICK g \in Geoms : w = g.w /\ rs = g.rs /\ may = g.may
    BY DEF Init
  <1>2. PICK ch \in Chains :
          /\ disk2 = FatOf(ch)
          /\ o_strtcl = [f \in Files |-> IF ch[f] = <<>> THEN 0 ELSE Head(ch[f])]
    BY DEF Init
  <1>3. OneDrive
    BY <1>1 DEF OneDrive
  <1>4. DOMAIN disk2 = Cells /\ disk1 = disk2
    BY <1>2 DEF Init, FatOf
  <1>5. CellsOf(NoRec) = {}
    BY DEF CellsOf, NoRec
  <1>6. Buffers
    BY <1>4, <1>5 DEF Init, Buffers, Records
  <1>7. Calls
    <2>1. \A f \in Files : ch[f] \in Seq(Clusters)
      BY FatAssumption
    <2>2. \A f \in Files : ch[f] # <<>> => Head(ch[f]) \in Clusters
      BY <2>1
    <2>3. o_strtcl \in [Files -> Clusters \cup {0}]
      BY <1>2, <2>2
    <2> QED
      BY <2>3 DEF Init, Calls
  <1>8. PointerHolds /\ CopiesAgree
    BY <1>4 DEF Init, PointerHolds, CopiesAgree
  <1> QED
    BY <1>3, <1>6, <1>7, <1>8 DEF Sound

LEMMA SoundStep ==
  ASSUME Sound, [Next]_vars
  PROVE  Sound'
  <1>1. BufferStep
    BY StepBuffers DEF Sound
  <1> QED
    BY <1>1, BuffersStep, CallsStep, PointerStep, CopiesStep DEF Sound

LEMMA SoundAlways == Spec => []Sound
  <1>1. Init => Sound
    BY SoundInit
  <1>2. Sound /\ [Next]_vars => Sound'
    BY SoundStep
  <1> QED
    BY <1>1, <1>2, PTL DEF Spec

\* On every drive, a 12-bit FAT with entries in two records included, the two
\* copies of the FAT differ only where a write to the first has failed: what
\* flushbcb writes to one it writes to the other from the same buffer.
THEOREM CopiesAlwaysAgree == Spec => []CopiesAgree
  <1>1. Sound => CopiesAgree
    BY DEF Sound
  <1> QED
    BY <1>1, SoundAlways, PTL

\* On every drive getcl and clfix find at dirrec the record they think it is.
THEOREM PointerAlwaysHolds == Spec => []PointerHolds
  <1>1. Sound => PointerHolds
    BY DEF Sound
  <1> QED
    BY <1>1, SoundAlways, PTL

\* what holds besides where no entry lies in two records
Clean == CleanMatches /\ half = <<>>

LEMMA CleanAlways ==
  ASSUME NoneSpans
  PROVE  Spec => [](Sound /\ Clean)
  <1>1. Init => Sound /\ Clean
    <2>1. Init => Clean
      BY DEF Init, Clean, CleanMatches, CellsOf, NoRec
    <2> QED
      BY <2>1, SoundInit
  <1>2. Sound /\ Clean /\ [Next]_vars => Sound' /\ Clean'
    <2> SUFFICES ASSUME Sound, Clean, [Next]_vars
                 PROVE  Sound' /\ Clean'
      OBVIOUS
    <2>1. BufferStep
      BY StepBuffers DEF Sound
    <2>2. CleanMatches' /\ half' = <<>>
      BY <2>1, CleanStep, HalfStep DEF Sound, Clean
    <2> QED
      BY <2>2, SoundStep DEF Clean
  <1> QED
    BY <1>1, <1>2, PTL DEF Spec

\* Where no entry of the FAT lies in two records, every buffer that is not
\* dirty has what the disk has, and clfix writes to a dirty buffer only.
THEOREM BuffersAlwaysHold ==
  ASSUME NoneSpans
  PROVE  Spec => []BuffersHold
  <1>1. Sound /\ Clean => BuffersHold
    BY DEF Sound, Clean, BuffersHold
  <1> QED
    BY <1>1, CleanAlways, PTL

\* a step of the buffers is a step of the map, or none
LEMMA MapStep ==
  ASSUME NoneSpans, Sound, Clean, Sound', [Next]_vars
  PROVE  [Fat!MapNext]_(Fat!mapVars)
  <1>1. BufferStep
    BY StepBuffers DEF Sound
  <1>2. UNCHANGED <<w, rs>> /\ Cells' = Cells
    BY <1>1 DEF BufferStep, Cells
  <1>3. DOMAIN disk2 = Cells /\ DOMAIN disk2' = Cells
    BY <1>2 DEF Sound, Buffers
  <1>4. /\ Logical = [c \in Cells |-> CellNow(c)]
        /\ Logical' = [c \in Cells |-> CellNow(c)']
    BY <1>2 DEF Logical
  <1>5. CASE ~Breaks /\ ~Stores
    <2>1. \A c \in Cells :
            CellNow(c)' = CellNow(c) /\ disk2'[c] \in {disk2[c], CellNow(c)} /\ errs' = errs
      BY <1>1, <1>5, LogicalKept DEF Sound, Clean
    <2>2. Logical' = Logical
      BY <1>4, <2>1
    <2>3. errs' = errs
      BY <1>1, <1>5 DEF BufferStep, Quiet, Finds, Loads, Cleans
    <2>4. Fat!Towards(disk2, disk2', Logical)
      BY <1>3, <1>4, <2>1 DEF Fat!Towards
    <2> QED
      BY <1>2, <2>2, <2>3, <2>4 DEF Fat!MapNext, Fat!WriteBack
  <1>6. CASE Breaks
    <2>1. \A c \in Cells : CellNow(c)' = disk2'[c] /\ disk2'[c] \in {disk2[c], CellNow(c)}
      BY <1>2, <1>6, LogicalLost DEF Sound
    <2>2. disk2' = [c \in Cells |-> disk2'[c]] /\ errs' = errs + 1
      BY <1>6 DEF Breaks, Broken, Write, Written
    <2>3. Logical' = disk2'
      BY <1>4, <2>1, <2>2
    <2>4. Fat!Towards(disk2, disk2', Logical)
      BY <1>3, <1>4, <2>1 DEF Fat!Towards
    <2> QED
      BY <1>2, <2>2, <2>3, <2>4 DEF Fat!MapNext, Fat!Fail
  <1>7. CASE Stores
    <2>1. \A c \in Cells \ Entry(Target) : CellNow(c)' = CellNow(c)
      BY <1>7, LogicalStored DEF Sound, Clean
    <2>2. PICK link : Fixes(Target, link)
      BY <1>7 DEF Stores
    <2>3. Target \in Clusters /\ UNCHANGED <<disk2, errs>>
      BY <1>7, <2>2, StoresAt DEF Stores, Sound, Clean, disks
    <2>4. Fat!EntryCells(Target) = Entry(Target)
      BY DEF Fat!EntryCells, Entry
    <2>5. Fat!Same(Logical', Logical, DOMAIN Logical \ Fat!EntryCells(Target))
      BY <1>4, <2>1, <2>4 DEF Fat!Same
    <2>6. Fat!Set(Target)
      BY <1>2, <1>4, <2>3, <2>5 DEF Fat!Set
    <2> QED
      BY <2>3, <2>6 DEF Fat!MapNext
  <1> QED
    BY <1>5, <1>6, <1>7

\* Where no entry lies in two records, the buffers are a table of cells that
\* clfix changes one entry at a time: reading a record, taking its buffer for
\* another one, writing it back and the flush of Fclose change nothing.
THEOREM ImplementsMap ==
  ASSUME NoneSpans
  PROVE  Spec => KeepsFat
  <1>1. Init => Fat!MapInit
    <2> SUFFICES ASSUME Init
                 PROVE  Fat!MapInit
      OBVIOUS
    <2>1. Sound
      BY SoundInit
    <2>2. ASSUME NEW c \in Cells
          PROVE  CellNow(c) = disk2[c]
      BY <2>1, CellNowIs, CellRec DEF Sound, Init, NoRec
    <2>3. disk2 = [c \in Cells |-> disk2[c]]
      BY DEF Init, FatOf
    <2> QED
      BY <2>2, <2>3 DEF Logical, Fat!MapInit, Init
  <1>2. [](Sound /\ Clean) /\ [][Next]_vars => [][Fat!MapNext]_(Fat!mapVars)
    BY MapStep, PTL
  <1> QED
    BY <1>1, <1>2, CleanAlways, PTL DEF Spec, KeepsFat, Fat!MapSpec

\* A drive with 16-bit entries, whose records have a whole number of them, is
\* one where no entry lies in two records.
LEMMA SixteenBit ==
  ASSUME \A g \in Geoms : g.w = 4 /\ \E n \in Nat \ {0} : g.rs = 4 * n
  PROVE  NoneSpans
  <1>1. ASSUME NEW c \in Nat, NEW k \in 0..3, NEW n \in Nat \ {0}
        PROVE  (4 * c + k) \div (4 * n) = c \div n
    OBVIOUS
  <1>2. ASSUME NEW g \in Geoms, NEW c \in 0..numcl + 1, NEW x \in g.w * c .. g.w * c + g.w - 1
        PROVE  x \div g.rs = (g.w * c) \div g.rs
    <2>1. PICK n \in Nat \ {0} : g.rs = 4 * n
      OBVIOUS
    <2>2. c \in Nat /\ g.w = 4
      BY FatAssumption
    <2>3. PICK k \in 0..3 : x = 4 * c + k
      <3>1. x - 4 * c \in 0..3 /\ x = 4 * c + (x - 4 * c)
        BY <2>2
      <3> QED
        BY <3>1
    <2>4. x \div g.rs = c \div n
      BY <1>1, <2>1, <2>2, <2>3
    <2>5. (4 * c + 0) \div (4 * n) = c \div n
      BY <1>1, <2>2
    <2>6. (4 * c) \div (4 * n) = c \div n
      BY <2>2, <2>5
    <2> QED
      BY <2>1, <2>2, <2>4, <2>6
  <1> QED
    BY <1>2 DEF NoneSpans

\* a link changes only if a cell of its entry does
LEMMA LinkSame ==
  ASSUME UNCHANGED w, NEW c \in Clusters, OneDrive,
         \A x \in Entry(c) : CellNow(x)' = CellNow(x)
  PROVE  LinkOf(c)' = LinkOf(c)
  <1>1. c \in Nat /\ w \in Nat
    BY FatAssumption DEF Clusters, OneDrive
  <1>2. \A k \in 0..w - 1 : w * c + k \in Entry(c)
    BY <1>1 DEF Entry
  <1>3. [k \in 0..w - 1 |-> CellNow(w * c + k)]' = [k \in 0..w - 1 |-> CellNow(w * c + k)]
    BY <1>2
  <1> QED
    BY <1>3 DEF LinkOf

\* the entries of two clusters have no cell in common
LEMMA EntriesApart ==
  ASSUME OneDrive, NEW c \in Clusters, NEW d \in Clusters, c # d, NEW x \in Entry(c)
  PROVE  x \notin Entry(d)
  <1>1. c \in Nat /\ d \in Nat /\ w \in {3, 4}
    BY FatAssumption DEF Clusters, OneDrive
  <1>2. CASE w = 3
    BY <1>1, <1>2 DEF Entry
  <1>3. CASE w = 4
    BY <1>1, <1>3 DEF Entry
  <1> QED
    BY <1>1, <1>2, <1>3

\* what a step may change of the FAT
LEMMA LinksStep ==
  ASSUME NoneSpans, Sound, Clean, [Next]_vars, NEW c \in Clusters, LinkOf(c)' # LinkOf(c)
  PROVE  Breaks \/ (Stores /\ c = Target)
  <1>1. BufferStep
    BY StepBuffers DEF Sound
  <1>2. UNCHANGED w
    BY <1>1 DEF BufferStep
  <1>3. Sound'
    BY SoundStep
  <1>4. Entry(c) \subseteq Cells
    BY EntryAt DEF Sound
  <1>5. CASE ~Breaks /\ ~Stores
    <2>1. \A x \in Entry(c) : CellNow(x)' = CellNow(x)
      BY <1>1, <1>3, <1>4, <1>5, LogicalKept DEF Sound, Clean
    <2> QED
      BY <1>2, <2>1, LinkSame DEF Sound
  <1>6. CASE Stores /\ c # Target
    <2>1. Target \in Clusters
      BY <1>6, StoresAt DEF Stores, Sound, Clean
    <2>2. \A x \in Entry(c) : x \in Cells \ Entry(Target)
      BY <1>4, <1>6, <2>1, EntriesApart DEF Sound
    <2>3. \A x \in Entry(c) : CellNow(x)' = CellNow(x)
      BY <1>3, <1>6, <2>2, LogicalStored DEF Sound, Clean
    <2> QED
      BY <1>2, <2>3, LinkSame DEF Sound
  <1> QED
    BY <1>5, <1>6

\* Where no entry lies in two records, an entry of the FAT changes only when
\* clfix replaces it, or in a disk error.  (With 12-bit entries in two
\* records, the run disk_12 shows one that changes by itself.)
THEOREM OnlyClfixChanges ==
  ASSUME NoneSpans
  PROVE  Spec => OnlyClfix
  <1>1. ASSUME Sound, Clean, [Next]_vars
        PROVE  \A c \in Clusters : LinkOf(c)' # LinkOf(c) =>
                 \/ pc \in {"link", "unlink"} /\ c = cl
                 \/ pc = "end" /\ c = cl2
                 \/ errs' # errs
    <2> SUFFICES ASSUME NEW c \in Clusters, LinkOf(c)' # LinkOf(c)
                 PROVE  \/ pc \in {"link", "unlink"} /\ c = cl
                        \/ pc = "end" /\ c = cl2
                        \/ errs' # errs
      OBVIOUS
    <2>1. CASE Breaks
      BY <2>1 DEF Breaks, Broken
    <2>2. CASE Stores /\ c = Target
      BY <2>2 DEF Stores, Target
    <2> QED
      BY <1>1, <2>1, <2>2, LinksStep
  <1>2. Sound /\ Clean /\ [Next]_vars =>
          [\A c \in Clusters : LinkOf(c)' # LinkOf(c) =>
             \/ pc \in {"link", "unlink"} /\ c = cl
             \/ pc = "end" /\ c = cl2
             \/ errs' # errs]_vars
    BY <1>1
  <1> QED
    BY <1>2, CleanAlways, PTL DEF Spec, OnlyClfix

-----------------------------------------------------------------------------
(* A full disk.                                                            *)

ScanStart == IF cl < 2 THEN 2 ELSE cl
\* The clusters looked at so far are not free.  A scan that starts at
\* ScanStart has come to rover in i - 2 steps, or once round the end.
Scanned ==
  /\ pc = "scan" /\ cl < numcl /\ numcl > 2 =>
       /\ rover \in 2..numcl - 1
       /\ \/ /\ rover = ScanStart + (i - 2)
             /\ \A c \in ScanStart..rover - 1 : LinkOf(c) # FREE
          \/ /\ rover = ScanStart + (i - 2) - (numcl - 2)
             /\ \A c \in 2..numcl - 1 : c >= ScanStart \/ c < rover => LinkOf(c) # FREE
  /\ pc = "xgscan16" => \A c \in 2..numcl - 1 : c < rover => LinkOf(c) # FREE

\* where getcl finds its record at dirrec, it returns what the FAT has
LEMMA GotIs ==
  ASSUME NoneSpans, Sound, Clean, NEW c \in Clusters,
         pc \notin {"idle", "xgscan16"}, Has(c, FALSE)
  PROVE  Got(c) = LinkOf(c)
  <1>1. ~dirlock /\ rrecno = LoRec(c)
    BY DEF Has, Hit, Need, Clean
  <1>2. dirrec \in Bufs /\ b_bufrec[dirrec] = LoRec(c)
    BY <1>1 DEF Sound, PointerHolds
  <1>3. \A x \in Entry(c) : CellNow(x) = b_data[dirrec][x]
    BY <1>2, EntryAt, CellNowIs DEF Sound
  <1>4. c \in Nat /\ w \in Nat
    BY FatAssumption DEF Clusters, Sound, OneDrive
  <1>5. \A k \in 0..w - 1 : w * c + k \in Entry(c)
    BY <1>4 DEF Entry
  <1>6. DOMAIN half = {}
    BY DEF Clean
  <1> QED
    BY <1>3, <1>5, <1>6 DEF Got, LinkOf

\* how a scan begins and goes on
LEMMA ScanSteps ==
  ASSUME NoneSpans, Sound, Clean, [Next]_vars, pc' \in {"scan", "xgscan16"}
  PROVE  \/ UNCHANGED <<pc, rover, i, cl>>
         \/ /\ pc = "next" /\ \E c \in Clusters \cup {0} :
                 cl' = c /\ rover' = (IF c < 2 THEN 2 ELSE c) /\ i' = 2
            /\ pc' = "xgscan16" => cl' = 0
         \/ /\ pc = "scan" /\ pc' = "scan" /\ i < numcl /\ LinkOf(rover) # FREE
            /\ LET r == (rover + 1) % numcl IN rover' = IF r < 2 THEN 2 ELSE r
            /\ i' = i + 1 /\ cl' = cl
         \/ pc = "xgscan16" /\ pc' = "xgscan16" /\ xgscan16
  <1>1. ASSUME NEW c, NEW wrt, Access(c, wrt), pc' # "idle"
        PROVE  UNCHANGED <<pc, rover, i, cl>>
    BY <1>1, AccessCall DEF call
  <1>2. ASSUME pc = "next", NEW c \in Clusters \cup {0}, NEW v, Beyond(c, v)
        PROVE  /\ cl' = c /\ rover' = (IF c < 2 THEN 2 ELSE c) /\ i' = 2
               /\ pc' = "xgscan16" => cl' = 0
    BY <1>2 DEF Beyond, Arrive, Astray, Scan, NoNext, Return, Goto
  <1>3. CASE NextFirst
    BY <1>2, <1>3 DEF NextFirst
  <1>4. CASE NextFollow
    BY <1>1, <1>2, <1>4 DEF NextFollow, Sound, Calls
  <1>5. CASE NextScan
    <2>1. rover \in Clusters /\ pc = "scan"
      BY <1>5 DEF NextScan, Sound, Calls
    <2>2. Gets(rover) => Got(rover) = LinkOf(rover)
      BY <2>1, GotIs DEF Gets
    <2> QED
      BY <1>1, <1>5, <2>1, <2>2 DEF NextScan, Grow, Goto
  <1>6. CASE xgscan16
    <2>1. pc = "xgscan16"
      BY <1>6 DEF xgscan16
    <2>2. CASE pc' = "scan"
      BY <1>6, <2>2 DEF xgscan16, Goto, getdirrecFails, getrecFails, Broken, Return
    <2> QED
      BY <1>6, <2>1, <2>2
  <1>7. CASE XrwMore \/ XrwEnds \/ XrwFails \/ NextFull
    BY <1>7 DEF XrwMore, XrwEnds, XrwFails, NextFull, NoNext, Broken, Return, Goto
  <1>8. CASE NextLink \/ NextEnd \/ DeleteFix
    BY <1>1, <1>8 DEF NextLink, NextEnd, DeleteFix, Arrive, Goto
  <1>9. CASE SeekWalk \/ SeekEnds \/ DeleteGet
    BY <1>1, <1>9 DEF SeekWalk, SeekEnds, DeleteGet, Deleted, Astray, Return, Goto
  <1>10. CASE \E f \in Files :
            (\E wrt \in BOOLEAN : Xrw(f, wrt)) \/ Seek(f) \/ SeekStart(f) \/ Delete(f)
    BY <1>10 DEF Xrw, Seek, SeekStart, Delete, Goto, call
  <1>11. CASE Close \/ \E wrt \in BOOLEAN : Root(wrt)
    BY <1>11 DEF Close, Root, getrecFails, Broken, Return, call
  <1>12. CASE UNCHANGED vars
    BY <1>12 DEF vars, call
  <1> QED
    BY <1>3, <1>4, <1>5, <1>6, <1>7, <1>8, <1>9, <1>10, <1>11, <1>12 DEF Next, Step

\* the clusters xgscan16 has in a record are next to each other
LEMMA RecordFull ==
  ASSUME OneDrive, NEW r \in Nat, NEW c \in r..numcl - 1,
         c < r + Cardinality({d \in r..numcl - 1 : LoRec(d) = LoRec(r)})
  PROVE  LoRec(c) = LoRec(r)
  <1> DEFINE inrec == {d \in r..numcl - 1 : LoRec(d) = LoRec(r)}
  <1>1. numcl \in Nat /\ w \in {3, 4} /\ rs \in Nat \ {0}
    BY FatAssumption DEF OneDrive
  <1>2. SUFFICES ASSUME LoRec(c) # LoRec(r)
                 PROVE  FALSE
    OBVIOUS
  <1>3. ASSUME NEW a \in Nat, NEW b \in Nat, a <= b
        PROVE  LoRec(a) <= LoRec(b)
    <2>1. \A x, y \in Nat : x <= y => x \div rs <= y \div rs
      BY <1>1
    <2>2. w * a \in Nat /\ w * b \in Nat /\ w * a <= w * b
      BY <1>1, <1>3
    <2> QED
      BY <2>1, <2>2 DEF LoRec
  <1>4. \A d \in inrec : d < c
    <2> SUFFICES ASSUME NEW d \in inrec, d >= c
                 PROVE  FALSE
      BY <1>1
    <2>1. LoRec(r) <= LoRec(c) /\ LoRec(c) <= LoRec(d) /\ LoRec(d) = LoRec(r)
      BY <1>1, <1>3
    <2>2. LoRec(r) \in Nat /\ LoRec(c) \in Nat
      BY <1>1, RecNat
    <2> QED
      BY <1>2, <2>1, <2>2
  <1>5. inrec \subseteq r..c - 1
    BY <1>1, <1>4
  <1>6. Cardinality(inrec) <= Cardinality(r..c - 1) /\ Cardinality(inrec) \in Nat
    <2>1. IsFiniteSet(r..c - 1)
      BY <1>1, FS_Interval
    <2> QED
      BY <1>5, <2>1, FS_Subset, FS_CardinalityType
  <1>7. Cardinality(r..c - 1) = c - r
    <2>1. r \in Int /\ c - 1 \in Int /\ c >= r /\ c \in Int
      BY <1>1
    <2>2. Cardinality(r..c - 1) = IF r > c - 1 THEN 0 ELSE c - 1 - r + 1
      BY <2>1, FS_Interval
    <2> QED
      BY <2>1, <2>2
  <1>8. c < r + Cardinality(inrec)
    OBVIOUS
  <1> HIDE DEF inrec
  <1> QED
    BY <1>1, <1>6, <1>7, <1>8

LEMMA ScannedStep ==
  ASSUME NoneSpans, Sound, Clean, Sound', Scanned, [Next]_vars
  PROVE  Scanned'
  <1> SUFFICES ASSUME pc' \in {"scan", "xgscan16"}
               PROVE  Scanned'
    BY DEF Scanned
  <1>1. numcl \in Nat \ {0}
    BY FatAssumption
  <1>2. pc \in {"scan", "xgscan16"} => \A c \in Clusters : LinkOf(c)' = LinkOf(c)
    BY LinksStep DEF Breaks, Broken, Return, Stores
  <1>3. CASE UNCHANGED <<pc, rover, i, cl>>
    <2>1. \A c \in 2..numcl - 1 : LinkOf(c)' = LinkOf(c)
      BY <1>1, <1>2, <1>3 DEF Clusters
    <2>2. CASE pc = "xgscan16"
      BY <1>3, <2>1, <2>2 DEF Scanned
    <2>3. CASE pc = "scan"
      <3> SUFFICES ASSUME cl < numcl, numcl > 2
                   PROVE  Scanned'
        BY <1>3, <2>3 DEF Scanned
      <3>1. cl \in Nat /\ rover \in Nat /\ i \in Nat
        BY <1>1, <2>3 DEF Sound, Calls, Clusters
      <3>2. ScanStart' = ScanStart /\ ScanStart \in Nat /\ ScanStart >= 2
        BY <1>3, <3>1 DEF ScanStart
      <3>3. \A c \in ScanStart..rover - 1 : LinkOf(c)' = LinkOf(c)
        BY <1>1, <2>1, <2>3, <3>1, <3>2 DEF Scanned
      <3>4. rover' \in 2..numcl - 1
        BY <1>3, <2>3 DEF Scanned
      <3>5. CASE /\ rover = ScanStart + (i - 2)
                 /\ \A c \in ScanStart..rover - 1 : LinkOf(c) # FREE
        <4>1. rover' = ScanStart' + (i' - 2)
          BY <1>3, <3>2, <3>5
        <4>2. \A c \in ScanStart..rover - 1 : LinkOf(c)' # FREE
          BY <3>3, <3>5
        <4>3. (\A c \in ScanStart..rover - 1 : LinkOf(c) # FREE)'
          BY <1>3, <3>2, <4>2
        <4> QED
          BY <1>3, <2>3, <3>4, <4>1, <4>3 DEF Scanned
      <3>6. CASE /\ rover = ScanStart + (i - 2) - (numcl - 2)
                 /\ \A c \in 2..numcl - 1 : c >= ScanStart \/ c < rover => LinkOf(c) # FREE
        <4>1. rover' = ScanStart' + (i' - 2) - (numcl - 2)
          BY <1>3, <3>2, <3>6
        <4>2. \A c \in 2..numcl - 1 : c >= ScanStart' \/ c < rover' => LinkOf(c)' # FREE
          BY <1>3, <2>1, <3>2, <3>6
        <4> QED
          BY <1>3, <2>3, <3>4, <4>1, <4>2 DEF Scanned
      <3> QED
        BY <2>3, <3>5, <3>6 DEF Scanned
    <2> QED
      BY <1>3, <2>2, <2>3
  <1>4. CASE /\ pc = "next" /\ \E c \in Clusters \cup {0} :
                 cl' = c /\ rover' = (IF c < 2 THEN 2 ELSE c) /\ i' = 2
             /\ pc' = "xgscan16" => cl' = 0
    <2>1. rover' = ScanStart' /\ i' = 2 /\ rover' \in Nat /\ rover' >= 2 /\ cl' \in Nat
      BY <1>1, <1>4 DEF ScanStart, Clusters
    <2>2. cl' < numcl /\ numcl > 2 => rover' \in 2..numcl - 1
      BY <1>1, <2>1 DEF ScanStart
    <2>3. pc' = "xgscan16" => rover' = 2
      BY <1>4
    <2>4. rover' = ScanStart' + (i' - 2)
      <3>1. \A n \in Nat : n = n + (2 - 2)
        OBVIOUS
      <3> QED
        BY <2>1, <3>1
    <2>5. (\A c \in ScanStart..rover - 1 : LinkOf(c) # FREE)'
      <3>1. (ScanStart..rover - 1)' = {}
        <4>1. \A n \in Nat : n..n - 1 = {}
          OBVIOUS
        <4> QED
          BY <2>1, <4>1
      <3> QED
        BY <3>1
    <2>6. pc' = "xgscan16" => (\A c \in 2..numcl - 1 : c < rover => LinkOf(c) # FREE)'
      BY <1>1, <2>3
    <2> QED
      BY <1>1, <2>2, <2>4, <2>5, <2>6 DEF Scanned
  <1>5. CASE /\ pc = "scan" /\ pc' = "scan" /\ i < numcl /\ LinkOf(rover) # FREE
             /\ LET r == (rover + 1) % numcl IN rover' = IF r < 2 THEN 2 ELSE r
             /\ i' = i + 1 /\ cl' = cl
    <2> SUFFICES ASSUME cl < numcl
                 PROVE  Scanned'
      BY <1>5 DEF Scanned
    <2>1. cl \in Nat /\ rover \in Nat /\ i \in Nat /\ i >= 2
      BY <1>1, <1>5 DEF Sound, Calls, Clusters
    <2>2. /\ ScanStart' = ScanStart /\ ScanStart \in Nat
          /\ ScanStart >= 2 /\ ScanStart <= numcl - 1 /\ numcl > 2
      BY <1>1, <1>5, <2>1 DEF ScanStart
    <2>3. rover \in 2..numcl - 1
      BY <1>5, <2>2 DEF Scanned
    <2>4. \A c \in 2..numcl - 1 : LinkOf(c)' = LinkOf(c)
      BY <1>1, <1>2, <1>5 DEF Clusters
    <2>5. \/ rover' = rover + 1 /\ rover < numcl - 1
          \/ rover' = 2 /\ rover = numcl - 1
      <3>1. CASE rover < numcl - 1
        <4>1. (rover + 1) % numcl = rover + 1
          BY <1>1, <2>3, <3>1
        <4> QED
          BY <1>5, <2>3, <3>1, <4>1
      <3>2. CASE rover = numcl - 1
        <4>1. (rover + 1) % numcl = 0
          BY <1>1, <3>2
        <4> QED
          BY <1>5, <3>2, <4>1
      <3> QED
        BY <1>1, <2>3, <3>1, <3>2
    <2>6. rover' \in 2..numcl - 1
      BY <1>1, <2>2, <2>3, <2>5
    <2>7. CASE /\ rover = ScanStart + (i - 2)
               /\ \A c \in ScanStart..rover - 1 : LinkOf(c) # FREE
      <3>1. \A c \in ScanStart..rover : LinkOf(c)' # FREE
        BY <1>1, <1>5, <2>1, <2>2, <2>3, <2>4, <2>7
      <3>2. CASE rover' = rover + 1
        <4>1. rover' = ScanStart' + (i' - 2)
          BY <1>5, <2>1, <2>2, <2>7, <3>2
        <4>2. (\A c \in ScanStart..rover - 1 : LinkOf(c) # FREE)'
          BY <2>1, <2>2, <3>1, <3>2
        <4> QED
          BY <1>5, <2>6, <4>1, <4>2 DEF Scanned
      <3>3. CASE rover' = 2 /\ rover = numcl - 1
        <4>1. rover' = ScanStart' + (i' - 2) - (numcl - 2)
          BY <1>1, <1>5, <2>1, <2>2, <2>7, <3>3
        <4>2. \A c \in 2..numcl - 1 : c >= ScanStart' \/ c < rover' => LinkOf(c)' # FREE
          BY <1>1, <2>2, <3>1, <3>3
        <4> QED
          BY <1>5, <2>6, <4>1, <4>2 DEF Scanned
      <3> QED
        BY <2>5, <3>2, <3>3
    <2>8. CASE /\ rover = ScanStart + (i - 2) - (numcl - 2)
               /\ \A c \in 2..numcl - 1 : c >= ScanStart \/ c < rover => LinkOf(c) # FREE
      <3>1. rover' = rover + 1
        BY <1>1, <1>5, <2>1, <2>2, <2>5, <2>8
      <3>2. rover' = ScanStart' + (i' - 2) - (numcl - 2)
        BY <1>1, <1>5, <2>1, <2>2, <2>8, <3>1
      <3>3. \A c \in 2..numcl - 1 : c >= ScanStart' \/ c < rover' => LinkOf(c)' # FREE
        BY <1>1, <1>5, <2>1, <2>2, <2>4, <2>8, <3>1
      <3> QED
        BY <1>5, <2>6, <3>2, <3>3 DEF Scanned
    <2> QED
      BY <1>5, <2>7, <2>8 DEF Scanned
  <1>6. CASE pc = "xgscan16" /\ pc' = "xgscan16" /\ xgscan16
    <2> DEFINE inrec == {c \in rover..numcl - 1 : LoRec(c) = LoRec(rover)}
    <2>1. rover \in Nat /\ rover >= 2 /\ LoRec(rover) \in Nat
      BY <1>6, RecNat DEF Sound, Calls
    <2>2. PICK b \in Bufs :
            /\ getdirrec(b, LoRec(rover), FALSE)
            /\ rover' = rover + Cardinality(inrec)
            /\ {c \in inrec : Value([k \in 0..w - 1 |-> b_data'[b][w * c + k]]) = FREE} = {}
      BY <1>6 DEF xgscan16, getdirrecFails, getrecFails, Broken, Return, Goto
    <2>3. UNCHANGED <<w, rs>>
      BY <1>6 DEF xgscan16
    <2>4. b_bufrec'[b] = LoRec(rover)
      BY <2>2 DEF getdirrec, getrec, Found, Load, Sound, Buffers
    <2>5. ASSUME NEW c \in 2..numcl - 1, c < rover'
          PROVE  LinkOf(c)' # FREE
      <3>1. c \in Clusters /\ c \in Nat
        BY <1>1 DEF Clusters
      <3>2. CASE c < rover
        BY <1>2, <1>6, <2>5, <3>1, <3>2 DEF Scanned
      <3>3. CASE c >= rover
        <4>1. c \in rover..numcl - 1
          BY <1>1, <2>1, <3>3
        <4>2. LoRec(c) = LoRec(rover)
          BY <2>1, <2>2, <2>5, <4>1, RecordFull DEF Sound
        <4>3. \A x \in Entry(c) : CellNow(x)' = b_data'[b][x]
          BY <2>3, <2>4, <3>1, <4>2, EntryAt, CellNextIs DEF Sound
        <4>4. w \in Nat
          BY FatAssumption DEF Sound, OneDrive
        <4>5. \A k \in 0..w - 1 : w * c + k \in Entry(c)
          BY <3>1, <4>4 DEF Entry
        <4>6. [k \in 0..w - 1 |-> CellNow(w * c + k)]' = [k \in 0..w - 1 |-> b_data'[b][w * c + k]]
          BY <2>3, <4>3, <4>5
        <4> QED
          BY <2>2, <4>1, <4>2, <4>6 DEF LinkOf
      <3> QED
        BY <2>1, <3>1, <3>2, <3>3
    <2> QED
      BY <1>6, <2>5 DEF Scanned
  <1> QED
    BY <1>3, <1>4, <1>5, <1>6, ScanSteps

LEMMA ScannedAlways ==
  ASSUME NoneSpans
  PROVE  Spec => [](Sound /\ Clean /\ Scanned)
  <1>1. Init => Scanned
    BY DEF Init, Scanned
  <1>2. Sound /\ Clean /\ Sound' /\ Scanned /\ [Next]_vars => Scanned'
    BY ScannedStep
  <1> QED
    BY <1>1, <1>2, CleanAlways, PTL DEF Spec

\* Where no entry lies in two records, nextcl gives up only when it has seen
\* every cluster that it may give out, wherever the scan began and whichever
\* of the two scans it was.
THEOREM FullOnlyWhenFull ==
  ASSUME NoneSpans
  PROVE  Spec => FullWhenFull
  <1>1. ASSUME Sound, Scanned, NextFull, ~(cl >= numcl), NEW c \in 2..numcl - 1
        PROVE  LinkOf(c) # FREE
    <2>1. numcl \in Nat
      BY FatAssumption
    <2>2. CASE pc = "xgscan16"
      BY <1>1, <2>1, <2>2 DEF Scanned, NextFull, Sound, Calls
    <2>3. CASE pc = "scan"
      <3>1. cl \in Nat /\ rover \in Nat /\ i \in Nat /\ i >= numcl
        BY <1>1, <2>1, <2>3 DEF Sound, Calls, Clusters, NextFull
      <3>2. numcl > 2 /\ cl < numcl
        BY <1>1, <2>1, <3>1
      <3>3. ScanStart \in Nat /\ ScanStart >= 2
        BY <3>1 DEF ScanStart
      <3>4. rover \in 2..numcl - 1
        BY <1>1, <2>3, <3>2 DEF Scanned
      <3>5. rover # ScanStart + (i - 2)
        BY <2>1, <3>1, <3>3, <3>4
      <3>6. /\ rover = ScanStart + (i - 2) - (numcl - 2)
            /\ \A d \in 2..numcl - 1 : d >= ScanStart \/ d < rover => LinkOf(d) # FREE
        BY <1>1, <2>3, <3>2, <3>5 DEF Scanned
      <3>7. c >= ScanStart \/ c < rover
        BY <2>1, <3>1, <3>3, <3>6
      <3> QED
        BY <3>6, <3>7
    <2> QED
      BY <1>1, <2>2, <2>3 DEF NextFull
  <1>2. ASSUME Sound, Scanned
        PROVE  NextFull => \/ \A c \in 2..numcl - 1 : LinkOf(c) # FREE
                           \/ cl >= numcl
    BY <1>1, <1>2
  <1>3. Sound /\ Scanned /\ [Next]_vars =>
          [NextFull => \/ \A c \in 2..numcl - 1 : LinkOf(c) # FREE
                       \/ cl >= numcl]_vars
    BY <1>2
  <1> QED
    BY <1>3, ScannedAlways, PTL DEF Spec, FullWhenFull

-----------------------------------------------------------------------------
(* The chains of the files are apart, and each follows the FAT.           *)

\* a number and its half bytes
LEMMA HalfBytes ==
  ASSUME NEW v \in Nat, v < 65536
  PROVE  /\ v = (v % 16) + 16 * ((v \div 16) % 16) + 256 * ((v \div 256) % 16)
                 + 4096 * ((v \div 4096) % 16)
         /\ v < 4096 => (v \div 4096) % 16 = 0
         /\ v % 16 \in 0..15 /\ (v \div 16) % 16 \in 0..15
         /\ (v \div 256) % 16 \in 0..15 /\ (v \div 4096) % 16 \in 0..15
  <1> DEFINE p == v \div 16  q == v \div 256  r == v \div 4096
  <1>1. p \in Nat /\ q \in Nat /\ r \in Nat /\ r < 16 /\ (v < 4096 => r = 0)
    OBVIOUS
  <1>2. q = p \div 16 /\ r = q \div 16
    OBVIOUS
  <1>3. v = 16 * p + (v % 16) /\ v % 16 \in 0..15
    OBVIOUS
  <1>4. \A n \in Nat : n = 16 * (n \div 16) + (n % 16) /\ n % 16 \in 0..15
    OBVIOUS
  <1>5. \A n \in Nat : n < 16 => n % 16 = n
    OBVIOUS
  <1> HIDE DEF p, q, r
  <1>6. p = 16 * q + (p % 16) /\ q = 16 * r + (q % 16)
    BY <1>1, <1>2, <1>4
  <1>7. r % 16 = r
    BY <1>1, <1>5
  <1>8. p % 16 \in 0..15 /\ q % 16 \in 0..15
    BY <1>1, <1>4
  <1>9. v = (v % 16) + 16 * (p % 16) + 256 * (q % 16) + 4096 * (r % 16)
    BY <1>1, <1>3, <1>6, <1>7, <1>8
  <1> QED
    BY <1>1, <1>3, <1>7, <1>8, <1>9 DEF p, q, r

\* the half bytes of a link make the link
LEMMA LinkReadBack ==
  ASSUME OneDrive, NEW link \in Links
  PROVE  Value([k \in 0..w - 1 |-> Digit(link, k)]) = link
  <1> DEFINE d == [k \in 0..w - 1 |-> Digit(link, k)]
  <1>1. w \in {3, 4} /\ numcl \in Nat /\ numcl + 1 < IF w = 3 THEN 4095 ELSE 65535
    BY FatAssumption DEF OneDrive
  <1>2. DOMAIN d = 0..w - 1 /\ \A k \in 0..w - 1 : d[k] = Digit(link, k)
    OBVIOUS
  <1> HIDE DEF d
  <1>3. /\ 3 \in DOMAIN d <=> w = 4
        /\ 0 \in DOMAIN d /\ 1 \in DOMAIN d /\ 2 \in DOMAIN d
    BY <1>1, <1>2
  <1>4. CASE link = EOC
    <2>1. \A k \in DOMAIN d : d[k] = 15
      BY <1>2, <1>4 DEF Digit
    <2> QED
      BY <1>4, <2>1 DEF Value, d
  <1>5. CASE link # EOC
    <2>1. link \in Nat /\ link < 65535 /\ (w = 3 => link < 4095)
      BY <1>1, <1>5 DEF Links, Clusters, FREE
    <2>2. PICK v \in Nat : v = link
      BY <2>1
    <2>3. /\ d[0] = v % 16 /\ d[1] = (v \div 16) % 16 /\ d[2] = (v \div 256) % 16
          /\ w = 4 => d[3] = (v \div 4096) % 16
      <3>1. Weight(0) = 1 /\ Weight(1) = 16 /\ Weight(2) = 256 /\ Weight(3) = 4096
        BY DEF Weight
      <3>2. v \div 1 = v
        BY <2>1
      <3> QED
        BY <1>1, <1>2, <1>5, <2>2, <3>1, <3>2 DEF Digit
    <2>4. v < 65535 /\ (w = 3 => v < 4095)
      BY <2>1, <2>2
    <2>5. /\ v = d[0] + 16 * d[1] + 256 * d[2] + 4096 * ((v \div 4096) % 16)
          /\ v < 4096 => (v \div 4096) % 16 = 0
      BY <2>3, <2>4, HalfBytes
    <2>6. d[0] \in 0..15 /\ d[1] \in 0..15 /\ d[2] \in 0..15
      BY <2>3, <2>4, HalfBytes
    <2>7. ~(\A k \in DOMAIN d : d[k] = 15)
      <3> SUFFICES ASSUME \A k \in DOMAIN d : d[k] = 15
                   PROVE  FALSE
        OBVIOUS
      <3>1. d[0] = 15 /\ d[1] = 15 /\ d[2] = 15 /\ (w = 4 => d[3] = 15)
        BY <1>3
      <3>2. CASE w = 3
        BY <2>4, <2>5, <3>1, <3>2
      <3>3. CASE w = 4
        BY <2>3, <2>4, <2>5, <3>1, <3>3
      <3> QED
        BY <1>1, <3>2, <3>3
    <2>8. CASE w = 3
      <3>1. v = d[0] + 16 * d[1] + 256 * d[2] + 0
        BY <2>4, <2>5, <2>6, <2>8
      <3> QED
        BY <1>3, <2>2, <2>7, <2>8, <3>1 DEF Value, d
    <2>9. CASE w = 4
      <3>1. v = d[0] + 16 * d[1] + 256 * d[2] + 4096 * d[3]
        BY <2>3, <2>5, <2>9
      <3>2. Value(d) = v
        BY <1>3, <2>7, <2>9, <3>1 DEF Value
      <3> QED
        BY <2>2, <3>2 DEF d
    <2> QED
      BY <1>1, <2>8, <2>9
  <1> QED
    BY <1>4, <1>5

\* clfix stores the link it is given
LEMMA LinkStored ==
  ASSUME NoneSpans, Sound, Clean, Sound', pc \in {"link", "unlink", "end"},
         NEW c \in Clusters, c = Target, NEW link \in Links, Fixes(c, link)
  PROVE  LinkOf(c)' = link
  <1>1. /\ dirrec \in Bufs
        /\ b_data' = [b \in Bufs |-> IF b = dirrec THEN Stored(b_data[b], c, link) ELSE b_data[b]]
        /\ UNCHANGED <<w, rs, b_bufrec, errs>>
    BY StoresAt DEF Sound, Clean
  <1>2. b_bufrec[dirrec] = LoRec(c)
    BY DEF Fixes, Has, Hit, Need, Clean, Sound, PointerHolds
  <1>3. c \in Nat /\ w \in {3, 4}
    BY FatAssumption DEF Clusters, Sound, OneDrive
  <1>4. ASSUME NEW x \in Entry(c)
        PROVE  CellNow(x)' = Digit(link, x - w * c)
    <2>2. x \in Cells /\ x \div rs = LoRec(c)
      BY EntryAt DEF Sound
    <2>3. x \in DOMAIN b_data[dirrec]
      BY <1>1, <1>2, <2>2, CellRec DEF Sound, Buffers
    <2>4. b_data'[dirrec][x] = Digit(link, x - w * c)
      BY <1>1, <2>3 DEF Stored
    <2>5. CellNow(x)' = b_data'[dirrec][x]
      BY <1>1, <1>2, <2>2, CellNextIs DEF Sound
    <2> QED
      BY <2>4, <2>5
  <1>6. \A k \in 0..w - 1 : w * c + k \in Entry(c) /\ (w * c + k) - w * c = k
    BY <1>3 DEF Entry
  <1>5. [k \in 0..w - 1 |-> CellNow(w * c + k)]' = [k \in 0..w - 1 |-> Digit(link, k)]
    BY <1>1, <1>4, <1>6
  <1> QED
    BY <1>5, LinkReadBack DEF LinkOf, Sound

\* The chains ch are laid out in the map of links: they are apart, each
\* cluster leads to the next one, the last of those in open is not marked yet,
\* and what is in no chain is free.
Laid(ch, open, links) ==
  /\ \A f, g \in Files : \A j \in DOMAIN ch[f], k \in DOMAIN ch[g] :
       ch[f][j] = ch[g][k] => f = g /\ j = k
  /\ \A f \in Files : \A k \in DOMAIN ch[f] : links[ch[f][k]] =
       IF k < Len(ch[f]) THEN ch[f][k + 1] ELSE IF f \in open THEN FREE ELSE EOC
  /\ \A c \in Clusters :
       (\A f \in Files : \A k \in DOMAIN ch[f] : ch[f][k] # c) => links[c] = FREE

Layouts == [Files -> Seq(Clusters)]

\* numbers of clusters are not FREE and not EOC
LEMMA ClusterNumbers == Clusters \subseteq Nat \ {0, 1} /\ FREE \notin Clusters /\ EOC \notin Clusters
  BY FatAssumption DEF Clusters, FREE, EOC

\* what is in a chain is not free
LEMMA ChainTaken ==
  ASSUME NEW ch \in Layouts, NEW links, Laid(ch, {}, links),
         NEW f \in Files, NEW k \in DOMAIN ch[f]
  PROVE  ch[f][k] \in Clusters /\ links[ch[f][k]] \in Clusters \cup {EOC}
  <1>1. ch[f] \in Seq(Clusters)
    BY DEF Layouts
  <1>2. k \in 1..Len(ch[f]) /\ Len(ch[f]) \in Nat
    BY <1>1
  <1>3. k < Len(ch[f]) => ch[f][k + 1] \in Clusters
    BY <1>1, <1>2
  <1> QED
    BY <1>1, <1>2, <1>3 DEF Laid

\* a chain and a cluster after it
LEMMA Appended ==
  ASSUME NEW s \in Seq(Clusters), NEW c \in Clusters
  PROVE  /\ Append(s, c) # <<>> /\ Append(s, c)[Len(Append(s, c))] = c
         /\ \A k \in DOMAIN s : k \in DOMAIN Append(s, c) /\ Append(s, c)[k] = s[k]
         /\ s = <<>> => Append(s, c)[1] = c
         /\ s # <<>> => Append(s, c)[1] = s[1]
  <1>1. /\ Len(s) \in Nat /\ Len(Append(s, c)) = Len(s) + 1 /\ Append(s, c)[Len(s) + 1] = c
        /\ \A k \in 1..Len(s) : Append(s, c)[k] = s[k]
        /\ DOMAIN Append(s, c) = 1..Len(s) + 1 /\ DOMAIN s = 1..Len(s)
    OBVIOUS
  <1>2. s = <<>> <=> Len(s) = 0
    BY EmptySeq
  <1>3. Append(s, c) # <<>>
    BY <1>1, EmptySeq
  <1> QED
    BY <1>1, <1>2, <1>3

\* a free cluster is put at the end of a chain
LEMMA LaidAppend ==
  ASSUME NEW ch \in Layouts, NEW links, DOMAIN links = Clusters, Laid(ch, {}, links),
         NEW f \in Files, NEW c \in Clusters, links[c] = FREE,
         NEW links2, ch[f] = <<>> => links2 = links,
         ch[f] # <<>> => links2 = [links EXCEPT ![ch[f][Len(ch[f])]] = c],
         NEW ch2, ch2 = [ch EXCEPT ![f] = Append(ch[f], c)]
  PROVE  ch2 \in Layouts /\ Laid(ch2, {f}, links2)
  <1> DEFINE s == ch[f]  t == Append(s, c)  n == Len(s)
  <1>1. s \in Seq(Clusters) /\ n \in Nat /\ (s = <<>> <=> n = 0)
    BY DEF Layouts
  <1>2. /\ t \in Seq(Clusters) /\ Len(t) = n + 1 /\ t[n + 1] = c
        /\ \A k \in 1..n : t[k] = s[k]
        /\ DOMAIN t = 1..n + 1 /\ DOMAIN s = 1..n
    BY <1>1
  <1>3. ch2[f] = t /\ \A g \in Files \ {f} : ch2[g] = ch[g]
    BY DEF Layouts
  <1>4. ch2 \in Layouts
    BY <1>2 DEF Layouts
  <1>5. \A g \in Files : \A k \in DOMAIN ch[g] : ch[g][k] # c /\ ch[g][k] \in Clusters
    <2>1. \A g \in Files : \A k \in DOMAIN ch[g] :
            ch[g][k] \in Clusters /\ links[ch[g][k]] \in Clusters \cup {EOC}
      BY ChainTaken
    <2>2. FREE \notin Clusters \cup {EOC}
      BY ClusterNumbers DEF FREE, EOC
    <2> QED
      BY <2>1, <2>2
  <1> HIDE DEF s, t, n
  <1>6. \A g, h \in Files : \A j \in DOMAIN ch2[g], k \in DOMAIN ch2[h] :
          ch2[g][j] = ch2[h][k] => g = h /\ j = k
    <2> SUFFICES ASSUME NEW g \in Files, NEW h \in Files,
                        NEW j \in DOMAIN ch2[g], NEW k \in DOMAIN ch2[h], ch2[g][j] = ch2[h][k]
                 PROVE  g = h /\ j = k
      OBVIOUS
    <2>1. \A x \in Files : \A y \in DOMAIN ch2[x] :
            \/ x = f /\ y = n + 1 /\ ch2[x][y] = c
            \/ y \in DOMAIN ch[x] /\ ch2[x][y] = ch[x][y]
      BY <1>1, <1>2, <1>3 DEF s
    <2> QED
      BY <1>5, <2>1 DEF Laid
  <1>7. \A g \in Files : \A k \in DOMAIN ch2[g] : links2[ch2[g][k]] =
          IF k < Len(ch2[g]) THEN ch2[g][k + 1] ELSE IF g \in {f} THEN FREE ELSE EOC
    <2>1. \A x \in Clusters : n = 0 \/ x # s[n] => links2[x] = links[x]
      BY <1>1 DEF s, n
    <2>2. n # 0 => links2[s[n]] = c
      <3>1. n # 0 => s[n] \in Clusters
        BY <1>1 DEF n
      <3> QED
        BY <1>1, <3>1 DEF s, n
    <2>3. ASSUME NEW g \in Files \ {f}, NEW k \in DOMAIN ch[g]
          PROVE  links2[ch[g][k]] = links[ch[g][k]]
      <3>1. n # 0 => ch[g][k] # s[n]
        BY <1>1, <1>2 DEF Laid, s
      <3> QED
        BY <1>5, <2>1, <3>1
    <2>4. ASSUME NEW k \in 1..n, k # n
          PROVE  links2[s[k]] = s[k + 1]
      <3>1. s[k] # s[n] /\ s[k] \in Clusters
        BY <1>1, <1>2, <2>4 DEF Laid, s
      <3>2. links[s[k]] = s[k + 1]
        BY <1>1, <1>2, <2>4 DEF Laid, s, n
      <3> QED
        BY <2>1, <3>1, <3>2
    <2>5. links2[c] = FREE
      <3>1. n # 0 => s[n] # c
        BY <1>1, <1>2, <1>5 DEF s
      <3> QED
        BY <2>1, <3>1
    <2>6. ASSUME NEW k \in 1..n + 1
          PROVE  links2[t[k]] = IF k < n + 1 THEN t[k + 1] ELSE FREE
      <3>1. CASE k = n + 1
        BY <1>1, <1>2, <2>5, <3>1
      <3>2. CASE k = n
        BY <1>1, <1>2, <2>2, <3>2
      <3>3. CASE k < n
        BY <1>1, <1>2, <2>4, <3>3
      <3> QED
        BY <1>1, <3>1, <3>2, <3>3
    <2>7. ASSUME NEW g \in Files \ {f}, NEW k \in DOMAIN ch[g]
          PROVE  links2[ch[g][k]] = IF k < Len(ch[g]) THEN ch[g][k + 1] ELSE EOC
      BY <2>3, <2>7 DEF Laid
    <2> SUFFICES ASSUME NEW g \in Files, NEW k \in DOMAIN ch2[g]
                 PROVE  links2[ch2[g][k]] =
                          IF k < Len(ch2[g]) THEN ch2[g][k + 1] ELSE IF g \in {f} THEN FREE ELSE EOC
      OBVIOUS
    <2>8. CASE g = f
      BY <1>2, <1>3, <2>6, <2>8
    <2>9. CASE g # f
      BY <1>3, <2>7, <2>9
    <2> QED
      BY <2>8, <2>9
  <1>8. ASSUME NEW x \in Clusters, \A g \in Files : \A k \in DOMAIN ch2[g] : ch2[g][k] # x
        PROVE  links2[x] = FREE
    <2>1. \A g \in Files : \A k \in DOMAIN ch[g] : ch[g][k] # x
      BY <1>1, <1>2, <1>3, <1>8 DEF s
    <2>2. links[x] = FREE
      BY <2>1 DEF Laid
    <2>3. n = 0 \/ x # s[n]
      BY <1>1, <1>2, <2>1 DEF s
    <2> QED
      BY <1>1, <2>2, <2>3 DEF s, n
  <1>9. Laid(ch2, {f}, links2)
    BY <1>6, <1>7, <1>8 DEF Laid
  <1> QED
    BY <1>4, <1>9

\* the last cluster is marked
LEMMA LaidEnd ==
  ASSUME NEW ch \in Layouts, NEW links, DOMAIN links = Clusters, NEW f \in Files,
         Laid(ch, {f}, links), ch[f] # <<>>
  PROVE  Laid(ch, {}, [links EXCEPT ![ch[f][Len(ch[f])]] = EOC])
  <1> DEFINE n == Len(ch[f])  last == ch[f][n]  links2 == [links EXCEPT ![last] = EOC]
  <1>1. ch[f] \in Seq(Clusters) /\ n \in Nat \ {0} /\ DOMAIN ch[f] = 1..n /\ last \in Clusters
    BY DEF Layouts
  <1>2. \A g \in Files : \A k \in DOMAIN ch[g] :
          /\ ch[g][k] \in Clusters /\ k \in 1..Len(ch[g])
          /\ ch[g][k] = last <=> g = f /\ k = n
    BY <1>1 DEF Laid, Layouts
  <1>3. links2[last] = EOC /\ \A x \in Clusters \ {last} : links2[x] = links[x]
    BY <1>1
  <1> HIDE DEF links2, last
  <1>4. ASSUME NEW g \in Files, NEW k \in DOMAIN ch[g]
        PROVE  links2[ch[g][k]] = IF k < Len(ch[g]) THEN ch[g][k + 1] ELSE IF g \in {} THEN FREE ELSE EOC
    <2>1. CASE g = f /\ k = n
      BY <1>1, <1>2, <1>3, <2>1
    <2>2. CASE ~(g = f /\ k = n)
      <3>1. links2[ch[g][k]] = links[ch[g][k]]
        BY <1>2, <1>3, <2>2
      <3>2. k < Len(ch[g]) \/ g # f
        BY <1>1, <1>2, <2>2
      <3> QED
        BY <3>1, <3>2 DEF Laid
    <2> QED
      BY <2>1, <2>2
  <1>5. ASSUME NEW x \in Clusters, \A g \in Files : \A k \in DOMAIN ch[g] : ch[g][k] # x
        PROVE  links2[x] = FREE
    <2>1. x # last
      BY <1>1, <1>5 DEF last
    <2> QED
      BY <1>3, <1>5, <2>1 DEF Laid
  <1>6. Laid(ch, {}, links2)
    BY <1>4, <1>5 DEF Laid
  <1> QED
    BY <1>6 DEF links2, last

\* the first cluster is freed
LEMMA LaidTail ==
  ASSUME NEW ch \in Layouts, NEW links, DOMAIN links = Clusters, NEW f \in Files,
         Laid(ch, {}, links), ch[f] # <<>>,
         NEW ch2, ch2 = [ch EXCEPT ![f] = Tail(ch[f])]
  PROVE  /\ ch2 \in Layouts /\ Laid(ch2, {}, [links EXCEPT ![ch[f][1]] = FREE])
  <1> DEFINE s == ch[f]  t == Tail(s)  n == Len(s)  links2 == [links EXCEPT ![s[1]] = FREE]
  <1>1. s \in Seq(Clusters) /\ n \in Nat \ {0} /\ DOMAIN s = 1..n /\ s[1] \in Clusters
    BY DEF Layouts
  <1>2. /\ t \in Seq(Clusters) /\ Len(t) = n - 1 /\ DOMAIN t = 1..n - 1
        /\ \A k \in 1..n - 1 : t[k] = s[k + 1]
        /\ t = <<>> <=> n = 1
    <2>1. s # <<>>
      BY <1>1
    <2>2. t \in Seq(Clusters) /\ Len(t) = n - 1 /\ \A k \in 1..n - 1 : t[k] = s[k + 1]
      BY <1>1, <2>1
    <2>3. DOMAIN t = 1..n - 1
      BY <1>1, <2>2
    <2> HIDE DEF t
    <2>4. t = <<>> <=> Len(t) = 0
      BY <2>2, EmptySeq
    <2> QED
      BY <1>1, <2>2, <2>3, <2>4
  <1>3. ch2[f] = t /\ \A g \in Files \ {f} : ch2[g] = ch[g]
    BY DEF Layouts
  <1>4. ch2 \in Layouts
    BY <1>2 DEF Layouts
  <1>5. links2[s[1]] = FREE /\ \A x \in Clusters \ {s[1]} : links2[x] = links[x]
    BY <1>1
  <1> HIDE DEF s, t, n, links2
  <1>6. ASSUME NEW g \in Files, NEW k \in DOMAIN ch2[g]
        PROVE  \E j \in DOMAIN ch[g] :
                 /\ j = (IF g = f THEN k + 1 ELSE k) /\ ch2[g][k] = ch[g][j]
                 /\ ch2[g][k] \in Clusters \ {s[1]}
                 /\ k < Len(ch2[g]) <=> j < Len(ch[g])
                 /\ k < Len(ch2[g]) => ch2[g][k + 1] = ch[g][j + 1]
    <2>1. CASE g = f
      <3>1. k \in 1..n - 1 /\ k + 1 \in 1..n /\ ch2[g][k] = s[k + 1] /\ s[k + 1] \in Clusters
        BY <1>1, <1>2, <1>3, <2>1
      <3>2. s[k + 1] # s[1]
        <4>1. k + 1 \in DOMAIN ch[f] /\ 1 \in DOMAIN ch[f] /\ k + 1 # 1
          BY <1>1, <3>1 DEF s
        <4> QED
          BY <4>1 DEF Laid, s
      <3>3. k < Len(t) <=> k + 1 < n
        BY <1>1, <1>2, <3>1
      <3>4. k < Len(t) => t[k + 1] = s[k + 1 + 1]
        BY <1>1, <1>2, <3>1
      <3> QED
        BY <1>1, <1>3, <2>1, <3>1, <3>2, <3>3, <3>4 DEF s, n
    <2>2. CASE g # f
      <3>1. ch2[g] = ch[g] /\ ch[g] \in Seq(Clusters)
        BY <1>3, <2>2 DEF Layouts
      <3>2. ch[g][k] # s[1] /\ ch[g][k] \in Clusters
        BY <1>1, <2>2, <3>1 DEF Laid, s
      <3> QED
        BY <2>2, <3>1, <3>2
    <2> QED
      BY <2>1, <2>2
  <1>7. ASSUME NEW g \in Files, NEW h \in Files, NEW j \in DOMAIN ch2[g], NEW k \in DOMAIN ch2[h],
               ch2[g][j] = ch2[h][k]
        PROVE  g = h /\ j = k
    <2>1. PICK x \in DOMAIN ch[g] : x = (IF g = f THEN j + 1 ELSE j) /\ ch2[g][j] = ch[g][x]
      BY <1>6
    <2>2. PICK y \in DOMAIN ch[h] : y = (IF h = f THEN k + 1 ELSE k) /\ ch2[h][k] = ch[h][y]
      BY <1>6
    <2>3. g = h /\ x = y
      BY <1>7, <2>1, <2>2 DEF Laid
    <2>4. j \in Nat /\ k \in Nat
      <3>1. ch2[g] \in Seq(Clusters) /\ ch2[h] \in Seq(Clusters)
        BY <1>4 DEF Layouts
      <3> QED
        BY <3>1
    <2> QED
      BY <2>1, <2>2, <2>3, <2>4
  <1>8. ASSUME NEW g \in Files, NEW k \in DOMAIN ch2[g]
        PROVE  links2[ch2[g][k]] =
                 IF k < Len(ch2[g]) THEN ch2[g][k + 1] ELSE IF g \in {} THEN FREE ELSE EOC
    <2>1. PICK j \in DOMAIN ch[g] :
            /\ ch2[g][k] = ch[g][j] /\ ch2[g][k] \in Clusters \ {s[1]}
            /\ k < Len(ch2[g]) <=> j < Len(ch[g])
            /\ k < Len(ch2[g]) => ch2[g][k + 1] = ch[g][j + 1]
      BY <1>6
    <2>2. links2[ch2[g][k]] = links[ch[g][j]]
      BY <1>5, <2>1
    <2> QED
      BY <2>1, <2>2 DEF Laid
  <1>9. ASSUME NEW x \in Clusters, \A g \in Files : \A k \in DOMAIN ch2[g] : ch2[g][k] # x
        PROVE  links2[x] = FREE
    <2>1. CASE x = s[1]
      BY <1>5, <2>1
    <2>2. CASE x # s[1]
      <3>1. ASSUME NEW g \in Files, NEW j \in DOMAIN ch[g]
            PROVE  ch[g][j] # x
        <4>1. CASE g = f
          <5>1. CASE j = 1
            BY <2>2, <4>1, <5>1 DEF s
          <5>2. CASE j # 1
            <6>1. j \in 1..n
              BY <1>1, <4>1 DEF s
            <6>2. PICK k \in 1..n - 1 : j = k + 1
              <7>1. j - 1 \in 1..n - 1 /\ j = (j - 1) + 1
                BY <1>1, <5>2, <6>1
              <7> QED
                BY <7>1
            <6>3. t[k] # x /\ t[k] = s[j]
              BY <1>2, <1>3, <1>9, <6>2
            <6> QED
              BY <4>1, <6>3 DEF s
          <5> QED
            BY <5>1, <5>2
        <4>2. CASE g # f
          BY <1>3, <1>9, <4>2
        <4> QED
          BY <4>1, <4>2
      <3> QED
        BY <1>5, <2>2, <3>1 DEF Laid
    <2> QED
      BY <2>1, <2>2
  <1>10. Laid(ch2, {}, links2)
    BY <1>7, <1>8, <1>9 DEF Laid
  <1> QED
    BY <1>4, <1>10 DEF links2, s

\* the first cluster leads to the first one of the rest
LEMMA TailFirst ==
  ASSUME NEW ch \in Layouts, NEW links, Laid(ch, {}, links), NEW f \in Files, ch[f] # <<>>
  PROVE  links[ch[f][1]] = IF Tail(ch[f]) = <<>> THEN EOC ELSE Tail(ch[f])[1]
  <1> DEFINE s == ch[f]
  <1>1. s \in Seq(Clusters) /\ Len(s) \in Nat \ {0} /\ DOMAIN s = 1..Len(s)
    BY DEF Layouts
  <1>2. links[s[1]] = IF 1 < Len(s) THEN s[2] ELSE EOC
    <2>1. 1 \in DOMAIN s
      BY <1>1
    <2> QED
      BY <2>1 DEF Laid
  <1> HIDE DEF s
  <1>3. Tail(s) \in Seq(Clusters) /\ Len(Tail(s)) = Len(s) - 1
    BY <1>1
  <1>4. 1 < Len(s) => Tail(s)[1] = s[2]
    BY <1>1
  <1>5. Tail(s) = <<>> <=> Len(Tail(s)) = 0
    BY <1>3, EmptySeq
  <1> QED
    BY <1>1, <1>2, <1>3, <1>4, <1>5 DEF s

LinkMap == [c \in Clusters |-> LinkOf(c)]

\* numbers have a least one
LEMMA HasLeast ==
  ASSUME NEW S \in SUBSET Nat, S # {}
  PROVE  \E m \in S : \A n \in S : m <= n
  <1> DEFINE R == {ss \in Nat \X Nat : ss[1] < ss[2]}
  <1>1. IsWellFoundedOn(R, Nat)
    <2>1. IsWellFoundedOn(OpToRel(<, Nat), Nat)
      BY NatLessThanWellFounded
    <2> QED
      BY <2>1 DEF OpToRel
  <1> HIDE DEF R
  <1>2. \E m \in S : \A n \in S : ~ (<<n, m>> \in R)
    BY <1>1, WFMin, Zenon
  <1>3. ASSUME NEW m \in Nat, NEW n \in Nat, <<n, m>> \notin R
        PROVE  m <= n
    <2>1. ~(n < m)
      BY <1>3 DEF R
    <2> QED
      BY <2>1
  <1> QED
    BY <1>2, <1>3

\* a chain has no more clusters than the drive
LEMMA ChainFits ==
  ASSUME NEW ch \in Layouts, NEW links, Laid(ch, {}, links), NEW f \in Files
  PROVE  Len(ch[f]) \in 0..numcl
  <1> DEFINE s == ch[f]  n == Len(s)
  <1>1. s \in Seq(Clusters) /\ n \in Nat /\ s \in [1..n -> Clusters]
    BY DEF Layouts
  <1>2. s \in Injection(1..n, Clusters)
    BY <1>1 DEF Laid, Injection, IsInjective
  <1>3. numcl \in Nat
    BY FatAssumption
  <1>4. IsFiniteSet(Clusters) /\ Cardinality(Clusters) = numcl
    <2>1. PICK b \in Int : b = numcl + 1
      BY <1>3
    <2>2. 2 \in Int
      OBVIOUS
    <2>3. IsFiniteSet(2..b) /\ Cardinality(2..b) = IF 2 > b THEN 0 ELSE b - 2 + 1
      BY <2>2, FS_Interval
    <2>4. Cardinality(2..b) = numcl
      BY <1>3, <2>1, <2>3, FatAssumption
    <2> QED
      BY <2>1, <2>3, <2>4 DEF Clusters
  <1>5. Cardinality(1..n) = n
    <2>1. 1 \in Int /\ n \in Int
      BY <1>1
    <2>2. Cardinality(1..n) = IF 1 > n THEN 0 ELSE n - 1 + 1
      BY <2>1, FS_Interval
    <2> QED
      BY <1>1, <2>2
  <1> HIDE DEF s, n
  <1>6. Cardinality(1..n) <= Cardinality(Clusters)
    BY <1>2, <1>4, FS_Injection
  <1> QED
    BY <1>1, <1>3, <1>4, <1>5, <1>6 DEF s, n

\* whoever follows a chain from its first cluster comes to its end
LEMMA ChainFromIs ==
  ASSUME NEW ch \in Layouts, Laid(ch, {}, LinkMap), NEW f \in Files, ch[f] # <<>>
  PROVE  ChainFrom(ch[f][1]) = Append(ch[f], EOC)
  <1> DEFINE s == ch[f]  n == Len(s)  e == Append(s, EOC)
             onward(t) == IF Last(t) \in Clusters THEN Append(t, LinkOf(Last(t))) ELSE t
             Rec(h) == h = [k \in 0..numcl |-> IF k = 0 THEN <<s[1]>> ELSE onward(h[k - 1])]
             walk == CHOOSE h : Rec(h)
             part(k) == IF k < n THEN SubSeq(s, 1, k + 1) ELSE e
             W == [k \in 0..numcl |-> part(k)]
  <1>1. s \in Seq(Clusters) /\ n \in Nat \ {0} /\ \A k \in 1..n : s[k] \in Clusters
    BY DEF Layouts
  <1>2. n <= numcl /\ numcl \in Nat
    BY ChainFits, FatAssumption, <1>1
  <1>3. \A k \in 1..n : LinkOf(s[k]) = IF k < n THEN s[k + 1] ELSE EOC
    <2>1. \A k \in 1..n : LinkMap[s[k]] = IF k < n THEN s[k + 1] ELSE EOC
      BY <1>1 DEF Laid
    <2> QED
      BY <1>1, <2>1 DEF LinkMap
  <1>4. e \in Seq(Clusters \cup {EOC}) /\ Len(e) = n + 1 /\ e[n + 1] = EOC /\ \A k \in 1..n : e[k] = s[k]
    BY <1>1
  <1> HIDE DEF s, e
  <1>5. part(0) = <<s[1]>>
    <2>2. s[1] \in Clusters
      BY <1>1
    <2>3. /\ SubSeq(s, 1, 1) \in Seq(Clusters) /\ Len(SubSeq(s, 1, 1)) = 1
          /\ SubSeq(s, 1, 1)[1] = s[1]
      BY <1>1
    <2>4. /\ <<s[1]>> \in Seq(Clusters) /\ Len(<<s[1]>>) = 1 /\ <<s[1]>>[1] = s[1]
      BY <2>2
    <2>1. SubSeq(s, 1, 1) = <<s[1]>>
      <3>1. ASSUME NEW a \in Seq(Clusters), NEW b \in Seq(Clusters),
                   Len(a) = 1, Len(b) = 1, a[1] = b[1]
            PROVE  a = b
        BY <3>1, SeqEqual
      <3> QED
        BY <2>3, <2>4, <3>1
    <2> QED
      BY <1>1, <2>1
  <1>6. ASSUME NEW k \in 1..numcl
        PROVE  part(k) = onward(part(k - 1))
    <2>1. CASE k < n
      <3> DEFINE t == SubSeq(s, 1, k)
      <3>1. t \in Seq(Clusters) /\ Len(t) = k /\ t[k] = s[k]
        BY <1>1, <2>1
      <3>2. Last(t) = s[k]
        BY <3>1 DEF Last
      <3>3. LinkOf(Last(t)) = s[k + 1] /\ Last(t) \in Clusters
        BY <1>1, <1>3, <2>1, <3>2
      <3>4. part(k - 1) = t
        BY <1>1, <2>1
      <3>5. SubSeq(s, 1, k + 1) = Append(t, s[k + 1])
        BY <1>1, <2>1
      <3> HIDE DEF t
      <3> QED
        BY <2>1, <3>3, <3>4, <3>5
    <2>2. CASE k = n
      <3>1. SubSeq(s, 1, n) = s
        BY <1>1
      <3>2. part(k - 1) = s
        BY <1>1, <2>2, <3>1
      <3>3. Last(s) \in Clusters /\ LinkOf(Last(s)) = EOC
        BY <1>1, <1>3 DEF Last
      <3>4. part(k) = e
        BY <1>1, <2>2
      <3>5. onward(s) = e
        BY <3>3 DEF e
      <3> QED
        BY <3>2, <3>4, <3>5
    <2>3. CASE k > n
      <3>1. part(k) = e /\ part(k - 1) = e
        BY <1>1, <2>3
      <3>2. Last(e) \notin Clusters
        BY <1>4, ClusterNumbers DEF Last
      <3> QED
        BY <3>1, <3>2
    <2> QED
      BY <1>1, <2>1, <2>2, <2>3
  <1>7. Rec(W)
    <2> HIDE DEF part, onward
    <2>1. \A k \in 0..numcl : W[k] = IF k = 0 THEN <<s[1]>> ELSE onward(W[k - 1])
      BY <1>2, <1>5, <1>6
    <2> QED
      BY <2>1
  <1>8. Rec(walk)
    <2> HIDE DEF Rec, W
    <2> QED
      BY <1>7
  <1>9. ChainFrom(s[1]) = walk[numcl]
    BY DEF ChainFrom
  <1> HIDE DEF walk, part, onward
  <1>10. walk[0] = part(0) /\ \A k \in 1..numcl : walk[k] = onward(walk[k - 1])
    BY <1>2, <1>5, <1>8
  <1> DEFINE Bad == {k \in 0..numcl : walk[k] # part(k)}
  <1>11. Bad = {}
    <2> SUFFICES ASSUME Bad # {} PROVE FALSE
      OBVIOUS
    <2>1. Bad \in SUBSET Nat
      OBVIOUS
    <2>2. PICK k \in Bad : \A j \in Bad : k <= j
      <3> HIDE DEF Bad
      <3> QED
        BY <2>1, HasLeast
    <2>3. k \in 1..numcl /\ k - 1 \in 0..numcl
      BY <1>2, <1>10, <2>2
    <2>4. k - 1 \notin Bad
      <3> HIDE DEF Bad
      <3> QED
        BY <2>2, <2>3
    <2>5. walk[k - 1] = part(k - 1)
      BY <2>3, <2>4
    <2> QED
      BY <1>6, <1>10, <2>2, <2>3, <2>5
  <1>12. walk[numcl] = part(numcl)
    BY <1>2, <1>11
  <1>13. part(numcl) = e
    BY <1>1, <1>2 DEF part
  <1> QED
    BY <1>9, <1>12, <1>13 DEF s, e

\* file f owns its chain
Owns(ch, f) ==
  /\ o_strtcl[f] = IF ch[f] = <<>> THEN 0 ELSE ch[f][1]
  /\ o_curcl[f] # 0 => \E k \in DOMAIN ch[f] : ch[f][k] = o_curcl[f]

\* where the call in progress is in the chain of its file
At(ch) ==
  /\ pc = "scan" => cl = IF ch[fd] = <<>> THEN 0 ELSE ch[fd][Len(ch[fd])]
  /\ pc = "xgscan16" => ch[fd] = <<>>
  /\ pc = "link" => ch[fd] # <<>> /\ cl = ch[fd][Len(ch[fd])] /\ LinkMap[cl2] = FREE
  /\ pc = "end" => ch[fd] # <<>> /\ cl2 = ch[fd][Len(ch[fd])]
  /\ pc = "seek" => \E k \in DOMAIN ch[fd] : ch[fd][k] = cl
  /\ pc = "del" => cl = IF ch[fd] = <<>> THEN EOC ELSE ch[fd][1]
  /\ pc = "unlink" => ch[fd] # <<>> /\ cl = ch[fd][1] /\ cl2 = LinkMap[cl]

Deletes == pc \in {"del", "unlink"}
Unended == IF pc = "end" THEN {fd} ELSE {}
Chained(ch) ==
  /\ Laid(ch, Unended, LinkMap)
  /\ \A f \in Files : ~(Deletes /\ f = fd) => Owns(ch, f)
  /\ At(ch)

ChainInv == errs \in Nat /\ (errs = 0 => \E ch \in Layouts : Chained(ch))

\* only clfix changes the links
LEMMA LinksQuiet ==
  ASSUME NoneSpans, Sound, Clean, [Next]_vars, errs \in Nat, errs' = errs, ~Stores
  PROVE  LinkMap' = LinkMap
  <1>1. ~Breaks
    BY DEF Breaks, Broken
  <1>2. \A c \in Clusters : LinkOf(c)' = LinkOf(c)
    BY <1>1, LinksStep
  <1> QED
    BY <1>2 DEF LinkMap

LEMMA LinksFixed ==
  ASSUME NoneSpans, Sound, Clean, Sound', [Next]_vars, errs \in Nat, errs' = errs,
         pc \in {"link", "unlink", "end"},
         NEW t \in Clusters, t = Target, NEW link \in Links, Fixes(t, link)
  PROVE  LinkMap' = [LinkMap EXCEPT ![t] = link]
  <1>1. ~Breaks
    BY DEF Breaks, Broken
  <1>2. \A c \in Clusters : c # t => LinkOf(c)' = LinkOf(c)
    BY <1>1, LinksStep
  <1>3. LinkOf(t)' = link
    BY LinkStored
  <1> QED
    BY <1>2, <1>3 DEF LinkMap

\* an access to an entry changes neither the call nor the links
LEMMA AccessQuiet ==
  ASSUME NoneSpans, Sound, Clean, [Next]_vars, errs \in Nat, errs' = errs,
         NEW c, NEW wrt, Access(c, wrt), pc \in {"link", "unlink", "end"} => c = Target /\ wrt
  PROVE  UNCHANGED <<files, call>> /\ LinkMap' = LinkMap
  <1>1. UNCHANGED <<files, call>>
    BY DEF Access, Fetch, Halfway, getdirrecFails, getrecFails, Broken
  <1>2. ~Stores
    <2> SUFFICES ASSUME Stores
                 PROVE  FALSE
      OBVIOUS
    <2>1. PICK link : Fixes(c, link)
      BY DEF Stores
    <2>2. Has(c, TRUE) /\ Last2(c)
      BY <2>1 DEF Fixes
    <2>3. wrt = TRUE
      BY DEF Stores, Access, Fetch, Has, Hit
    <2> QED
      BY <2>2, <2>3 DEF Access, Fetch, Halfway
  <1> QED
    BY <1>1, <1>2, LinksQuiet

\* the chains stay as they are
LEMMA ChainedQuiet ==
  ASSUME NEW ch \in Layouts, Chained(ch), LinkMap' = LinkMap, UNCHANGED <<files, pc, fd, cl, cl2>>
  PROVE  Chained(ch)'
  BY DEF Chained, Laid, Owns, At, Deletes, Unended, files

\* the chains stay as they are, and the call goes on or ends
LEMMA ChainedRest ==
  ASSUME NEW ch \in Layouts, Chained(ch), LinkMap' = LinkMap, o_strtcl' = o_strtcl,
         ~Deletes, ~Deletes', pc # "end", pc' # "end",
         \A f \in Files : o_curcl'[f] \in {0, o_curcl[f]}
                            \/ \E k \in DOMAIN ch[f] : ch[f][k] = o_curcl'[f],
         At(ch)'
  PROVE  Chained(ch)'
  <1>1. Unended = {} /\ Unended' = {}
    BY DEF Unended
  <1>2. Laid(ch, Unended, LinkMap)'
    BY <1>1 DEF Chained, Laid
  <1>3. \A f \in Files : Owns(ch, f)'
    BY DEF Chained, Owns
  <1> QED
    BY <1>2, <1>3 DEF Chained

\* nextcl at cluster c, the last one or before the first one: v comes after it
LEMMA BeyondChained ==
  ASSUME NEW ch \in Layouts, Chained(ch), Sound, pc = "next", LinkMap' = LinkMap,
         NEW c, NEW v, Beyond(c, v), v \in Clusters \cup {EOC},
         v \in Clusters => \E k \in DOMAIN ch[fd] : ch[fd][k] = v,
         v = EOC => c = IF ch[fd] = <<>> THEN 0 ELSE ch[fd][Len(ch[fd])]
  PROVE  Chained(ch)'
  <1>1. fd \in Files /\ o_curcl \in [Files -> Clusters \cup {0}] /\ ch[fd] \in Seq(Clusters)
    BY DEF Sound, Calls, Layouts
  <1>2. 0 \notin Clusters /\ EOC \notin Clusters /\ v \in Links
    BY ClusterNumbers DEF Links
  <1>3. CASE v \in Links \ {EOC} /\ Arrive(v)
    <2>1. v \in Clusters
      BY <1>2, <1>3
    <2>2. /\ pc' = "xrw" /\ fd' = fd /\ o_strtcl' = o_strtcl
          /\ o_curcl' = [o_curcl EXCEPT ![fd] = v]
      BY <1>3 DEF Arrive, Goto
    <2>3. At(ch)'
      BY <2>2 DEF At
    <2> QED
      BY <1>1, <2>1, <2>2, <2>3, ChainedRest DEF Deletes
  <1>4. CASE Astray /\ v \notin Links
    BY <1>2, <1>4
  <1>5. CASE v = EOC /\ Scan(c)
    <2>1. /\ pc' = IF c = 0 /\ w = 4 THEN "xgscan16" ELSE "scan"
          /\ cl' = c /\ fd' = fd /\ o_strtcl' = o_strtcl /\ o_curcl' = o_curcl
      BY <1>5 DEF Scan, Goto, files
    <2>2. ch[fd] # <<>> => ch[fd][Len(ch[fd])] # 0
      <3>1. ch[fd] # <<>> => ch[fd][Len(ch[fd])] \in Clusters
        BY <1>1
      <3> QED
        BY <1>2, <3>1
    <2>3. At(ch)'
      BY <1>5, <2>1, <2>2 DEF At
    <2> QED
      BY <2>1, <2>3, ChainedRest DEF Deletes
  <1>6. CASE NoNext
    <2>1. pc' = "idle" /\ o_strtcl' = o_strtcl /\ o_curcl' = o_curcl
      BY <1>6 DEF NoNext, Return, files
    <2>2. At(ch)'
      BY <2>1 DEF At
    <2> QED
      BY <2>1, <2>2, ChainedRest DEF Deletes
  <1> QED
    BY <1>3, <1>4, <1>5, <1>6 DEF Beyond

\* the cluster that is found becomes the last of the chain
LEMMA ExtendChained ==
  ASSUME NEW ch \in Layouts, Chained(ch), Sound, pc \in {"scan", "xgscan16", "link"},
         NEW c \in Clusters, LinkMap[c] = FREE,
         pc' = "end", fd' = fd, cl2' = c,
         \/ /\ ch[fd] = <<>> /\ LinkMap' = LinkMap
            /\ o_strtcl' = [o_strtcl EXCEPT ![fd] = c]
         \/ /\ ch[fd] # <<>> /\ LinkMap' = [LinkMap EXCEPT ![ch[fd][Len(ch[fd])]] = c]
            /\ o_strtcl' = o_strtcl,
         o_curcl' = o_curcl
  PROVE  \E ch2 \in Layouts : Chained(ch2)'
  <1> DEFINE ch2 == [ch EXCEPT ![fd] = Append(ch[fd], c)]
  <1>1. fd \in Files /\ o_strtcl \in [Files -> Clusters \cup {0}]
    BY DEF Sound, Calls
  <1>2. Laid(ch, {}, LinkMap) /\ DOMAIN LinkMap = Clusters
    BY DEF Chained, Unended, LinkMap
  <1>3. LinkMap' = IF ch[fd] = <<>> THEN LinkMap
                   ELSE [LinkMap EXCEPT ![ch[fd][Len(ch[fd])]] = c]
    OBVIOUS
  <1>4. PICK x : x = ch2
    OBVIOUS
  <1>5. PICK m : m = LinkMap'
    OBVIOUS
  <1>6. x \in Layouts /\ Laid(x, {fd}, m)
    <2>1. PICK links : links = LinkMap
      OBVIOUS
    <2>2. PICK f \in Files : f = fd
      BY <1>1
    <2>3. /\ DOMAIN links = Clusters /\ Laid(ch, {}, links) /\ links[c] = FREE
          /\ ch[f] = <<>> => m = links
          /\ ch[f] # <<>> => m = [links EXCEPT ![ch[f][Len(ch[f])]] = c]
          /\ x = [ch EXCEPT ![f] = Append(ch[f], c)]
      BY <1>2, <1>3, <1>4, <1>5, <2>1, <2>2
    <2>4. x \in Layouts /\ Laid(x, {f}, m)
      BY ONLY ch \in Layouts, f \in Files, c \in Clusters, <2>3, LaidAppend
    <2> QED
      BY <2>2, <2>4
  <1>11. x[fd] = Append(ch[fd], c) /\ \A g \in Files \ {fd} : x[g] = ch[g]
    BY <1>1, <1>4 DEF Layouts
  <1>12. ch[fd] \in Seq(Clusters)
    BY <1>1 DEF Layouts
  <1>13. /\ x[fd] # <<>> /\ x[fd][Len(x[fd])] = c
         /\ \A k \in DOMAIN ch[fd] : k \in DOMAIN x[fd] /\ x[fd][k] = ch[fd][k]
         /\ ch[fd] = <<>> => x[fd][1] = c
         /\ ch[fd] # <<>> => x[fd][1] = ch[fd][1]
    BY <1>11, <1>12, Appended
  <1> HIDE DEF ch2
  <1>7. Laid(x, Unended', LinkMap')
    BY <1>5, <1>6 DEF Unended
  <1>8. ASSUME NEW f \in Files
        PROVE  Owns(x, f)'
    <2>1. Owns(ch, f)
      BY DEF Chained, Deletes
    <2>2. CASE f = fd
      BY <1>1, <1>13, <2>1, <2>2 DEF Owns
    <2>3. CASE f # fd
      BY <1>1, <1>11, <2>1, <2>3 DEF Owns
    <2> QED
      BY <2>2, <2>3
  <1>9. At(x)'
    BY <1>13 DEF At
  <1>10. Laid(x, Unended, LinkMap)'
    BY <1>7 DEF Laid
  <1> QED
    BY <1>6, <1>8, <1>9, <1>10 DEF Chained

\* the last cluster of a new chain is marked, and the file is at it
LEMMA EndChained ==
  ASSUME NEW ch \in Layouts, Chained(ch), Sound, pc = "end",
         LinkMap' = [LinkMap EXCEPT ![cl2] = EOC],
         Arrive(cl2)
  PROVE  Chained(ch)'
  <1>1. fd \in Files /\ o_curcl \in [Files -> Clusters \cup {0}]
    BY DEF Sound, Calls
  <1>2. /\ Laid(ch, {fd}, LinkMap) /\ DOMAIN LinkMap = Clusters
        /\ ch[fd] # <<>> /\ cl2 = ch[fd][Len(ch[fd])]
    BY DEF Chained, Unended, LinkMap, At
  <1>3. PICK m : m = LinkMap'
    OBVIOUS
  <1>4. Laid(ch, {}, m)
    BY <1>1, <1>2, <1>3, LaidEnd
  <1>5. pc' = "xrw" /\ o_strtcl' = o_strtcl /\ o_curcl' = [o_curcl EXCEPT ![fd] = cl2]
    BY DEF Arrive, Goto
  <1>6. Laid(ch, Unended, LinkMap)'
    BY <1>3, <1>4, <1>5 DEF Laid, Unended
  <1>7. \E k \in DOMAIN ch[fd] : ch[fd][k] = cl2
    <2>1. ch[fd] \in Seq(Clusters)
      BY <1>1 DEF Layouts
    <2>2. Len(ch[fd]) \in DOMAIN ch[fd]
      BY <1>2, <2>1
    <2> QED
      BY <1>2, <2>2
  <1>8. ASSUME NEW f \in Files
        PROVE  Owns(ch, f)'
    <2>1. Owns(ch, f)
      BY DEF Chained, Deletes
    <2> QED
      BY <1>1, <1>5, <1>7, <2>1 DEF Owns
  <1>9. At(ch)'
    BY <1>5 DEF At
  <1> QED
    BY <1>6, <1>8, <1>9 DEF Chained

\* the first cluster of a chain that is deleted becomes free
LEMMA FreeChained ==
  ASSUME NEW ch \in Layouts, Chained(ch), Sound, pc = "unlink",
         LinkMap' = [LinkMap EXCEPT ![cl] = FREE],
         pc' = "del", fd' = fd, cl' = cl2, UNCHANGED files
  PROVE  \E ch2 \in Layouts : Chained(ch2)'
  <1>1. fd \in Files
    BY DEF Sound, Calls
  <1>2. /\ Laid(ch, {}, LinkMap) /\ DOMAIN LinkMap = Clusters
        /\ ch[fd] # <<>> /\ cl = ch[fd][1] /\ cl2 = LinkMap[cl]
    BY DEF Chained, Unended, LinkMap, At
  <1>3. PICK m : m = LinkMap'
    OBVIOUS
  <1>4. PICK x : x = [ch EXCEPT ![fd] = Tail(ch[fd])]
    OBVIOUS
  <1>5. x \in Layouts /\ Laid(x, {}, m)
    <2>1. PICK links : links = LinkMap
      OBVIOUS
    <2>2. PICK f \in Files : f = fd
      BY <1>1
    <2>3. /\ DOMAIN links = Clusters /\ Laid(ch, {}, links) /\ ch[f] # <<>>
          /\ m = [links EXCEPT ![ch[f][1]] = FREE]
          /\ x = [ch EXCEPT ![f] = Tail(ch[f])]
      BY <1>2, <1>3, <1>4, <2>1, <2>2
    <2> QED
      BY ONLY ch \in Layouts, f \in Files, <2>3, LaidTail
  <1>9. x[fd] = Tail(ch[fd]) /\ \A g \in Files \ {fd} : x[g] = ch[g]
    BY <1>1, <1>4 DEF Layouts
  <1>10. cl2 = IF x[fd] = <<>> THEN EOC ELSE x[fd][1]
    BY <1>1, <1>2, <1>9, TailFirst
  <1>6. Laid(x, Unended, LinkMap)'
    BY <1>3, <1>5 DEF Laid, Unended
  <1>7. ASSUME NEW f \in Files, f # fd
        PROVE  Owns(x, f)'
    <2>1. Owns(ch, f)
      BY <1>7 DEF Chained, Deletes
    <2> QED
      BY <1>7, <1>9, <2>1 DEF Owns, files
  <1>8. At(x)'
    BY <1>10 DEF At
  <1> QED
    <2>1. Deletes'
      BY DEF Deletes
    <2> QED
      BY <1>5, <1>6, <1>7, <1>8, <2>1 DEF Chained

\* the entry of a cluster in a FAT that has the chains ch
LEMMA FatOfIs ==
  ASSUME NEW ch \in Chains, OneDrive, NEW c \in Clusters
  PROVE  \E link \in Links :
           /\ \A f \in Files : \A k \in DOMAIN ch[f] : ch[f][k] = c =>
                link = IF k < Len(ch[f]) THEN ch[f][k + 1] ELSE EOC
           /\ (\A f \in Files : \A k \in DOMAIN ch[f] : ch[f][k] # c) => link = FREE
           /\ \A x \in Entry(c) : x \in Cells => FatOf(ch)[x] = Digit(link, x - w * c)
  <1> DEFINE next(y) ==
        IF \E f \in Files : y \in ToSet(ch[f])
        THEN LET s == ch[CHOOSE f \in Files : y \in ToSet(ch[f])]
                 k == CHOOSE k \in DOMAIN s : s[k] = y
             IN  IF k = Len(s) THEN EOC ELSE s[k + 1]
        ELSE FREE
  <1>1. /\ \A f \in Files : ch[f] \in Seq(Clusters)
        /\ \A f, g \in Files : \A j \in DOMAIN ch[f], k \in DOMAIN ch[g] :
             ch[f][j] = ch[g][k] => f = g /\ j = k
    BY FatAssumption
  <1>2. \A f \in Files : \A y : y \in ToSet(ch[f]) <=> \E k \in DOMAIN ch[f] : ch[f][k] = y
    BY DEF ToSet
  <1>3. ASSUME NEW f \in Files, NEW k \in DOMAIN ch[f], ch[f][k] = c
        PROVE  next(c) = (IF k < Len(ch[f]) THEN ch[f][k + 1] ELSE EOC) /\ next(c) \in Links
    <2>1. f = CHOOSE g \in Files : c \in ToSet(ch[g])
      <3>2. c \in ToSet(ch[f])
        BY <1>2, <1>3
      <3>3. ASSUME NEW g \in Files, c \in ToSet(ch[g])
            PROVE  g = f
        <4>1. PICK j \in DOMAIN ch[g] : ch[g][j] = c
          BY <1>2, <3>3
        <4> QED
          BY <1>1, <1>3, <4>1
      <3>1. c \in ToSet(ch[f]) /\ \A g \in Files : c \in ToSet(ch[g]) => g = f
        BY <3>2, <3>3
      <3> QED
        BY <3>1
    <2>2. k = CHOOSE j \in DOMAIN ch[f] : ch[f][j] = c
      <3>1. \A j \in DOMAIN ch[f] : ch[f][j] = c => j = k
        BY <1>1, <1>3
      <3> QED
        BY <1>3, <3>1
    <2>3. \E g \in Files : c \in ToSet(ch[g])
      BY <1>2, <1>3
    <2>4. next(c) = IF k = Len(ch[f]) THEN EOC ELSE ch[f][k + 1]
      <3> DEFINE g == CHOOSE g \in Files : c \in ToSet(ch[g])
                 j == CHOOSE j \in DOMAIN ch[g] : ch[g][j] = c
      <3>1. next(c) = IF j = Len(ch[g]) THEN EOC ELSE ch[g][j + 1]
        BY <2>3
      <3>2. g = f
        BY <2>1
      <3>3. j = k
        BY <2>2, <3>2
      <3> HIDE DEF g, j, next
      <3> QED
        BY <3>1, <3>2, <3>3
    <2>5. Len(ch[f]) \in Nat /\ k \in 1..Len(ch[f]) /\ ch[f] \in Seq(Clusters)
      BY <1>1, <1>3
    <2> HIDE DEF next
    <2>6. k < Len(ch[f]) => ch[f][k + 1] \in Clusters
      BY <2>5
    <2> QED
      BY <2>4, <2>5, <2>6 DEF Links
  <1>4. ASSUME \A f \in Files : \A k \in DOMAIN ch[f] : ch[f][k] # c
        PROVE  next(c) = FREE
    BY <1>2, <1>4
  <1>5. next(c) \in Links
    <2> HIDE DEF next
    <2>1. CASE \E f \in Files : \E k \in DOMAIN ch[f] : ch[f][k] = c
      BY <1>3, <2>1
    <2>2. CASE \A f \in Files : \A k \in DOMAIN ch[f] : ch[f][k] # c
      BY <1>4, <2>2 DEF Links
    <2> QED
      BY <2>1, <2>2
  <1>6. FatOf(ch) = [x \in Cells |-> IF x < 2 * w THEN 15 ELSE Digit(next(x \div w), x % w)]
    BY DEF FatOf
  <1>7. ASSUME NEW x \in Entry(c), x \in Cells
        PROVE  FatOf(ch)[x] = Digit(next(c), x - w * c)
    <2>1. w \in {3, 4} /\ c \in Nat /\ c >= 2
      BY FatAssumption DEF OneDrive, Clusters
    <2>2. x \div w = c /\ x % w = x - w * c /\ ~(x < 2 * w)
      <3>1. CASE w = 3
        BY <2>1, <3>1 DEF Entry
      <3>2. CASE w = 4
        BY <2>1, <3>2 DEF Entry
      <3> QED
        BY <2>1, <3>1, <3>2
    <2> HIDE DEF next
    <2> QED
      BY <1>6, <1>7, <2>2
  <1> HIDE DEF next
  <1>8. \A f \in Files : \A k \in DOMAIN ch[f] : ch[f][k] = c =>
          next(c) = IF k < Len(ch[f]) THEN ch[f][k + 1] ELSE EOC
    BY <1>3
  <1> QED
    BY <1>4, <1>5, <1>7, <1>8

LEMMA ChainInit ==
  ASSUME NoneSpans, Init
  PROVE  ChainInv
  <1>1. Sound
    BY SoundInit
  <1>2. PICK ch \in Chains :
          /\ disk2 = FatOf(ch)
          /\ o_strtcl = [f \in Files |-> IF ch[f] = <<>> THEN 0 ELSE Head(ch[f])]
    BY DEF Init
  <1>3. ch \in Layouts
    BY FatAssumption DEF Layouts
  <1>4. \A x \in Cells : CellNow(x) = disk2[x]
    BY <1>1, CellNowIs, CellRec DEF Sound, Init, NoRec
  <1>5. ASSUME NEW c \in Clusters
        PROVE  /\ \A f \in Files : \A k \in DOMAIN ch[f] : ch[f][k] = c =>
                    LinkOf(c) = IF k < Len(ch[f]) THEN ch[f][k + 1] ELSE EOC
               /\ (\A f \in Files : \A k \in DOMAIN ch[f] : ch[f][k] # c) => LinkOf(c) = FREE
    <2>1. PICK link \in Links :
            /\ \A f \in Files : \A k \in DOMAIN ch[f] : ch[f][k] = c =>
                 link = IF k < Len(ch[f]) THEN ch[f][k + 1] ELSE EOC
            /\ (\A f \in Files : \A k \in DOMAIN ch[f] : ch[f][k] # c) => link = FREE
            /\ \A x \in Entry(c) : x \in Cells => FatOf(ch)[x] = Digit(link, x - w * c)
      BY <1>1, FatOfIs DEF Sound
    <2>2. \A x \in Entry(c) : CellNow(x) = Digit(link, x - w * c)
      BY <1>1, <1>2, <1>4, <2>1, EntryAt DEF Sound
    <2>3. c \in Nat /\ w \in {3, 4}
      BY <1>1, FatAssumption DEF Clusters, Sound, OneDrive
    <2>4. \A k \in 0..w - 1 : w * c + k \in Entry(c) /\ (w * c + k) - w * c = k
      BY <2>3 DEF Entry
    <2>5. [k \in 0..w - 1 |-> CellNow(w * c + k)] = [k \in 0..w - 1 |-> Digit(link, k)]
      BY <2>2, <2>4
    <2>6. LinkOf(c) = link
      BY <1>1, <2>5, LinkReadBack DEF LinkOf, Sound
    <2> QED
      BY <2>1, <2>6
  <1>6. \A f \in Files : ch[f] \in Seq(Clusters)
    BY <1>3 DEF Layouts
  <1>7. Laid(ch, {}, LinkMap)
    <2>1. \A f, g \in Files : \A j \in DOMAIN ch[f], k \in DOMAIN ch[g] :
            ch[f][j] = ch[g][k] => f = g /\ j = k
      BY FatAssumption
    <2>2. \A f \in Files : \A k \in DOMAIN ch[f] : ch[f][k] \in Clusters
      BY <1>6
    <2>3. \A f \in Files : \A k \in DOMAIN ch[f] :
            LinkMap[ch[f][k]] = IF k < Len(ch[f]) THEN ch[f][k + 1] ELSE EOC
      BY <1>5, <2>2 DEF LinkMap
    <2>4. \A c \in Clusters :
            (\A f \in Files : \A k \in DOMAIN ch[f] : ch[f][k] # c) => LinkMap[c] = FREE
      BY <1>5 DEF LinkMap
    <2> QED
      BY <2>1, <2>3, <2>4 DEF Laid
  <1>8. \A f \in Files : Owns(ch, f)
    <2>1. \A f \in Files : ch[f] # <<>> => Head(ch[f]) = ch[f][1]
      BY <1>6
    <2> QED
      BY <1>2, <2>1 DEF Init, Owns
  <1>9. At(ch) /\ Unended = {}
    BY DEF Init, At, Unended
  <1>10. Chained(ch)
    BY <1>7, <1>8, <1>9 DEF Chained
  <1> QED
    BY <1>3, <1>10 DEF Init, ChainInv

LEMMA ChainStep ==
  ASSUME NoneSpans, Sound, Clean, Sound', ChainInv, [Next]_vars
  PROVE  ChainInv'
  <1>1. errs' \in Nat /\ (errs' = 0 => errs = 0)
    <2>1. BufferStep
      BY StepBuffers DEF Sound
    <2>2. errs' = errs \/ errs' = errs + 1
      <3>1. Stores => errs' = errs
        BY DEF Stores, Fixes
      <3> QED
        BY <2>1, <3>1 DEF BufferStep, Quiet, Finds, Loads, Breaks, Broken, Cleans
    <2> QED
      BY <2>2 DEF ChainInv
  <1> SUFFICES ASSUME errs' = 0
               PROVE  \E ch \in Layouts : Chained(ch)'
    BY <1>1 DEF ChainInv
  <1>2. errs = 0 /\ errs' = errs /\ errs \in Nat
    BY <1>1 DEF ChainInv
  <1>3. PICK ch \in Layouts : Chained(ch)
    BY <1>2 DEF ChainInv
  <1>4. SUFFICES ASSUME ~Chained(ch)'
                 PROVE  \E ch2 \in Layouts : Chained(ch2)'
    BY <1>3
  <1>5. ~Breaks
    BY <1>2 DEF Breaks, Broken
  <1>6. pc \notin {"link", "unlink", "end"} => LinkMap' = LinkMap
    BY <1>2, LinksQuiet DEF Stores
  <1>7. ASSUME NEW c, NEW wrt, Access(c, wrt), pc \in {"link", "unlink", "end"} => c = Target /\ wrt
        PROVE  FALSE
    <2>1. UNCHANGED <<files, call>> /\ LinkMap' = LinkMap
      BY <1>2, <1>7, AccessQuiet
    <2> QED
      BY <1>3, <1>4, <2>1, ChainedQuiet DEF call
  <1>8. ~\E todo \in SUBSET Bufs : Broken(todo)
    BY <1>5 DEF Breaks
  <1>9. \A r : ~getrecFails(r)
    BY <1>8 DEF getrecFails, ToFlush, Dirty
  <1>10. CASE XrwMore \/ XrwEnds \/ XrwFails
    BY <1>3, <1>4, <1>6, <1>8, <1>10, ChainedRest
    DEF XrwMore, XrwEnds, XrwFails, Return, Goto, Deletes, At, files
  <1>11. CASE NextFirst
    <2>1. pc = "next" /\ o_curcl[fd] = 0 /\ fd \in Files /\ LinkMap' = LinkMap
      BY <1>6, <1>11 DEF NextFirst, Sound, Calls
    <2>2. Owns(ch, fd) /\ ch[fd] \in Seq(Clusters)
      BY <1>3, <2>1 DEF Chained, Deletes, Layouts
    <2>3. PICK v : Beyond(0, v) /\ v = IF o_strtcl[fd] # 0 THEN o_strtcl[fd] ELSE EOC
      BY <1>11 DEF NextFirst
    <2>4. ch[fd] # <<>> => 1 \in DOMAIN ch[fd] /\ ch[fd][1] \in Clusters
      BY <2>2
    <2>5. /\ v \in Clusters \cup {EOC}
          /\ v \in Clusters => \E k \in DOMAIN ch[fd] : ch[fd][k] = v
          /\ v = EOC => ch[fd] = <<>>
      BY <2>2, <2>3, <2>4, ClusterNumbers DEF Owns, EOC
    <2> QED
      BY <1>3, <1>4, <2>1, <2>3, <2>5, BeyondChained
  <1>12. CASE NextFollow
    <2>1. pc = "next" /\ o_curcl[fd] # 0 /\ fd \in Files /\ LinkMap' = LinkMap
      BY <1>6, <1>12 DEF NextFollow, Sound, Calls
    <2>2. o_curcl[fd] \in Clusters
      BY <2>1 DEF Sound, Calls
    <2>3. Gets(o_curcl[fd]) /\ Beyond(o_curcl[fd], Got(o_curcl[fd]))
      BY <1>7, <1>12, <2>1 DEF NextFollow
    <2>4. Got(o_curcl[fd]) = LinkMap[o_curcl[fd]]
      BY <2>1, <2>2, <2>3, GotIs DEF Gets, LinkMap
    <2>5. Owns(ch, fd) /\ ch[fd] \in Seq(Clusters) /\ Laid(ch, {}, LinkMap)
      BY <1>3, <2>1 DEF Chained, Deletes, Unended, Layouts
    <2>6. PICK k \in DOMAIN ch[fd] : ch[fd][k] = o_curcl[fd]
      BY <2>1, <2>5 DEF Owns
    <2>7. LinkMap[o_curcl[fd]] = IF k < Len(ch[fd]) THEN ch[fd][k + 1] ELSE EOC
      BY <2>1, <2>5, <2>6 DEF Laid
    <2>8. k \in 1..Len(ch[fd]) /\ Len(ch[fd]) \in Nat
      BY <2>5, <2>6
    <2>9. k < Len(ch[fd]) => k + 1 \in DOMAIN ch[fd] /\ ch[fd][k + 1] \in Clusters
      BY <2>5, <2>8
    <2>10. EOC \notin Clusters /\ ch[fd] # <<>>
      BY <2>8, ClusterNumbers, EmptySeq
    <2>11. PICK v : v = LinkMap[o_curcl[fd]]
      OBVIOUS
    <2>12. Beyond(o_curcl[fd], v)
      BY <2>3, <2>4, <2>11
    <2>13. /\ v \in Clusters \cup {EOC}
           /\ v \in Clusters => \E j \in DOMAIN ch[fd] : ch[fd][j] = v
           /\ v = EOC => o_curcl[fd] = ch[fd][Len(ch[fd])]
      BY <2>6, <2>7, <2>8, <2>9, <2>10, <2>11
    <2> QED
      BY <1>3, <1>4, <2>1, <2>10, <2>12, <2>13, BeyondChained
  <1>13. CASE NextScan
    <2>1. /\ pc = "scan" /\ fd \in Files /\ rover \in Clusters /\ LinkMap' = LinkMap
          /\ cl = IF ch[fd] = <<>> THEN 0 ELSE ch[fd][Len(ch[fd])]
      BY <1>3, <1>6, <1>13 DEF NextScan, Sound, Calls, Chained, At
    <2>2. ~Access(rover, FALSE)
      BY <1>7, <2>1
    <2>3. Gets(rover) => Got(rover) = LinkMap[rover]
      BY <2>1, GotIs DEF Gets, LinkMap
    <2>4. CASE Gets(rover) /\ Got(rover) = FREE /\ Grow(rover)
      <3>1. LinkMap[rover] = FREE
        BY <2>3, <2>4
      <3>2. CASE cl # 0
        <4>1. pc' = "link" /\ UNCHANGED <<fd, cl, o_strtcl, o_curcl>> /\ cl2' = rover
          BY <2>4, <3>2 DEF Grow, Goto
        <4>2. At(ch)'
          BY <2>1, <3>1, <3>2, <4>1 DEF At
        <4> QED
          BY <1>3, <1>4, <2>1, <4>1, <4>2, ChainedRest DEF Deletes
      <3>3. CASE cl = 0
        <4>1. /\ pc' = "end" /\ UNCHANGED <<fd, o_curcl>> /\ cl2' = rover
              /\ o_strtcl' = [o_strtcl EXCEPT ![fd] = rover]
          BY <2>4, <3>3 DEF Grow, Goto
        <4>2. ch[fd] = <<>>
          <5>1. ch[fd] # <<>> => ch[fd][Len(ch[fd])] \in Clusters
            BY <2>1 DEF Layouts
          <5> QED
            BY <2>1, <3>3, <5>1, ClusterNumbers
        <4>3. PICK c \in Clusters : c = rover
          BY <2>1
        <4> QED
          BY <1>3, <2>1, <3>1, <4>1, <4>2, <4>3, ExtendChained
      <3> QED
        BY <3>2, <3>3
    <2>5. CASE Got(rover) # FREE /\ UNCHANGED <<pc, fd, wrtflg, cl, cl2, pointer, files>>
      BY <1>3, <1>4, <2>1, <2>5, ChainedQuiet
    <2> QED
      BY <1>13, <2>2, <2>4, <2>5 DEF NextScan
  <1>14. CASE NextFull
    <2>1. /\ pc \notin {"end", "del", "unlink"} /\ pc' = "idle" /\ UNCHANGED files
          /\ LinkMap' = LinkMap
      BY <1>6, <1>14 DEF NextFull, NoNext, Return
    <2> QED
      BY <1>3, <1>4, <2>1, ChainedRest DEF Deletes, At, files
  <1>15. CASE xgscan16
    <2>1. /\ pc = "xgscan16" /\ fd \in Files /\ rover \in Nat /\ rover >= 2
          /\ LinkMap' = LinkMap /\ ch[fd] = <<>>
      BY <1>3, <1>6, <1>15 DEF xgscan16, Sound, Calls, Chained, At
    <2>2. PICK b \in Bufs :
            /\ getdirrec(b, LoRec(rover), FALSE)
            /\ \/ \E c \in rover..numcl - 1 :
                    /\ LoRec(c) = LoRec(rover)
                    /\ Value([k \in 0..w - 1 |-> b_data'[b][w * c + k]]) = FREE
                    /\ cl2' = c /\ pc' = "end" /\ o_strtcl' = [o_strtcl EXCEPT ![fd] = c]
               \/ UNCHANGED <<cl2, pc, o_strtcl>>
            /\ UNCHANGED <<fd, cl, o_curcl, w, rs>>
      BY <1>9, <1>15 DEF xgscan16, getdirrecFails, Goto
    <2>3. CASE UNCHANGED <<cl2, pc, o_strtcl>>
      BY <1>3, <1>4, <2>1, <2>2, <2>3, ChainedQuiet DEF files
    <2>4. ASSUME NEW c \in rover..numcl - 1, LoRec(c) = LoRec(rover),
                 Value([k \in 0..w - 1 |-> b_data'[b][w * c + k]]) = FREE,
                 cl2' = c, pc' = "end", o_strtcl' = [o_strtcl EXCEPT ![fd] = c]
          PROVE  \E ch2 \in Layouts : Chained(ch2)'
      <3>1. c \in Clusters /\ c \in Nat
        BY <2>1, FatAssumption DEF Clusters
      <3>2. b_bufrec'[b] = LoRec(c)
        BY <2>2, <2>4 DEF getdirrec, getrec, Found, Load, Sound, Buffers
      <3>3. \A x \in Entry(c) : CellNow(x)' = b_data'[b][x]
        BY <2>2, <3>1, <3>2, EntryAt, CellNextIs DEF Sound
      <3>4. w \in Nat
        BY FatAssumption DEF Sound, OneDrive
      <3>5. \A k \in 0..w - 1 : w * c + k \in Entry(c)
        BY <3>1, <3>4 DEF Entry
      <3>6. [k \in 0..w - 1 |-> CellNow(w * c + k)]' = [k \in 0..w - 1 |-> b_data'[b][w * c + k]]
        BY <2>2, <3>3, <3>5
      <3>7. LinkOf(c)' = FREE
        BY <2>4, <3>6 DEF LinkOf
      <3>8. LinkMap'[c] = FREE
        BY <3>1, <3>7 DEF LinkMap
      <3>9. LinkMap[c] = FREE
        BY <2>1, <3>8
      <3> QED
        BY <1>3, <2>1, <2>2, <2>4, <3>1, <3>9, ExtendChained
    <2> QED
      BY <2>2, <2>3, <2>4
  <1>16. CASE NextLink
    <2>1. /\ pc = "link" /\ Target = cl /\ cl \in Clusters /\ cl2 \in Clusters
          /\ ch[fd] # <<>> /\ cl = ch[fd][Len(ch[fd])] /\ LinkMap[cl2] = FREE
      BY <1>3, <1>16 DEF NextLink, Sound, Calls, Chained, At, Target
    <2>2. /\ Fixes(cl, cl2) /\ pc' = "end"
          /\ UNCHANGED <<files, fd, wrtflg, cl, cl2, rover, i>>
      BY <1>7, <1>16, <2>1 DEF NextLink, Goto
    <2>3. PICK t \in Clusters, c \in Clusters : t = cl /\ c = cl2
      BY <2>1
    <2>4. LinkMap' = [LinkMap EXCEPT ![t] = c]
      <3>1. Fixes(t, c) /\ c \in Links
        BY <2>2, <2>3 DEF Links
      <3> QED
        BY <1>2, <2>1, <2>3, <3>1, LinksFixed
    <2> QED
      BY <1>3, <2>1, <2>2, <2>3, <2>4, ExtendChained DEF files
  <1>17. CASE NextEnd
    <2>1. pc = "end" /\ Target = cl2 /\ cl2 \in Clusters
      BY <1>17 DEF NextEnd, Sound, Calls, Target
    <2>2. Fixes(cl2, EOC) /\ Arrive(cl2)
      BY <1>7, <1>17, <2>1 DEF NextEnd
    <2>3. PICK t \in Clusters : t = cl2
      BY <2>1
    <2>4. LinkMap' = [LinkMap EXCEPT ![t] = EOC]
      <3>1. Fixes(t, EOC) /\ EOC \in Links
        BY <2>2, <2>3 DEF Links
      <3> QED
        BY <1>2, <2>1, <2>3, <3>1, LinksFixed
    <2> QED
      BY <1>3, <1>4, <2>1, <2>2, <2>3, <2>4, EndChained
  <1>18. CASE SeekWalk
    <2>1. pc = "seek" /\ cl \in Clusters /\ fd \in Files /\ LinkMap' = LinkMap
      BY <1>6, <1>18 DEF SeekWalk, Sound, Calls
    <2>2. PICK k \in DOMAIN ch[fd] : ch[fd][k] = cl
      BY <1>3, <2>1 DEF Chained, At
    <2>3. Gets(cl) => Got(cl) = LinkMap[cl]
      BY <2>1, GotIs DEF Gets, LinkMap
    <2>4. LinkMap[cl] = IF k < Len(ch[fd]) THEN ch[fd][k + 1] ELSE EOC
      BY <1>3, <2>1, <2>2 DEF Chained, Unended, Laid
    <2>5. LinkMap[cl] \in Clusters => \E j \in DOMAIN ch[fd] : ch[fd][j] = LinkMap[cl]
      <3>1. k \in 1..Len(ch[fd]) /\ Len(ch[fd]) \in Nat /\ ch[fd] \in Seq(Clusters)
        BY <2>1, <2>2 DEF Layouts
      <3>2. k < Len(ch[fd]) => k + 1 \in DOMAIN ch[fd]
        BY <3>1
      <3> QED
        BY <2>4, <3>2, ClusterNumbers
    <2>6. CASE /\ Got(cl) \in Clusters /\ cl' = Got(cl) /\ Gets(cl)
               /\ UNCHANGED <<pc, fd, wrtflg, cl2, rover, i, pointer, files>>
      <3>1. At(ch)'
        BY <2>1, <2>3, <2>5, <2>6 DEF At
      <3> QED
        BY <1>3, <1>4, <2>1, <2>6, <3>1, ChainedRest DEF Deletes, files
    <2>7. CASE Return /\ UNCHANGED files
      BY <1>3, <1>4, <2>1, <2>7, ChainedRest DEF Deletes, At, Return, files
    <2> QED
      BY <1>7, <1>18, <2>1, <2>6, <2>7 DEF SeekWalk
  <1>19. CASE SeekEnds
    <2>1. /\ pc = "seek" /\ fd \in Files /\ pc' = "idle" /\ o_strtcl' = o_strtcl
          /\ o_curcl' = [o_curcl EXCEPT ![fd] = cl] /\ LinkMap' = LinkMap
          /\ o_curcl \in [Files -> Clusters \cup {0}]
      BY <1>6, <1>19 DEF SeekEnds, Sound, Calls, Return
    <2>2. \E k \in DOMAIN ch[fd] : ch[fd][k] = cl
      BY <1>3, <2>1 DEF Chained, At
    <2> QED
      BY <1>3, <1>4, <2>1, <2>2, ChainedRest DEF Deletes, At
  <1>20. CASE DeleteGet
    <2>1. /\ pc = "del" /\ fd \in Files /\ LinkMap' = LinkMap
          /\ cl = IF ch[fd] = <<>> THEN EOC ELSE ch[fd][1]
          /\ Laid(ch, {}, LinkMap) /\ ch[fd] \in Seq(Clusters)
      BY <1>3, <1>6, <1>20 DEF DeleteGet, Sound, Calls, Chained, At, Unended, Layouts
    <2>2. CASE cl = EOC
      <3>1. ch[fd] = <<>>
        <4>1. ch[fd] # <<>> => ch[fd][1] \in Clusters
          BY <2>1
        <4> QED
          BY <2>1, <2>2, <4>1, ClusterNumbers
      <3>2. Deleted
        BY <1>20, <2>2 DEF DeleteGet
      <3>3. /\ pc' = "idle" /\ o_strtcl' = [o_strtcl EXCEPT ![fd] = 0]
            /\ o_curcl' = [o_curcl EXCEPT ![fd] = 0]
        BY <3>2 DEF Deleted, Return
      <3>4. Laid(ch, Unended, LinkMap)'
        BY <2>1, <3>3 DEF Unended, Laid
      <3>5. ASSUME NEW f \in Files
            PROVE  Owns(ch, f)'
        <4>1. f # fd => Owns(ch, f)
          BY <1>3 DEF Chained
        <4> QED
          BY <3>1, <3>3, <4>1 DEF Owns, Sound, Calls
      <3>6. At(ch)'
        BY <3>3 DEF At
      <3> QED
        BY <1>4, <3>4, <3>5, <3>6 DEF Chained
    <2>3. CASE cl # EOC
      <3>1. cl \in Clusters /\ ch[fd] # <<>> /\ cl = ch[fd][1] /\ 1 \in DOMAIN ch[fd]
        BY <2>1, <2>3
      <3>2. LinkMap[cl] \in Clusters \cup {EOC}
        BY <1>3, <2>1, <3>1, ChainTaken
      <3>3. Gets(cl) => Got(cl) = LinkMap[cl]
        BY <2>1, <3>1, GotIs DEF Gets, LinkMap
      <3>4. LinkMap[cl] \in Links /\ LinkMap[cl] # FREE
        BY <3>2, ClusterNumbers DEF Links, FREE, EOC
      <3>5. /\ Gets(cl) /\ cl2' = LinkMap[cl] /\ pc' = "unlink"
            /\ UNCHANGED <<files, fd, cl>>
        BY <1>7, <1>20, <2>1, <2>3, <3>3, <3>4 DEF DeleteGet, Goto
      <3>6. At(ch)'
        BY <2>1, <3>1, <3>5 DEF At
      <3>7. Laid(ch, Unended, LinkMap)'
        BY <2>1, <3>5 DEF Unended, Laid
      <3>8. ASSUME NEW f \in Files, f # fd
            PROVE  Owns(ch, f)'
        <4>1. Owns(ch, f)
          BY <1>3, <3>8 DEF Chained
        <4> QED
          BY <3>5, <4>1 DEF Owns, files
      <3> QED
        BY <1>4, <3>5, <3>6, <3>7, <3>8 DEF Chained, Deletes
    <2> QED
      BY <2>2, <2>3
  <1>21. CASE DeleteFix
    <2>1. pc = "unlink" /\ Target = cl /\ cl \in Clusters
      BY <1>21 DEF DeleteFix, Sound, Calls, Target
    <2>2. Fixes(cl, FREE) /\ cl' = cl2 /\ pc' = "del" /\ UNCHANGED <<files, fd>>
      BY <1>7, <1>21, <2>1 DEF DeleteFix, Goto
    <2>3. PICK t \in Clusters : t = cl
      BY <2>1
    <2>4. LinkMap' = [LinkMap EXCEPT ![t] = FREE]
      <3>1. Fixes(t, FREE) /\ FREE \in Links
        BY <2>2, <2>3 DEF Links
      <3> QED
        BY <1>2, <2>1, <2>3, <3>1, LinksFixed
    <2> QED
      BY <1>3, <2>1, <2>2, <2>3, <2>4, FreeChained
  <1>22. ASSUME NEW f \in Files,
                (\E wrt \in BOOLEAN : Xrw(f, wrt)) \/ Seek(f) \/ SeekStart(f) \/ Delete(f)
         PROVE  FALSE
    <2>1. pc = "idle" /\ LinkMap' = LinkMap
      BY <1>6, <1>22 DEF Xrw, Seek, SeekStart, Delete
    <2>2. Owns(ch, f) /\ ch[f] \in Seq(Clusters) /\ ~Deletes
      BY <1>3, <2>1 DEF Chained, Deletes, Layouts
    <2>3. CASE \E wrt \in BOOLEAN : Xrw(f, wrt)
      BY <1>3, <1>4, <2>1, <2>2, <2>3, ChainedRest DEF Xrw, Goto, Deletes, At, files
    <2>4. CASE SeekStart(f)
      BY <1>3, <1>4, <2>1, <2>2, <2>4, ChainedRest DEF SeekStart, Deletes, At, call, Sound, Calls
    <2>5. ch[f] # <<>> => 1 \in DOMAIN ch[f]
      BY <2>2
    <2>6. CASE Seek(f)
      <3>1. /\ pc' = "seek" /\ fd' = f /\ cl' = o_strtcl[f] /\ o_strtcl[f] # 0
            /\ o_strtcl' = o_strtcl /\ o_curcl' = o_curcl
        BY <2>6 DEF Seek, Goto, files
      <3>2. \E k \in DOMAIN ch[f] : ch[f][k] = cl'
        BY <2>2, <2>5, <3>1 DEF Owns
      <3>3. At(ch)'
        BY <3>1, <3>2 DEF At
      <3> QED
        BY <1>3, <1>4, <2>1, <2>2, <3>1, <3>3, ChainedRest DEF Deletes
    <2>7. CASE Delete(f)
      <3>1. /\ pc' = "del" /\ fd' = f /\ cl' = o_strtcl[f] /\ o_strtcl[f] # 0
            /\ UNCHANGED files
        BY <2>7 DEF Delete, Goto
      <3>2. At(ch)'
        BY <2>2, <3>1 DEF At, Owns
      <3>3. Laid(ch, Unended, LinkMap)'
        BY <1>3, <2>1, <3>1 DEF Chained, Unended, Laid
      <3>4. \A g \in Files : Owns(ch, g)'
        BY <1>3, <2>2, <3>1 DEF Chained, Owns, files
      <3> QED
        BY <1>4, <3>2, <3>3, <3>4 DEF Chained
    <2> QED
      BY <1>22, <2>3, <2>4, <2>6, <2>7
  <1>23. CASE Close
    <2>1. UNCHANGED <<files, call>> /\ pc = "idle"
      BY <1>8, <1>23 DEF Close, Dirty
    <2> QED
      BY <1>3, <1>4, <1>6, <2>1, ChainedQuiet DEF call
  <1>24. CASE \E wrt \in BOOLEAN : Root(wrt)
    <2>1. UNCHANGED <<files, call>> /\ pc = "idle"
      BY <1>9, <1>24 DEF Root
    <2> QED
      BY <1>3, <1>4, <1>6, <2>1, ChainedQuiet DEF call
  <1>25. CASE UNCHANGED vars
    <2>1. UNCHANGED <<files, call>> /\ LinkMap' = LinkMap
      BY <1>25 DEF vars, LinkMap, LinkOf, CellNow, bufs, disks
    <2> QED
      BY <1>3, <1>4, <2>1, ChainedQuiet DEF call
  <1> QED
    BY <1>10, <1>11, <1>12, <1>13, <1>14, <1>15, <1>16, <1>17, <1>18, <1>19, <1>20, <1>21,
       <1>22, <1>23, <1>24, <1>25 DEF Next, Step

LEMMA ChainAlways ==
  ASSUME NoneSpans
  PROVE  Spec => [](Sound /\ Clean /\ ChainInv)
  <1>1. Init => ChainInv
    BY ChainInit
  <1>2. Sound /\ Clean /\ Sound' /\ ChainInv /\ [Next]_vars => ChainInv'
    BY ChainStep
  <1> QED
    BY <1>1, <1>2, CleanAlways, PTL DEF Spec

\* Where no entry lies in two records, the chains of the files are apart, each
\* ends, and every other cluster is free, whenever no call is in progress and
\* there was no disk error: what nextcl gives out is in no chain, and a link
\* is never left without its end, whatever the buffers have been taken for
\* between the two calls of clfix.
THEOREM ChainsAlwaysOK ==
  ASSUME NoneSpans
  PROVE  Spec => []ChainsOK
  <1>1. ASSUME ChainInv
        PROVE  ChainsOK
    <2> SUFFICES ASSUME errs = 0, pc = "idle"
                 PROVE  ChainsOK
      BY DEF ChainsOK
    <2>1. PICK ch \in Layouts : Chained(ch)
      BY <1>1 DEF ChainInv
    <2>2. Laid(ch, {}, LinkMap) /\ \A f \in Files : Owns(ch, f) /\ ch[f] \in Seq(Clusters)
      BY <2>1 DEF Chained, Unended, Deletes, Layouts
    <2> DEFINE used == {f \in Files : o_strtcl[f] # 0}
               chain == [f \in used |-> ChainFrom(o_strtcl[f])]
               owned(f) == ToSet(chain[f]) \ {EOC}
    <2>3. \A f \in Files : f \in used <=> ch[f] # <<>>
      <3>1. \A f \in Files : ch[f] # <<>> => ch[f][1] \in Clusters
        BY <2>2
      <3> QED
        BY <2>2, <3>1, ClusterNumbers DEF Owns
    <2>4. ASSUME NEW f \in used
          PROVE  /\ Last(chain[f]) = EOC
                 /\ \A c : c \in owned(f) <=> \E k \in DOMAIN ch[f] : ch[f][k] = c
                 /\ owned(f) \subseteq Clusters
      <3>1. ch[f] # <<>> /\ o_strtcl[f] = ch[f][1] /\ ch[f] \in Seq(Clusters)
        BY <2>2, <2>3 DEF Owns
      <3>2. chain[f] = Append(ch[f], EOC)
        BY <2>2, <3>1, ChainFromIs
      <3> DEFINE s == ch[f]  e == Append(s, EOC)
      <3>3. /\ Len(s) \in Nat /\ DOMAIN s = 1..Len(s) /\ \A k \in 1..Len(s) : s[k] \in Clusters
            /\ Len(e) = Len(s) + 1 /\ DOMAIN e = 1..Len(s) + 1 /\ e[Len(s) + 1] = EOC
            /\ \A k \in 1..Len(s) : e[k] = s[k]
        BY <3>1
      <3> HIDE DEF s, e
      <3>4. \A c : c \in ToSet(e) \ {EOC} <=> \E k \in DOMAIN s : s[k] = c
        BY <3>3, ClusterNumbers DEF ToSet
      <3>5. Last(e) = EOC
        BY <3>3 DEF Last
      <3>6. chain[f] = e
        BY <3>2 DEF s, e
      <3> HIDE DEF chain, used
      <3>7. \A c : c \in owned(f) <=> \E k \in DOMAIN s : s[k] = c
        BY <3>4, <3>6
      <3> QED
        BY <3>3, <3>5, <3>6, <3>7 DEF s
    <2> HIDE DEF chain, owned
    <2>5. \A f \in used : o_curcl[f] \in owned(f) \cup {0}
      BY <2>2, <2>4 DEF Owns
    <2>6. \A f, g \in used : f # g => owned(f) \cap owned(g) = {}
      BY <2>2, <2>4 DEF Laid
    <2>7. ASSUME NEW c \in Clusters
          PROVE  LinkOf(c) = FREE <=> \A f \in used : c \notin owned(f)
      <3>1. LinkOf(c) = LinkMap[c]
        BY DEF LinkMap
      <3>2. ASSUME NEW f \in used, c \in owned(f)
            PROVE  LinkMap[c] # FREE
        <4>1. PICK k \in DOMAIN ch[f] : ch[f][k] = c
          BY <2>4, <3>2
        <4>2. LinkMap[c] \in Clusters \cup {EOC}
          BY <2>2, <4>1, ChainTaken
        <4> QED
          BY <4>2, ClusterNumbers DEF FREE, EOC
      <3>3. ASSUME \A f \in used : c \notin owned(f)
            PROVE  LinkMap[c] = FREE
        <4>1. \A f \in Files : \A k \in DOMAIN ch[f] : ch[f][k] # c
          <5>1. \A f \in Files : ch[f] = <<>> => DOMAIN ch[f] = {}
            OBVIOUS
          <5> QED
            BY <2>3, <2>4, <3>3, <5>1
        <4> QED
          BY <2>2, <4>1 DEF Laid
      <3> QED
        BY <3>1, <3>2, <3>3
    <2>8. /\ \A f \in used : Last(chain[f]) = EOC /\ owned(f) \subseteq Clusters
          /\ \A c \in Clusters : LinkOf(c) = FREE <=> \A f \in used : c \notin owned(f)
      BY <2>4, <2>7
    <2> QED
      BY <2>5, <2>6, <2>8 DEF ChainsOK, chain, owned
  <1>2. Sound /\ Clean /\ ChainInv => ChainsOK
    BY <1>1
  <1> QED
    BY <1>2, ChainAlways, PTL

=============================================================================
