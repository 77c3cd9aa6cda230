-------------------------- MODULE FileTable_proofs --------------------------
(* Proofs about the open files of GEMDOS, for any number of processes,     *)
(* standard handles, entries of sft, descriptors and files.                *)
EXTENDS FileTable, FiniteSetTheorems, WellFoundedInduction, TLAPS

-----------------------------------------------------------------------------
(* The inductive invariant.                                                *)

\* the part of TypeOK about handles and processes
SftType ==
  /\ f_own \in [Slots -> PDs \cup {NULL}]
  /\ f_use \in [Slots -> Nat]
  /\ f_ofd \in [Slots -> OFDs \cup {Device, NULL}]
  /\ p_uft \in [PDs -> [Std -> Handles \cup {Device}]]
  /\ run \in Seq(PDs) /\ run # <<>>
  /\ ending \in [pd : PDs \cup {NULL}, std : 0..NUMSTD, slot : 0..NSFT]
  /\ held \subseteq Slots /\ lost \in [Slots -> Nat]

\* a base page has one process at a time
Chain ==
  /\ \A k, m \in DOMAIN run : run[k] = run[m] => k = m
  /\ ending.pd \notin Live

\* UseCounts for one entry, and which entries are in use
Counted(i) ==
  /\ f_use[i] = (IF i \in held THEN 1 ELSE 0) + Refers(i) + lost[i]
  /\ f_use[i] = 0 <=> f_own[i] = NULL
  /\ f_own[i] = NULL <=> f_ofd[i] = NULL
  /\ Refers(i) > 0 => f_ofd[i] \in OFDs

\* a standard handle leads to what its process or one before it has opened
Below ==
  /\ \A k \in DOMAIN run, n \in Std, i \in Slots :
       p_uft[run[k]][n] = i + NUMSTD => \E m \in 1..k : f_own[i] = run[m]
  /\ \A n \in Std, i \in Slots :
       /\ ending.pd # NULL /\ n >= ending.std
       /\ p_uft[ending.pd][n] = i + NUMSTD
       => f_own[i] \in Live \cup {ending.pd}

\* NothingOutlives, and what the second loop of ixterm has done
Left ==
  \A i \in Slots :
    /\ f_own[i] \notin Live \cup {NULL, ending.pd} => lost[i] > 0
    /\ ending.pd # NULL /\ f_own[i] = ending.pd /\ i < ending.slot => lost[i] > 0

FileInv == SftType /\ Chain /\ (\A i \in Slots : Counted(i)) /\ Below /\ Left
-----------------------------------------------------------------------------
(* Lemmas about sets and cardinalities.                                    *)

\* the entry ffhndl finds is a free one
LEMMA FirstLeast ==
  ASSUME NEW S \in SUBSET Nat, S # {}
  PROVE  First(S) \in S /\ \A j \in S : First(S) <= j
  <1> DEFINE R == {ss \in Nat \X Nat : ss[1] < ss[2]}
  <1>1. IsWellFoundedOn(R, Nat)
    <2>1. IsWellFoundedOn(OpToRel(<, Nat), Nat)
      BY NatLessThanWellFounded
    <2> QED
      BY <2>1 DEF OpToRel
  <1> HIDE DEF R
  <1>2. \E i \in S : \A j \in S : ~ (<<j, i>> \in R)
    BY <1>1, WFMin, Zenon
  <1>3. ASSUME NEW i \in Nat, NEW j \in Nat, <<j, i>> \notin R
        PROVE  i <= j
    <2>1. ~(j < i)
      BY <1>3 DEF R
    <2> QED
      BY <2>1
  <1>4. \E i \in S : \A j \in S : i <= j
    BY <1>2, <1>3
  <1> QED
    BY <1>4 DEF First

LEMMA FirstIn ==
  ASSUME NEW S \in SUBSET Nat, S # {}
  PROVE  First(S) \in S
  BY FirstLeast

LEMMA FreeEntry ==
  ASSUME Free # {}
  PROVE  ffhndl \in Slots /\ f_own[ffhndl] = NULL
  <1>1. Free \in SUBSET Nat
    BY FileAssumption DEF Free, Slots
  <1>2. ffhndl \in Free
    BY <1>1, FirstIn, Zenon DEF ffhndl
  <1> QED
    BY <1>2 DEF Free

\* pairs of a process and a standard handle are finitely many
LEMMA PairsFinite ==
  ASSUME NEW R \in SUBSET (PDs \X Std)
  PROVE  /\ IsFiniteSet(R) /\ Cardinality(R) \in Nat
         /\ Cardinality(R) = 0 <=> R = {}
  <1>1. IsFiniteSet(Std)
    BY FS_Interval, FileAssumption DEF Std
  <1>2. IsFiniteSet(PDs \X Std)
    BY <1>1, FS_Product, FileAssumption
  <1>3. IsFiniteSet(R)
    BY <1>2, FS_Subset
  <1> QED
    BY <1>3, FS_CardinalityType, FS_EmptySet

LEMMA ReferringPairs ==
  ASSUME NEW i \in Slots
  PROVE  /\ Referring(i) \in SUBSET (PDs \X Std)
         /\ Referring(i)' \in SUBSET (PDs \X Std)
  BY DEF Referring

LEMMA RefersNat ==
  ASSUME NEW i \in Slots
  PROVE  /\ Refers(i) \in Nat /\ Refers(i)' \in Nat
         /\ Refers(i) = 0 <=> Referring(i) = {}
         /\ Refers(i)' = 0 <=> Referring(i)' = {}
  BY ReferringPairs, PairsFinite DEF Refers

LEMMA OnePairMore ==
  ASSUME NEW A \in SUBSET (PDs \X Std), NEW x
  PROVE  /\ x \notin A => Cardinality(A \cup {x}) = Cardinality(A) + 1
         /\ x \in A => Cardinality(A \ {x}) = Cardinality(A) - 1
  BY PairsFinite, FS_AddElement, FS_RemoveElement
-----------------------------------------------------------------------------
(* Lemmas about references.                                                *)

LEMMA RunFacts ==
  ASSUME SftType
  PROVE  /\ Len(run) \in DOMAIN run /\ DOMAIN run = 1..Len(run) /\ Len(run) \in Nat
         /\ This \in PDs /\ This \in Live /\ Live \subseteq PDs
         /\ NULL \notin Live
         /\ Live = {run[k] : k \in 1..Len(run)}
  <1>1. Len(run) \in 1..Len(run) /\ Len(run) \in Nat /\ DOMAIN run = 1..Len(run)
    BY DEF SftType
  <1>2. \A k \in DOMAIN run : run[k] \in PDs
    BY DEF SftType
  <1> QED
    BY <1>1, <1>2, FileAssumption DEF This, Live

\* while chain and standard handles stay, so do the references
LEMMA SameRefers ==
  ASSUME NEW i \in Slots, UNCHANGED <<p_uft, run, ending>>
  PROVE  Referring(i)' = Referring(i) /\ Refers(i)' = Refers(i)
  <1>1. Referring(i)' = Referring(i)
    BY DEF Referring, Live
  <1> QED
    BY <1>1 DEF Refers

\* what a standard handle of the running process refers to
LEMMA StdRefers ==
  ASSUME SftType, NEW i \in Slots, NEW n \in Std
  PROVE  <<This, n>> \in Referring(i) <=> p_uft[This][n] = i + NUMSTD
  BY RunFacts DEF Referring

\* setting a standard handle of the running process moves one reference
LEMMA SetStd ==
  ASSUME SftType, ending.pd = NULL, NEW n \in Std, NEW v \in Handles \cup {Device},
         p_uft' = [p_uft EXCEPT ![This][n] = v], UNCHANGED <<run, ending>>,
         NEW i \in Slots
  PROVE  /\ v = i + NUMSTD /\ p_uft[This][n] = i + NUMSTD => Refers(i)' = Refers(i)
         /\ v # i + NUMSTD /\ p_uft[This][n] # i + NUMSTD => Refers(i)' = Refers(i)
         /\ v = i + NUMSTD /\ p_uft[This][n] # i + NUMSTD => Refers(i)' = Refers(i) + 1
         /\ v # i + NUMSTD /\ p_uft[This][n] = i + NUMSTD => Refers(i)' = Refers(i) - 1
  <1> DEFINE x == <<This, n>>
  <1>1. \A p \in PDs, m \in Std :
          p_uft'[p][m] = IF p = This /\ m = n THEN v ELSE p_uft[p][m]
    BY RunFacts DEF SftType
  <1>2. Live' = Live /\ ending' = ending
    BY DEF Live
  <1>3. \A r \in PDs \X Std : r # x =>
          (r \in Referring(i)' <=> r \in Referring(i))
    <2>1. ASSUME NEW r \in PDs \X Std, r # x
          PROVE  r \in Referring(i)' <=> r \in Referring(i)
      <3>1. r[1] \in PDs /\ r[2] \in Std /\ ~(r[1] = This /\ r[2] = n)
        BY <2>1
      <3>2. p_uft'[r[1]][r[2]] = p_uft[r[1]][r[2]]
        BY <3>1, <1>1
      <3> QED
        BY <3>2, <1>2 DEF Referring
    <2> QED
      BY <2>1
  <1>4. x \in Referring(i)' <=> v = i + NUMSTD
    <2>1. x \in PDs \X Std /\ This \in Live /\ x[1] = This /\ x[2] = n
      BY RunFacts
    <2>2. p_uft'[This][n] = v
      BY <1>1, RunFacts
    <2> QED
      BY <2>1, <2>2, <1>2 DEF Referring
  <1>5. x \in Referring(i) <=> p_uft[This][n] = i + NUMSTD
    BY StdRefers
  <1>6. Referring(i)' = IF v = i + NUMSTD THEN Referring(i) \cup {x} ELSE Referring(i) \ {x}
    <2>1. x \in PDs \X Std
      BY RunFacts
    <2> QED
      BY <2>1, <1>3, <1>4, ReferringPairs
  <1> HIDE DEF x
  <1>7. CASE v = i + NUMSTD /\ p_uft[This][n] = i + NUMSTD
    <2>1. Referring(i)' = Referring(i)
      BY <1>7, <1>6, <1>5
    <2> QED
      BY <2>1, <1>7 DEF Refers
  <1>8. CASE v # i + NUMSTD /\ p_uft[This][n] # i + NUMSTD
    <2>1. Referring(i)' = Referring(i)
      BY <1>8, <1>6, <1>5
    <2> QED
      BY <2>1, <1>8 DEF Refers
  <1>9. CASE v = i + NUMSTD /\ p_uft[This][n] # i + NUMSTD
    BY <1>9, <1>6, <1>5, OnePairMore, ReferringPairs DEF Refers
  <1>10. CASE v # i + NUMSTD /\ p_uft[This][n] = i + NUMSTD
    BY <1>10, <1>6, <1>5, OnePairMore, ReferringPairs DEF Refers
  <1> QED
    BY <1>7, <1>8, <1>9, <1>10

\* a reference shows in the count
LEMMA ReferredEntry ==
  ASSUME FileInv, NEW i \in Slots, Referring(i) # {}
  PROVE  f_use[i] > 0 /\ f_own[i] # NULL /\ f_ofd[i] \in OFDs
  <1>1. Refers(i) > 0
    BY RefersNat
  <1>2. Counted(i) /\ SftType
    BY DEF FileInv
  <1>3. f_ofd[i] \in OFDs /\ f_own[i] # NULL
    BY <1>1, <1>2, FileAssumption DEF Counted
  <1>4. f_use[i] \in Nat /\ f_use[i] # 0
    BY <1>2, <1>3 DEF Counted, SftType
  <1> QED
    BY <1>3, <1>4

\* --f_use
LEMMA DropFacts ==
  ASSUME SftType, NEW i \in Slots, f_use[i] > 0, Drop(i)
  PROVE  /\ \A j \in Slots : f_use'[j] = IF j = i THEN f_use[j] - 1 ELSE f_use[j]
         /\ \A j \in Slots : f_own'[j] = IF j = i /\ f_use[i] = 1 THEN NULL ELSE f_own[j]
         /\ \A j \in Slots : f_ofd'[j] = IF j = i /\ f_use[i] = 1 THEN NULL ELSE f_ofd[j]
         /\ f_own' \in [Slots -> PDs \cup {NULL}]
         /\ f_use' \in [Slots -> Nat]
         /\ f_ofd' \in [Slots -> OFDs \cup {Device, NULL}]
  <1>1. CASE f_use[i] = 1
    <2>1. /\ f_own' = [f_own EXCEPT ![i] = NULL]
          /\ f_use' = [f_use EXCEPT ![i] = 0]
          /\ f_ofd' = [f_ofd EXCEPT ![i] = NULL]
      BY <1>1 DEF Drop
    <2> QED
      BY <1>1, <2>1 DEF SftType
  <1>2. CASE f_use[i] # 1
    <2>1. f_use' = [f_use EXCEPT ![i] = @ - 1] /\ f_own' = f_own /\ f_ofd' = f_ofd
      BY <1>2 DEF Drop
    <2>2. f_use[i] - 1 \in Nat
      BY DEF SftType
    <2> QED
      BY <1>2, <2>1, <2>2 DEF SftType
  <1> QED
    BY <1>1, <1>2

LEMMA CloseDrops ==
  ASSUME NEW i, Close(i)
  PROVE  f_ofd[i] \in OFDs \cup {Device} /\ Drop(i)
  BY DEF Close, CloseDevice, CloseFile
-----------------------------------------------------------------------------
(* The actions.                                                            *)

\* Chain depends on run and ending alone
LEMMA SameChain ==
  ASSUME Chain, UNCHANGED <<run, ending>>
  PROVE  Chain' /\ Live' = Live
  BY DEF Chain, Live

\* a handle is lost only with the entry it leads to
LEMMA BelowKept ==
  ASSUME SftType, SftType', Below, \A j \in Slots : Counted(j)', run' = run,
         \A j \in Slots : f_own'[j] \in {f_own[j], NULL},
         \A k \in DOMAIN run, n \in Std :
           p_uft'[run[k]][n] \in {p_uft[run[k]][n], Device},
         ending'.pd = ending.pd, ending'.std >= ending.std,
         ending.pd # NULL => p_uft' = p_uft
  PROVE  Below'
  <1>1. Live' = Live /\ DOMAIN run' = DOMAIN run
    BY DEF Live
  <1>2. \A k \in DOMAIN run : run[k] \in PDs /\ run[k] \in Live
    BY DEF SftType, Live
  <1>3. ASSUME NEW j \in Slots, NEW r \in Referring(j)'
        PROVE  f_own'[j] = f_own[j]
    <2>1. Refers(j)' \in Nat /\ Refers(j)' # 0
      BY <1>3, RefersNat
    <2>2. f_own'[j] # NULL
      <3>1. (Refers(j) > 0 => f_ofd[j] \in OFDs)' /\ (f_own[j] = NULL <=> f_ofd[j] = NULL)'
        BY DEF Counted
      <3> QED
        BY <3>1, <2>1, FileAssumption
    <2> QED
      BY <2>2
  <1>4. ASSUME NEW k \in DOMAIN run, NEW n \in Std, NEW j \in Slots, p_uft'[run[k]][n] = j + NUMSTD
        PROVE  \E m \in 1..k : f_own'[j] = run[m]
    <2>1. <<run[k], n>> \in Referring(j)'
      BY <1>1, <1>2, <1>4 DEF Referring
    <2>2. j + NUMSTD # Device
      BY FileAssumption DEF Device, Slots
    <2>3. p_uft[run[k]][n] = j + NUMSTD
      BY <1>4, <2>2
    <2> QED
      BY <2>1, <2>3, <1>3 DEF Below
  <1>5. ASSUME NEW n \in Std, NEW j \in Slots, ending'.pd # NULL, n >= ending'.std,
               p_uft'[ending'.pd][n] = j + NUMSTD
        PROVE  f_own'[j] \in Live' \cup {ending'.pd}
    <2>1. ending.pd \in PDs /\ ending'.pd = ending.pd /\ p_uft' = p_uft
      BY <1>5 DEF SftType
    <2>2. <<ending.pd, n>> \in Referring(j)'
      BY <1>5, <2>1 DEF Referring
    <2>3. n >= ending.std
      BY <1>5, FileAssumption DEF SftType, Std
    <2>4. f_own[j] \in Live \cup {ending.pd}
      BY <1>5, <2>1, <2>3 DEF Below
    <2> QED
      BY <2>1, <2>2, <2>4, <1>1, <1>3
  <1> QED
    BY <1>1, <1>4, <1>5 DEF Below

LEMMA LeftKept ==
  ASSUME Left, run' = run, ending'.pd = ending.pd, ending'.slot = ending.slot,
         \A j \in Slots : f_own'[j] \in {f_own[j], NULL} /\ lost'[j] >= lost[j],
         lost \in [Slots -> Nat], lost' \in [Slots -> Nat], NULL \notin PDs
  PROVE  Left'
  <1>1. Live' = Live
    BY DEF Live
  <1>2. ASSUME NEW j \in Slots, lost[j] > 0
        PROVE  lost'[j] > 0
    BY <1>2
  <1>3. ASSUME NEW j \in Slots, f_own'[j] # NULL
        PROVE  f_own'[j] = f_own[j]
    BY <1>3
  <1> QED
    BY <1>1, <1>2, <1>3 DEF Left

\* one reference less, and the use count says so
LEMMA DropCounts ==
  ASSUME FileInv, NEW i \in Slots, f_use[i] > 0, Drop(i), held' \subseteq Slots,
         lost' \in [Slots -> Nat],
         \A j \in Slots : Refers(j)' <= Refers(j),
         \A j \in Slots : j # i =>
           (IF j \in held' THEN 1 ELSE 0) + Refers(j)' + lost'[j]
             = (IF j \in held THEN 1 ELSE 0) + Refers(j) + lost[j],
         (IF i \in held' THEN 1 ELSE 0) + Refers(i)' + lost'[i]
           = (IF i \in held THEN 1 ELSE 0) + Refers(i) + lost[i] - 1
  PROVE  \A j \in Slots : Counted(j)'
  <1>1. SftType /\ \A j \in Slots : Counted(j)
    BY DEF FileInv
  <1>2. /\ \A j \in Slots : f_use'[j] = IF j = i THEN f_use[j] - 1 ELSE f_use[j]
        /\ \A j \in Slots : f_own'[j] = IF j = i /\ f_use[i] = 1 THEN NULL ELSE f_own[j]
        /\ \A j \in Slots : f_ofd'[j] = IF j = i /\ f_use[i] = 1 THEN NULL ELSE f_ofd[j]
    BY <1>1, DropFacts
  <1>3. ASSUME NEW j \in Slots
        PROVE  Counted(j)'
    <2>1. Refers(j) \in Nat /\ Refers(j)' \in Nat /\ lost'[j] \in Nat /\ lost[j] \in Nat
          /\ f_use[j] \in Nat
      BY <1>1, RefersNat DEF SftType
    <2>2. f_use'[j] = (IF j \in held' THEN 1 ELSE 0) + Refers(j)' + lost'[j]
      BY <1>1, <1>2, <2>1 DEF Counted
    <2>3. /\ f_use[j] = 0 <=> f_own[j] = NULL
          /\ f_own[j] = NULL <=> f_ofd[j] = NULL
          /\ Refers(j) > 0 => f_ofd[j] \in OFDs
      BY <1>1 DEF Counted
    <2>4. CASE j = i /\ f_use[i] = 1
      <3>1. f_use'[j] = 0 /\ f_own'[j] = NULL /\ f_ofd'[j] = NULL
        BY <1>2, <2>4
      <3>2. Refers(j)' = 0
        BY <3>1, <2>1, <2>2
      <3> QED
        BY <3>1, <3>2, <2>2 DEF Counted
    <2>5. CASE ~(j = i /\ f_use[i] = 1)
      <3>1. f_own'[j] = f_own[j] /\ f_ofd'[j] = f_ofd[j]
        BY <1>2, <2>5
      <3>2. f_use'[j] = 0 <=> f_use[j] = 0
        BY <1>2, <2>1, <2>5
      <3>3. Refers(j)' > 0 => Refers(j) > 0
        BY <2>1
      <3> QED
        BY <3>1, <3>2, <3>3, <2>2, <2>3 DEF Counted
    <2> QED
      BY <2>4, <2>5
  <1> QED
    BY <1>3

LEMMA NullFacts ==
  NULL # Device /\ NULL \notin PDs /\ NULL \notin OFDs /\ Device \notin OFDs
  BY FileAssumption DEF Device

LEMMA CallsFacts ==
  ASSUME Calls
  PROVE  ending = NotEnding /\ ending.pd = NULL /\ ending.std = 0 /\ ending.slot = 0
  BY DEF Calls, NotEnding

\* opnfil and Fdup: a free entry is taken by the running process
LEMMA OpenStep ==
  ASSUME FileInv, ending.pd = NULL, Free # {}, NEW x \in OFDs \cup {Device},
         f_own' = [f_own EXCEPT ![ffhndl] = This],
         f_use' = [f_use EXCEPT ![ffhndl] = 1],
         f_ofd' = [f_ofd EXCEPT ![ffhndl] = x],
         held' = held \cup {ffhndl},
         UNCHANGED <<p_uft, run, ending, lost>>
  PROVE  FileInv'
  <1> DEFINE h == ffhndl
  <1>1. h \in Slots /\ f_own[h] = NULL
    BY FreeEntry
  <1>2. SftType /\ Chain /\ Below /\ Left /\ \A i \in Slots : Counted(i)
    BY DEF FileInv
  <1>3. This \in PDs /\ This \in Live /\ x # NULL /\ This # NULL
    BY <1>2, RunFacts, NullFacts
  <1> HIDE DEF h
  <1>4. \A i \in Slots : /\ i # h => /\ f_own'[i] = f_own[i] /\ f_use'[i] = f_use[i]
                                     /\ f_ofd'[i] = f_ofd[i]
                         /\ i = h => f_own'[i] = This /\ f_use'[i] = 1 /\ f_ofd'[i] = x
    BY <1>1, <1>2 DEF SftType, h
  <1>5. SftType'
    <2>1. f_own' \in [Slots -> PDs \cup {NULL}] /\ f_use' \in [Slots -> Nat]
          /\ f_ofd' \in [Slots -> OFDs \cup {Device, NULL}] /\ held' \subseteq Slots
      BY <1>1, <1>2, <1>3 DEF SftType, h
    <2> QED
      BY <2>1, <1>2 DEF SftType
  <1>6. Chain' /\ Live' = Live
    BY <1>2, SameChain
  <1>7. ASSUME NEW i \in Slots
        PROVE  Counted(i)'
    <2>1. Refers(i)' = Refers(i)
      BY SameRefers
    <2>2. CASE i = h
      <3>1. f_use[i] = 0 /\ i \notin held /\ Refers(i) = 0 /\ lost[i] = 0
        BY <2>2, <1>1, <1>2, RefersNat DEF Counted, SftType
      <3> QED
        BY <3>1, <2>1, <2>2, <1>3, <1>4 DEF Counted, h
    <2>3. CASE i # h
      BY <2>3, <2>1, <1>2, <1>4 DEF Counted, h
    <2> QED
      BY <2>2, <2>3
  <1>8. Referring(h) = {}
    <2>1. /\ f_use[h] = (IF h \in held THEN 1 ELSE 0) + Refers(h) + lost[h] /\ f_use[h] = 0
          /\ Refers(h) \in Nat /\ lost[h] \in Nat
      BY <1>1, <1>2, RefersNat DEF Counted, SftType
    <2>2. Refers(h) = 0
      BY <2>1
    <2> QED
      BY <2>2, <1>1, RefersNat
  <1>9. Below'
    <2>1. ASSUME NEW k \in DOMAIN run, NEW n \in Std, NEW i \in Slots, p_uft[run[k]][n] = i + NUMSTD
          PROVE  \E m \in 1..k : f_own'[i] = run[m]
      <3>1. <<run[k], n>> \in Referring(i)
        BY <2>1, <1>2 DEF Referring, Live, SftType
      <3> QED
        BY <3>1, <2>1, <1>2, <1>4, <1>8 DEF Below
    <2> QED
      BY <2>1, <1>2 DEF Below
  <1>10. Left'
    BY <1>2, <1>3, <1>4, <1>6 DEF Left
  <1> QED
    BY <1>5, <1>6, <1>7, <1>9, <1>10 DEF FileInv

\* xclose of a handle of one's own
LEMMA FcloseStep ==
  ASSUME FileInv, NEW i \in Slots, Fclose(i)
  PROVE  FileInv'
  <1>1. SftType /\ Chain /\ Below /\ Left /\ \A j \in Slots : Counted(j)
    BY DEF FileInv
  <1>2. /\ i \in held /\ f_own[i] = This /\ Drop(i) /\ held' = held \ {i}
        /\ UNCHANGED <<p_uft, run, ending, lost>>
    BY CloseDrops DEF Fclose
  <1>3. f_use[i] > 0
    <2>1. f_use[i] \in Nat /\ f_use[i] # 0
      BY <1>1, <1>2, RunFacts, NullFacts DEF Counted, SftType
    <2> QED
      BY <2>1
  <1>4. /\ \A j \in Slots : f_own'[j] \in {f_own[j], NULL}
        /\ f_own' \in [Slots -> PDs \cup {NULL}]
        /\ f_use' \in [Slots -> Nat]
        /\ f_ofd' \in [Slots -> OFDs \cup {Device, NULL}]
    BY <1>1, <1>2, <1>3, DropFacts
  <1>5. SftType'
    BY <1>1, <1>2, <1>4 DEF SftType
  <1>6. Chain' /\ Live' = Live
    BY <1>1, <1>2, SameChain
  <1>7. \A j \in Slots : Counted(j)'
    <2>1. \A j \in Slots : Refers(j)' = Refers(j) /\ Refers(j) \in Nat /\ lost[j] \in Nat
      BY <1>1, <1>2, SameRefers, RefersNat DEF SftType
    <2>2. \A j \in Slots : j \in held' <=> (j \in held /\ j # i)
      BY <1>2
    <2>3. \A j \in Slots : j # i =>
            (IF j \in held' THEN 1 ELSE 0) + Refers(j)' + lost'[j]
              = (IF j \in held THEN 1 ELSE 0) + Refers(j) + lost[j]
      BY <2>1, <2>2, <1>2
    <2>4. (IF i \in held' THEN 1 ELSE 0) + Refers(i)' + lost'[i]
            = (IF i \in held THEN 1 ELSE 0) + Refers(i) + lost[i] - 1
      BY <2>1, <2>2, <1>2
    <2>5. \A j \in Slots : Refers(j)' <= Refers(j)
      BY <2>1
    <2>6. held' \subseteq Slots /\ lost' \in [Slots -> Nat]
      BY <1>5 DEF SftType
    <2> QED
      BY <2>3, <2>4, <2>5, <2>6, <1>2, <1>3, DropCounts
  <1>8. Below'
    <2>1. ending.std \in Int
      BY <1>1, FileAssumption DEF SftType
    <2> QED
      BY <2>1, <1>1, <1>2, <1>4, <1>5, <1>7, BelowKept
  <1>9. Left'
    BY <1>1, <1>2, <1>4, LeftKept, NullFacts DEF SftType
  <1> QED
    BY <1>5, <1>6, <1>7, <1>8, <1>9 DEF FileInv

\* xclose of a standard handle
LEMMA FcloseStdStep ==
  ASSUME FileInv, NEW n \in Std, FcloseStd(n)
  PROVE  FileInv'
  <1>1. SftType /\ Chain /\ Below /\ Left /\ \A j \in Slots : Counted(j)
    BY DEF FileInv
  <1>2. /\ ending.pd = NULL /\ ending.std = 0
        /\ p_uft' = [p_uft EXCEPT ![This][n] = Device]
        /\ UNCHANGED <<run, ending, held, lost>>
    BY CallsFacts DEF FcloseStd
  <1>3. /\ This \in PDs /\ p_uft[This][n] \in Handles \cup {Device}
        /\ \A p \in PDs, m \in Std :
             p_uft'[p][m] = IF p = This /\ m = n THEN Device ELSE p_uft[p][m]
        /\ p_uft' \in [PDs -> [Std -> Handles \cup {Device}]]
    BY <1>1, <1>2, RunFacts DEF SftType
  <1>4. \A j \in Slots : Device # j + NUMSTD
    BY FileAssumption DEF Device, Slots
  <1>5. /\ \A j \in Slots : Refers(j) \in Nat /\ Refers(j)' \in Nat /\ lost[j] \in Nat
        /\ \A j \in Slots :
             Refers(j)' = IF p_uft[This][n] = j + NUMSTD THEN Refers(j) - 1 ELSE Refers(j)
    <2>1. \A j \in Slots : Refers(j) \in Nat /\ Refers(j)' \in Nat /\ lost[j] \in Nat
      BY <1>1, RefersNat DEF SftType
    <2>2. \A j \in Slots :
             Refers(j)' = IF p_uft[This][n] = j + NUMSTD THEN Refers(j) - 1 ELSE Refers(j)
      BY <1>1, <1>2, <1>4, SetStd
    <2> QED
      BY <2>1, <2>2
  <1>6. CASE p_uft[This][n] < NUMSTD
    <2>1. UNCHANGED sft
      BY <1>3, <1>6, FileAssumption DEF FcloseStd, Handles, Device
    <2>2. \A j \in Slots : p_uft[This][n] # j + NUMSTD
      BY <1>6, FileAssumption DEF Slots
    <2>3. \A j \in Slots : Refers(j)' = Refers(j)
      BY <1>5, <2>2
    <2>4. SftType'
      BY <1>1, <1>2, <1>3, <2>1 DEF SftType, sft
    <2>5. \A j \in Slots : Counted(j)'
      BY <1>1, <1>2, <2>1, <2>3 DEF Counted, sft
    <2>6. Below'
      <3>1. \A k \in DOMAIN run, m \in Std : p_uft'[run[k]][m] \in {p_uft[run[k]][m], Device}
        BY <1>1, <1>3 DEF SftType
      <3> QED
        BY <3>1, <1>1, <1>2, <2>1, <2>4, <2>5, BelowKept DEF sft
    <2>7. Left'
      <3>1. \A j \in Slots : f_own'[j] \in {f_own[j], NULL} /\ lost'[j] >= lost[j]
        BY <1>2, <1>5, <2>1 DEF sft
      <3> QED
        BY <3>1, <1>1, <1>2, LeftKept, NullFacts DEF SftType
    <2> QED
      BY <1>1, <1>2, <2>4, <2>5, <2>6, <2>7, SameChain DEF FileInv
  <1>7. CASE p_uft[This][n] >= NUMSTD
    <2>1. PICK i \in Slots : Drop(i) /\ p_uft[This][n] = i + NUMSTD
      <3> DEFINE h == p_uft[This][n] - NUMSTD
      <3>1. h \in Slots /\ p_uft[This][n] = h + NUMSTD
        BY <1>3, <1>7, FileAssumption DEF Handles, Device, Slots
      <3>2. Close(h)
        BY <1>7 DEF FcloseStd
      <3>3. Drop(h)
        BY <3>2, CloseDrops
      <3> QED
        BY <3>1, <3>3
    <2>2. Drop(i)
      BY <2>1
    <2>3. f_use[i] > 0
      <3>1. <<This, n>> \in Referring(i)
        BY <1>1, <2>1, StdRefers
      <3> QED
        BY <3>1, <2>1, ReferredEntry
    <2>4. \A j \in Slots : p_uft[This][n] = j + NUMSTD <=> j = i
      BY <2>1, FileAssumption DEF Slots
    <2>5. Refers(i)' = Refers(i) - 1 /\ \A j \in Slots : j # i => Refers(j)' = Refers(j)
      <3>1. ASSUME NEW j \in Slots
            PROVE  Refers(j)' = IF j = i THEN Refers(j) - 1 ELSE Refers(j)
        BY <1>5, <2>4
      <3> QED
        BY <3>1
    <2>6. \A j \in Slots : Counted(j)'
      <3>1. \A j \in Slots : Refers(j)' <= Refers(j)
        BY <1>5, <2>5
      <3>2. \A j \in Slots : j # i =>
              (IF j \in held' THEN 1 ELSE 0) + Refers(j)' + lost'[j]
                = (IF j \in held THEN 1 ELSE 0) + Refers(j) + lost[j]
        BY <1>2, <2>5
      <3>3. (IF i \in held' THEN 1 ELSE 0) + Refers(i)' + lost'[i]
              = (IF i \in held THEN 1 ELSE 0) + Refers(i) + lost[i] - 1
        BY <1>2, <1>5, <2>1, <2>5
      <3>4. held' \subseteq Slots /\ lost' \in [Slots -> Nat]
        BY <1>1, <1>2 DEF SftType
      <3> QED
        BY <3>1, <3>2, <3>3, <3>4, <2>1, <2>2, <2>3, DropCounts
    <2>7. /\ \A j \in Slots : f_own'[j] \in {f_own[j], NULL}
          /\ f_own' \in [Slots -> PDs \cup {NULL}]
          /\ f_use' \in [Slots -> Nat]
          /\ f_ofd' \in [Slots -> OFDs \cup {Device, NULL}]
      BY <1>1, <2>1, <2>2, <2>3, DropFacts
    <2>8. SftType'
      BY <1>1, <1>2, <1>3, <2>7 DEF SftType
    <2>9. Below'
      <3>1. \A k \in DOMAIN run, m \in Std : p_uft'[run[k]][m] \in {p_uft[run[k]][m], Device}
        BY <1>1, <1>3 DEF SftType
      <3> QED
        BY <3>1, <1>1, <1>2, <2>6, <2>7, <2>8, BelowKept
    <2>10. Left'
      <3>1. \A j \in Slots : f_own'[j] \in {f_own[j], NULL} /\ lost'[j] >= lost[j]
        BY <1>2, <1>5, <2>7
      <3> QED
        BY <3>1, <1>1, <1>2, LeftKept, NullFacts DEF SftType
    <2> QED
      BY <1>1, <1>2, <2>6, <2>8, <2>9, <2>10, SameChain DEF FileInv
  <1>8. p_uft[This][n] \in Int /\ NUMSTD \in Int
    BY <1>3, FileAssumption DEF Handles, Device
  <1> QED
    BY <1>6, <1>7, <1>8

LEMMA OverwrittenFacts ==
  ASSUME SftType, NEW n \in Std, lost' = Overwritten(n)
  PROVE  /\ lost' \in [Slots -> Nat]
         /\ \A j \in Slots : lost[j] \in Nat /\ lost'[j] >= lost[j]
         /\ \A j \in Slots :
              lost'[j] = IF p_uft[This][n] = j + NUMSTD THEN lost[j] + 1 ELSE lost[j]
  <1>1. \A j \in Slots : lost[j] \in Nat
    BY DEF SftType
  <1>2. \A j \in Slots :
              lost'[j] = IF p_uft[This][n] = j + NUMSTD THEN lost[j] + 1 ELSE lost[j]
    BY DEF Overwritten
  <1>3. lost' \in [Slots -> Nat]
    BY <1>1 DEF Overwritten
  <1> QED
    BY <1>1, <1>2, <1>3

\* xforce to a device, by either action
LEMMA ForceDevice ==
  ASSUME FileInv, ending.pd = NULL, NEW n \in Std,
         p_uft' = [p_uft EXCEPT ![This][n] = Device], lost' = Overwritten(n),
         UNCHANGED <<f_own, f_use, f_ofd, run, ending, held>>
  PROVE  FileInv'
  <1>1. SftType /\ Chain /\ Below /\ Left /\ \A j \in Slots : Counted(j)
    BY DEF FileInv
  <1>2. /\ This \in PDs
        /\ \A p \in PDs, m \in Std :
             p_uft'[p][m] = IF p = This /\ m = n THEN Device ELSE p_uft[p][m]
        /\ p_uft' \in [PDs -> [Std -> Handles \cup {Device}]]
    BY <1>1, RunFacts DEF SftType
  <1>3. \A j \in Slots : Device # j + NUMSTD
    BY FileAssumption DEF Device, Slots
  <1>4. \A j \in Slots : Refers(j)' + lost'[j] = Refers(j) + lost[j] /\ Refers(j)' <= Refers(j)
    <2>1. \A j \in Slots : Refers(j) \in Nat /\ lost[j] \in Nat
      BY <1>1, RefersNat DEF SftType
    <2>2. \A j \in Slots :
             Refers(j)' = IF p_uft[This][n] = j + NUMSTD THEN Refers(j) - 1 ELSE Refers(j)
      BY <1>1, <1>3, SetStd
    <2>3. \A j \in Slots :
              lost'[j] = IF p_uft[This][n] = j + NUMSTD THEN lost[j] + 1 ELSE lost[j]
      BY <1>1, OverwrittenFacts
    <2> QED
      BY <2>1, <2>2, <2>3
  <1>5. lost' \in [Slots -> Nat] /\ \A j \in Slots : lost'[j] >= lost[j]
    BY <1>1, OverwrittenFacts
  <1>6. SftType'
    BY <1>1, <1>2, <1>5 DEF SftType
  <1>7. ASSUME NEW j \in Slots
        PROVE  Counted(j)'
    <2>1. Refers(j) \in Nat /\ Refers(j)' \in Nat /\ lost[j] \in Nat /\ lost'[j] \in Nat
      BY <1>1, <1>5, RefersNat DEF SftType
    <2>2. f_use'[j] = (IF j \in held' THEN 1 ELSE 0) + Refers(j)' + lost'[j]
      BY <1>1, <1>4, <2>1 DEF Counted
    <2>3. Refers(j)' > 0 => Refers(j) > 0
      BY <1>4, <2>1
    <2> QED
      BY <2>2, <2>3, <1>1 DEF Counted
  <1>8. Below'
    <2>1. \A k \in DOMAIN run, m \in Std : p_uft'[run[k]][m] \in {p_uft[run[k]][m], Device}
      BY <1>1, <1>2 DEF SftType
    <2>2. ending.std \in Int
      BY <1>1, FileAssumption DEF SftType
    <2> QED
      BY <2>1, <2>2, <1>1, <1>6, <1>7, BelowKept
  <1>9. Left'
    BY <1>1, <1>5, LeftKept, NullFacts DEF SftType
  <1> QED
    BY <1>1, <1>6, <1>7, <1>8, <1>9, SameChain DEF FileInv

LEMMA FforceDeviceStep ==
  ASSUME FileInv, NEW n \in Std, FforceDevice(n)
  PROVE  FileInv'
  BY ForceDevice, CallsFacts DEF FforceDevice, sft

\* xforce
LEMMA FforceStep ==
  ASSUME FileInv, NEW n \in Std, NEW i \in Slots, Fforce(n, i)
  PROVE  FileInv'
  <1>1. SftType /\ Chain /\ Below /\ Left /\ \A j \in Slots : Counted(j)
    BY DEF FileInv
  <1>2. /\ ending.pd = NULL /\ f_own[i] = This /\ lost' = Overwritten(n)
        /\ UNCHANGED <<f_own, f_ofd, run, ending, held>>
    BY CallsFacts DEF Fforce
  <1>3. CASE f_ofd[i] = Device
    BY <1>2, <1>3, ForceDevice DEF Fforce
  <1>4. CASE f_ofd[i] # Device
    <2>1. /\ p_uft' = [p_uft EXCEPT ![This][n] = i + NUMSTD]
          /\ f_use' = [f_use EXCEPT ![i] = @ + 1]
      BY <1>4 DEF Fforce
    <2>2. i + NUMSTD \in Handles \cup {Device}
      BY FileAssumption DEF Handles, Slots
    <2>3. /\ This \in PDs /\ This \in Live
          /\ \A p \in PDs, m \in Std :
               p_uft'[p][m] = IF p = This /\ m = n THEN i + NUMSTD ELSE p_uft[p][m]
          /\ p_uft' \in [PDs -> [Std -> Handles \cup {Device}]]
      BY <1>1, <2>1, <2>2, RunFacts DEF SftType
    <2>4. lost' \in [Slots -> Nat] /\ \A j \in Slots : lost'[j] >= lost[j]
      BY <1>1, <1>2, OverwrittenFacts
    <2>5. \A j \in Slots : f_use[j] \in Nat /\ f_use'[j] = IF j = i THEN f_use[j] + 1 ELSE f_use[j]
      BY <1>1, <2>1 DEF SftType
    <2>6. SftType'
      <3>1. f_use' \in [Slots -> Nat]
        BY <1>1, <2>1, <2>5 DEF SftType
      <3> QED
        BY <3>1, <1>1, <1>2, <2>3, <2>4 DEF SftType
    <2>7. Chain' /\ Live' = Live
      BY <1>1, <1>2, SameChain
    <2>8. ASSUME NEW j \in Slots
          PROVE  Counted(j)'
      <3>1. Refers(j) \in Nat /\ Refers(j)' \in Nat /\ lost[j] \in Nat /\ lost'[j] \in Nat
        BY <1>1, <2>4, RefersNat DEF SftType
      <3>2. /\ f_use[j] = (IF j \in held THEN 1 ELSE 0) + Refers(j) + lost[j]
            /\ f_use[j] = 0 <=> f_own[j] = NULL
            /\ f_own[j] = NULL <=> f_ofd[j] = NULL
            /\ Refers(j) > 0 => f_ofd[j] \in OFDs
        BY <1>1 DEF Counted
      <3>3. lost'[j] = IF p_uft[This][n] = j + NUMSTD THEN lost[j] + 1 ELSE lost[j]
        BY <1>1, <1>2, OverwrittenFacts
      <3>4. CASE j = i
        <4>1. Refers(j)' = IF p_uft[This][n] = j + NUMSTD THEN Refers(j) ELSE Refers(j) + 1
          BY <3>4, <1>1, <1>2, <2>1, <2>2, SetStd
        <4>2. f_use'[j] = (IF j \in held' THEN 1 ELSE 0) + Refers(j)' + lost'[j]
          BY <3>1, <3>2, <3>3, <3>4, <4>1, <1>2, <2>5
        <4>3. f_own'[j] # NULL /\ f_ofd'[j] \in OFDs
          BY <3>2, <3>4, <1>1, <1>2, <1>4, <2>3, NullFacts DEF SftType
        <4>4. f_use'[j] # 0
          BY <3>4, <2>5
        <4> QED
          BY <4>2, <4>3, <4>4, NullFacts DEF Counted
      <3>5. CASE j # i
        <4>1. i + NUMSTD # j + NUMSTD
          BY <3>5, FileAssumption DEF Slots
        <4>2. Refers(j)' = IF p_uft[This][n] = j + NUMSTD THEN Refers(j) - 1 ELSE Refers(j)
          BY <4>1, <1>1, <1>2, <2>1, <2>2, SetStd
        <4>3. f_use'[j] = (IF j \in held' THEN 1 ELSE 0) + Refers(j)' + lost'[j]
          BY <3>1, <3>2, <3>3, <3>5, <4>2, <1>2, <2>5
        <4>4. f_use'[j] = f_use[j] /\ (Refers(j)' > 0 => Refers(j) > 0)
          BY <3>1, <3>5, <4>2, <2>5
        <4> QED
          BY <3>2, <4>3, <4>4, <1>2 DEF Counted
      <3> QED
        BY <3>4, <3>5
    <2>9. Below'
      <3>1. ASSUME NEW k \in DOMAIN run, NEW m \in Std, NEW j \in Slots,
                   p_uft'[run[k]][m] = j + NUMSTD
            PROVE  \E q \in 1..k : f_own[j] = run[q]
        <4>1. run[k] \in PDs
          BY <1>1 DEF SftType
        <4>2. CASE run[k] = This /\ m = n
          <5>1. j = i
            <6>1. p_uft'[run[k]][m] = i + NUMSTD
              BY <4>1, <4>2, <2>3
            <6> QED
              BY <6>1, <3>1, FileAssumption DEF Slots
          <5>2. run[k] = f_own[j] /\ k \in 1..k
            BY <5>1, <4>2, <1>1, <1>2, RunFacts
          <5> QED
            BY <5>2
        <4>3. CASE ~(run[k] = This /\ m = n)
          BY <3>1, <4>1, <4>3, <2>3, <1>1 DEF Below
        <4> QED
          BY <4>2, <4>3
      <3> QED
        BY <3>1, <1>2 DEF Below
    <2>10. Left'
      <3>1. \A j \in Slots : f_own'[j] \in {f_own[j], NULL} /\ lost'[j] >= lost[j]
        BY <1>2, <2>4
      <3> QED
        BY <3>1, <1>1, <1>2, <2>4, LeftKept, NullFacts DEF SftType
    <2> QED
      BY <2>6, <2>7, <2>8, <2>9, <2>10 DEF FileInv
  <1> QED
    BY <1>3, <1>4

\* what the new process inherits is counted, whether or not it comes to run
LEMMA InheritCounts ==
  ASSUME FileInv, ending.pd = NULL, NEW p \in PDs, p \notin Live, Inherit(p),
         NEW i \in Slots,
         \/ Live' = Live \cup {p} /\ ending' = ending
         \/ Live' = Live /\ ending'.pd = p /\ ending'.std = 0
  PROVE  Counted(i)'
  <1> DEFINE N == {p} \X References(i, This)
  <1>1. SftType /\ \A j \in Slots : Counted(j)
    BY DEF FileInv
  <1>2. This \in PDs /\ This \in Live /\ This # p /\ Live \subseteq PDs
    BY <1>1, RunFacts
  <1>3. \A q \in PDs : p_uft'[q] = IF q = p THEN p_uft[This] ELSE p_uft[q]
    BY <1>1 DEF Inherit, SftType
  <1>4. References(i, This) \subseteq Std
    BY DEF References
  <1>5. Referring(i)' = Referring(i) \cup N
    <2>1. ASSUME NEW r \in PDs \X Std
          PROVE  r \in Referring(i)' <=> r \in Referring(i) \/ r \in N
      <3>1. r[1] \in PDs /\ r[2] \in Std /\ r[2] >= 0
        BY DEF Std
      <3>2. CASE r[1] = p
        <4>1. r \notin Referring(i)
          BY <3>2, NullFacts DEF Referring
        <4>2. r \in N <=> p_uft[This][r[2]] = i + NUMSTD
          BY <3>1, <3>2 DEF References
        <4>3. r \in Referring(i)' <=> p_uft[This][r[2]] = i + NUMSTD
          BY <3>1, <3>2, <1>3 DEF Referring
        <4> QED
          BY <4>1, <4>2, <4>3
      <3>3. CASE r[1] # p
        <4>1. r \notin N
          BY <3>3
        <4>2. p_uft'[r[1]] = p_uft[r[1]]
          BY <3>1, <3>3, <1>3
        <4>3. r[1] \in Live' \/ (r[1] = ending'.pd /\ r[2] >= ending'.std)
              <=> r[1] \in Live \/ (r[1] = ending.pd /\ r[2] >= ending.std)
          BY <3>1, <3>3, NullFacts
        <4> QED
          BY <4>1, <4>2, <4>3 DEF Referring
      <3> QED
        BY <3>2, <3>3
    <2>2. N \subseteq PDs \X Std
      BY <1>4
    <2> QED
      BY <2>1, <2>2, ReferringPairs
  <1>6. Referring(i) \cap N = {}
    BY NullFacts DEF Referring
  <1>7. IsFiniteSet(References(i, This)) /\ Cardinality(References(i, This)) \in Nat
        /\ (Cardinality(References(i, This)) = 0 <=> References(i, This) = {})
    <2>1. IsFiniteSet(Std)
      BY FS_Interval, FileAssumption DEF Std
    <2> QED
      BY <2>1, <1>4, FS_Subset, FS_CardinalityType, FS_EmptySet
  <1>8. IsFiniteSet(N) /\ Cardinality(N) = Cardinality(References(i, This))
    <2>1. IsFiniteSet({p}) /\ Cardinality({p}) = 1
      BY FS_Singleton
    <2> DEFINE S == References(i, This)
    <2>2. IsFiniteSet(S) /\ Cardinality(S) \in Nat
      BY <1>7
    <2> HIDE DEF S
    <2>3. IsFiniteSet({p} \X S) /\ Cardinality({p} \X S) = Cardinality({p}) * Cardinality(S)
      BY <2>1, <2>2, FS_Product
    <2>4. Cardinality({p} \X S) = Cardinality(S)
      BY <2>1, <2>2, <2>3
    <2> QED
      BY <2>3, <2>4 DEF S
  <1>9. Refers(i)' = Refers(i) + Cardinality(References(i, This))
    <2>1. IsFiniteSet(Referring(i)) /\ Referring(i) \cap N = {} /\ Refers(i) \in Nat
      BY <1>6, ReferringPairs, PairsFinite, RefersNat
    <2>2. Cardinality(Referring(i) \cup N)
            = Cardinality(Referring(i)) + Cardinality(N) - Cardinality(Referring(i) \cap N)
      BY <2>1, <1>8, FS_Union
    <2>3. Cardinality(Referring(i) \cap N) = 0
      BY <2>1, FS_EmptySet
    <2> HIDE DEF N
    <2> QED
      BY <2>1, <2>2, <2>3, <1>5, <1>7, <1>8 DEF Refers
  <1> HIDE DEF N
  <1>10. References(i, This) # {} => Referring(i) # {}
    BY <1>1, StdRefers DEF References
  <1>11. /\ f_use'[i] = f_use[i] + Cardinality(References(i, This))
         /\ UNCHANGED <<f_own, f_ofd, held, lost>>
    BY DEF Inherit
  <1>12. Refers(i) \in Nat /\ lost[i] \in Nat /\ f_use[i] \in Nat
         /\ (Refers(i) = 0 <=> Referring(i) = {})
    BY <1>1, RefersNat DEF SftType
  <1>13. f_use'[i] = (IF i \in held' THEN 1 ELSE 0) + Refers(i)' + lost'[i]
    BY <1>1, <1>7, <1>9, <1>11, <1>12 DEF Counted
  <1>14. Refers(i)' > 0 => Refers(i) > 0
    BY <1>7, <1>9, <1>10, <1>12
  <1>15. f_use'[i] = 0 <=> f_use[i] = 0
    <2>1. f_use[i] = (IF i \in held THEN 1 ELSE 0) + Refers(i) + lost[i]
      BY <1>1 DEF Counted
    <2>2. f_use[i] = 0 => Refers(i) = 0
      BY <2>1, <1>12
    <2>3. f_use[i] = 0 => Cardinality(References(i, This)) = 0
      BY <2>2, <1>7, <1>10, <1>12
    <2> QED
      BY <2>3, <1>7, <1>11, <1>12
  <1> QED
    BY <1>1, <1>11, <1>13, <1>14, <1>15 DEF Counted

\* what the new process inherits belongs to one of those before it
LEMMA InheritBelow ==
  ASSUME FileInv, NEW n \in Std, NEW i \in Slots, p_uft[This][n] = i + NUMSTD
  PROVE  f_own[i] \in Live /\ \E m \in 1..Len(run) : f_own[i] = run[m]
  <1>1. SftType /\ Below
    BY DEF FileInv
  <1>2. Len(run) \in DOMAIN run /\ DOMAIN run = 1..Len(run)
    BY <1>1, RunFacts
  <1>3. \E m \in 1..Len(run) : f_own[i] = run[m]
    BY <1>1, <1>2 DEF Below, This
  <1> QED
    BY <1>2, <1>3 DEF Live

LEMMA InheritType ==
  ASSUME SftType, NEW p \in PDs, Inherit(p)
  PROVE  /\ f_use' \in [Slots -> Nat]
         /\ p_uft' \in [PDs -> [Std -> Handles \cup {Device}]]
         /\ \A q \in PDs : p_uft'[q] = IF q = p THEN p_uft[This] ELSE p_uft[q]
         /\ UNCHANGED <<f_own, f_ofd, held, lost>>
  <1>1. This \in PDs
    BY RunFacts
  <1>2. \A i \in Slots : Cardinality(References(i, This)) \in Nat
    <2>1. IsFiniteSet(Std)
      BY FS_Interval, FileAssumption DEF Std
    <2> QED
      BY <2>1, FS_Subset, FS_CardinalityType DEF References
  <1>3. \A i \in Slots : f_use[i] + Cardinality(References(i, This)) \in Nat
    BY <1>2 DEF SftType
  <1> QED
    BY <1>1, <1>3 DEF Inherit, SftType

\* xexec
LEMMA PexecStep ==
  ASSUME FileInv, NEW p \in PDs, Pexec(p)
  PROVE  FileInv'
  <1>1. SftType /\ Chain /\ Below /\ Left /\ \A j \in Slots : Counted(j)
    BY DEF FileInv
  <1>2. /\ ending.pd = NULL /\ p \notin Live /\ Inherit(p)
        /\ run' = Append(run, p) /\ UNCHANGED ending
    BY CallsFacts DEF Pexec, Absent, Live
  <1>3. /\ f_use' \in [Slots -> Nat]
        /\ p_uft' \in [PDs -> [Std -> Handles \cup {Device}]]
        /\ \A q \in PDs : p_uft'[q] = IF q = p THEN p_uft[This] ELSE p_uft[q]
        /\ UNCHANGED <<f_own, f_ofd, held, lost>>
    BY <1>1, <1>2, InheritType
  <1>4. /\ run' \in Seq(PDs) /\ run' # <<>> /\ Len(run) \in Nat
        /\ DOMAIN run = 1..Len(run) /\ DOMAIN run' = 1..Len(run) + 1
        /\ \A k \in 1..Len(run) : run'[k] = run[k] /\ run[k] \in PDs
        /\ run'[Len(run) + 1] = p
    BY <1>1, <1>2 DEF SftType
  <1>5. Live' = Live \cup {p}
    BY <1>4 DEF Live
  <1>6. SftType'
    BY <1>1, <1>2, <1>3, <1>4 DEF SftType
  <1>7. Chain'
    <2>1. \A k \in 1..Len(run) : run[k] # p
      BY <1>2, <1>4 DEF Live
    <2>2. \A k, m \in DOMAIN run' : run'[k] = run'[m] => k = m
      BY <2>1, <1>1, <1>4 DEF Chain
    <2>3. ending'.pd \notin Live'
      BY <1>2, <1>1, <1>5, NullFacts DEF Chain
    <2> QED
      BY <2>2, <2>3 DEF Chain
  <1>8. \A j \in Slots : Counted(j)'
    BY <1>2, <1>5, InheritCounts
  <1>9. Below'
    <2>1. ASSUME NEW k \in 1..Len(run) + 1, NEW n \in Std, NEW i \in Slots,
                 p_uft'[run'[k]][n] = i + NUMSTD
          PROVE  \E m \in 1..k : f_own[i] = run'[m]
      <3>1. CASE k = Len(run) + 1
        <4>1. p_uft[This][n] = i + NUMSTD
          BY <2>1, <3>1, <1>3, <1>4
        <4>2. PICK m \in 1..Len(run) : f_own[i] = run[m]
          BY <4>1, InheritBelow
        <4> QED
          BY <4>2, <3>1, <1>4
      <3>2. CASE k # Len(run) + 1
        <4>1. k \in 1..Len(run) /\ run'[k] = run[k] /\ run[k] # p /\ run[k] \in PDs
          BY <3>2, <1>2, <1>4 DEF Live
        <4>2. p_uft[run[k]][n] = i + NUMSTD
          BY <2>1, <4>1, <1>3
        <4>3. PICK m \in 1..k : f_own[i] = run[m]
          BY <4>1, <4>2, <1>1, <1>4 DEF Below
        <4> QED
          BY <4>1, <4>3, <1>4
      <3> QED
        BY <3>1, <3>2
    <2>2. \A k \in DOMAIN run', n \in Std, i \in Slots :
            p_uft'[run'[k]][n] = i + NUMSTD => \E m \in 1..k : f_own'[i] = run'[m]
      BY <2>1, <1>3, <1>4
    <2> QED
      BY <2>2, <1>2 DEF Below
  <1>10. Left'
    BY <1>1, <1>2, <1>3, <1>5 DEF Left
  <1> QED
    BY <1>6, <1>7, <1>8, <1>9, <1>10 DEF FileInv

\* xexec, when the program could not be loaded
LEMMA PexecFailsStep ==
  ASSUME FileInv, NEW p \in PDs, PexecFails(p)
  PROVE  FileInv'
  <1>1. SftType /\ Chain /\ Below /\ Left /\ \A j \in Slots : Counted(j)
    BY DEF FileInv
  <1>2. /\ ending.pd = NULL /\ p \notin Live /\ Inherit(p) /\ run' = run
        /\ ending' = [pd |-> p, std |-> 0, slot |-> 0]
    BY CallsFacts DEF PexecFails, Absent, Live
  <1>3. /\ f_use' \in [Slots -> Nat]
        /\ p_uft' \in [PDs -> [Std -> Handles \cup {Device}]]
        /\ \A q \in PDs : p_uft'[q] = IF q = p THEN p_uft[This] ELSE p_uft[q]
        /\ UNCHANGED <<f_own, f_ofd, held, lost>>
    BY <1>1, <1>2, InheritType
  <1>4. Live' = Live /\ p # NULL /\ ending'.pd = p /\ ending'.std = 0 /\ ending'.slot = 0
    BY <1>2, NullFacts DEF Live
  <1>5. SftType'
    <2>1. ending' \in [pd : PDs \cup {NULL}, std : 0..NUMSTD, slot : 0..NSFT]
      BY <1>2, FileAssumption
    <2> QED
      BY <2>1, <1>1, <1>2, <1>3 DEF SftType
  <1>6. Chain'
    BY <1>1, <1>2, <1>4 DEF Chain
  <1>7. \A j \in Slots : Counted(j)'
    BY <1>2, <1>4, InheritCounts
  <1>8. Below'
    <2>1. \A k \in DOMAIN run : run[k] \in PDs /\ run[k] # p
      BY <1>1, <1>2 DEF SftType, Live
    <2>2. \A k \in DOMAIN run, n \in Std, i \in Slots :
            p_uft'[run[k]][n] = i + NUMSTD => \E m \in 1..k : f_own[i] = run[m]
      BY <2>1, <1>1, <1>3 DEF Below
    <2>3. \A n \in Std, i \in Slots : p_uft'[p][n] = i + NUMSTD => f_own[i] \in Live
      BY <1>3, InheritBelow
    <2> QED
      BY <2>2, <2>3, <1>2, <1>3, <1>4 DEF Below
  <1>9. Left'
    <2>1. ASSUME NEW i \in Slots, f_own[i] \notin Live \cup {NULL, p}
          PROVE  lost[i] > 0
      BY <2>1, <1>1, <1>2 DEF Left
    <2>2. \A i \in Slots : ~(i < 0)
      BY DEF Slots
    <2> QED
      BY <2>1, <2>2, <1>3, <1>4 DEF Left
  <1> QED
    BY <1>5, <1>6, <1>7, <1>8, <1>9 DEF FileInv

\* xterm
LEMMA PtermStep ==
  ASSUME FileInv, Pterm
  PROVE  FileInv'
  <1>1. SftType /\ Chain /\ Below /\ Left /\ \A j \in Slots : Counted(j)
    BY DEF FileInv
  <1>2. /\ ending.pd = NULL /\ ending' = [pd |-> This, std |-> 0, slot |-> 0]
        /\ run' = SubSeq(run, 1, Len(run) - 1) /\ Len(run) > 1
        /\ UNCHANGED <<f_own, f_use, f_ofd, p_uft, held, lost>>
    BY CallsFacts DEF Pterm, sft
  <1>3. /\ run' \in Seq(PDs) /\ run' # <<>> /\ Len(run) \in Nat
        /\ DOMAIN run = 1..Len(run) /\ DOMAIN run' = 1..Len(run) - 1
        /\ \A k \in 1..Len(run) - 1 : run'[k] = run[k]
        /\ \A k \in 1..Len(run) : run[k] \in PDs
    <2>1. run \in Seq(PDs) /\ Len(run) \in Nat /\ Len(run) > 1 /\ DOMAIN run = 1..Len(run)
      BY <1>1, <1>2 DEF SftType
    <2>2. \A k \in 1..Len(run) : run[k] \in PDs
      BY <2>1
    <2>3. /\ run' \in Seq(PDs) /\ Len(run') = Len(run) - 1
          /\ \A k \in 1..Len(run) - 1 : run'[k] = run[k]
      BY <2>1, <2>2, <1>2
    <2>4. DOMAIN run' = 1..Len(run) - 1
      BY <2>1, <2>3
    <2>5. run' # <<>>
      BY <2>1, <2>3
    <2> QED
      BY <2>1, <2>2, <2>3, <2>4, <2>5
  <1>4. /\ This \in PDs /\ This # NULL /\ ending'.pd = This
        /\ ending'.std = 0 /\ ending'.slot = 0
    BY <1>1, <1>2, RunFacts, NullFacts
  <1>5. Live = Live' \cup {This} /\ This \notin Live'
    <2>0. Len(run) \in Nat
      BY <1>3
    <2>1. \A k \in 1..Len(run) : k \in 1..Len(run) - 1 \/ k = Len(run)
      BY <2>0
    <2>2. \A k \in 1..Len(run) - 1 : k \in 1..Len(run) /\ k # Len(run)
      BY <2>0
    <2>3. Len(run) \in 1..Len(run)
      BY <1>2, <1>3
    <2>4. Live = {run[k] : k \in 1..Len(run)} /\ Live' = {run[k] : k \in 1..Len(run) - 1}
      BY <1>3 DEF Live
    <2>5. \A k \in 1..Len(run) - 1 : run[k] # run[Len(run)]
      BY <2>2, <2>3, <1>1, <1>3 DEF Chain
    <2> QED
      BY <2>1, <2>2, <2>3, <2>4, <2>5 DEF This
  <1>6. SftType'
    <2>1. ending' \in [pd : PDs \cup {NULL}, std : 0..NUMSTD, slot : 0..NSFT]
      BY <1>2, <1>4, FileAssumption
    <2> QED
      BY <2>1, <1>1, <1>2, <1>3 DEF SftType
  <1>7. Chain'
    <2>1. \A k \in DOMAIN run' : k \in DOMAIN run
      BY <1>3
    <2> QED
      BY <2>1, <1>1, <1>3, <1>4, <1>5 DEF Chain
  <1>8. ASSUME NEW j \in Slots
        PROVE  Counted(j)'
    <2>1. Referring(j)' = Referring(j)
      <3>1. ASSUME NEW r \in PDs \X Std
            PROVE  r[1] \in Live' \/ (r[1] = ending'.pd /\ r[2] >= ending'.std)
                   <=> r[1] \in Live \/ (r[1] = ending.pd /\ r[2] >= ending.std)
        <4>1. r[1] \in PDs /\ r[2] >= 0
          BY DEF Std
        <4> QED
          BY <4>1, <1>2, <1>4, <1>5, NullFacts
      <3> QED
        BY <3>1, <1>2 DEF Referring
    <2>2. Refers(j)' = Refers(j)
      BY <2>1 DEF Refers
    <2> QED
      BY <2>2, <1>1, <1>2 DEF Counted
  <1>9. Below'
    <2>1. ASSUME NEW k \in 1..Len(run) - 1, NEW n \in Std, NEW i \in Slots,
                 p_uft[run'[k]][n] = i + NUMSTD
          PROVE  \E m \in 1..k : f_own[i] = run'[m]
      <3>1. k \in DOMAIN run /\ run'[k] = run[k]
        BY <1>3
      <3>2. PICK m \in 1..k : f_own[i] = run[m]
        BY <2>1, <3>1, <1>1 DEF Below
      <3>3. m \in 1..Len(run) - 1
        BY <1>3
      <3> QED
        BY <3>2, <3>3, <1>3
    <2>2. \A n \in Std, i \in Slots :
            p_uft[This][n] = i + NUMSTD => f_own[i] \in Live' \cup {This}
      BY <1>5, InheritBelow
    <2> QED
      BY <2>1, <2>2, <1>2, <1>3, <1>4 DEF Below
  <1>10. Left'
    <2>1. \A i \in Slots : ~(i < 0)
      BY DEF Slots
    <2>2. ASSUME NEW i \in Slots, f_own[i] \notin Live' \cup {NULL, This}
          PROVE  lost[i] > 0
      BY <2>2, <1>1, <1>2, <1>5 DEF Left
    <2> QED
      BY <2>1, <2>2, <1>2, <1>4 DEF Left
  <1> QED
    BY <1>6, <1>7, <1>8, <1>9, <1>10 DEF FileInv

\* ixterm, first loop: one standard handle fewer counts
LEMMA EndingRefers ==
  ASSUME FileInv, ending.pd # NULL, ending.std < NUMSTD, NEW i \in Slots,
         ending' = [ending EXCEPT !.std = @ + 1], UNCHANGED <<p_uft, run>>
  PROVE  Refers(i)' = IF p_uft[ending.pd][ending.std] = i + NUMSTD THEN Refers(i) - 1
                      ELSE Refers(i)
  <1> DEFINE x == <<ending.pd, ending.std>>
  <1>1. SftType /\ Chain
    BY DEF FileInv
  <1>2. ending.pd \in PDs /\ ending.std \in Std /\ ending.pd \notin Live
    BY <1>1, FileAssumption DEF SftType, Chain, Std
  <1>3. ending'.pd = ending.pd /\ ending'.std = ending.std + 1 /\ Live' = Live
    BY <1>1 DEF SftType, Live
  <1>4. Referring(i)' = Referring(i) \ {x}
    <2>1. ASSUME NEW r \in PDs \X Std, r # x
          PROVE  r[1] = ending.pd /\ r[2] >= ending.std + 1
                   <=> r[1] = ending.pd /\ r[2] >= ending.std
      <3>1. r[2] \in Int /\ ending.std \in Int /\ (r[1] = ending.pd => r[2] # ending.std)
        BY <2>1, <1>2 DEF Std
      <3> QED
        BY <3>1
    <2>2. x \notin Referring(i)'
      <3>1. ~(ending.std >= ending.std + 1)
        BY <1>2 DEF Std
      <3> QED
        BY <3>1, <1>2, <1>3 DEF Referring
    <2>3. \A r \in PDs \X Std : r # x => (r \in Referring(i)' <=> r \in Referring(i))
      <3>1. ASSUME NEW r \in PDs \X Std, r # x
            PROVE  r \in Referring(i)' <=> r \in Referring(i)
        <4>1. r[1] = ending.pd /\ r[2] >= ending.std + 1
                <=> r[1] = ending.pd /\ r[2] >= ending.std
          BY <2>1, <3>1
        <4> HIDE DEF x
        <4> QED
          BY <4>1, <1>3 DEF Referring
      <3> QED
        BY <3>1
    <2> HIDE DEF x
    <2> QED
      BY <2>2, <2>3, ReferringPairs
  <1>5. x \in Referring(i) <=> p_uft[ending.pd][ending.std] = i + NUMSTD
    <2>1. ending.std >= ending.std
      BY <1>2 DEF Std
    <2> QED
      BY <2>1, <1>2 DEF Referring
  <1> HIDE DEF x
  <1>6. CASE p_uft[ending.pd][ending.std] = i + NUMSTD
    BY <1>4, <1>5, <1>6, OnePairMore, ReferringPairs DEF Refers
  <1>7. CASE p_uft[ending.pd][ending.std] # i + NUMSTD
    <2>1. Referring(i)' = Referring(i)
      BY <1>4, <1>5, <1>7
    <2> QED
      BY <2>1, <1>7 DEF Refers
  <1> QED
    BY <1>6, <1>7

LEMMA ixtermStdStep ==
  ASSUME FileInv, ixtermStd
  PROVE  FileInv'
  <1> DEFINE h == p_uft[ending.pd][ending.std]
  <1>1. SftType /\ Chain /\ Below /\ Left /\ \A j \in Slots : Counted(j)
    BY DEF FileInv
  <1>2. /\ ending.pd # NULL /\ ending.std < NUMSTD
        /\ ending' = [ending EXCEPT !.std = @ + 1]
        /\ UNCHANGED <<p_uft, run, held, lost>>
    BY DEF ixtermStd
  <1>3. /\ ending.pd \in PDs /\ ending.std \in Std /\ ending.std \in Int
        /\ ending'.pd = ending.pd /\ ending'.slot = ending.slot
        /\ ending'.std = ending.std + 1 /\ ending'.std >= ending.std
        /\ ending' \in [pd : PDs \cup {NULL}, std : 0..NUMSTD, slot : 0..NSFT]
    <2>1. /\ ending.pd \in PDs /\ ending.std \in 0..NUMSTD /\ ending.slot \in 0..NSFT
          /\ ending = [pd |-> ending.pd, std |-> ending.std, slot |-> ending.slot]
      BY <1>1, <1>2 DEF SftType
    <2>2. ending' = [pd |-> ending.pd, std |-> ending.std + 1, slot |-> ending.slot]
      BY <1>2, <2>1
    <2>3. ending.std \in Int /\ ending.std \in Std /\ ending.std + 1 \in 0..NUMSTD
      BY <1>2, <2>1, FileAssumption DEF Std
    <2>4. ending.std + 1 >= ending.std
      BY <2>3
    <2> QED
      BY <2>1, <2>2, <2>3, <2>4
  <1>4. h \in Handles \cup {Device}
    BY <1>1, <1>3 DEF SftType
  <1>5. \A j \in Slots : Refers(j)' = IF h = j + NUMSTD THEN Refers(j) - 1 ELSE Refers(j)
    BY <1>2, EndingRefers
  <1>6. \A j \in Slots : Refers(j) \in Nat /\ Refers(j)' \in Nat /\ lost[j] \in Nat
    BY <1>1, RefersNat DEF SftType
  <1>7. Chain'
    BY <1>1, <1>2, <1>3 DEF Chain, Live
  <1>8. \A k \in DOMAIN run, n \in Std : p_uft'[run[k]][n] \in {p_uft[run[k]][n], Device}
    BY <1>2
  <1>9. IF h > 0 THEN Close(h - NUMSTD) ELSE UNCHANGED sft
    BY DEF ixtermStd
  <1> HIDE DEF h
  <1>10. CASE h = Device
    <2>1. UNCHANGED <<f_own, f_use, f_ofd>>
      BY <1>9, <1>10 DEF Device, sft
    <2>2. \A j \in Slots : h # j + NUMSTD
      BY <1>10, FileAssumption DEF Device, Slots
    <2>3. SftType'
      BY <1>1, <1>2, <1>3, <2>1 DEF SftType
    <2>4. \A j \in Slots : Refers(j)' = Refers(j)
      BY <1>5, <2>2
    <2>5. \A j \in Slots : Counted(j)'
      BY <1>1, <1>2, <2>1, <2>4 DEF Counted
    <2>6. Below'
      BY <1>1, <1>2, <1>3, <1>8, <2>1, <2>3, <2>5, BelowKept
    <2>7. \A j \in Slots : f_own'[j] \in {f_own[j], NULL} /\ lost'[j] >= lost[j]
      BY <1>2, <1>6, <2>1
    <2>8. Left'
      BY <1>1, <1>2, <1>3, <2>3, <2>7, LeftKept, NullFacts DEF SftType
    <2> QED
      BY <1>7, <2>3, <2>5, <2>6, <2>8 DEF FileInv
  <1>11. CASE h \in Handles
    <2>1. PICK i \in Slots : h = i + NUMSTD /\ Drop(i)
      <3>1. h - NUMSTD \in Slots /\ h = (h - NUMSTD) + NUMSTD /\ h > 0
        BY <1>11, FileAssumption DEF Handles, Slots
      <3>2. Drop(h - NUMSTD)
        BY <1>9, <3>1, CloseDrops
      <3> QED
        BY <3>1, <3>2
    <2>2. f_use[i] > 0
      <3>1. ending.std >= ending.std
        BY <1>3
      <3>2. <<ending.pd, ending.std>> \in Referring(i)
        BY <3>1, <2>1, <1>3 DEF Referring, h
      <3> QED
        BY <3>2, ReferredEntry
    <2>3. \A j \in Slots : h = j + NUMSTD <=> j = i
      BY <2>1, FileAssumption DEF Slots
    <2>4. \A j \in Slots : Refers(j)' = IF j = i THEN Refers(j) - 1 ELSE Refers(j)
      <3>1. ASSUME NEW j \in Slots
            PROVE  Refers(j)' = IF j = i THEN Refers(j) - 1 ELSE Refers(j)
        BY <1>5, <2>3
      <3> QED
        BY <3>1
    <2>5. \A j \in Slots : Counted(j)'
      <3>1. \A j \in Slots : Refers(j)' <= Refers(j)
        BY <1>6, <2>4
      <3>2. \A j \in Slots : j # i =>
              (IF j \in held' THEN 1 ELSE 0) + Refers(j)' + lost'[j]
                = (IF j \in held THEN 1 ELSE 0) + Refers(j) + lost[j]
        BY <1>2, <2>4
      <3>3. (IF i \in held' THEN 1 ELSE 0) + Refers(i)' + lost'[i]
              = (IF i \in held THEN 1 ELSE 0) + Refers(i) + lost[i] - 1
        BY <1>2, <1>6, <2>4
      <3>4. held' \subseteq Slots /\ lost' \in [Slots -> Nat]
        BY <1>1, <1>2 DEF SftType
      <3> QED
        BY <3>1, <3>2, <3>3, <3>4, <2>1, <2>2, DropCounts
    <2>6. /\ \A j \in Slots : f_own'[j] \in {f_own[j], NULL}
          /\ f_own' \in [Slots -> PDs \cup {NULL}]
          /\ f_use' \in [Slots -> Nat]
          /\ f_ofd' \in [Slots -> OFDs \cup {Device, NULL}]
      BY <1>1, <2>1, <2>2, DropFacts
    <2>7. SftType'
      BY <1>1, <1>2, <1>3, <2>6 DEF SftType
    <2>8. Below'
      BY <1>1, <1>2, <1>3, <1>8, <2>5, <2>6, <2>7, BelowKept
    <2>9. \A j \in Slots : f_own'[j] \in {f_own[j], NULL} /\ lost'[j] >= lost[j]
      BY <1>2, <1>6, <2>6
    <2>10. Left'
      BY <1>1, <1>2, <1>3, <2>7, <2>9, LeftKept, NullFacts DEF SftType
    <2> QED
      BY <1>7, <2>5, <2>7, <2>8, <2>10 DEF FileInv
  <1> QED
    BY <1>4, <1>10, <1>11

\* ixterm, second loop
LEMMA ixtermSftStep ==
  ASSUME FileInv, ixtermSft
  PROVE  FileInv'
  <1>1. SftType /\ Chain /\ Below /\ Left /\ \A j \in Slots : Counted(j)
    BY DEF FileInv
  <1>0. PICK i \in Slots : i = ending.slot
    <2>1. ending.slot \in 0..NSFT /\ ending.slot < NSFT
      BY <1>1 DEF SftType, ixtermSft
    <2> QED
      BY <2>1, FileAssumption DEF Slots
  <1>2. /\ ending.pd # NULL /\ ending.std = NUMSTD /\ i < NSFT
        /\ ending' = [ending EXCEPT !.slot = @ + 1]
        /\ UNCHANGED <<p_uft, run>>
    BY <1>0 DEF ixtermSft
  <1>3. /\ ending.pd \in PDs /\ ending.pd \notin Live /\ i \in Slots
        /\ ending'.pd = ending.pd /\ ending'.std = NUMSTD /\ ending'.slot = i + 1
        /\ ending' \in [pd : PDs \cup {NULL}, std : 0..NUMSTD, slot : 0..NSFT]
    <2>1. /\ ending.pd \in PDs /\ ending.pd \notin Live
          /\ ending.std \in 0..NUMSTD /\ ending.slot \in 0..NSFT
          /\ ending = [pd |-> ending.pd, std |-> ending.std, slot |-> ending.slot]
      BY <1>1, <1>2 DEF SftType, Chain
    <2>2. ending' = [pd |-> ending.pd, std |-> NUMSTD, slot |-> ending.slot + 1]
      BY <1>2, <2>1
    <2>3. i + 1 \in 0..NSFT /\ NUMSTD \in 0..NUMSTD
      BY <1>0, <1>2, <2>1, FileAssumption DEF Slots
    <2> QED
      BY <1>0, <2>1, <2>2, <2>3
  <1>4. IF f_own[i] = ending.pd
        THEN /\ Close(i)
             /\ held' = held \ {i}
             /\ lost' = IF i \in held THEN lost ELSE [lost EXCEPT ![i] = @ - 1]
        ELSE UNCHANGED <<sft, held, lost>>
    BY <1>0 DEF ixtermSft
  <1>5. Chain' /\ Live' = Live
    BY <1>1, <1>2, <1>3 DEF Chain, Live
  <1>6. \A j \in Slots : Referring(j)' = Referring(j) /\ Refers(j)' = Refers(j)
    <2>1. \A j \in Slots : Referring(j)' = Referring(j)
      BY <1>2, <1>3, <1>5 DEF Referring
    <2> QED
      BY <2>1 DEF Refers
  <1>7. \A j \in Slots : Refers(j) \in Nat /\ lost[j] \in Nat /\ f_use[j] \in Nat
    BY <1>1, RefersNat DEF SftType
  <1>8. \A k \in DOMAIN run, n \in Std : p_uft'[run[k]][n] \in {p_uft[run[k]][n], Device}
    BY <1>2
  <1>9. ending'.std >= ending.std
    BY <1>2, <1>3, FileAssumption
  <1>10. CASE f_own[i] # ending.pd
    <2>1. UNCHANGED <<f_own, f_use, f_ofd, held, lost>>
      BY <1>4, <1>10 DEF sft
    <2>2. SftType'
      BY <1>1, <1>2, <1>3, <2>1 DEF SftType
    <2>3. \A j \in Slots : Counted(j)'
      BY <1>1, <1>6, <2>1 DEF Counted
    <2>4. Below'
      BY <1>1, <1>2, <1>3, <1>8, <1>9, <2>1, <2>2, <2>3, BelowKept
    <2>5. Left'
      <3>1. \A j \in Slots : j < i + 1 => j < i \/ j = i
        BY <1>3 DEF Slots
      <3> QED
        BY <3>1, <1>0, <1>1, <1>3, <1>5, <1>10, <2>1 DEF Left
    <2> QED
      BY <1>5, <2>2, <2>3, <2>4, <2>5 DEF FileInv
  <1>11. CASE f_own[i] = ending.pd
    <2>1. /\ Drop(i) /\ held' = held \ {i}
          /\ lost' = IF i \in held THEN lost ELSE [lost EXCEPT ![i] = @ - 1]
      BY <1>4, <1>11, CloseDrops
    <2>2. Refers(i) = 0
      <3>1. ASSUME NEW r \in Referring(i)
            PROVE  FALSE
        <4>1. r[1] \in PDs /\ r[2] \in Std /\ p_uft[r[1]][r[2]] = i + NUMSTD
              /\ (r[1] \in Live \/ r[2] >= NUMSTD)
          BY <1>2 DEF Referring
        <4>2. r[1] \in Live
          BY <4>1, FileAssumption DEF Std
        <4>3. PICK k \in DOMAIN run : r[1] = run[k]
          BY <4>2 DEF Live
        <4>4. PICK m \in 1..k : f_own[i] = run[m]
          BY <4>1, <4>3, <1>1, <1>3 DEF Below
        <4>5. k \in 1..Len(run) /\ DOMAIN run = 1..Len(run) /\ Len(run) \in Nat
          BY <1>1, RunFacts
        <4>6. m \in DOMAIN run
          BY <4>5
        <4> QED
          BY <4>4, <4>6, <1>3, <1>11 DEF Live
      <3> QED
        BY <3>1, <1>3, RefersNat
    <2>3. f_use[i] > 0 /\ f_use[i] = (IF i \in held THEN 1 ELSE 0) + lost[i]
      <3>1. f_use[i] = (IF i \in held THEN 1 ELSE 0) + Refers(i) + lost[i] /\ f_use[i] # 0
        BY <1>1, <1>2, <1>3, <1>11 DEF Counted
      <3> QED
        BY <3>1, <2>2, <1>3, <1>7
    <2>4. /\ \A j \in Slots : j # i => lost'[j] = lost[j] /\ (j \in held' <=> j \in held)
          /\ i \notin held' /\ lost'[i] = IF i \in held THEN lost[i] ELSE lost[i] - 1
          /\ lost' \in [Slots -> Nat] /\ held' \subseteq Slots
      <3>1. lost[i] \in Nat /\ (i \notin held => lost[i] - 1 \in Nat)
        BY <1>3, <1>7, <2>3
      <3>2. CASE i \in held
        BY <3>1, <3>2, <1>1, <2>1 DEF SftType
      <3>3. CASE i \notin held
        <4>1. lost' = [lost EXCEPT ![i] = lost[i] - 1]
          BY <3>3, <2>1
        <4> QED
          BY <4>1, <3>1, <3>3, <1>1, <1>3, <2>1 DEF SftType
      <3> QED
        BY <3>2, <3>3
    <2>5. \A j \in Slots : Counted(j)'
      <3>1. \A j \in Slots : Refers(j)' <= Refers(j)
        BY <1>6, <1>7
      <3>2. \A j \in Slots : j # i =>
              (IF j \in held' THEN 1 ELSE 0) + Refers(j)' + lost'[j]
                = (IF j \in held THEN 1 ELSE 0) + Refers(j) + lost[j]
        BY <1>6, <2>4
      <3>3. (IF i \in held' THEN 1 ELSE 0) + Refers(i)' + lost'[i]
              = (IF i \in held THEN 1 ELSE 0) + Refers(i) + lost[i] - 1
        <4>1. Refers(i)' = Refers(i) /\ Refers(i) \in Nat /\ lost[i] \in Nat
          BY <1>3, <1>6, <1>7
        <4>2. i \notin held' /\ lost'[i] = IF i \in held THEN lost[i] ELSE lost[i] - 1
          BY <2>4
        <4> QED
          BY <4>1, <4>2
      <3> QED
        BY <3>1, <3>2, <3>3, <1>3, <2>1, <2>3, <2>4, DropCounts
    <2>6. /\ \A j \in Slots : f_own'[j] = IF j = i /\ f_use[i] = 1 THEN NULL ELSE f_own[j]
          /\ \A j \in Slots : f_use'[j] = IF j = i THEN f_use[j] - 1 ELSE f_use[j]
          /\ f_own' \in [Slots -> PDs \cup {NULL}]
          /\ f_use' \in [Slots -> Nat]
          /\ f_ofd' \in [Slots -> OFDs \cup {Device, NULL}]
      BY <1>1, <1>3, <2>1, <2>3, DropFacts
    <2>7. SftType'
      BY <1>1, <1>2, <1>3, <2>4, <2>6 DEF SftType
    <2>8. Below'
      <3>1. \A j \in Slots : f_own'[j] \in {f_own[j], NULL}
        BY <2>6
      <3> QED
        BY <3>1, <1>1, <1>2, <1>3, <1>8, <1>9, <2>5, <2>7, BelowKept
    <2>9. Left'
      <3>1. ASSUME NEW j \in Slots, j # i
            PROVE  /\ f_own[j] \notin Live \cup {NULL, ending.pd} => lost[j] > 0
                   /\ f_own[j] = ending.pd /\ j < i + 1 => lost[j] > 0
        <4>1. j < i + 1 => j < i
          BY <3>1, <1>3 DEF Slots
        <4> QED
          BY <4>1, <1>0, <1>1, <1>2 DEF Left
      <3>2. f_own'[i] # NULL => lost'[i] > 0
        <4>1. f_own'[i] # NULL => f_use[i] # 1
          BY <2>6, <1>3
        <4> QED
          BY <4>1, <2>3, <2>4, <1>3, <1>7
      <3>3. \A j \in Slots : j # i => f_own'[j] = f_own[j] /\ lost'[j] = lost[j]
        BY <2>4, <2>6
      <3> QED
        BY <3>1, <3>2, <3>3, <1>2, <1>3, <1>5, NullFacts DEF Left
    <2> QED
      BY <1>5, <2>5, <2>7, <2>8, <2>9 DEF FileInv
  <1> QED
    BY <1>10, <1>11

LEMMA EndedStep ==
  ASSUME FileInv, Ended
  PROVE  FileInv'
  <1>1. SftType /\ Chain /\ Below /\ Left /\ \A j \in Slots : Counted(j)
    BY DEF FileInv
  <1>2. /\ ending.pd # NULL /\ ending.std = NUMSTD /\ ending.slot = NSFT
        /\ ending' = NotEnding
        /\ UNCHANGED <<f_own, f_use, f_ofd, p_uft, run, held, lost>>
    BY DEF Ended, sft
  <1>3. /\ ending'.pd = NULL /\ Live' = Live /\ NULL \notin PDs /\ Live \subseteq PDs
        /\ ending' \in [pd : PDs \cup {NULL}, std : 0..NUMSTD, slot : 0..NSFT]
    BY <1>1, <1>2, RunFacts, NullFacts, FileAssumption DEF NotEnding, Live
  <1>4. SftType' /\ Chain'
    BY <1>1, <1>2, <1>3 DEF SftType, Chain
  <1>5. \A j \in Slots : Counted(j)'
    <2>1. ASSUME NEW j \in Slots, NEW r \in PDs \X Std
          PROVE  r[1] \in Live' \/ (r[1] = ending'.pd /\ r[2] >= ending'.std)
                 <=> r[1] \in Live \/ (r[1] = ending.pd /\ r[2] >= ending.std)
      <3>1. r[1] \in PDs /\ ~(r[2] >= NUMSTD)
        BY FileAssumption DEF Std
      <3> QED
        BY <3>1, <1>2, <1>3
    <2>2. \A j \in Slots : Referring(j)' = Referring(j)
      BY <2>1, <1>2 DEF Referring
    <2>3. \A j \in Slots : Refers(j)' = Refers(j)
      BY <2>2 DEF Refers
    <2> QED
      BY <2>3, <1>1, <1>2 DEF Counted
  <1>6. Below'
    BY <1>1, <1>2, <1>3 DEF Below
  <1>7. Left'
    <2>1. \A i \in Slots : i < NSFT
      BY FileAssumption DEF Slots
    <2> QED
      BY <2>1, <1>1, <1>2, <1>3 DEF Left
  <1> QED
    BY <1>4, <1>5, <1>6, <1>7 DEF FileInv

\* Fopen and Fcreate
LEMMA opnfilStep ==
  ASSUME FileInv, Calls, Free # {}, NEW files, NEW e, NEW mode, opnfil(files, e, mode)
  PROVE  FileInv'
  <1>1. PICK o \in OFDs :
          /\ f_own' = [f_own EXCEPT ![ffhndl] = This]
          /\ f_use' = [f_use EXCEPT ![ffhndl] = 1]
          /\ f_ofd' = [f_ofd EXCEPT ![ffhndl] = o]
          /\ held' = held \cup {ffhndl}
          /\ UNCHANGED <<p_uft, run, ending, lost>>
    BY DEF opnfil
  <1> QED
    BY <1>1, OpenStep, CallsFacts

\* xdup
LEMMA FdupStep ==
  ASSUME FileInv, NEW n \in Std, Fdup(n)
  PROVE  FileInv'
  <1> DEFINE x == IF p_uft[This][n] >= NUMSTD
                  THEN f_ofd[p_uft[This][n] - NUMSTD] ELSE Device
  <1>1. SftType
    BY DEF FileInv
  <1>2. x \in OFDs \cup {Device}
    <2>1. CASE p_uft[This][n] >= NUMSTD
      <3>1. p_uft[This][n] \in Handles \cup {Device}
        BY <1>1, RunFacts DEF SftType
      <3>2. PICK i \in Slots : i = p_uft[This][n] - NUMSTD /\ p_uft[This][n] = i + NUMSTD
        BY <2>1, <3>1, FileAssumption DEF Handles, Device, Slots
      <3>3. <<This, n>> \in Referring(i)
        BY <1>1, <3>2, StdRefers
      <3>4. f_ofd[i] \in OFDs
        BY <3>3, ReferredEntry
      <3> QED
        BY <2>1, <3>2, <3>4
    <2>2. CASE ~(p_uft[This][n] >= NUMSTD)
      BY <2>2
    <2> QED
      BY <2>1, <2>2
  <1>3. /\ Free # {}
        /\ f_own' = [f_own EXCEPT ![ffhndl] = This]
        /\ f_use' = [f_use EXCEPT ![ffhndl] = 1]
        /\ f_ofd' = [f_ofd EXCEPT ![ffhndl] = x]
        /\ held' = held \cup {ffhndl}
        /\ UNCHANGED <<p_uft, run, ending, lost>>
        /\ ending.pd = NULL
    BY CallsFacts DEF Fdup
  <1> HIDE DEF x
  <1> QED
    BY <1>2, <1>3, OpenStep

\* what neither opens nor closes a handle
LEMMA Frame ==
  ASSUME FileInv, UNCHANGED <<f_own, f_use, f_ofd, p_uft, run, ending, held, lost>>
  PROVE  FileInv'
  <1>1. SftType /\ Chain /\ Below /\ Left /\ \A j \in Slots : Counted(j)
    BY DEF FileInv
  <1>2. Chain' /\ Live' = Live
    BY <1>1, SameChain
  <1>3. \A j \in Slots : Counted(j)'
    BY <1>1, SameRefers DEF Counted
  <1>4. SftType'
    BY <1>1 DEF SftType
  <1>5. Below' /\ Left'
    BY <1>1, <1>2 DEF Below, Left
  <1> QED
    BY <1>2, <1>3, <1>4, <1>5 DEF FileInv
-----------------------------------------------------------------------------
(* The invariant.                                                          *)

LEMMA FileInit ==
  ASSUME Init
  PROVE  FileInv
  <1>1. SftType
    <2>1. p_uft \in [PDs -> [Std -> Handles \cup {Device}]]
      BY DEF Init
    <2>2. f_own \in [Slots -> PDs \cup {NULL}] /\ f_use \in [Slots -> Nat]
          /\ f_ofd \in [Slots -> OFDs \cup {Device, NULL}]
          /\ held \subseteq Slots /\ lost \in [Slots -> Nat]
      BY DEF Init
    <2>3. run \in Seq(PDs) /\ run # <<>>
      BY FileAssumption DEF Init
    <2>4. ending \in [pd : PDs \cup {NULL}, std : 0..NUMSTD, slot : 0..NSFT]
      BY FileAssumption DEF Init, NotEnding
    <2> QED
      BY <2>1, <2>2, <2>3, <2>4 DEF SftType
  <1>2. run = <<ospd>> /\ ending.pd = NULL /\ DOMAIN run = {1} /\ Live = {ospd}
    BY DEF Init, NotEnding, Live
  <1>3. Chain
    BY <1>2, NullFacts, FileAssumption DEF Chain
  <1>4. \A p \in PDs, n \in Std, i \in Slots : p_uft[p][n] # i + NUMSTD
    BY FileAssumption DEF Init, Device, Slots
  <1>5. \A i \in Slots : Counted(i)
    <2>1. \A i \in Slots : Referring(i) = {}
      BY <1>4 DEF Referring
    <2>2. \A i \in Slots : Refers(i) = 0
      BY <2>1, RefersNat
    <2> QED
      BY <2>2 DEF Counted, Init
  <1>6. Below
    BY <1>2, <1>4, FileAssumption DEF Below
  <1>7. Left
    BY <1>2 DEF Left, Init
  <1> QED
    BY <1>1, <1>3, <1>5, <1>6, <1>7 DEF FileInv

LEMMA FileStep ==
  ASSUME FileInv, [AnyNext]_vars
  PROVE  FileInv'
  <1>1. ASSUME NEW e \in Files, NEW mode \in {"read", "write"}, Fopen(e, mode)
        PROVE  FileInv'
    BY <1>1, opnfilStep DEF Fopen
  <1>2. ASSUME NEW i \in Slots, Fclose(i)
        PROVE  FileInv'
    BY <1>2, FcloseStep
  <1>3. ASSUME NEW i \in Slots, Fwrite(i)
        PROVE  FileInv'
    BY <1>3, Frame DEF Fwrite, sft
  <1>4. ASSUME NEW i \in Slots, NEW n \in Std, Fforce(n, i)
        PROVE  FileInv'
    BY <1>4, FforceStep
  <1>5. ASSUME NEW n \in Std, FcloseStd(n)
        PROVE  FileInv'
    BY <1>5, FcloseStdStep
  <1>6. ASSUME NEW n \in Std, FforceDevice(n)
        PROVE  FileInv'
    BY <1>6, FforceDeviceStep
  <1>7. ASSUME NEW p \in PDs, Pexec(p)
        PROVE  FileInv'
    BY <1>7, PexecStep
  <1>8. ASSUME NEW p \in PDs, PexecFails(p)
        PROVE  FileInv'
    BY <1>8, PexecFailsStep
  <1>9. CASE Pterm
    BY <1>9, PtermStep
  <1>10. CASE ixtermStd
    BY <1>10, ixtermStdStep
  <1>11. CASE ixtermSft
    BY <1>11, ixtermSftStep
  <1>12. CASE Ended
    BY <1>12, EndedStep
  <1>13. ASSUME NEW e \in Files, Fdelete(e)
         PROVE  FileInv'
    <2>1. UNCHANGED <<f_own, f_use, f_ofd, p_uft, run, ending, held, lost>>
      BY <1>13 DEF Fdelete, Denied, sft
    <2> QED
      BY <2>1, Frame
  <1>14. ASSUME NEW e \in Files, Fcreate(e)
         PROVE  FileInv'
    <2>1. CASE Denied(e)
      BY <2>1, Frame DEF Denied, sft
    <2>2. CASE ~Denied(e)
      <3>1. Calls /\ Free # {} /\ opnfil(ixdel(e).files, e, "write")
        BY <1>14, <2>2 DEF Fcreate
      <3> QED
        BY <3>1, opnfilStep
    <2> QED
      BY <2>1, <2>2
  <1>15. ASSUME NEW n \in Std, Fdup(n)
         PROVE  FileInv'
    BY <1>15, FdupStep
  <1>16. CASE UNCHANGED vars
    BY <1>16, Frame DEF vars, sft
  <1>17. CASE Common
    BY <1>17, <1>1, <1>2, <1>3, <1>4, <1>5, <1>6, <1>7, <1>8, <1>9, <1>10, <1>11, <1>12
       DEF Common
  <1> QED
    BY <1>13, <1>14, <1>15, <1>16, <1>17 DEF AnyNext

\* In every state the system reaches the invariant holds, whatever programs do
\* with what is hidden and with duplicated handles.
THEOREM FileInvariant == AnySpec => []FileInv
  <1>1. Init => FileInv
    BY FileInit
  <1>2. FileInv /\ [AnyNext]_vars => FileInv'
    BY FileStep
  <1> QED
    BY <1>1, <1>2, PTL DEF AnySpec

\* Programs that keep to the rules are programs.
THEOREM SpecIsAnySpec == Spec => AnySpec
  <1>1. [Next]_vars => [AnyNext]_vars
    BY DEF Next, AnyNext
  <1> QED
    BY <1>1, PTL DEF Spec, AnySpec

\* The use count of each entry of sft tells the references to it, a free entry
\* has none, and standard handles name entries of files: xclose, xforce, ixforce
\* and ixterm keep the count in step.
THEOREM UseCountsHold == Spec => []UseCounts
  <1>1. FileInv => UseCounts
    BY DEF FileInv, Counted, UseCounts
  <1> QED
    BY <1>1, FileInvariant, SpecIsAnySpec, PTL

\* When a process has ended, ixterm has closed what it opened, except for entries
\* of which Fforce has overwritten a reference.
THEOREM NothingOutlivesHolds == Spec => []NothingOutlives
  <1>1. FileInv => NothingOutlives
    BY DEF FileInv, Left, NothingOutlives
  <1> QED
    BY <1>1, FileInvariant, SpecIsAnySpec, PTL

-----------------------------------------------------------------------------
(* The descriptors: what OfdsHeld, LengthKept and DeleteSparesOthers need, *)
(* which hold when programs keep to the rules of Next.                     *)

\* the part of TypeOK about descriptors and the directory
OfdType ==
  /\ inuse \subseteq OFDs /\ d_files \in Seq(OFDs)
  /\ o_dirbyt \in [OFDs -> Files] /\ o_mod \in [OFDs -> {"read", "write"}]
  /\ o_fileln \in [OFDs -> 0..MaxLen] /\ o_dirty \in [OFDs -> BOOLEAN]
  /\ f_fileln \in [Files -> {Erased} \cup 0..MaxLen]
  /\ ~halted
  /\ written \in [Files -> {Erased} \cup 0..MaxLen]
  /\ eraser \in [OFDs -> PDs \cup {NULL}]

\* OfdsHeld but for the types
OneEach ==
  /\ inuse = {f_ofd[i] : i \in Slots} \ {Device, NULL}
  /\ \A i, j \in Slots : f_ofd[i] = f_ofd[j] /\ f_ofd[i] \in OFDs => i = j
Listed ==
  /\ \A k, m \in DOMAIN d_files : d_files[k] = d_files[m] => k = m
  /\ \A k \in DOMAIN d_files : d_files[k] \in inuse /\ eraser[d_files[k]] = NULL

\* only who may write marks a descriptor; who may write is alone and knows the
\* length; what has outlived its file has nothing to bring up to date
Writer(o) ==
  /\ o_dirty[o] => o_mod[o] = "write" /\ eraser[o] = NULL
  /\ eraser[o] = NULL => Exists(o_dirbyt[o])
  /\ eraser[o] = NULL /\ o_mod[o] = "write" =>
       o_fileln[o] = written[o_dirbyt[o]] /\ \A p \in Current(o_dirbyt[o]) : p = o
Writers == \A o \in inuse : Writer(o)
Behind == \A e \in Files : f_fileln[e] # written[e] => \E o \in Current(e) : o_dirty[o]

OfdInv == OfdType /\ OneEach /\ Listed /\ Writers /\ Behind /\ DeleteSparesOthers
-----------------------------------------------------------------------------
(* The list without some of its OFDs.                                      *)

\* what Without has kept of the first k
Kept(files, gone, f) ==
  f = [k \in 0..Len(files) |->
         IF k = 0 THEN <<>>
         ELSE IF files[k] \in gone THEN f[k - 1] ELSE Append(f[k - 1], files[k])]

LEMMA KeptExists ==
  ASSUME NEW files \in Seq(OFDs), NEW gone
  PROVE  \E f : Kept(files, gone, f)
  <1> DEFINE n == Len(files)
             Stage(m, f) ==
               /\ f \in [0..m -> Seq(OFDs)] /\ f[0] = <<>>
               /\ \A k \in 1..m : f[k] = IF files[k] \in gone THEN f[k - 1]
                                                             ELSE Append(f[k - 1], files[k])
             Bad == {m \in 0..n : \A f : ~Stage(m, f)}
  <1>1. n \in Nat
    OBVIOUS
  <1>2. Stage(0, [k \in 0..0 |-> <<>>])
    OBVIOUS
  <1>3. ASSUME NEW m \in 1..n, NEW f, Stage(m - 1, f)
        PROVE  \E g : Stage(m, g)
    <2> DEFINE new == IF files[m] \in gone THEN f[m - 1] ELSE Append(f[m - 1], files[m])
               g == [k \in 0..m |-> IF k = m THEN new ELSE f[k]]
    <2>1. new \in Seq(OFDs)
      BY <1>1, <1>3
    <2> HIDE DEF new
    <2>2. g \in [0..m -> Seq(OFDs)] /\ g[m] = new /\ \A k \in 0..m - 1 : g[k] = f[k]
      BY <1>1, <1>3, <2>1
    <2> HIDE DEF g
    <2>3. ASSUME NEW k \in 1..m
          PROVE  g[k] = IF files[k] \in gone THEN g[k - 1] ELSE Append(g[k - 1], files[k])
      <3>1. k - 1 \in 0..m - 1 /\ g[k - 1] = f[k - 1]
        BY <1>1, <2>2
      <3>2. CASE k = m
        BY <2>2, <3>1, <3>2 DEF new
      <3>3. CASE k # m
        <4>1. k \in 0..m - 1 /\ k \in 1..m - 1
          BY <1>1, <3>3
        <4> QED
          BY <1>3, <2>2, <3>1, <4>1
      <3> QED
        BY <3>2, <3>3
    <2>4. Stage(m, g)
      BY <1>1, <1>3, <2>2, <2>3
    <2> QED
      BY <2>4
  <1>4. Bad = {}
    <2> SUFFICES ASSUME Bad # {} PROVE FALSE
      OBVIOUS
    <2>1. Bad \in SUBSET Nat
      BY <1>1
    <2>2. PICK m \in Bad : \A j \in Bad : m <= j
      <3> HIDE DEF Bad
      <3> QED
        BY <2>1, FirstLeast
    <2>3. m # 0
      BY <1>2, <2>2
    <2>4. m \in 1..n /\ m - 1 \in 0..n
      BY <1>1, <2>3
    <2>5. m - 1 \notin Bad
      <3> HIDE DEF Bad
      <3> QED
        BY <2>2, <2>4
    <2> QED
      BY <1>3, <2>2, <2>4, <2>5
  <1>5. PICK f : Stage(n, f)
    <2>1. n \in 0..n
      BY <1>1
    <2>2. n \notin Bad
      <3> HIDE DEF Bad
      <3> QED
        BY <1>4
    <2> HIDE DEF Stage
    <2> QED
      BY <2>1, <2>2
  <1>6. Kept(files, gone, f)
    <2> DEFINE step(k) == IF k = 0 THEN <<>> ELSE IF files[k] \in gone THEN f[k - 1]
                                                  ELSE Append(f[k - 1], files[k])
    <2>1. f \in [0..n -> Seq(OFDs)] /\ \A k \in 0..n : f[k] = step(k)
      <3>1. \A k \in 0..n : k = 0 \/ k \in 1..n
        BY <1>1
      <3>2. f[0] = step(0)
        BY <1>5
      <3>3. ASSUME NEW k \in 1..n PROVE f[k] = step(k)
        <4>1. k # 0
          OBVIOUS
        <4> QED
          BY <1>5, <4>1
      <3>4. f \in [0..n -> Seq(OFDs)]
        BY <1>5
      <3> HIDE DEF step, Stage
      <3> QED
        BY <3>1, <3>2, <3>3, <3>4
    <2> HIDE DEF step
    <2>2. f = [k \in 0..n |-> step(k)]
      BY <2>1
    <2> QED
      BY <2>2 DEF Kept, step
  <1> QED
    BY <1>6

LEMMA WithoutDoes ==
  ASSUME NEW files \in Seq(OFDs), NEW gone
  PROVE  /\ Without(files, gone) \in Seq(OFDs)
         /\ \A i \in DOMAIN Without(files, gone) :
              Without(files, gone)[i] \notin gone
                /\ \E j \in DOMAIN files : Without(files, gone)[i] = files[j]
         /\ (\A i, j \in DOMAIN files : files[i] = files[j] => i = j) =>
              \A i, j \in DOMAIN Without(files, gone) :
                Without(files, gone)[i] = Without(files, gone)[j] => i = j
         /\ \A j \in DOMAIN files : files[j] \notin gone =>
              \E i \in DOMAIN Without(files, gone) : Without(files, gone)[i] = files[j]
  <1> DEFINE n == Len(files)
             f == CHOOSE kept : Kept(files, gone, kept)
             Injective == \A i, j \in 1..n : files[i] = files[j] => i = j
             Good(k, s) ==
               /\ s \in Seq(OFDs)
               /\ \A i \in 1..Len(s) : s[i] \notin gone /\ \E j \in 1..k : s[i] = files[j]
               /\ Injective => \A i, j \in 1..Len(s) : s[i] = s[j] => i = j
               /\ \A j \in 1..k : files[j] \notin gone => \E i \in 1..Len(s) : s[i] = files[j]
             Bad == {k \in 0..n : ~Good(k, f[k])}
  <1>1. n \in Nat /\ DOMAIN files = 1..n
    OBVIOUS
  <1>2. Kept(files, gone, f)
    BY KeptExists
  <1>3. Without(files, gone) = f[n]
    BY DEF Without, Kept
  <1> HIDE DEF f
  <1>4. f[0] = <<>> /\ \A k \in 1..n : f[k] = IF files[k] \in gone THEN f[k - 1]
                                                             ELSE Append(f[k - 1], files[k])
    <2> DEFINE step(k) == IF k = 0 THEN <<>> ELSE IF files[k] \in gone THEN f[k - 1]
                                                  ELSE Append(f[k - 1], files[k])
    <2>1. f = [k \in 0..n |-> step(k)]
      BY <1>2 DEF Kept
    <2> HIDE DEF step
    <2>2. \A k \in 0..n : f[k] = step(k)
      BY <2>1
    <2>3. f[0] = step(0) /\ \A k \in 1..n : f[k] = step(k) /\ k # 0
      BY <1>1, <2>2
    <2> QED
      BY <2>3 DEF step
  <1>5. Good(0, f[0])
    BY <1>4
  <1>6. ASSUME NEW k \in 1..n, Good(k - 1, f[k - 1])
        PROVE  Good(k, f[k])
    <2> DEFINE s == f[k - 1]
               o == files[k]
    <2>1. s \in Seq(OFDs) /\ Len(s) \in Nat /\ o \in OFDs
      BY <1>1, <1>6
    <2>2. CASE o \in gone
      <3>1. f[k] = s
        BY <1>4, <2>2
      <3> HIDE DEF s
      <3>2. /\ \A i \in 1..Len(s) : s[i] \notin gone /\ \E j \in 1..k - 1 : s[i] = files[j]
            /\ Injective => \A i, j \in 1..Len(s) : s[i] = s[j] => i = j
            /\ \A j \in 1..k - 1 : files[j] \notin gone => \E i \in 1..Len(s) : s[i] = files[j]
        BY <1>6 DEF s
      <3>3. \A i \in 1..Len(s) : s[i] \notin gone /\ \E j \in 1..k : s[i] = files[j]
        BY <1>1, <3>2
      <3>4. \A j \in 1..k : files[j] \notin gone => \E i \in 1..Len(s) : s[i] = files[j]
        BY <1>1, <2>2, <3>2
      <3> QED
        BY <2>1, <3>1, <3>2, <3>3, <3>4
    <2>3. CASE o \notin gone
      <3> DEFINE t == Append(s, o)
      <3>1. f[k] = t
        BY <1>4, <2>3
      <3> HIDE DEF s, o
      <3>2. /\ t \in Seq(OFDs) /\ Len(t) = Len(s) + 1 /\ t[Len(s) + 1] = o
            /\ \A i \in 1..Len(s) : t[i] = s[i]
        BY <2>1
      <3>3. /\ \A i \in 1..Len(s) : s[i] \notin gone /\ \E j \in 1..k - 1 : s[i] = files[j]
            /\ Injective => \A i, j \in 1..Len(s) : s[i] = s[j] => i = j
            /\ \A j \in 1..k - 1 : files[j] \notin gone => \E i \in 1..Len(s) : s[i] = files[j]
        BY <1>6 DEF s
      <3> HIDE DEF t
      <3>4. \A i \in 1..Len(t) : t[i] \notin gone /\ \E j \in 1..k : t[i] = files[j]
        <4> SUFFICES ASSUME NEW i \in 1..Len(t)
                     PROVE  t[i] \notin gone /\ \E j \in 1..k : t[i] = files[j]
          OBVIOUS
        <4>1. CASE i = Len(t)
          BY <1>1, <2>3, <3>2, <4>1 DEF o
        <4>2. CASE i # Len(t)
          <5>1. i \in 1..Len(s)
            BY <2>1, <3>2, <4>2
          <5>2. t[i] = s[i] /\ s[i] \notin gone /\ \E j \in 1..k - 1 : s[i] = files[j]
            BY <3>2, <3>3, <5>1
          <5> QED
            BY <1>1, <5>2
        <4> QED
          BY <4>1, <4>2
      <3>5. Injective => \A i, j \in 1..Len(t) : t[i] = t[j] => i = j
        <4> SUFFICES ASSUME Injective, NEW i \in 1..Len(t), NEW j \in 1..Len(t), t[i] = t[j]
                     PROVE  i = j
          OBVIOUS
        <4>1. \A a \in 1..Len(s) : s[a] # o
          BY <1>1, <1>6, <3>3 DEF o
        <4>2. \A a \in 1..Len(t) : a \in 1..Len(s) \/ a = Len(s) + 1
          BY <2>1, <3>2
        <4>3. \A a \in 1..Len(s) : t[a] # o
          BY <3>2, <4>1
        <4>4. CASE i \in 1..Len(s) /\ j \in 1..Len(s)
          <5>1. s[i] = s[j]
            BY <3>2, <4>4
          <5> QED
            BY <3>3, <4>4, <5>1
        <4>5. CASE ~(i \in 1..Len(s) /\ j \in 1..Len(s))
          BY <3>2, <4>2, <4>3, <4>5
        <4> QED
          BY <4>4, <4>5
      <3>6. \A j \in 1..k : files[j] \notin gone => \E i \in 1..Len(t) : t[i] = files[j]
        <4> SUFFICES ASSUME NEW j \in 1..k, files[j] \notin gone
                     PROVE  \E i \in 1..Len(t) : t[i] = files[j]
          OBVIOUS
        <4>1. CASE j = k
          <5>1. Len(s) + 1 \in 1..Len(t) /\ t[Len(s) + 1] = files[j]
            BY <2>1, <3>2, <4>1 DEF o
          <5> QED
            BY <5>1
        <4>2. CASE j # k
          <5>0. j \in 1..k - 1
            BY <1>1, <4>2
          <5>1. PICK i \in 1..Len(s) : s[i] = files[j]
            BY <3>3, <5>0
          <5>2. i \in 1..Len(t) /\ t[i] = s[i]
            BY <2>1, <3>2
          <5> QED
            BY <5>1, <5>2
        <4> QED
          BY <4>1, <4>2
      <3> QED
        BY <3>1, <3>2, <3>4, <3>5, <3>6
    <2> QED
      BY <2>2, <2>3
  <1>7. Bad = {}
    <2> SUFFICES ASSUME Bad # {} PROVE FALSE
      OBVIOUS
    <2>1. Bad \in SUBSET Nat
      BY <1>1
    <2>2. PICK m \in Bad : \A j \in Bad : m <= j
      <3> HIDE DEF Bad
      <3> QED
        BY <2>1, FirstLeast
    <2>3. m # 0
      BY <1>5, <2>2
    <2>4. m \in 1..n /\ m - 1 \in 0..n
      BY <1>1, <2>3
    <2>5. m - 1 \notin Bad
      <3> HIDE DEF Bad
      <3> QED
        BY <2>2, <2>4
    <2>6. Good(m - 1, f[m - 1])
      BY <2>4, <2>5
    <2>7. Good(m, f[m])
      <3> HIDE DEF Good
      <3> QED
        BY <1>6, <2>4, <2>6
    <2> QED
      BY <2>2, <2>7
  <1>8. Good(n, f[n])
    <2>1. n \in 0..n
      BY <1>1
    <2>2. n \notin Bad
      <3> HIDE DEF Bad
      <3> QED
        BY <1>7
    <2> HIDE DEF Good
    <2> QED
      BY <2>1, <2>2
  <1> QED
    <2> DEFINE w == Without(files, gone)
    <2>0. Good(n, w)
      <3> HIDE DEF Good
      <3> QED
        BY <1>3, <1>8
    <2>1. w \in Seq(OFDs) /\ DOMAIN w = 1..Len(w)
      <3> HIDE DEF w
      <3> QED
        BY <2>0
    <2> HIDE DEF w
    <2>2. /\ \A i \in 1..Len(w) : w[i] \notin gone /\ \E j \in 1..n : w[i] = files[j]
          /\ Injective => \A i, j \in 1..Len(w) : w[i] = w[j] => i = j
          /\ \A j \in 1..n : files[j] \notin gone => \E i \in 1..Len(w) : w[i] = files[j]
      BY <2>0
    <2> QED
      BY <1>1, <2>1, <2>2 DEF w
-----------------------------------------------------------------------------
(* Lemmas about descriptors.                                               *)

LEMMA CurrentFacts ==
  ASSUME OfdInv, NEW e \in Files, NEW o \in Current(e)
  PROVE  o \in inuse /\ o \in OFDs /\ o_dirbyt[o] = e /\ eraser[o] = NULL /\ Writer(o)
  BY DEF Current, OfdInv, OfdType, Writers

\* the type conditions of OfdInv and their parts
LEMMA OfdParts ==
  ASSUME OfdInv
  PROVE  OfdType /\ OneEach /\ Listed /\ Writers /\ Behind /\ DeleteSparesOthers
  BY DEF OfdInv

\* a descriptor in use is that of one entry
LEMMA InUse ==
  ASSUME OneEach, OfdType
  PROVE  /\ \A o \in inuse : o \in OFDs /\ \E i \in Slots : f_ofd[i] = o
         /\ \A i \in Slots : f_ofd[i] \in OFDs => f_ofd[i] \in inuse
  BY NullFacts DEF OneEach, OfdType

\* what changes neither entries of sft nor descriptors
LEMMA OfdFrame ==
  ASSUME OfdInv, UNCHANGED <<f_own, f_ofd, ofds, written, eraser>>
  PROVE  OfdInv'
  <1>2. OfdType'
    BY OfdParts DEF OfdType, ofds
  <1>3. OneEach' /\ Listed' /\ DeleteSparesOthers'
    BY OfdParts DEF OneEach, Listed, DeleteSparesOthers, ofds
  <1>4. \A e : Current(e)' = Current(e)
    BY DEF Current, ofds
  <1>5. Writers' /\ Behind'
    BY <1>4, OfdParts DEF Writers, Writer, Behind, Exists, ofds
  <1> QED
    BY <1>2, <1>3, <1>5 DEF OfdInv

\* what is left on the list of the directory
LEMMA StillListed ==
  ASSUME OfdType, Listed, NEW gone, NEW files, files = Without(d_files, gone)
  PROVE  /\ files \in Seq(OFDs)
         /\ \A k, m \in DOMAIN files : files[k] = files[m] => k = m
         /\ \A k \in DOMAIN files : /\ files[k] \in inuse /\ files[k] \in OFDs
                                    /\ eraser[files[k]] = NULL /\ files[k] \notin gone
  <1>1. d_files \in Seq(OFDs)
    BY DEF OfdType
  <1>2. /\ files \in Seq(OFDs)
        /\ \A k \in DOMAIN files : files[k] \notin gone
                                     /\ \E j \in DOMAIN d_files : files[k] = d_files[j]
        /\ (\A k, m \in DOMAIN d_files : d_files[k] = d_files[m] => k = m) =>
              \A k, m \in DOMAIN files : files[k] = files[m] => k = m
    BY <1>1, WithoutDoes
  <1> QED
    BY <1>2 DEF Listed, OfdType

\* ixclose: what the descriptor was to bring up to date is up to date, and all
\* but the marks, the list and that length stays
LEMMA ixcloseDoes ==
  ASSUME OfdInv, NEW o \in inuse, ixclose(o),
         UNCHANGED <<o_dirbyt, o_mod, o_fileln, written, eraser>>
  PROVE  /\ o \in OFDs
         /\ f_fileln' \in [Files -> {Erased} \cup 0..MaxLen]
         /\ o_dirty' \in [OFDs -> BOOLEAN]
         /\ \A e \in Files : Exists(e)' <=> Exists(e)
         /\ \A e \in Files : f_fileln'[e] = f_fileln[e] \/ f_fileln'[e] = written[e]
         /\ o_dirty[o] => f_fileln'[o_dirbyt[o]] = written[o_dirbyt[o]]
         /\ \A p \in OFDs : p # o => o_dirty'[p] = o_dirty[p]
         /\ ~o_dirty'[o]
         /\ d_files' = Without(d_files, {o})
  <1>1. OfdType /\ Writer(o) /\ o \in OFDs
    BY OfdParts DEF Writers, OfdType
  <1> DEFINE e == o_dirbyt[o]
             n == o_fileln[o]
  <1>2. e \in Files /\ n \in 0..MaxLen
    BY <1>1 DEF OfdType
  <1>3. 0..MaxLen \subseteq Int /\ Erased \notin 0..MaxLen /\ n # Erased
    BY <1>2, FileAssumption DEF Erased
  <1>4. /\ o_dirty' = [o_dirty EXCEPT ![o] = FALSE]
        /\ d_files' = Without(d_files, {o})
    BY DEF ixclose, Unlinked
  <1>5. /\ o_dirty' \in [OFDs -> BOOLEAN] /\ ~o_dirty'[o]
        /\ \A p \in OFDs : p # o => o_dirty'[p] = o_dirty[p]
    BY <1>1, <1>4 DEF OfdType
  <1>6. CASE o_dirty[o]
    <2>1. Exists(e) /\ n = written[e]
      BY <1>1, <1>6 DEF Writer
    <2>2. f_fileln' = [f_fileln EXCEPT ![e] = n]
      BY <1>6, <2>1 DEF ixclose
    <2> HIDE DEF e, n
    <2>3. /\ f_fileln' \in [Files -> {Erased} \cup 0..MaxLen]
          /\ f_fileln'[e] = n /\ \A x \in Files : x # e => f_fileln'[x] = f_fileln[x]
      BY <1>1, <1>2, <2>2 DEF OfdType
    <2>4. \A x \in Files : Exists(x)' <=> Exists(x)
      BY <1>3, <2>1, <2>3 DEF Exists
    <2> QED
      BY <1>1, <1>4, <1>5, <2>1, <2>3, <2>4 DEF e
  <1>7. CASE ~o_dirty[o]
    <2>1. f_fileln' = f_fileln
      BY <1>7 DEF ixclose
    <2>2. \A x \in Files : Exists(x)' <=> Exists(x)
      BY <2>1 DEF Exists
    <2> QED
      BY <1>1, <1>4, <1>5, <1>7, <2>1, <2>2 DEF OfdType
  <1> QED
    BY <1>6, <1>7

\* what xclose leaves of descriptors: with the last reference the descriptor goes
LEMMA Remaining ==
  ASSUME OfdType, OneEach, NEW i \in Slots, f_ofd[i] \in OFDs, f_ofd \in [Slots -> OFDs \cup {Device, NULL}],
         Drop(i), IF f_use[i] = 1 THEN inuse' = inuse \ {f_ofd[i]} ELSE inuse' = inuse
  PROVE  OneEach'
  <1>1. CASE f_use[i] = 1
    <2>1. f_ofd' = [f_ofd EXCEPT ![i] = NULL] /\ inuse' = inuse \ {f_ofd[i]}
      BY <1>1 DEF Drop
    <2>2. f_ofd'[i] = NULL /\ \A j \in Slots : j # i => f_ofd'[j] = f_ofd[j]
      BY <2>1
    <2>3. inuse' = {f_ofd'[j] : j \in Slots} \ {Device, NULL}
      <3>1. \A j \in Slots : j # i => f_ofd[j] # f_ofd[i]
        BY DEF OneEach
      <3> QED
        BY <2>1, <2>2, <3>1 DEF OneEach
    <2>4. \A j, k \in Slots : f_ofd'[j] = f_ofd'[k] /\ f_ofd'[j] \in OFDs => j = k
      BY <2>2, NullFacts DEF OneEach
    <2> QED
      BY <2>3, <2>4 DEF OneEach
  <1>2. CASE f_use[i] # 1
    <2>1. f_ofd' = f_ofd /\ inuse' = inuse
      BY <1>2 DEF Drop
    <2> QED
      BY <2>1 DEF OneEach
  <1> QED
    BY <1>1, <1>2

\* entries are freed, and owners with them
LEMMA SparesKept ==
  ASSUME DeleteSparesOthers, SftType, NEW i \in Slots, Drop(i), eraser' = eraser
  PROVE  DeleteSparesOthers'
  <1>1. \A j \in Slots : (f_ofd'[j] = f_ofd[j] /\ f_own'[j] = f_own[j]) \/ f_ofd'[j] = NULL
    BY DEF Drop, SftType
  <1> QED
    BY <1>1, NullFacts DEF DeleteSparesOthers

\* xclose loses neither a descriptor nor a length
LEMMA CloseKeeps ==
  ASSUME OfdInv, SftType, NEW i \in Slots, Close(i), UNCHANGED <<written, eraser>>
  PROVE  OfdInv'
  <1>1. OfdType /\ OneEach /\ Listed /\ Writers /\ Behind /\ DeleteSparesOthers
    BY OfdParts
  <1>2. CASE CloseDevice(i)
    <2>1. f_ofd[i] = Device /\ Drop(i) /\ UNCHANGED ofds
      BY <1>2 DEF CloseDevice
    <2>2. f_ofd \in [Slots -> OFDs \cup {Device, NULL}]
      BY DEF SftType
    <2>3. f_ofd' \in {f_ofd, [f_ofd EXCEPT ![i] = NULL]}
      BY <2>1 DEF Drop
    <2>4. /\ \A j \in Slots : f_ofd'[j] = f_ofd[j] \/ (f_ofd'[j] = NULL /\ f_ofd[j] = Device)
          /\ f_ofd'[i] \in {Device, NULL}
      BY <2>1, <2>2, <2>3
    <2>5. OneEach'
      BY <1>1, <2>1, <2>4, NullFacts DEF OneEach, ofds
    <2>6. DeleteSparesOthers'
      BY <1>1, <2>1, SparesKept
    <2>7. OfdType' /\ Listed'
      BY <1>1, <2>1 DEF OfdType, Listed, ofds
    <2>8. \A e : Current(e)' = Current(e)
      BY <2>1 DEF Current, ofds
    <2>9. Writers' /\ Behind'
      BY <1>1, <2>1, <2>8 DEF Writers, Writer, Behind, Exists, ofds
    <2> QED
      BY <2>5, <2>6, <2>7, <2>9 DEF OfdInv
  <1>3. CASE CloseFile(i)
    <2> DEFINE o == f_ofd[i]
    <2>1. /\ o \in OFDs /\ o \in inuse /\ ixclose(o) /\ Drop(i)
          /\ UNCHANGED <<o_dirbyt, o_mod, o_fileln, written, eraser>>
          /\ IF f_use[i] = 1 THEN oftdel(o) ELSE UNCHANGED <<inuse, halted>>
      BY <1>1, <1>3, InUse DEF CloseFile
    <2>2. /\ IF f_use[i] = 1 THEN inuse' = inuse \ {o} ELSE inuse' = inuse
          /\ halted' = halted
      BY <2>1 DEF oftdel
    <2>3. f_ofd \in [Slots -> OFDs \cup {Device, NULL}]
      BY DEF SftType
    <2>4. OneEach'
      BY <1>1, <2>1, <2>2, <2>3, Remaining
    <2>5. DeleteSparesOthers'
      BY <2>1, <1>1, SparesKept
    <2> HIDE DEF o
    <2>6. /\ f_fileln' \in [Files -> {Erased} \cup 0..MaxLen]
          /\ o_dirty' \in [OFDs -> BOOLEAN]
          /\ \A e \in Files : Exists(e)' <=> Exists(e)
          /\ \A e \in Files : f_fileln'[e] = f_fileln[e] \/ f_fileln'[e] = written[e]
          /\ o_dirty[o] => f_fileln'[o_dirbyt[o]] = written[o_dirbyt[o]]
          /\ \A p \in OFDs : p # o => o_dirty'[p] = o_dirty[p]
          /\ ~o_dirty'[o]
          /\ d_files' = Without(d_files, {o})
      BY <2>1, ixcloseDoes
    <2>7. inuse' \subseteq inuse /\ \A p \in inuse : p # o => p \in inuse'
      BY <2>2
    <2>8. PICK files : files = Without(d_files, {o}) /\ files = d_files'
      BY <2>6
    <2>9. /\ files \in Seq(OFDs)
          /\ \A k, m \in DOMAIN files : files[k] = files[m] => k = m
          /\ \A k \in DOMAIN files : /\ files[k] \in inuse
                                     /\ eraser[files[k]] = NULL /\ files[k] # o
      <3>1. files = Without(d_files, {o})
        BY <2>8
      <3>2. /\ files \in Seq(OFDs)
            /\ \A k, m \in DOMAIN files : files[k] = files[m] => k = m
            /\ \A k \in DOMAIN files : /\ files[k] \in inuse /\ files[k] \in OFDs
                                       /\ eraser[files[k]] = NULL /\ files[k] \notin {o}
        BY ONLY <1>1, <3>1, StillListed
      <3> QED
        BY <3>2
    <2>10. Listed'
      BY <2>1, <2>7, <2>8, <2>9 DEF Listed
    <2>11. OfdType'
      BY <1>1, <2>1, <2>2, <2>6, <2>7, <2>8, <2>9 DEF OfdType
    <2>12. \A e \in Files : /\ Current(e)' \subseteq Current(e)
                            /\ \A p \in Current(e) : p # o => p \in Current(e)'
      BY <2>1, <2>7 DEF Current
    <2>13. Writers'
      <3> SUFFICES ASSUME NEW p \in inuse' PROVE Writer(p)'
        BY DEF Writers
      <3>1. p \in inuse /\ p \in OFDs /\ Writer(p) /\ o_dirbyt[p] \in Files
        BY <1>1, <2>7 DEF Writers, OfdType
      <3>2. o_dirty'[p] => o_dirty[p]
        BY <2>6, <3>1
      <3>3. Exists(o_dirbyt[p])' <=> Exists(o_dirbyt[p])
        BY <2>1, <2>6, <3>1 DEF Exists
      <3> QED
        BY <2>1, <2>12, <3>1, <3>2, <3>3 DEF Writer
    <2>14. Behind'
      <3> SUFFICES ASSUME NEW e \in Files, f_fileln'[e] # written[e]
                   PROVE  \E p \in Current(e)' : o_dirty'[p]
        BY <2>1 DEF Behind
      <3>1. f_fileln[e] # written[e]
        BY <2>6
      <3>2. PICK p \in Current(e) : o_dirty[p]
        BY <1>1, <3>1 DEF Behind
      <3>3. p \in OFDs /\ o_dirbyt[p] = e
        BY <3>2, CurrentFacts
      <3>4. p # o
        BY <2>6, <3>2, <3>3
      <3> QED
        BY <2>6, <2>12, <3>2, <3>3, <3>4
    <2> QED
      BY <2>4, <2>5, <2>10, <2>11, <2>13, <2>14 DEF OfdInv
  <1> QED
    BY <1>2, <1>3 DEF Close

\* ixdel refuses before it closes anything that is marked: who may write is alone,
\* so that the entry found for it is the caller's
LEMMA DeniedKeeps ==
  ASSUME OfdInv, SftType, NEW e \in Files, Denied(e)
  PROVE  OfdInv'
  <1>1. OfdType /\ OneEach /\ Listed /\ Writers /\ Behind /\ DeleteSparesOthers
    BY OfdParts
  <1> DEFINE closed == {d_files[m[1]] : m \in Closed(e)}
             last == {m \in Closed(e) : o_dirty[d_files[m[1]]] /\
                       \A n \in Closed(e) : o_dirty[d_files[n[1]]] => n[1] <= m[1]}
  <1>2. PICK r \in Match(e) : f_own[r[2]] # This /\ r \in Refused(e)
    BY DEF Denied, Refused
  <1>3. ASSUME NEW m \in Match(e)
        PROVE  d_files[m[1]] \in Current(e) /\ m \in (DOMAIN d_files) \X Slots
                 /\ f_ofd[m[2]] = d_files[m[1]] /\ d_files[m[1]] \in OFDs
    BY <1>1, <1>3 DEF Match, Current, Listed, OfdType
  <1>4. \A m \in Closed(e) : ~o_dirty[d_files[m[1]]]
    <2> SUFFICES ASSUME NEW m \in Closed(e), o_dirty[d_files[m[1]]] PROVE FALSE
      OBVIOUS
    <2>1. m \in Match(e) /\ m \notin Refused(e)
      BY DEF Closed
    <2>2. /\ d_files[m[1]] \in Current(e) /\ d_files[r[1]] \in Current(e)
          /\ m \in (DOMAIN d_files) \X Slots /\ r \in (DOMAIN d_files) \X Slots
          /\ f_ofd[m[2]] = d_files[m[1]] /\ f_ofd[r[2]] = d_files[r[1]]
          /\ d_files[m[1]] \in OFDs
      BY <1>2, <1>3, <2>1
    <2>3. d_files[r[1]] = d_files[m[1]]
      <3>1. Writer(d_files[m[1]]) /\ o_dirbyt[d_files[m[1]]] = e
        BY <2>2, CurrentFacts
      <3> QED
        BY <2>2, <3>1 DEF Writer
    <2>4. r[1] = m[1]
      BY <1>1, <2>2, <2>3 DEF Listed
    <2>5. r[2] = m[2]
      BY <1>1, <2>2, <2>3 DEF OneEach
    <2>6. r = m
      BY <2>2, <2>4, <2>5
    <2> QED
      BY <1>2, <2>1, <2>6
  <1>5. last = {}
    BY <1>4
  <1>6. \A o \in OFDs : o \in closed => ~o_dirty[o]
    BY <1>4
  <1>7. /\ ixdel(e).files = Without(d_files, closed)
        /\ ixdel(e).dirty = [o \in OFDs |-> o_dirty[o] /\ o \notin closed]
        /\ ixdel(e).length = f_fileln[e]
    BY <1>5 DEF ixdel
  <1> HIDE DEF closed
  <1>8. o_dirty' = o_dirty /\ f_fileln' = f_fileln /\ d_files' = Without(d_files, closed)
    <2>1. [o \in OFDs |-> o_dirty[o] /\ o \notin closed] = [o \in OFDs |-> o_dirty[o]]
      <3>1. \A o \in OFDs : (o_dirty[o] /\ o \notin closed) = o_dirty[o]
        BY <1>1, <1>6 DEF OfdType
      <3> QED
        BY <3>1
    <2>2. o_dirty = [o \in OFDs |-> o_dirty[o]]
      BY <1>1 DEF OfdType
    <2>3. [f_fileln EXCEPT ![e] = f_fileln[e]] = f_fileln
      BY <1>1 DEF OfdType
    <2> QED
      BY <1>7, <2>1, <2>2, <2>3 DEF Denied
  <1>9. UNCHANGED <<f_own, f_ofd, inuse, o_dirbyt, o_mod, o_fileln, halted, written, eraser>>
    BY DEF Denied, sft
  <1>10. PICK files : files = Without(d_files, closed) /\ files = d_files'
    BY <1>8
  <1>11. /\ files \in Seq(OFDs)
         /\ \A k, m \in DOMAIN files : files[k] = files[m] => k = m
         /\ \A k \in DOMAIN files : files[k] \in inuse /\ eraser[files[k]] = NULL
    BY <1>1, <1>10, StillListed
  <1>12. Listed' /\ OfdType'
    BY <1>1, <1>8, <1>9, <1>10, <1>11 DEF Listed, OfdType
  <1>13. OneEach' /\ DeleteSparesOthers'
    BY <1>1, <1>9 DEF OneEach, DeleteSparesOthers
  <1>14. \A x : Current(x)' = Current(x)
    BY <1>9 DEF Current
  <1>15. Writers' /\ Behind'
    BY <1>1, <1>8, <1>9, <1>14 DEF Writers, Writer, Behind, Exists
  <1> QED
    BY <1>12, <1>13, <1>15 DEF OfdInv

\* ixdel that refuses nothing, of a file none of whose descriptors is hidden: it
\* closes them all, and the caller owns their entries
LEMMA AllClosed ==
  ASSUME OfdInv, NEW e \in Files, ~Hidden(e), Refused(e) = {}
  PROVE  /\ {d_files[m[1]] : m \in Closed(e)} = Current(e)
         /\ ixdel(e).files = Without(d_files, Current(e))
         /\ ixdel(e).dirty = [o \in OFDs |-> o_dirty[o] /\ o \notin Current(e)]
         /\ \A i \in Slots : f_ofd[i] \in Current(e) => f_own[i] = This
  <1>1. OfdType /\ OneEach /\ Listed
    BY OfdParts
  <1>2. Closed(e) = Match(e)
    BY DEF Closed
  <1>3. ASSUME NEW o \in Current(e)
        PROVE  \E k \in DOMAIN d_files : d_files[k] = o
    BY <1>3 DEF Hidden, OnList
  <1>4. ASSUME NEW i \in Slots, f_ofd[i] \in Current(e)
        PROVE  f_own[i] = This /\ \E m \in Match(e) : d_files[m[1]] = f_ofd[i]
    <2>1. PICK k \in DOMAIN d_files : d_files[k] = f_ofd[i]
      BY <1>3, <1>4
    <2>2. o_dirbyt[f_ofd[i]] = e
      BY <1>4, CurrentFacts
    <2>3. <<k, i>> \in Match(e)
      BY <2>1, <2>2 DEF Match
    <2>4. <<k, i>> \notin Refused(e) /\ <<k, i>>[2] = i /\ <<k, i>>[1] = k
      OBVIOUS
    <2> QED
      BY <2>1, <2>3, <2>4 DEF Refused
  <1>5. \A o \in Current(e) : \E i \in Slots : f_ofd[i] = o
    BY <1>1, InUse DEF Current
  <1>6. \A m \in Match(e) : d_files[m[1]] \in Current(e)
    BY <1>1 DEF Match, Current, Listed
  <1>7. {d_files[m[1]] : m \in Closed(e)} = Current(e)
    BY <1>2, <1>4, <1>5, <1>6
  <1>8. /\ ixdel(e).files = Without(d_files, {d_files[m[1]] : m \in Closed(e)})
        /\ ixdel(e).dirty = [o \in OFDs |-> o_dirty[o] /\ o \notin {d_files[m[1]] : m \in Closed(e)}]
    BY DEF ixdel
  <1> QED
    BY <1>4, <1>7, <1>8

\* makopn steals from a descriptor on the list, or takes the length of the entry
LEMMA StolenFrom ==
  ASSUME OfdType, NEW e \in Files, NEW files \in Seq(OFDs)
  PROVE  /\ (\A k \in DOMAIN files : o_dirbyt[files[k]] # e) => Stolen(files, e) = f_fileln'[e]
         /\ Stolen(files, e) = f_fileln'[e] \/ Stolen(files, e) \in 0..MaxLen
  <1> DEFINE same == {k \in DOMAIN files : o_dirbyt[files[k]] = e}
  <1>1. Stolen(files, e) = IF same = {} THEN f_fileln'[e] ELSE o_fileln[files[First(same)]]
    BY DEF Stolen
  <1>2. CASE same = {}
    BY <1>1, <1>2
  <1>3. CASE same # {}
    <2>1. same \in SUBSET Nat /\ same \subseteq DOMAIN files
      OBVIOUS
    <2> HIDE DEF same
    <2>2. First(same) \in DOMAIN files /\ First(same) \in same
      BY <1>3, <2>1, FirstIn
    <2>3. o_fileln[files[First(same)]] \in 0..MaxLen
      BY <2>2 DEF OfdType
    <2> QED
      BY <1>1, <1>3, <2>2, <2>3 DEF same
  <1> QED
    BY <1>2, <1>3

\* opnfil takes a descriptor not in use, for an entry that is free
LEMMA Opened ==
  ASSUME OfdType, OneEach, SftType, \A i \in Slots : Counted(i), Free # {},
         NEW files \in Seq(OFDs), NEW e \in Files, NEW mode \in {"read", "write"}, opnfil(files, e, mode),
         NEW n \in 0..MaxLen, n = Stolen(files, e),
         \A k, m \in DOMAIN files : files[k] = files[m] => k = m,
         \A k \in DOMAIN files : files[k] \in inuse
  PROVE  \E o \in OFDs \ inuse :
           /\ f_ofd'[ffhndl] = o /\ inuse' = inuse \cup {o} /\ OneEach'
           /\ d_files' \in Seq(OFDs)
           /\ \A k, m \in DOMAIN d_files' : d_files'[k] = d_files'[m] => k = m
           /\ \A k \in DOMAIN d_files' : d_files'[k] = o \/ \E j \in DOMAIN files : d_files'[k] = files[j]
           /\ o_dirbyt' \in [OFDs -> Files] /\ o_mod' \in [OFDs -> {"read", "write"}]
           /\ o_fileln' \in [OFDs -> 0..MaxLen]
           /\ o_dirbyt'[o] = e /\ o_mod'[o] = mode /\ o_fileln'[o] = n
           /\ \A p \in OFDs : p # o => /\ o_dirbyt'[p] = o_dirbyt[p] /\ o_mod'[p] = o_mod[p]
                                       /\ o_fileln'[p] = o_fileln[p]
           /\ \A i \in Slots : i # ffhndl => f_ofd'[i] = f_ofd[i] /\ f_own'[i] = f_own[i]
           /\ halted' = halted /\ ffhndl \in Slots
  <1>1. PICK o \in OFDs \ inuse :
          /\ f_own' = [f_own EXCEPT ![ffhndl] = This]
          /\ f_ofd' = [f_ofd EXCEPT ![ffhndl] = o]
          /\ inuse' = inuse \cup {o}
          /\ o_dirbyt' = [o_dirbyt EXCEPT ![o] = e]
          /\ o_mod' = [o_mod EXCEPT ![o] = mode]
          /\ o_fileln' = [o_fileln EXCEPT ![o] = n]
          /\ d_files' = <<o>> \o files
          /\ halted' = halted
    BY DEF opnfil
  <1>2. ffhndl \in Slots /\ f_own[ffhndl] = NULL
    BY FreeEntry
  <1>3. f_ofd[ffhndl] = NULL
    BY <1>2 DEF Counted
  <1> DEFINE h == ffhndl
  <1>4. h \in Slots /\ f_ofd[h] = NULL
    BY <1>2, <1>3
  <1>5. /\ f_ofd' = [f_ofd EXCEPT ![h] = o] /\ f_own' = [f_own EXCEPT ![h] = This]
    BY <1>1
  <1>6. f_ofd'[h] = o /\ \A i \in Slots : i # h => f_ofd'[i] = f_ofd[i] /\ f_own'[i] = f_own[i]
    BY <1>4, <1>5 DEF SftType
  <1> HIDE DEF h
  <1>7. OneEach'
    <2>1. \A i \in Slots : f_ofd[i] # o
      BY <1>1, InUse
    <2>2. \A i, j \in Slots : f_ofd'[i] = f_ofd'[j] /\ f_ofd'[i] \in OFDs => i = j
      BY <1>6, <2>1 DEF OneEach
    <2>3. inuse' = {f_ofd'[i] : i \in Slots} \ {Device, NULL}
      BY <1>1, <1>4, <1>6, NullFacts DEF OneEach
    <2> QED
      BY <2>2, <2>3 DEF OneEach
  <1>8. /\ d_files' \in Seq(OFDs) /\ Len(d_files') = Len(files) + 1 /\ d_files'[1] = o
        /\ \A k \in 2..Len(d_files') : k - 1 \in DOMAIN files /\ d_files'[k] = files[k - 1]
    BY <1>1
  <1>9. \A k \in DOMAIN d_files' : k = 1 \/ (k \in 2..Len(d_files') /\ k - 1 \in DOMAIN files)
    BY <1>8
  <1>10. \A k \in DOMAIN d_files' : d_files'[k] = o \/ \E j \in DOMAIN files : d_files'[k] = files[j]
    BY <1>8, <1>9
  <1>11. ASSUME NEW k \in DOMAIN d_files', NEW m \in DOMAIN d_files', d_files'[k] = d_files'[m]
         PROVE  k = m
    <2>1. \A j \in DOMAIN files : files[j] # o
      BY <1>1
    <2>2. k \in Nat /\ m \in Nat
      BY <1>8
    <2>3. CASE k = 1 \/ m = 1
      BY <1>8, <1>9, <1>11, <2>1, <2>3
    <2>4. CASE k # 1 /\ m # 1
      <3>1. files[k - 1] = files[m - 1] /\ k - 1 \in DOMAIN files /\ m - 1 \in DOMAIN files
        BY <1>8, <1>9, <1>11, <2>4
      <3>2. k - 1 = m - 1
        BY <3>1
      <3> QED
        BY <2>2, <3>2
    <2> QED
      BY <2>3, <2>4
  <1>12. /\ o_dirbyt' \in [OFDs -> Files] /\ o_mod' \in [OFDs -> {"read", "write"}]
         /\ o_fileln' \in [OFDs -> 0..MaxLen]
         /\ o_dirbyt'[o] = e /\ o_mod'[o] = mode /\ o_fileln'[o] = n
         /\ \A p \in OFDs : p # o => /\ o_dirbyt'[p] = o_dirbyt[p] /\ o_mod'[p] = o_mod[p]
                                     /\ o_fileln'[p] = o_fileln[p]
    BY <1>1 DEF OfdType
  <1> QED
    BY <1>1, <1>4, <1>6, <1>7, <1>8, <1>10, <1>11, <1>12 DEF h

\* Fopen: alone when either may write, so that the length in the directory is right
LEMMA FopenKeeps ==
  ASSUME OfdInv, FileInv, NEW e \in Files, NEW mode \in {"read", "write"}, Alone(e, mode), Fopen(e, mode)
  PROVE  OfdInv'
  <1>1. OfdType /\ OneEach /\ Listed /\ Writers /\ Behind /\ DeleteSparesOthers
    BY OfdParts
  <1>2. SftType /\ \A i \in Slots : Counted(i)
    BY DEF FileInv
  <1>3. /\ Exists(e) /\ Free # {} /\ UNCHANGED <<f_fileln, written>>
        /\ opnfil(d_files, e, mode)
    BY DEF Fopen
  <1>4. d_files \in Seq(OFDs) /\ \A k \in DOMAIN d_files : d_files[k] \in inuse
    BY <1>1 DEF OfdType, Listed
  <1>5. f_fileln'[e] = f_fileln[e] /\ f_fileln[e] \in 0..MaxLen
    BY <1>1, <1>3 DEF OfdType, Exists
  <1>6. PICK n : n = Stolen(d_files, e)
    OBVIOUS
  <1>7. /\ (\A k \in DOMAIN d_files : o_dirbyt[d_files[k]] # e) => n = f_fileln[e]
        /\ n \in 0..MaxLen
    BY <1>1, <1>4, <1>5, <1>6, StolenFrom
  <1>8. PICK o \in OFDs \ inuse :
           /\ f_ofd'[ffhndl] = o /\ inuse' = inuse \cup {o} /\ OneEach'
           /\ d_files' \in Seq(OFDs)
           /\ \A k, m \in DOMAIN d_files' : d_files'[k] = d_files'[m] => k = m
           /\ \A k \in DOMAIN d_files' : d_files'[k] = o \/ \E j \in DOMAIN d_files : d_files'[k] = d_files[j]
           /\ o_dirbyt' \in [OFDs -> Files] /\ o_mod' \in [OFDs -> {"read", "write"}]
           /\ o_fileln' \in [OFDs -> 0..MaxLen]
           /\ o_dirbyt'[o] = e /\ o_mod'[o] = mode /\ o_fileln'[o] = n
           /\ \A p \in OFDs : p # o => /\ o_dirbyt'[p] = o_dirbyt[p] /\ o_mod'[p] = o_mod[p]
                                       /\ o_fileln'[p] = o_fileln[p]
           /\ \A i \in Slots : i # ffhndl => f_ofd'[i] = f_ofd[i] /\ f_own'[i] = f_own[i]
           /\ halted' = halted /\ ffhndl \in Slots
    <2>1. \A k, m \in DOMAIN d_files : d_files[k] = d_files[m] => k = m
      BY <1>1 DEF Listed
    <2> QED
      BY <1>1, <1>2, <1>3, <1>4, <1>6, <1>7, <2>1, Opened
  <1>9. /\ o_dirty' = [o_dirty EXCEPT ![o] = FALSE]
        /\ eraser' = [eraser EXCEPT ![o] = NULL]
    BY <1>8 DEF Fopen
  <1>10. /\ o_dirty' \in [OFDs -> BOOLEAN] /\ ~o_dirty'[o]
         /\ eraser' \in [OFDs -> PDs \cup {NULL}] /\ eraser'[o] = NULL
         /\ \A p \in OFDs : p # o => o_dirty'[p] = o_dirty[p] /\ eraser'[p] = eraser[p]
    BY <1>1, <1>8, <1>9 DEF OfdType
  <1>11. OfdType'
    BY <1>1, <1>3, <1>8, <1>10 DEF OfdType
  <1>12. inuse \subseteq OFDs /\ \A p \in inuse : p # o
    BY <1>1, <1>8 DEF OfdType
  <1>13. Listed'
    BY <1>1, <1>4, <1>8, <1>10, <1>12 DEF Listed
  <1>14. DeleteSparesOthers'
    BY <1>1, <1>8, <1>10 DEF DeleteSparesOthers
  <1>15. /\ \A x \in Files : x # e => Current(x)' = Current(x)
         /\ Current(e)' = Current(e) \cup {o}
    BY <1>8, <1>10, <1>12 DEF Current
  <1>16. ASSUME mode = "write" \/ \E p \in Current(e) : o_mod[p] = "write"
         PROVE  Current(e) = {}
    <2>1. \A p \in Current(e) : mode = "read" /\ o_mod[p] = "read"
      BY DEF Alone
    <2> QED
      BY <1>16, <2>1
  <1>17. ASSUME Current(e) = {}
         PROVE  n = written[e]
    <2>1. f_fileln[e] = written[e]
      BY <1>1, <1>17 DEF Behind
    <2>2. \A k \in DOMAIN d_files : o_dirbyt[d_files[k]] # e
      BY <1>1, <1>17 DEF Listed, Current
    <2> QED
      BY <1>7, <2>1, <2>2
  <1>18. Writers'
    <2> SUFFICES ASSUME NEW p \in inuse' PROVE Writer(p)'
      BY DEF Writers
    <2>1. CASE p = o
      <3>1. Exists(e)'
        BY <1>3 DEF Exists
      <3>2. mode = "write" => Current(e) = {} /\ n = written[e]
        BY <1>16, <1>17
      <3> QED
        BY <2>1, <1>3, <1>8, <1>10, <1>15, <3>1, <3>2 DEF Writer
    <2>2. CASE p # o
      <3>1. p \in inuse /\ p \in OFDs /\ Writer(p) /\ o_dirbyt[p] \in Files
        BY <1>1, <1>8, <2>2 DEF Writers, OfdType
      <3>2. Exists(o_dirbyt[p])' <=> Exists(o_dirbyt[p])
        BY <1>3, <1>8, <2>2, <3>1 DEF Exists
      <3>3. eraser[p] = NULL /\ o_mod[p] = "write" => o_dirbyt[p] # e
        <4>1. o_dirbyt[p] = e /\ eraser[p] = NULL => p \in Current(e)
          BY <3>1 DEF Current
        <4> QED
          BY <1>16, <4>1
      <3> QED
        BY <1>3, <1>8, <1>10, <1>15, <2>2, <3>1, <3>2, <3>3 DEF Writer
    <2> QED
      BY <2>1, <2>2
  <1>19. Behind'
    <2>1. \A x \in Files : \A p \in Current(x) : p \in OFDs /\ p # o /\ p \in Current(x)'
      BY <1>12, <1>15 DEF Current
    <2> QED
      BY <1>1, <1>3, <1>10, <2>1 DEF Behind
  <1> QED
    BY <1>8, <1>11, <1>13, <1>14, <1>18, <1>19 DEF OfdInv

\* Fdelete: the descriptors that outlive the file are the caller's
LEMMA FdeleteKeeps ==
  ASSUME OfdInv, FileInv, NEW e \in Files, ~Hidden(e), Fdelete(e)
  PROVE  OfdInv'
  <1>1. OfdType /\ OneEach /\ Listed /\ Writers /\ Behind /\ DeleteSparesOthers
    BY OfdParts
  <1>2. SftType
    BY DEF FileInv
  <1>3. CASE Denied(e)
    BY <1>2, <1>3, DeniedKeeps
  <1>4. CASE ~Denied(e)
    <2>1. /\ Refused(e) = {}
          /\ d_files' = ixdel(e).files /\ o_dirty' = ixdel(e).dirty
          /\ f_fileln' = [f_fileln EXCEPT ![e] = Erased]
          /\ written' = [written EXCEPT ![e] = Erased]
          /\ eraser' = [o \in OFDs |-> IF o \in Current(e) THEN This ELSE eraser[o]]
          /\ UNCHANGED <<f_own, f_ofd, inuse, o_dirbyt, o_mod, o_fileln, halted>>
      BY <1>4 DEF Fdelete, sft
    <2>2. /\ d_files' = Without(d_files, Current(e))
          /\ o_dirty' = [o \in OFDs |-> o_dirty[o] /\ o \notin Current(e)]
          /\ \A i \in Slots : f_ofd[i] \in Current(e) => f_own[i] = This
      BY <2>1, AllClosed
    <2>3. This \in PDs /\ This # NULL
      BY <1>2, RunFacts, NullFacts
    <2>4. Current(e) \subseteq OFDs /\ inuse \subseteq OFDs
      BY <1>1 DEF Current, OfdType
    <2>5. /\ o_dirty' \in [OFDs -> BOOLEAN] /\ eraser' \in [OFDs -> PDs \cup {NULL}]
          /\ \A o \in OFDs : o \in Current(e) => ~o_dirty'[o] /\ eraser'[o] = This
          /\ \A o \in OFDs : o \notin Current(e) => o_dirty'[o] = o_dirty[o] /\ eraser'[o] = eraser[o]
      BY <1>1, <2>1, <2>2, <2>3 DEF OfdType
    <2>6. /\ f_fileln' \in [Files -> {Erased} \cup 0..MaxLen]
          /\ written' \in [Files -> {Erased} \cup 0..MaxLen]
          /\ f_fileln'[e] = written'[e]
          /\ \A x \in Files : x # e => f_fileln'[x] = f_fileln[x] /\ written'[x] = written[x]
      BY <1>1, <2>1 DEF OfdType
    <2>7. PICK files : files = Without(d_files, Current(e)) /\ files = d_files'
      BY <2>2
    <2>8. /\ files \in Seq(OFDs)
          /\ \A k, m \in DOMAIN files : files[k] = files[m] => k = m
          /\ \A k \in DOMAIN files : /\ files[k] \in inuse /\ files[k] \in OFDs
                                     /\ eraser[files[k]] = NULL /\ files[k] \notin Current(e)
      BY <1>1, <2>7, StillListed
    <2>9. Listed' /\ OfdType'
      BY <1>1, <2>1, <2>5, <2>6, <2>7, <2>8 DEF Listed, OfdType
    <2>10. OneEach'
      BY <1>1, <2>1 DEF OneEach
    <2>11. DeleteSparesOthers'
      BY <1>1, <2>1, <2>2, <2>5 DEF DeleteSparesOthers
    <2>12. Current(e)' = {} /\ \A x \in Files : x # e => Current(x)' = Current(x)
      BY <2>1, <2>3, <2>4, <2>5 DEF Current
    <2>13. Writers'
      <3> SUFFICES ASSUME NEW p \in inuse' PROVE Writer(p)'
        BY DEF Writers
      <3>1. p \in inuse /\ p \in OFDs /\ Writer(p) /\ o_dirbyt[p] \in Files
        BY <1>1, <2>1 DEF Writers, OfdType
      <3>2. CASE eraser'[p] # NULL
        <4>1. ~o_dirty'[p]
          BY <2>5, <3>1, <3>2 DEF Writer
        <4> QED
          BY <3>2, <4>1 DEF Writer
      <3>3. CASE eraser'[p] = NULL
        <4>1. p \notin Current(e) /\ eraser[p] = NULL /\ o_dirty'[p] = o_dirty[p]
          BY <2>3, <2>5, <3>1, <3>3
        <4>2. o_dirbyt[p] # e
          BY <3>1, <4>1 DEF Current
        <4>3. Exists(o_dirbyt[p])' <=> Exists(o_dirbyt[p])
          BY <2>1, <2>6, <3>1, <4>2 DEF Exists
        <4> QED
          BY <2>1, <2>6, <2>12, <3>1, <3>3, <4>1, <4>2, <4>3 DEF Writer
      <3> QED
        BY <3>2, <3>3
    <2>14. Behind'
      <3> SUFFICES ASSUME NEW x \in Files, f_fileln'[x] # written'[x]
                   PROVE  \E p \in Current(x)' : o_dirty'[p]
        BY DEF Behind
      <3>1. x # e /\ f_fileln[x] # written[x]
        BY <2>6
      <3>2. PICK p \in Current(x) : o_dirty[p]
        BY <1>1, <3>1 DEF Behind
      <3>3. p \in OFDs /\ p \notin Current(e)
        BY <3>1, <2>4 DEF Current
      <3> QED
        BY <2>5, <2>12, <3>1, <3>2, <3>3
    <2> QED
      BY <2>9, <2>10, <2>11, <2>13, <2>14 DEF OfdInv
  <1> QED
    BY <1>3, <1>4

\* Fcreate: the same, and a descriptor of the new file that is alone
LEMMA FcreateKeeps ==
  ASSUME OfdInv, FileInv, NEW e \in Files, ~Hidden(e), Fcreate(e)
  PROVE  OfdInv'
  <1>1. OfdType /\ OneEach /\ Listed /\ Writers /\ Behind /\ DeleteSparesOthers
    BY OfdParts
  <1>2. SftType /\ \A i \in Slots : Counted(i)
    BY DEF FileInv
  <1>3. CASE Denied(e)
    BY <1>2, <1>3, DeniedKeeps
  <1>4. CASE ~Denied(e)
    <2>1. /\ Free # {} /\ Refused(e) = {}
          /\ f_fileln' = [f_fileln EXCEPT ![e] = 0]
          /\ written' = [written EXCEPT ![e] = 0]
          /\ opnfil(ixdel(e).files, e, "write")
          /\ o_dirty' = [ixdel(e).dirty EXCEPT ![f_ofd'[ffhndl]] = TRUE]
          /\ eraser' = [o \in OFDs |-> IF o = f_ofd'[ffhndl] THEN NULL
                                       ELSE IF o \in Current(e) THEN This ELSE eraser[o]]
      BY <1>4 DEF Fcreate
    <2>2. /\ ixdel(e).files = Without(d_files, Current(e))
          /\ ixdel(e).dirty = [o \in OFDs |-> o_dirty[o] /\ o \notin Current(e)]
          /\ \A i \in Slots : f_ofd[i] \in Current(e) => f_own[i] = This
      BY <2>1, AllClosed
    <2>3. This \in PDs /\ This # NULL
      BY <1>2, RunFacts, NullFacts
    <2>4. Current(e) \subseteq inuse /\ inuse \subseteq OFDs
      BY <1>1 DEF Current, OfdType
    <2>5. 0 \in 0..MaxLen /\ 0 # Erased
      BY FileAssumption DEF Erased
    <2>6. /\ f_fileln' \in [Files -> {Erased} \cup 0..MaxLen]
          /\ written' \in [Files -> {Erased} \cup 0..MaxLen]
          /\ f_fileln'[e] = 0 /\ written'[e] = 0
          /\ \A x \in Files : x # e => f_fileln'[x] = f_fileln[x] /\ written'[x] = written[x]
      BY <1>1, <2>1, <2>5 DEF OfdType
    <2>7. PICK files : files = Without(d_files, Current(e))
      OBVIOUS
    <2>8. /\ files \in Seq(OFDs)
          /\ \A k, m \in DOMAIN files : files[k] = files[m] => k = m
          /\ \A k \in DOMAIN files : /\ files[k] \in inuse /\ files[k] \in OFDs
                                     /\ eraser[files[k]] = NULL /\ files[k] \notin Current(e)
      BY <1>1, <2>7, StillListed
    <2>9. \A k \in DOMAIN files : o_dirbyt[files[k]] # e
      BY <2>8 DEF Current
    <2>10. 0 = Stolen(files, e)
      BY <1>1, <2>6, <2>8, <2>9, StolenFrom
    <2>11. opnfil(files, e, "write")
      BY <2>1, <2>2, <2>7
    <2>12. PICK o \in OFDs \ inuse :
             /\ f_ofd'[ffhndl] = o /\ inuse' = inuse \cup {o} /\ OneEach'
             /\ d_files' \in Seq(OFDs)
             /\ \A k, m \in DOMAIN d_files' : d_files'[k] = d_files'[m] => k = m
             /\ \A k \in DOMAIN d_files' : d_files'[k] = o \/ \E j \in DOMAIN files : d_files'[k] = files[j]
             /\ o_dirbyt' \in [OFDs -> Files] /\ o_mod' \in [OFDs -> {"read", "write"}]
             /\ o_fileln' \in [OFDs -> 0..MaxLen]
             /\ o_dirbyt'[o] = e /\ o_mod'[o] = "write" /\ o_fileln'[o] = 0
             /\ \A p \in OFDs : p # o => /\ o_dirbyt'[p] = o_dirbyt[p] /\ o_mod'[p] = o_mod[p]
                                         /\ o_fileln'[p] = o_fileln[p]
             /\ \A i \in Slots : i # ffhndl => f_ofd'[i] = f_ofd[i] /\ f_own'[i] = f_own[i]
             /\ halted' = halted /\ ffhndl \in Slots
      BY <1>1, <1>2, <2>1, <2>5, <2>8, <2>10, <2>11, Opened
    <2>13. /\ o_dirty' = [[p \in OFDs |-> o_dirty[p] /\ p \notin Current(e)] EXCEPT ![o] = TRUE]
           /\ eraser' = [p \in OFDs |-> IF p = o THEN NULL
                                        ELSE IF p \in Current(e) THEN This ELSE eraser[p]]
      BY <2>1, <2>2, <2>12
    <2>14. /\ o_dirty' \in [OFDs -> BOOLEAN] /\ o_dirty'[o]
           /\ \A p \in OFDs : p # o => o_dirty'[p] = (o_dirty[p] /\ p \notin Current(e))
      BY <1>1, <2>12, <2>13 DEF OfdType
    <2>15. /\ eraser' \in [OFDs -> PDs \cup {NULL}] /\ eraser'[o] = NULL
           /\ \A p \in Current(e) : p # o => eraser'[p] = This
           /\ \A p \in OFDs : p # o /\ p \notin Current(e) => eraser'[p] = eraser[p]
      BY <1>1, <2>3, <2>4, <2>12, <2>13 DEF OfdType
    <2>16. \A p \in inuse : p # o
      BY <2>12
    <2>17. OfdType'
      BY <1>1, <2>6, <2>12, <2>14, <2>15 DEF OfdType
    <2>18. Listed'
      <3>1. ASSUME NEW k \in DOMAIN d_files'
            PROVE  d_files'[k] \in inuse' /\ eraser'[d_files'[k]] = NULL
        <4>1. CASE d_files'[k] = o
          BY <2>12, <2>15, <4>1
        <4>2. ASSUME NEW j \in DOMAIN files, d_files'[k] = files[j]
              PROVE  d_files'[k] \in inuse' /\ eraser'[d_files'[k]] = NULL
          <5>1. PICK q : q = files[j]
            OBVIOUS
          <5>2. q \in inuse /\ q \in OFDs /\ eraser[q] = NULL /\ q \notin Current(e)
            BY <2>8, <5>1
          <5>3. eraser'[q] = NULL /\ q \in inuse'
            BY <2>12, <2>15, <2>16, <5>2
          <5> QED
            BY <4>2, <5>1, <5>3
        <4> QED
          BY <2>12, <4>1, <4>2
      <3>2. \A k, m \in DOMAIN d_files' : d_files'[k] = d_files'[m] => k = m
        BY <2>12
      <3> QED
        BY <3>1, <3>2 DEF Listed
    <2>19. DeleteSparesOthers'
      <3> SUFFICES ASSUME NEW i \in Slots, NEW p \in OFDs, f_ofd'[i] = p, eraser'[p] # NULL
                   PROVE  f_own'[i] = eraser'[p]
        BY DEF DeleteSparesOthers
      <3>1. p # o /\ i # ffhndl /\ f_ofd[i] = p /\ f_own'[i] = f_own[i]
        BY <2>12, <2>15
      <3>2. CASE p \in Current(e)
        BY <2>2, <2>15, <3>1, <3>2
      <3>3. CASE p \notin Current(e)
        BY <1>1, <2>15, <3>1, <3>3 DEF DeleteSparesOthers
      <3> QED
        BY <3>2, <3>3
    <2>20. Current(e)' = {o}
      <3>1. o \in Current(e)'
        BY <2>12, <2>15 DEF Current
      <3>2. ASSUME NEW p \in Current(e)', p # o
            PROVE  FALSE
        <4>1. p \in inuse /\ o_dirbyt[p] = e /\ eraser'[p] = NULL /\ p \in OFDs
          BY <2>4, <2>12, <3>2 DEF Current
        <4> QED
          BY <2>3, <2>15, <3>2, <4>1 DEF Current
      <3> QED
        BY <3>1, <3>2
    <2>21. \A x \in Files : x # e => Current(x)' = Current(x)
      <3> SUFFICES ASSUME NEW x \in Files, x # e PROVE Current(x)' = Current(x)
        OBVIOUS
      <3>1. \A p \in inuse : o_dirbyt'[p] = o_dirbyt[p] /\ p \in inuse'
        BY <2>4, <2>12, <2>16
      <3>2. \A p \in inuse : o_dirbyt[p] = x => eraser'[p] = eraser[p]
        BY <2>4, <2>15, <2>16 DEF Current
      <3> QED
        BY <2>12, <3>1, <3>2 DEF Current
    <2>22. Writers'
      <3> SUFFICES ASSUME NEW p \in inuse' PROVE Writer(p)'
        BY DEF Writers
      <3>1. CASE p = o
        <4>1. Exists(e)'
          BY <2>5, <2>6 DEF Exists
        <4> QED
          BY <2>6, <2>12, <2>14, <2>15, <2>20, <3>1, <4>1 DEF Writer
      <3>2. CASE p # o
        <4>1. p \in inuse /\ p \in OFDs /\ Writer(p) /\ o_dirbyt[p] \in Files
          BY <1>1, <2>12, <3>2 DEF Writers, OfdType
        <4>2. CASE eraser'[p] # NULL
          <5>1. ~o_dirty'[p]
            BY <2>14, <2>15, <3>2, <4>1, <4>2 DEF Writer
          <5> QED
            BY <4>2, <5>1 DEF Writer
        <4>3. CASE eraser'[p] = NULL
          <5>1. p \notin Current(e) /\ eraser[p] = NULL
            BY <2>3, <2>15, <3>2, <4>1, <4>3
          <5>2. o_dirty'[p] = o_dirty[p]
            BY <1>1, <2>14, <3>2, <4>1, <5>1 DEF OfdType
          <5>3. o_dirbyt[p] # e
            BY <4>1, <5>1 DEF Current
          <5>4. Exists(o_dirbyt[p])' <=> Exists(o_dirbyt[p])
            BY <2>6, <2>12, <3>2, <4>1, <5>3 DEF Exists
          <5> QED
            BY <2>6, <2>12, <2>21, <3>2, <4>1, <4>3, <5>1, <5>2, <5>3, <5>4 DEF Writer
        <4> QED
          BY <4>2, <4>3
      <3> QED
        BY <3>1, <3>2
    <2>23. Behind'
      <3> SUFFICES ASSUME NEW x \in Files, f_fileln'[x] # written'[x]
                   PROVE  \E p \in Current(x)' : o_dirty'[p]
        BY DEF Behind
      <3>1. x # e /\ f_fileln[x] # written[x]
        BY <2>6
      <3>2. PICK p \in Current(x) : o_dirty[p]
        BY <1>1, <3>1 DEF Behind
      <3>3. p \in OFDs /\ p \notin Current(e) /\ p # o
        BY <3>1, <2>4, <2>16 DEF Current
      <3> QED
        BY <2>14, <2>21, <3>1, <3>2, <3>3
    <2> QED
      BY <2>12, <2>17, <2>18, <2>19, <2>22, <2>23 DEF OfdInv
  <1> QED
    BY <1>3, <1>4

\* xwrite: who writes is alone, and marks the descriptor
LEMMA FwriteKeeps ==
  ASSUME OfdInv, SftType, NEW i \in Slots, Fwrite(i)
  PROVE  OfdInv'
  <1>1. OfdType /\ OneEach /\ Listed /\ Writers /\ Behind /\ DeleteSparesOthers
    BY OfdParts
  <1>2. PICK o \in OFDs :
          /\ o = f_ofd[i] /\ o_mod[o] = "write" /\ eraser[o] = NULL
          /\ o_dirty' = [o_dirty EXCEPT ![o] = TRUE]
          /\ \E n \in {o_fileln[o], o_fileln[o] + 1} \cap 0..MaxLen :
               /\ o_fileln' = [o_fileln EXCEPT ![o] = n]
               /\ written' = [written EXCEPT ![o_dirbyt[o]] = n]
    BY DEF Fwrite
  <1>3. UNCHANGED <<f_own, f_ofd, inuse, o_dirbyt, o_mod, d_files, f_fileln, halted, eraser>>
    BY DEF Fwrite, sft
  <1>4. PICK n \in 0..MaxLen :
               /\ o_fileln' = [o_fileln EXCEPT ![o] = n]
               /\ written' = [written EXCEPT ![o_dirbyt[o]] = n]
    BY <1>2
  <1> DEFINE e == o_dirbyt[o]
  <1>5. e \in Files /\ o \in inuse /\ o \in Current(e) /\ Writer(o)
    BY <1>1, <1>2, InUse DEF OfdType, Current, Writers
  <1>6. \A p \in Current(e) : p = o
    BY <1>2, <1>5 DEF Writer
  <1>7. Exists(e)
    BY <1>2, <1>5 DEF Writer
  <1>8. /\ o_dirty' \in [OFDs -> BOOLEAN] /\ o_dirty'[o]
        /\ \A p \in OFDs : p # o => o_dirty'[p] = o_dirty[p]
    BY <1>1, <1>2 DEF OfdType
  <1> HIDE DEF e
  <1>9. /\ o_fileln' \in [OFDs -> 0..MaxLen] /\ o_fileln'[o] = n
        /\ \A p \in OFDs : p # o => o_fileln'[p] = o_fileln[p]
    BY <1>1, <1>4 DEF OfdType
  <1>10. written' = [written EXCEPT ![e] = n]
    BY <1>4 DEF e
  <1>11. /\ written' \in [Files -> {Erased} \cup 0..MaxLen] /\ written'[e] = n
         /\ \A x \in Files : x # e => written'[x] = written[x]
    BY <1>1, <1>5, <1>10 DEF OfdType
  <1>12. OfdType'
    BY <1>1, <1>3, <1>8, <1>9, <1>11 DEF OfdType
  <1>13. OneEach' /\ Listed' /\ DeleteSparesOthers'
    BY <1>1, <1>3 DEF OneEach, Listed, DeleteSparesOthers
  <1>14. \A x : Current(x)' = Current(x)
    BY <1>3 DEF Current
  <1>15. Writers'
    <2> SUFFICES ASSUME NEW p \in inuse' PROVE Writer(p)'
      BY DEF Writers
    <2>1. p \in inuse /\ p \in OFDs /\ Writer(p) /\ o_dirbyt[p] \in Files
      BY <1>1, <1>3 DEF Writers, OfdType
    <2>2. CASE p = o
      BY <1>2, <1>3, <1>5, <1>6, <1>7, <1>9, <1>11, <1>14, <2>2 DEF Writer, Exists, e
    <2>3. CASE p # o
      <3>1. eraser[p] = NULL => o_dirbyt[p] # e
        BY <1>6, <2>1, <2>3 DEF Current
      <3> QED
        BY <1>3, <1>8, <1>9, <1>11, <1>14, <2>1, <2>3, <3>1 DEF Writer, Exists
    <2> QED
      BY <2>2, <2>3
  <1>16. Behind'
    <2> SUFFICES ASSUME NEW x \in Files, f_fileln'[x] # written'[x]
                 PROVE  \E p \in Current(x)' : o_dirty'[p]
      BY DEF Behind
    <2>1. CASE x = e
      BY <1>5, <1>8, <1>14, <2>1
    <2>2. CASE x # e
      <3>1. PICK p \in Current(x) : o_dirty[p]
        BY <1>1, <1>3, <1>11, <2>2 DEF Behind
      <3>2. p \in OFDs /\ p # o
        BY <1>5, <2>2, <3>1, CurrentFacts DEF e
      <3> QED
        BY <1>8, <1>14, <3>1, <3>2
    <2> QED
      BY <2>1, <2>2
  <1> QED
    BY <1>12, <1>13, <1>15, <1>16 DEF OfdInv

\* xdup of a standard handle that is not a file's takes no descriptor
LEMMA FdupKeeps ==
  ASSUME OfdInv, FileInv, NEW n \in Std, p_uft[This][n] < 0, Fdup(n)
  PROVE  OfdInv'
  <1>1. OfdType /\ OneEach /\ Listed /\ Writers /\ Behind /\ DeleteSparesOthers
    BY OfdParts
  <1>2. SftType /\ \A i \in Slots : Counted(i)
    BY DEF FileInv
  <1>3. ffhndl \in Slots /\ f_own[ffhndl] = NULL
    BY FreeEntry DEF Fdup
  <1>4. f_ofd[ffhndl] = NULL
    BY <1>2, <1>3 DEF Counted
  <1>5. ~(p_uft[This][n] >= NUMSTD)
    <2>1. p_uft[This][n] \in Handles \cup {Device}
      BY <1>2, RunFacts DEF SftType
    <2>2. p_uft[This][n] \in Int
      BY <2>1, FileAssumption DEF Handles, Device
    <2> QED
      BY <2>2, FileAssumption
  <1>6. /\ f_own' = [f_own EXCEPT ![ffhndl] = This]
        /\ f_ofd' = [f_ofd EXCEPT ![ffhndl] = Device]
        /\ UNCHANGED <<ofds, written, eraser>>
    BY <1>5 DEF Fdup
  <1> DEFINE h == ffhndl
  <1>7. /\ h \in Slots /\ f_ofd[h] = NULL
        /\ f_own' = [f_own EXCEPT ![h] = This] /\ f_ofd' = [f_ofd EXCEPT ![h] = Device]
    BY <1>3, <1>4, <1>6
  <1> HIDE DEF h
  <1>8. f_ofd'[h] = Device /\ \A i \in Slots : i # h => f_ofd'[i] = f_ofd[i] /\ f_own'[i] = f_own[i]
    BY <1>2, <1>7 DEF SftType
  <1>9. OneEach' /\ DeleteSparesOthers'
    <2>1. OneEach'
      BY <1>1, <1>6, <1>7, <1>8, NullFacts DEF OneEach, ofds
    <2>2. DeleteSparesOthers'
      BY <1>1, <1>6, <1>8, NullFacts DEF DeleteSparesOthers
    <2> QED
      BY <2>1, <2>2
  <1>10. OfdType' /\ Listed'
    BY <1>1, <1>6 DEF OfdType, Listed, ofds
  <1>11. \A x : Current(x)' = Current(x)
    BY <1>6 DEF Current, ofds
  <1>12. Writers' /\ Behind'
    BY <1>1, <1>6, <1>11 DEF Writers, Writer, Behind, Exists, ofds
  <1> QED
    BY <1>9, <1>10, <1>12 DEF OfdInv

-----------------------------------------------------------------------------
(* What closing loses, and whom deleting spares.                           *)

LEMMA OfdInit ==
  ASSUME Init
  PROVE  OfdInv
  <1>1. OfdType
    <2>1. PICK e \in Files : o_dirbyt = [o \in OFDs |-> e]
      BY DEF Init
    <2>2. o_dirbyt \in [OFDs -> Files] /\ o_mod \in [OFDs -> {"read", "write"}]
      BY <2>1 DEF Init
    <2>3. o_fileln \in [OFDs -> 0..MaxLen] /\ o_dirty \in [OFDs -> BOOLEAN]
      BY FileAssumption DEF Init
    <2>4. /\ f_fileln \in [Files -> {Erased} \cup 0..MaxLen]
          /\ written \in [Files -> {Erased} \cup 0..MaxLen]
          /\ eraser \in [OFDs -> PDs \cup {NULL}]
          /\ inuse \subseteq OFDs /\ d_files \in Seq(OFDs) /\ ~halted
      BY DEF Init
    <2> QED
      BY <2>2, <2>3, <2>4 DEF OfdType
  <1>2. OneEach
    <2>1. inuse = {} /\ \A i \in Slots : f_ofd[i] = NULL
      BY DEF Init
    <2> QED
      BY <2>1, NullFacts DEF OneEach
  <1>3. d_files = <<>> /\ inuse = {} /\ f_fileln = written /\ \A o \in OFDs : eraser[o] = NULL
    BY DEF Init
  <1>4. Listed /\ Writers /\ Behind /\ DeleteSparesOthers
    BY <1>3 DEF Listed, Writers, Behind, DeleteSparesOthers
  <1> QED
    BY <1>1, <1>2, <1>4 DEF OfdInv

LEMMA OfdStep ==
  ASSUME FileInv, OfdInv, [Next]_vars
  PROVE  OfdInv'
  <1>1. SftType
    BY DEF FileInv
  <1>2. ASSUME NEW e \in Files, NEW mode \in {"read", "write"}, Alone(e, mode), Fopen(e, mode)
        PROVE  OfdInv'
    BY <1>2, FopenKeeps
  <1>3. ASSUME NEW i \in Slots, Fclose(i)
        PROVE  OfdInv'
    <2>1. Close(i) /\ UNCHANGED <<written, eraser>>
      BY <1>3 DEF Fclose
    <2> QED
      BY <1>1, <2>1, CloseKeeps
  <1>4. ASSUME NEW i \in Slots, Fwrite(i)
        PROVE  OfdInv'
    BY <1>1, <1>4, FwriteKeeps
  <1>5. ASSUME NEW i \in Slots, NEW n \in Std, Fforce(n, i)
        PROVE  OfdInv'
    <2>1. UNCHANGED <<f_own, f_ofd, ofds, written, eraser>>
      BY <1>5 DEF Fforce
    <2> QED
      BY <2>1, OfdFrame
  <1>6. ASSUME NEW p \in PDs, NEW n \in Std, p_uft[p][n] > 0
        PROVE  p_uft[p][n] - NUMSTD \in Slots
    <2>1. p_uft[p][n] \in Handles \cup {Device}
      BY <1>1 DEF SftType
    <2> QED
      BY <1>6, <2>1, FileAssumption DEF Handles, Device, Slots
  <1>7. ASSUME NEW n \in Std, FcloseStd(n)
        PROVE  OfdInv'
    <2>1. CASE p_uft[This][n] >= NUMSTD
      <3>1. Close(p_uft[This][n] - NUMSTD) /\ UNCHANGED <<written, eraser>>
        BY <1>7, <2>1 DEF FcloseStd
      <3>2. p_uft[This][n] \in Handles \cup {Device}
        BY <1>1, RunFacts DEF SftType
      <3>3. p_uft[This][n] - NUMSTD \in Slots
        BY <2>1, <3>2, FileAssumption DEF Handles, Device, Slots
      <3> QED
        BY <1>1, <3>1, <3>3, CloseKeeps
    <2>2. CASE ~(p_uft[This][n] >= NUMSTD)
      <3>1. UNCHANGED <<f_own, f_ofd, ofds, written, eraser>>
        BY <1>7, <2>2 DEF FcloseStd, sft
      <3> QED
        BY <3>1, OfdFrame
    <2> QED
      BY <2>1, <2>2
  <1>8. ASSUME NEW n \in Std, FforceDevice(n)
        PROVE  OfdInv'
    <2>1. UNCHANGED <<f_own, f_ofd, ofds, written, eraser>>
      BY <1>8 DEF FforceDevice, sft
    <2> QED
      BY <2>1, OfdFrame
  <1>9. ASSUME NEW p \in PDs, Pexec(p) \/ PexecFails(p)
        PROVE  OfdInv'
    <2>1. UNCHANGED <<f_own, f_ofd, ofds, written, eraser>>
      BY <1>9 DEF Pexec, PexecFails, Inherit
    <2> QED
      BY <2>1, OfdFrame
  <1>10. CASE Pterm
    <2>1. UNCHANGED <<f_own, f_ofd, ofds, written, eraser>>
      BY <1>10 DEF Pterm, sft
    <2> QED
      BY <2>1, OfdFrame
  <1>11. CASE ixtermStd
    <2> DEFINE h == p_uft[ending.pd][ending.std]
    <2>1. /\ ending.pd # NULL /\ ending.std < NUMSTD /\ UNCHANGED <<written, eraser>>
          /\ IF h > 0 THEN Close(h - NUMSTD) ELSE UNCHANGED <<sft, ofds>>
      BY <1>11 DEF ixtermStd
    <2>2. ending.pd \in PDs /\ ending.std \in Std
      BY <1>1, <2>1, FileAssumption DEF SftType, Std
    <2>3. CASE h > 0
      <3>1. h - NUMSTD \in Slots
        BY <1>6, <2>2, <2>3
      <3> HIDE DEF h
      <3> QED
        BY <1>1, <2>1, <2>3, <3>1, CloseKeeps
    <2>4. CASE ~(h > 0)
      <3>1. UNCHANGED <<f_own, f_ofd, ofds, written, eraser>>
        BY <2>1, <2>4 DEF sft
      <3> QED
        BY <3>1, OfdFrame
    <2> QED
      BY <2>3, <2>4
  <1>12. CASE ixtermSft
    <2> DEFINE i == ending.slot
    <2>1. /\ i < NSFT /\ UNCHANGED <<written, eraser>>
          /\ Close(i) \/ UNCHANGED <<sft, ofds>>
      BY <1>12 DEF ixtermSft
    <2>2. i \in Slots
      BY <1>1, <2>1, FileAssumption DEF SftType, Slots
    <2>3. CASE Close(i)
      <3> HIDE DEF i
      <3> QED
        BY <1>1, <2>1, <2>2, <2>3, CloseKeeps
    <2>4. CASE UNCHANGED <<sft, ofds>>
      <3>1. UNCHANGED <<f_own, f_ofd, ofds, written, eraser>>
        BY <2>1, <2>4 DEF sft
      <3> QED
        BY <3>1, OfdFrame
    <2> QED
      BY <2>1, <2>3, <2>4
  <1>13. CASE Ended
    <2>1. UNCHANGED <<f_own, f_ofd, ofds, written, eraser>>
      BY <1>13 DEF Ended, sft
    <2> QED
      BY <2>1, OfdFrame
  <1>14. ASSUME NEW e \in Files, ~Hidden(e), Fdelete(e) \/ Fcreate(e)
         PROVE  OfdInv'
    BY <1>14, FdeleteKeeps, FcreateKeeps
  <1>15. ASSUME NEW n \in Std, p_uft[This][n] < 0, Fdup(n)
         PROVE  OfdInv'
    BY <1>15, FdupKeeps
  <1>16. CASE UNCHANGED vars
    <2>1. UNCHANGED <<f_own, f_ofd, ofds, written, eraser>>
      BY <1>16 DEF vars, sft
    <2> QED
      BY <2>1, OfdFrame
  <1>17. CASE Common
    BY <1>17, <1>2, <1>3, <1>4, <1>5, <1>7, <1>8, <1>9, <1>10, <1>11, <1>12, <1>13 DEF Common
  <1> QED
    BY <1>14, <1>15, <1>16, <1>17 DEF Next

\* Programs that keep to the rules keep descriptors, lists and lengths in order.
THEOREM OfdInvariant == Spec => [](FileInv /\ OfdInv)
  <1>1. Init => FileInv /\ OfdInv
    BY FileInit, OfdInit
  <1>2. FileInv /\ [Next]_vars => FileInv'
    <2>1. [Next]_vars => [AnyNext]_vars
      BY DEF Next, AnyNext
    <2> QED
      BY <2>1, FileStep
  <1>3. FileInv /\ OfdInv /\ [Next]_vars => OfdInv'
    BY OfdStep
  <1> QED
    BY <1>1, <1>2, <1>3, PTL DEF Spec

\* No close loses a descriptor or a length: a descriptor is in use as long as one
\* entry of sft leads to it, and the length in the directory is behind only while
\* a descriptor that will bring it up to date is open.
THEOREM ClosesWellAlways == Spec => []ClosesWell
  <1>1. FileInv /\ OfdInv => OfdsHeld
    BY DEF FileInv, OfdInv, SftType, OfdType, OneEach, Listed, OfdsHeld, TypeOK
  <1>2. FileInv /\ OfdInv => LengthKept
    <2> SUFFICES ASSUME OfdInv, NEW e \in Files, f_fileln[e] # written[e]
                 PROVE  \E i \in Slots : \E o \in Current(e) :
                          f_ofd[i] = o /\ o_dirty[o] /\ o_fileln[o] = written[e]
      BY DEF LengthKept
    <2>1. PICK o \in Current(e) : o_dirty[o]
      BY OfdParts DEF Behind
    <2>2. o \in inuse /\ o_dirbyt[o] = e /\ eraser[o] = NULL /\ Writer(o)
      BY CurrentFacts
    <2>3. o_fileln[o] = written[e]
      BY <2>1, <2>2 DEF Writer
    <2>4. PICK i \in Slots : f_ofd[i] = o
      BY <2>2, OfdParts, InUse
    <2> QED
      BY <2>1, <2>3, <2>4
  <1> QED
    BY <1>1, <1>2, OfdInvariant, PTL DEF ClosesWell

\* Fdelete and Fcreate take a file only from the process that asks: ixdel refuses
\* when an entry of another leads to it.
THEOREM DeleteSpares == Spec => []DeleteSparesOthers
  <1>1. OfdInv => DeleteSparesOthers
    BY OfdParts
  <1> QED
    BY <1>1, OfdInvariant, PTL

=============================================================================
